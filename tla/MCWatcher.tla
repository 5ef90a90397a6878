------------------------------ MODULE MCWatcher ------------------------------
(* Instances of Watcher for TLC: commands and workers as model values.     *)
EXTENDS Watcher

CONSTANTS a1, a2, w1, w2

OneWorker  == {w1}
TwoWorkers == {w1, w2}
TwoActors  == {a1, a2}
=============================================================================
