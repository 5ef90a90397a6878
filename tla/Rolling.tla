------------------------------- MODULE Rolling -------------------------------
(***************************************************************************)
(* The rolling replacement of the copies of one routed service:            *)
(* replace_all and scale_to of riku-deploy/src/rolling, over a CopyRuntime *)
(* (containers or supervised processes) and a RouteSink (the router).      *)
(*                                                                         *)
(* A run is one call of replace_all or scale_to.  Runs of one app follow   *)
(* each other because every caller holds the app's deploy lock (module     *)
(* DeployLock), but a run may fail at any call it makes, and what it left  *)
(* behind is what the next run lists.                                      *)
(***************************************************************************)
EXTENDS Naturals, FiniteSets

CONSTANTS
  Wants,      \* the copy counts callers ask for
  Orders,     \* the replace orders callers ask for
  Runtime,    \* "container" or "process": what live() says of a dead copy
  Faults,     \* the failures of the runtime this instance lets happen
  MaxRuns     \* bound on the number of runs

AllFaults ==
  { "leftover",  \* an error of start or discard leaves the new copy behind
    "corpse",    \* a stop ends the copy, but its removal fails
    "death",     \* a copy exits on its own
    "kill" }     \* the process doing the run is killed

ASSUME WantsAssumption == Wants \subseteq Nat /\ Wants # {}
ASSUME OrdersAssumption == Orders \subseteq {"Overlap", "StopFirst"}
ASSUME RuntimeAssumption == Runtime \in {"container", "process"}
ASSUME FaultsAssumption == Faults \subseteq AllFaults
ASSUME MaxRunsAssumption == MaxRuns \in Nat

VARIABLES
  pc,        \* the call the current run makes next, or how the last run ended
  run,       \* number of the current run
  job,       \* its arguments: the function called, order and want
  copies,    \* its list of copies
  routable,  \* those of its list whose backend is Some
  surplus,   \* old copies beyond want, still to be drained
  old,       \* old copies still to be replaced
  fresh,     \* the copy it started and has not added yet ({} or one copy)
  victim,    \* the copy it drained and has not stopped yet ({} or one copy)
  exists,    \* copies the runtime has, running or not
  up,        \* those whose process runs
  proven,    \* those that run and passed wait_healthy
  routes     \* copies the router sends traffic to

vars == <<pc, run, job, copies, routable, surplus, old, fresh, victim,
          exists, up, proven, routes>>
worldVars == <<exists, up, proven, routes>>
planVars  == <<copies, routable, surplus, old, fresh, victim>>

(* A copy is its index and the run that started it: index 1 of a later run *)
(* is another container, with another port.                                *)
Copy == [copy : Nat \ {0}, run : Nat]

Job == [op : {"replace_all"}, order : Orders, want : Wants]
         \cup [op : {"scale_to"}, want : Wants]

Ended == {"idle", "done", "failed"}

TypeOK ==
  /\ pc \in Ended \cup {"start", "health", "add", "drain", "stop"}
  /\ run \in Nat
  /\ job \in Job \cup {<<>>}
  /\ copies \subseteq Copy
  /\ routable \subseteq Copy
  /\ surplus \subseteq Copy
  /\ old \subseteq Copy
  /\ fresh \subseteq Copy
  /\ victim \subseteq Copy
  /\ exists \subseteq Copy
  /\ up \subseteq exists
  /\ proven \subseteq up
  /\ routes \subseteq Copy

Init ==
  /\ pc = "idle"
  /\ run = 0
  /\ job = <<>>
  /\ copies = {} /\ routable = {} /\ surplus = {} /\ old = {}
  /\ fresh = {} /\ victim = {}
  /\ exists = {} /\ up = {} /\ proven = {} /\ routes = {}

-----------------------------------------------------------------------------
(* Helpers of the two functions. *)

Indexes(S) == {c.copy : c \in S}

IsHighest(c, S) == c \in S /\ \A d \in S : d.copy <= c.copy
IsLowest(c, S)  == c \in S /\ \A d \in S : c.copy <= d.copy

(* lowest_free: the number a new copy gets. *)
LowestFree(n, S) == n \notin Indexes(S) /\ \A m \in 1..(n - 1) : m \in Indexes(S)

(* The copies of S beyond the first n by index: split_off of the sorted    *)
(* list in replace_all, take of the list sorted downwards in scale_to.     *)
BeyondFirst(S, n) == {c \in S : Cardinality({d \in S : d.copy <= c.copy}) > n}

(* backends_of: what a publish of S sends to the router. *)
BackendsOf(S) == S \cap routable

(* Mutant: Overlap stops the old copy first. *)
NextCallStopsFirst(j, cs, extra, rest) ==
  IF extra \cup rest # {} THEN "drain"
  ELSE IF Cardinality(cs) < j.want THEN "start" ELSE "done"

(* What the run does next, given what is left to drain, replace and add.   *)
NextCall(j, cs, extra, rest) ==
  CASE extra # {} -> "drain"
    [] extra = {} /\ rest # {} -> IF j.order = "Overlap" THEN "start" ELSE "drain"
    [] extra = {} /\ rest = {} ->
         IF Cardinality(cs) < j.want THEN "start" ELSE "done"

(* A run that returns forgets its list. *)
Return(result) ==
  /\ pc' = result
  /\ copies' = {} /\ routable' = {} /\ surplus' = {} /\ old' = {}
  /\ fresh' = {} /\ victim' = {}
  /\ UNCHANGED <<run, job>>

-----------------------------------------------------------------------------
(* The head of replace_all and scale_to: the router check passes, live()   *)
(* lists the copies, and the list is split.  The list of a container       *)
(* runtime holds dead containers too, without a backend; the list of a     *)
(* process runtime is read from the worker configs, which have an address  *)
(* whether or not the process runs.                                        *)
Begin(j) ==
  /\ pc \in Ended
  /\ run < MaxRuns
  /\ j.want > 0
  /\ run' = run + 1
  /\ job' = j
  /\ copies' = exists
  /\ routable' = IF Runtime = "container" THEN up ELSE exists
  /\ surplus' = BeyondFirst(exists, j.want)
  /\ old' = IF j.op = "replace_all" THEN exists \ surplus' ELSE {}
  /\ fresh' = {} /\ victim' = {}
  /\ pc' = NextCall(j, copies', surplus', old')
  /\ UNCHANGED worldVars

(* want = 0, a router check that fails or a list that fails: nothing is    *)
(* touched.                                                                *)
Refused(j) ==
  /\ pc \in Ended
  /\ run < MaxRuns
  /\ run' = run + 1
  /\ job' = j
  /\ pc' = "failed"
  /\ UNCHANGED planVars /\ UNCHANGED worldVars

(* start_healthy, first half: start a copy at the lowest free index.       *)
StartCopy ==
  /\ pc = "start"
  /\ \E n \in 1..(Cardinality(copies) + 1) :
       /\ LowestFree(n, copies)
       /\ LET c == [copy |-> n, run |-> run] IN
            /\ fresh' = {c}
            /\ exists' = exists \cup {c}
            /\ up' = up \cup {c}
  /\ pc' = "health"
  /\ UNCHANGED <<run, job, copies, routable, surplus, old, victim, proven, routes>>

(* start returns an error.  The engine may have created the container, or  *)
(* even started it, before the call failed or ran into its limit; the      *)
(* process runtime may have written the worker config.                     *)
StartFails ==
  /\ pc = "start"
  /\ \/ UNCHANGED <<exists, up>>
     \/ /\ "leftover" \in Faults
        /\ \E n \in 1..(Cardinality(copies) + 1) :
             /\ LowestFree(n, copies)
             /\ LET c == [copy |-> n, run |-> run] IN
                  /\ exists' = exists \cup {c}
                  /\ up' \in {up, up \cup {c}}
  /\ UNCHANGED <<proven, routes>>
  /\ Return("failed")

(* start_healthy, second half, and the push onto copies: the new copy      *)
(* answered its probe.                                                     *)
Healthy ==
  /\ pc = "health"
  /\ fresh \subseteq up
  /\ proven' = proven \cup fresh
  /\ copies' = copies \cup fresh
  /\ routable' = routable \cup fresh
  /\ fresh' = {}
  /\ pc' = "add"
  /\ UNCHANGED <<run, job, surplus, old, victim, exists, up, routes>>

(* The new copy did not become healthy: it is discarded, and a discard     *)
(* that fails is only logged.                                              *)
Unhealthy ==
  /\ pc = "health"
  /\ \/ /\ exists' = exists \ fresh
        /\ up' = up \ fresh
     \/ /\ "leftover" \in Faults
        /\ exists' = exists
        /\ up' \in {up, up \ fresh}
  /\ UNCHANGED <<proven, routes>>
  /\ Return("failed")

(* publish_added: routes to every copy of the list.  It returns Ok only    *)
(* after the router confirmed.                                             *)
PublishAdded ==
  /\ pc = "add"
  /\ routes' = BackendsOf(copies)
  /\ pc' = IF old # {} /\ job.order = "Overlap"
           THEN "drain"
           ELSE NextCall(job, copies, surplus, old)
  /\ UNCHANGED <<run, job, copies, routable, surplus, old, fresh, victim,
                 exists, up, proven>>

(* Mutant: an unconfirmed publish is ignored and the run goes on. *)
PublishAddedIgnored ==
  /\ pc = "add"
  /\ pc' = IF old # {} /\ job.order = "Overlap"
           THEN "drain"
           ELSE NextCall(job, copies, surplus, old)
  /\ UNCHANGED <<run, job, copies, routable, surplus, old, fresh, victim,
                 exists, up, proven, routes>>

(* The router did not confirm: the change may have been made or not, and   *)
(* the new copy is left running.                                           *)
PublishAddedFails ==
  /\ pc = "add"
  /\ routes' \in {routes, BackendsOf(copies)}
  /\ UNCHANGED <<exists, up, proven>>
  /\ Return("failed")

(* The copy a drain removes: the highest surplus copy, and once there is   *)
(* none the lowest old copy.                                               *)
IsVictim(v) ==
  IF surplus # {} THEN IsHighest(v, surplus) ELSE IsLowest(v, old)

(* Mutant: the drain does not publish the shorter list. *)
DrainUnpublished ==
  /\ pc = "drain"
  /\ \E v \in copies :
       /\ IsVictim(v)
       /\ victim' = {v}
       /\ copies' = copies \ {v}
  /\ pc' = "stop"
  /\ UNCHANGED <<run, job, routable, surplus, old, fresh, exists, up, proven, routes>>

(* drain_copy up to the stop: the copy leaves the list, and the rest is    *)
(* published unless that list of backends would be empty.                  *)
Drain ==
  /\ pc = "drain"
  /\ \E v \in copies :
       /\ IsVictim(v)
       /\ victim' = {v}
       /\ copies' = copies \ {v}
       /\ routes' = IF BackendsOf(copies') = {} THEN routes ELSE BackendsOf(copies')
  /\ pc' = "stop"
  /\ UNCHANGED <<run, job, routable, surplus, old, fresh, exists, up, proven>>

DrainFails ==
  /\ pc = "drain"
  /\ \E v \in copies :
       /\ IsVictim(v)
       /\ BackendsOf(copies \ {v}) # {}
       /\ routes' \in {routes, BackendsOf(copies \ {v})}
  /\ UNCHANGED <<exists, up, proven>>
  /\ Return("failed")

(* Mutant: the stopped copy stays in the list of old copies. *)
StopCopyKeepsOld ==
  /\ pc = "stop"
  /\ exists' = exists \ victim
  /\ up' = up \ victim
  /\ proven' = proven \ victim
  /\ surplus' = surplus \ victim
  /\ victim' = {}
  /\ pc' = NextCall(job, copies, surplus', old)
  /\ UNCHANGED <<run, job, copies, routable, old, fresh, routes>>

(* drain_copy, the stop. With StopFirst the replacement of an old copy     *)
(* starts now.                                                             *)
StopCopy ==
  /\ pc = "stop"
  /\ exists' = exists \ victim
  /\ up' = up \ victim
  /\ proven' = proven \ victim
  /\ surplus' = surplus \ victim
  /\ old' = old \ victim
  /\ victim' = {}
  /\ pc' = IF victim \subseteq old /\ job.order = "StopFirst"
           THEN "start"
           ELSE NextCall(job, copies, surplus', old')
  /\ UNCHANGED <<run, job, copies, routable, fresh, routes>>

StopFails ==
  /\ pc = "stop"
  /\ \/ UNCHANGED <<up, proven>>
     \/ /\ "corpse" \in Faults
        /\ up' = up \ victim
        /\ proven' = proven \ victim
  /\ UNCHANGED <<exists, routes>>
  /\ Return("failed")

-----------------------------------------------------------------------------
(* The environment. *)

(* A copy exits on its own.  The runtime still has it. *)
Die(c) ==
  /\ "death" \in Faults
  /\ c \in up
  /\ up' = up \ {c}
  /\ proven' = proven \ {c}
  /\ UNCHANGED <<pc, run, job, exists, routes>> /\ UNCHANGED planVars

(* The process doing the run is killed between two calls. *)
Kill ==
  /\ "kill" \in Faults
  /\ pc \notin Ended
  /\ Return("failed")
  /\ UNCHANGED worldVars

(* One call of a run, once the run has begun. *)
RunStep ==
  \/ StartCopy \/ StartFails
  \/ Healthy \/ Unhealthy
  \/ PublishAdded \/ PublishAddedFails
  \/ Drain \/ DrainFails
  \/ StopCopy \/ StopFails

Next ==
  \/ \E j \in Job : Begin(j) \/ Refused(j)
  \/ RunStep
  \/ \E c \in up : Die(c)
  \/ Kill

Spec == Init /\ [][Next]_vars

(* Every call of a run returns: engine commands, health waits, helper      *)
(* requests and stop waits are all bounded by a time limit.                *)
FairSpec == Spec /\ WF_vars(RunStep)

-----------------------------------------------------------------------------
(* Properties. *)

(* No two copies the runtime has share an index, whatever failed: a copy's *)
(* index names its container or its worker config, so a second copy under  *)
(* the same index would be refused by the engine or overwrite the config.  *)
UniqueIndexes == \A c, d \in exists : c.copy = d.copy => c = d

(* "A run of failed deploys never adds up copies": there is never more     *)
(* than one copy beyond the largest count asked for, however runs fail     *)
(* (replace_all drains leftovers before it starts anything).               *)
NeverAddsUp == \E w \in Wants : Cardinality(exists) <= w + 1

(* A copy the router sends to is stopped by a drain only when no other     *)
(* copy of the list has a backend, since routers refuse an empty list.     *)
DrainedBeforeStop ==
  pc = "stop" /\ victim \cap routes # {} => BackendsOf(copies) = {}

(* What every run finds and leaves, at every step.                         *)
CopiesConsistent == TypeOK /\ UniqueIndexes /\ NeverAddsUp /\ DrainedBeforeStop

(* The router sends to some copy that runs and proved healthy. *)
Serving == routes \cap proven # {}

Overlapping == pc \notin Ended /\ job.op = "replace_all" => job.order = "Overlap"

(* With Overlap "a failure at any step leaves the old copies serving":     *)
(* once the service is served, no step of an overlapping replacement or of *)
(* a scaling ends that, whichever call fails.  Not so: a stopped container *)
(* that could not be removed counts as a copy to keep, and the one that    *)
(* serves may then be stopped as surplus.                                  *)
OldCopiesServe == [][Serving /\ Overlapping => Serving']_vars

(* For a run whose list holds only proven copies it is: no failure of a    *)
(* start, health wait, publish, drain or stop, and no kill, takes the      *)
(* service off its proven copies; only a copy that exits by itself can.    *)
KeepsServing ==
  [][Serving /\ Overlapping /\ copies \cup victim \subseteq proven /\ up \ up' \subseteq victim
       => Serving']_vars

(* A run that returns Ok leaves exactly want copies; replace_all leaves    *)
(* none it did not start itself, and the router with exactly those.        *)
(* (scale_to publishes only when it adds or removes a copy, so a copy an   *)
(* earlier run failed to route stays unrouted when the count already fits.)*)
OkMeansReplaced ==
  [][pc' = "done" =>
       /\ Cardinality(exists') = job'.want
       /\ job'.op = "replace_all" =>
            routes' = exists' /\ \A c \in exists' : c.run = run']_vars

(* Every run ends: its loops over the surplus, over the old copies and up  *)
(* to want each make progress, so a deploy does not hold the app's lock    *)
(* for ever.                                                               *)
RunsEnd == [](pc \notin Ended => <>(pc \in Ended))
=============================================================================
