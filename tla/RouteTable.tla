------------------------------ MODULE RouteTable ------------------------------
(***************************************************************************)
(* What the router helper promises its clients: a table with the route of  *)
(* each app, which a request changes as a whole or not at all.  A request  *)
(* answered Ok has changed the table, one answered Failed has not, and a   *)
(* request is decided only after the ones sent before it.  This is kept    *)
(* until a failure the helper cannot undo; from then on nothing is.        *)
(***************************************************************************)
EXTENDS Naturals

CONSTANTS Apps, MaxRequests

Requests == 1..MaxRequests

VARIABLES
  table,    \* the request each app is routed by, 0 for no route
  ask,      \* what each request sent asks for
  outcome,  \* how far each request is
  broken    \* a failure that could not be undone has happened

vars == <<table, ask, outcome, broken>>

NotSent == [app |-> 0]

Init ==
  /\ table = [a \in Apps |-> 0]
  /\ ask = [r \in Requests |-> NotSent]
  /\ outcome = [r \in Requests |-> "none"]
  /\ broken = FALSE

(* A client sends the next request. *)
Send(r, a, remove) ==
  /\ outcome[r] = "none"
  /\ \A q \in 1..(r - 1) : outcome[q] # "none"
  /\ ask' = [ask EXCEPT ![r] = [app |-> a, remove |-> remove]]
  /\ outcome' = [outcome EXCEPT ![r] = "open"]
  /\ UNCHANGED <<table, broken>>

IsNext(r) == outcome[r] = "open" /\ \A q \in 1..(r - 1) : outcome[q] # "open"

Commit(r) ==
  /\ IsNext(r)
  /\ table' = [table EXCEPT ![ask[r].app] = IF ask[r].remove THEN 0 ELSE r]
  /\ outcome' = [outcome EXCEPT ![r] = "ok"]
  /\ UNCHANGED <<ask, broken>>

Refuse(r) ==
  /\ IsNext(r)
  /\ outcome' = [outcome EXCEPT ![r] = "failed"]
  /\ UNCHANGED <<table, ask, broken>>

(* The helper is started again: nobody's request was applied, and all of   *)
(* them are told.                                                          *)
RefuseAll ==
  /\ outcome' = [r \in Requests |-> IF outcome[r] = "open" THEN "failed" ELSE outcome[r]]
  /\ UNCHANGED <<table, ask, broken>>

(* The failure, and whatever comes after it. *)
Break == broken' = TRUE

Next ==
  \/ \E r \in Requests :
       \/ \E a \in Apps, remove \in BOOLEAN : Send(r, a, remove)
       \/ Commit(r)
       \/ Refuse(r)
  \/ RefuseAll
  \/ Break

Spec == Init /\ [][Next]_vars
=============================================================================
