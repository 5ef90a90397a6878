----------------------------- MODULE CopyRestart -----------------------------
(***************************************************************************)
(* The supervisor's watch of an app's containers and its restart of dead   *)
(* copies, beside the commands that deploy, scale and stop the same app.   *)
(*                                                                         *)
(* The watch learns of containers from listings and from the engine's      *)
(* event stream, decides from that memory which exited copies to restart,  *)
(* and gives each restart to a thread.  The thread takes the app's deploy  *)
(* lock, looks at the slot again and replaces the dead container.          *)
(*                                                                         *)
(* One app with one routed service.  The lock is held or free: how it is   *)
(* taken and what a contender sees is DeployLock.  How a deploy replaces   *)
(* copies is Rolling; here it empties and refills slots under the lock.    *)
(* An inspect that follows a listing sees the engine of the same moment.   *)
(***************************************************************************)
EXTENDS Naturals, FiniteSets

CONSTANTS
    Slots,      \* copy numbers of the service; slot n holds at most one container
    Policy,     \* the riku.restart label: "no", "always", "on-failure" or unreadable
    Limit,      \* N of "on-failure:N"
    MaxExits,   \* bound: containers that exit
    MaxOps,     \* bound: deploys, scales and stops
    MaxFaults,  \* bound: failed engine or router calls and supervisor crashes
    MaxEvents   \* bound: exits, commands and faults together

ASSUME LimitAssumption == Limit \in Nat
\* The copies of a service are numbered from one.
ASSUME SlotsAssumption ==
    /\ Slots \subseteq Nat \ {0} /\ IsFiniteSet(Slots)
    /\ \A n \in Slots : n <= Cardinality(Slots)

VARIABLES
    slot,       \* the engine: the container in each slot
    nextId,     \* container ids handed out
    routes,     \* ids the router sends to
    lock,       \* who holds the deploy lock: nobody, the command, or a slot's thread
    op,         \* the running command: kind and the slots it has still to handle
    mode,       \* the watch: "closed", "opened" or "adopted"
    known,      \* ContainerWatch.known, by slot: one id for each name
    feed,       \* "polling", "events" or "ended" (the stream's child has exited)
    stream,     \* ids the event stream has named since the last drain
    tally,      \* RestartTally.entries
    inFlight,   \* Restarts.in_flight: the dead id a thread was asked for, 0 for none
    reports,    \* RestartReports sent and not collected
    cands,      \* candidates of the tick under way
    step,       \* where the tick under way is
    thread,     \* each restart thread's next step
    exits, ops, faults,
    removed,    \* history: slots a command emptied and none has filled since
    restarts,   \* history: starts by a thread since a command filled the slot
    crossed,    \* history: slots whose thread replaced another copy than it was asked for
    misrouted   \* history: a router call failed or a holder died since the last publish

engine == <<slot, nextId, routes>>
watch == <<mode, known, feed, stream, tally, inFlight, reports, cands, step>>
bounds == <<exits, ops, faults>>
history == <<removed, restarts, crossed, misrouted>>
vars == <<engine, lock, op, watch, thread, bounds, history>>

Empty == [id |-> 0, st |-> "none", code |-> 0, by |-> "none"]
NoTally == [id |-> 0, count |-> 0, ticks |-> 0, expects |-> FALSE]
Nobody == <<"free">>
Command == <<"op">>
Thread(n) == <<"thread", n>>
Idle == [kind |-> "none", todo |-> {}]
Up == {n \in Slots : slot[n].st = "up"}
Present == {n \in Slots : slot[n].st # "none"}
IdsOf(S) == {slot[n].id : n \in S}

Init ==
    /\ slot = [n \in Slots |-> [id |-> n, st |-> "up", code |-> 0, by |-> "op"]]
    /\ nextId = Cardinality(Slots)
    /\ routes = Slots
    /\ lock = Nobody /\ op = Idle
    /\ mode = "closed" /\ known = [n \in Slots |-> Empty]
    /\ feed = "polling" /\ stream = {}
    /\ tally = [n \in Slots |-> NoTally]
    /\ inFlight = [n \in Slots |-> 0] /\ reports = {} /\ cands = {} /\ step = "idle"
    /\ thread = [n \in Slots |-> "none"]
    /\ exits = 0 /\ ops = 0 /\ faults = 0
    /\ removed = {} /\ restarts = [n \in Slots |-> 0] /\ crossed = {} /\ misrouted = FALSE

-----------------------------------------------------------------------------
\* The restart policy and the tally.

\* Whether an exit with this code, after this many restarts, is followed by one.
ShouldRestart(code, count) ==
    \/ Policy \in {"always", "unless-stopped"}
    \/ Policy = "on-failure" /\ code # 0 /\ (Limit > 0 => count < Limit)

\* MUTANT: the expected successor of a restart is not told from a deploy's copy.
ObserveForgets(t, id) == IF t.id = id THEN t ELSE [NoTally EXCEPT !.id = id]

\* A container under another id starts a new count, unless a restart of this
\* name was recorded and its successor has not been seen yet.
Observe(t, id) ==
    IF t.id = 0 THEN [NoTally EXCEPT !.id = id]
    ELSE IF t.id = id THEN t
    ELSE IF t.expects THEN [t EXCEPT !.id = id, !.expects = FALSE]
    ELSE [NoTally EXCEPT !.id = id]

\* Seconds to wait after this many restarts.
RestartDelay(count) == IF count >= 6 THEN 60 ELSE 2 ^ count

\* A restart is recorded by a tick, so the wait is a number of watch intervals of
\* five seconds.
RecordRestart(t) ==
    IF t.id = 0 THEN t
    ELSE [t EXCEPT !.count = @ + 1, !.expects = TRUE,
                   !.ticks = (RestartDelay(t.count + 1) + 4) \div 5]

\* Copies being restarted are left out, and entries of unseen names are dropped.
ObserveCopies(k, t, flying) ==
    [n \in Slots |->
        LET seen == IF k[n].id # 0 /\ flying[n] = 0 THEN Observe(t[n], k[n].id) ELSE t[n]
        IN  IF seen.expects \/ k[n].id # 0 \/ flying[n] # 0 THEN seen ELSE NoTally]

FindCandidates(k, t, flying) ==
    {n \in Slots : /\ flying[n] = 0
                   /\ k[n].st = "exited"
                   /\ ShouldRestart(k[n].code, t[n].count)
                   /\ t[n].ticks = 0}

\* A fresh inspect of ids: what the engine has under them replaces what was
\* known of their names, and ids it no longer has are forgotten.
MergeInspected(k, ids) ==
    [n \in Slots |-> IF slot[n].id \in ids THEN slot[n]
                     ELSE IF k[n].id \in ids THEN Empty ELSE k[n]]

InBounds == exits + ops + faults < MaxEvents
Fault == faults < MaxFaults /\ InBounds /\ faults' = faults + 1
NoFault == UNCHANGED faults

-----------------------------------------------------------------------------
\* The engine and the clock.

\* The stream names every container that starts, dies or is removed.
Emit(ids) == stream' = IF feed = "events" THEN stream \union ids ELSE stream

Exit(n) ==
    /\ exits < MaxExits /\ InBounds /\ exits' = exits + 1
    /\ slot[n].st = "up"
    /\ \E c \in {0, 1} : slot' = [slot EXCEPT ![n].st = "exited", ![n].code = c]
    /\ Emit({slot[n].id})
    /\ UNCHANGED <<nextId, routes, lock, op, mode, known, feed, tally, inFlight,
                   reports, cands, step, thread, ops, faults, history>>

\* The events child exits; the ids it has named are still in the channel.
StreamEnds ==
    /\ feed = "events" /\ Fault
    /\ feed' = "ended"
    /\ UNCHANGED <<engine, lock, op, mode, known, stream, tally, inFlight, reports,
                   cands, step, thread, exits, ops, history>>

-----------------------------------------------------------------------------
\* The watch.

OpenWatch ==
    /\ mode = "closed"
    /\ mode' = "opened"
    /\ UNCHANGED <<engine, lock, op, known, feed, stream, tally, inFlight, reports,
                   cands, step, thread, bounds, history>>

\* MUTANT: a thread that found the lock taken is not counted back.
ReportsOfTheDone(n) == {r \in reports : r.n = n /\ r.outcome # "busy"}

\* The reports that threads have sent, and what they leave of known and the tally.
ReportsOf(n) == {r \in reports : r.n = n}

KnownAfter ==
    [n \in Slots |->
        IF \E r \in ReportsOf(n) : r.outcome # "busy" /\ r.id = known[n].id THEN Empty ELSE known[n]]

TallyAfter ==
    [n \in Slots |->
        IF \E r \in ReportsOf(n) : r.outcome \in {"restarted", "error"}
        THEN RecordRestart(tally[n])
        ELSE [tally[n] EXCEPT !.ticks = IF @ > 0 THEN @ - 1 ELSE 0]]

\* The ids that the stream has named are inspected; polling has none.
Drain(k) == IF feed = "polling" THEN k ELSE MergeInspected(k, stream)

\* The event stream runs only while there are containers; opening it may fail.
MatchFeed(f, k) ==
    LET none == \A n \in Slots : k[n].id = 0
    IN  IF f = "polling" THEN (IF none THEN {f} ELSE {f, "events"})
        ELSE IF none THEN {"polling"} ELSE {f}

\* A tick collects the reports, applies events, takes a listing if one is due,
\* and chooses the copies to restart.  The first tick lists, to adopt what runs; a
\* later one if the interval has passed, a SIGHUP asked for it or none has worked.
Tick(listing) ==
    /\ mode # "closed" /\ step = "idle"
    /\ mode = "opened" => listing
    /\ reports' = {}
    /\ inFlight' = [n \in Slots |-> IF ReportsOf(n) = {} THEN inFlight[n] ELSE 0]
    /\ \E listed, inspected \in BOOLEAN :
         /\ listed => listing
         /\ IF listed = listing /\ inspected THEN NoFault ELSE Fault
         /\ LET f == IF feed = "ended" THEN "polling" ELSE feed
                d == IF mode = "adopted" /\ inspected THEN Drain(KnownAfter) ELSE KnownAfter
                k == IF listed THEN slot ELSE d
            IN  /\ known' = k
                /\ feed' \in (IF listing THEN MatchFeed(f, k) ELSE {f})
                /\ tally' = ObserveCopies(k, TallyAfter, inFlight')
                /\ cands' = FindCandidates(k, tally', inFlight')
    /\ stream' = {}
    /\ mode' = "adopted"
    /\ step' = IF cands' = {} THEN "idle" ELSE "dispatch"
    /\ UNCHANGED <<engine, lock, op, thread, exits, ops, history>>

\* The candidates are inspected once more; those still exited get a thread.
DispatchRestarts ==
    /\ step = "dispatch"
    /\ \/ /\ NoFault
          /\ known' = MergeInspected(known, {known[n].id : n \in cands})
          /\ LET go == {n \in cands : known'[n].id = known[n].id /\ known'[n].st = "exited"}
             IN  /\ inFlight' = [n \in Slots |-> IF n \in go THEN known[n].id ELSE inFlight[n]]
                 /\ thread' = [n \in Slots |-> IF n \in go THEN "lock" ELSE thread[n]]
       \/ Fault /\ UNCHANGED <<known, inFlight, thread>>
    /\ cands' = {} /\ step' = "idle"
    /\ UNCHANGED <<engine, lock, op, mode, feed, stream, tally, reports, exits, ops, history>>

\* Between ticks only the events are applied.
ApplyEvents ==
    /\ mode = "adopted" /\ step = "idle" /\ feed # "polling"
    /\ \/ NoFault /\ known' = Drain(known)
       \/ Fault /\ UNCHANGED known
    /\ stream' = {}
    /\ feed' = IF feed = "ended" THEN "polling" ELSE feed
    /\ UNCHANGED <<engine, lock, op, mode, tally, inFlight, reports, cands, step,
                   thread, exits, ops, history>>

-----------------------------------------------------------------------------
\* A restart thread: restart_copy for one slot.

Held(n) == lock = Thread(n)
Goto(n, s) == thread' = [thread EXCEPT ![n] = s]

\* The thread sends its report and the lock file is closed.
Finish(n, outcome) ==
    /\ reports' = reports \union {[n |-> n, id |-> inFlight[n], outcome |-> outcome]}
    /\ Goto(n, "none")
    /\ lock' = IF Held(n) THEN Nobody ELSE lock

Create(n, by) ==
    /\ slot' = [slot EXCEPT ![n] = [id |-> nextId + 1, st |-> "up", code |-> 0, by |-> by]]
    /\ nextId' = nextId + 1
    /\ Emit({nextId + 1})
    /\ UNCHANGED routes

Delete(n) ==
    /\ slot' = [slot EXCEPT ![n] = Empty]
    /\ Emit({slot[n].id} \ {0})
    /\ UNCHANGED <<nextId, routes>>

\* The lock is taken without waiting; a held one is "busy", a lock file, ENV or
\* compose file that cannot be read is an error.
TakeLock(n) ==
    /\ thread[n] = "lock"
    /\ \/ lock = Nobody /\ NoFault /\ lock' = Thread(n) /\ Goto(n, "look") /\ UNCHANGED reports
       \/ lock # Nobody /\ NoFault /\ Finish(n, "busy")
       \/ Fault /\ Finish(n, "error")
    /\ UNCHANGED <<engine, op, mode, known, feed, stream, tally, inFlight, cands, step,
                   exits, ops, history>>

\* MUTANT: what the watch saw is believed.
DeadCopyAsSeen(n) == inFlight[n] # 0

\* The slot that the watch saw die is looked at again under the lock.
DeadCopy(n) == slot[n].st = "exited"

RemoveDead(n) ==
    /\ thread[n] = "look"
    /\ \/ /\ DeadCopy(n) /\ NoFault /\ Delete(n) /\ Goto(n, "start") /\ UNCHANGED <<reports, lock>>
          /\ crossed' = IF slot[n].id = inFlight[n] THEN crossed ELSE crossed \union {n}
       \/ ~DeadCopy(n) /\ NoFault /\ Finish(n, "gone") /\ UNCHANGED <<engine, stream, crossed>>
       \/ Fault /\ Finish(n, "error") /\ UNCHANGED <<engine, stream, crossed>>
    /\ UNCHANGED <<op, mode, known, feed, tally, inFlight, cands, step, exits, ops,
                   removed, restarts, misrouted>>

StartSlot(n) ==
    /\ thread[n] = "start"
    /\ \/ /\ NoFault /\ Create(n, "thread") /\ Goto(n, "health")
          /\ restarts' = [restarts EXCEPT ![n] = @ + 1]
       \/ Fault /\ Goto(n, "reroute") /\ UNCHANGED <<engine, stream, restarts>>
    /\ UNCHANGED <<lock, op, mode, known, feed, tally, inFlight, reports, cands, step,
                   exits, ops, removed, crossed, misrouted>>

\* An unhealthy copy is discarded; a discard that fails leaves it.
WaitHealthy(n) ==
    /\ thread[n] = "health"
    /\ \/ slot[n].st = "up" /\ NoFault /\ Goto(n, "route") /\ UNCHANGED <<engine, stream>>
       \/ slot[n].st # "up" /\ NoFault /\ Goto(n, "reroute") /\ Delete(n)
       \/ Fault /\ Goto(n, "reroute") /\ (Delete(n) \/ UNCHANGED <<engine, stream>>)
    /\ UNCHANGED <<lock, op, mode, known, feed, tally, inFlight, reports, cands, step,
                   exits, ops, history>>

\* configure: the running copies become the backends; with none it is an error.
Configure(n, outcome) ==
    \/ /\ Up # {} /\ NoFault
       /\ routes' = IdsOf(Up) /\ misrouted' = FALSE /\ Finish(n, outcome)
    \/ /\ IF Up # {} THEN Fault ELSE NoFault
       /\ misrouted' = TRUE /\ Finish(n, "error") /\ UNCHANGED routes

ReconfigureRouter(n) ==
    /\ thread[n] = "route"
    /\ Configure(n, "restarted")
    /\ UNCHANGED <<slot, nextId, op, mode, known, feed, stream, tally, inFlight, cands,
                   step, exits, ops, removed, restarts, crossed>>

\* After a failure the router is pointed at what is left, or the app taken off.
RerouteAfterFailure(n) ==
    /\ thread[n] = "reroute"
    /\ \/ Present = {} /\ NoFault /\ routes' = {} /\ misrouted' = FALSE /\ Finish(n, "error")
       \/ Present = {} /\ Fault /\ misrouted' = TRUE /\ Finish(n, "error") /\ UNCHANGED routes
       \/ Present # {} /\ Configure(n, "error")
    /\ UNCHANGED <<slot, nextId, op, mode, known, feed, stream, tally, inFlight, cands,
                   step, exits, ops, removed, restarts, crossed>>

\* The supervisor dies with its threads; the lock goes with the process and the
\* memory of the watch is lost.
Crash ==
    /\ Fault /\ mode # "closed"
    /\ mode' = "closed" /\ known' = [n \in Slots |-> Empty]
    /\ feed' = "polling" /\ stream' = {}
    /\ tally' = [n \in Slots |-> NoTally] /\ inFlight' = [n \in Slots |-> 0]
    /\ reports' = {} /\ cands' = {} /\ step' = "idle"
    /\ thread' = [n \in Slots |-> "none"]
    /\ lock' = IF lock = Command THEN lock ELSE Nobody
    /\ misrouted' = (misrouted \/ \E n \in Slots : Held(n))
    /\ restarts' = [n \in Slots |-> 0] /\ crossed' = {}
    /\ UNCHANGED <<engine, op, exits, ops, removed>>

-----------------------------------------------------------------------------
\* The commands, each under the deploy lock.

\* A deploy or restart refills every slot; a scale down empties the highest one.
BeginRollout ==
    /\ lock = Nobody /\ ops < MaxOps /\ InBounds /\ ops' = ops + 1
    /\ lock' = Command
    /\ \/ op' = [kind |-> "fill", todo |-> Slots]
       \/ \E n \in Present :
            /\ \E m \in Present : m # n
            /\ \A m \in Present : m <= n
            /\ op' = [kind |-> "empty", todo |-> {n}]
    /\ UNCHANGED <<engine, watch, thread, exits, faults, history>>

\* A stop takes the app off the router first, and does nothing if that fails.
BeginStop ==
    /\ lock = Nobody /\ ops < MaxOps /\ InBounds /\ ops' = ops + 1
    /\ \/ /\ NoFault /\ lock' = Command
          /\ op' = [kind |-> "stop", todo |-> Present]
          /\ routes' = {} /\ misrouted' = FALSE
       \/ Fault /\ UNCHANGED <<lock, op, routes, misrouted>>
    /\ UNCHANGED <<slot, nextId, watch, thread, exits, removed, restarts, crossed>>

\* A replaced copy is drained from the router before it is stopped and removed,
\* unless that would leave the router without a backend.
RemoveCopy(n) ==
    /\ op.kind # "none" /\ n \in op.todo /\ slot[n].st # "none"
    /\ slot' = [slot EXCEPT ![n] = Empty]
    /\ routes' = IF routes = {slot[n].id} THEN routes ELSE routes \ {slot[n].id}
    /\ Emit({slot[n].id})
    /\ removed' = removed \union {n}
    /\ op' = IF op.kind = "fill" THEN op ELSE [op EXCEPT !.todo = @ \ {n}]
    /\ UNCHANGED <<nextId, lock, mode, known, feed, tally, inFlight, reports, cands,
                   step, thread, bounds, restarts, crossed, misrouted>>

StartCopy(n) ==
    /\ op.kind = "fill" /\ n \in op.todo /\ slot[n].st = "none"
    /\ Create(n, "op")
    /\ removed' = removed \ {n}
    /\ restarts' = [restarts EXCEPT ![n] = 0] /\ crossed' = crossed \ {n}
    /\ op' = [op EXCEPT !.todo = @ \ {n}]
    /\ UNCHANGED <<lock, mode, known, feed, tally, inFlight, reports, cands, step,
                   thread, bounds, misrouted>>

\* The command ends, done or failed half-way.  Rollouts end with the routes of
\* the running copies and a SIGHUP; a stop sends none.
EndCommand ==
    /\ op.kind # "none"
    /\ \/ op.todo \intersect (IF op.kind = "fill" THEN Slots ELSE Present) = {} /\ NoFault
       \/ Fault
    /\ lock' = Nobody /\ op' = Idle
    /\ IF op.kind = "stop" THEN UNCHANGED <<routes, misrouted>>
       ELSE /\ routes' = IF Up = {} THEN routes ELSE IdsOf(Up)
            /\ misrouted' = (Up = {})
    /\ UNCHANGED <<slot, nextId, mode, known, feed, stream, tally, inFlight, reports, cands,
                   step, thread, exits, ops, removed, restarts, crossed>>

-----------------------------------------------------------------------------
Watch == OpenWatch \/ DispatchRestarts \/ ApplyEvents \/ \E listing \in BOOLEAN : Tick(listing)

Restart(n) ==
    \/ TakeLock(n) \/ RemoveDead(n) \/ StartSlot(n)
    \/ WaitHealthy(n) \/ ReconfigureRouter(n) \/ RerouteAfterFailure(n)

Commands == BeginRollout \/ BeginStop \/ EndCommand \/ \E n \in Slots : RemoveCopy(n) \/ StartCopy(n)

Next ==
    \/ Watch \/ Commands
    \/ \E n \in Slots : Restart(n) \/ Exit(n)
    \/ StreamEnds \/ Crash

\* The maintenance pass runs again and again, engine and router calls have time
\* limits, clocks advance and a command ends.
Fairness ==
    /\ WF_vars(OpenWatch \/ Tick(TRUE) \/ DispatchRestarts)
    /\ \A n \in Slots : WF_vars(Restart(n))
    /\ WF_vars(EndCommand \/ \E n \in Slots : RemoveCopy(n) \/ StartCopy(n))

Spec == Init /\ [][Next]_vars /\ Fairness

-----------------------------------------------------------------------------
TypeOK ==
    /\ slot \in [Slots -> [id : Nat, st : {"none", "up", "exited"}, code : {0, 1},
                            by : {"none", "op", "thread"}]]
    /\ routes \subseteq 1..nextId
    /\ lock \in {Nobody, Command} \union {Thread(n) : n \in Slots}
    /\ op \in [kind : {"none", "fill", "empty", "stop"}, todo : SUBSET Slots]
    /\ mode \in {"closed", "opened", "adopted"} /\ feed \in {"polling", "events", "ended"}
    /\ stream \subseteq 1..nextId /\ cands \subseteq Slots
    /\ tally \in [Slots -> [id : Nat, count : Nat, ticks : Nat, expects : BOOLEAN]]
    /\ \A r \in reports : r.outcome \in {"busy", "gone", "restarted", "error"}

\* A copy that a stop or a scale down removed is not brought back by the
\* supervisor, although it decided on the restart before it had the lock.
StaysRemoved == \A n \in removed : slot[n].st = "none"

Limited == Policy = "on-failure" /\ Limit > 0
Extra(n) == IF n \in crossed THEN 1 ELSE 0

\* "on-failure:N" means at most N restarts of what a command put in a slot, while
\* the supervisor lives: the count survives the change of container id that each
\* restart makes, whenever its report is collected.  One more happens only where a
\* command replaced the copy while its restart waited for the lock: the thread then
\* replaces the command's copy, and its report is counted for the one before.
LimitKept == Limited => \A n \in Slots : restarts[n] <= Limit + Extra(n)

\* While nobody works on the app, the router sends to containers that exist,
\* after a failed restart too, unless a router call failed or found no copy.
RoutedExist == lock = Nobody /\ ~misrouted => routes \subseteq IdsOf(Present)

\* What commands and restarts make of the slots and the routes between them.
SlotsConsistent == TypeOK /\ StaysRemoved /\ RoutedExist

\* A dead copy that its policy allows to restart is restarted, replaced or
\* removed, or its restarts are used up, whatever events and engine calls are
\* lost on the way: the listing finds what the stream did not report.
DeadIsHandled ==
    \A n \in Slots :
        []<>~(slot[n].st = "exited" /\ ShouldRestart(slot[n].code, tally[n].count))

\* The count of a copy that a deploy put in a slot starts at zero, whatever
\* happened to the copy before it.  Not so: after a restart
\* whose copy a deploy replaces before it is seen, the count goes on.
DeployCountsFromZero ==
    [][\A n \in Slots :
        (tally'[n].id # tally[n].id /\ tally'[n].id = slot[n].id /\ slot[n].by = "op")
            => tally'[n].count = 0]_vars
=============================================================================
