-------------------------- MODULE CopyRestartProofs --------------------------
(***************************************************************************)
(* What commands and restarts make of the slots, and that a restart policy *)
(* keeps its limit, for any number of slots, exits, commands and failures. *)
(***************************************************************************)
EXTENDS CopyRestart, FiniteSetTheorems, TLAPS

Copy == [id : Nat, st : {"none", "up", "exited"}, code : {0, 1}, by : {"none", "op", "thread"}]
Outcomes == {"busy", "gone", "restarted", "error"}
\* The steps of a restart thread that has the lock.
Holding == {"look", "start", "health", "route", "reroute"}

\* An id names a container that was created; a container has an id.
CopyOK(c) == c.id <= nextId /\ (c.st # "none" => c.id # 0)

SlotTypes ==
    /\ nextId \in Nat
    /\ slot \in [Slots -> Copy] /\ \A n \in Slots : CopyOK(slot[n])
    /\ routes \subseteq 1..nextId /\ stream \subseteq 1..nextId
    /\ removed \subseteq Slots
    /\ op \in [kind : {"none", "fill", "empty", "stop"}, todo : SUBSET Slots]
    /\ lock \in {Nobody, Command} \union {Thread(n) : n \in Slots}
    /\ thread \in [Slots -> Holding \union {"none", "lock"}]
    /\ misrouted \in BOOLEAN

WatchTypes ==
    /\ known \in [Slots -> Copy] /\ \A n \in Slots : CopyOK(known[n])
    /\ mode \in {"closed", "opened", "adopted"} /\ feed \in {"polling", "events", "ended"}
    /\ cands \subseteq Slots /\ step \in {"idle", "dispatch"}
    /\ tally \in [Slots -> [id : Nat, count : Nat, ticks : Nat, expects : BOOLEAN]]
    /\ inFlight \in [Slots -> Nat] /\ \A n \in Slots : inFlight[n] <= nextId
    /\ reports \subseteq [n : Slots, id : Nat, outcome : Outcomes]

\* Who holds the lock is at a step that needs it, and the other way round.
LockInv ==
    /\ \A n \in Slots : lock = Thread(n) <=> thread[n] \in Holding
    /\ lock = Command <=> op.kind # "none"

\* A slot has one restart at a time: from its dispatch until a tick has its report.
FlightInv ==
    /\ \A n \in Slots : thread[n] # "none" => inFlight[n] # 0 /\ ReportsOf(n) = {}
    /\ \A r \in reports : inFlight[r.n] # 0
    /\ \A n \in cands : inFlight[n] = 0 /\ known[n].st = "exited"
    /\ cands # {} => step = "dispatch"

\* A thread that is about to fill a slot emptied it itself.
RemovedInv == StaysRemoved /\ \A n \in Slots : thread[n] = "start" => n \notin removed

\* Nothing has changed between the lock and the look, and a stop has no routes.
RouteInv ==
    /\ RoutedExist
    /\ \A n \in Slots : thread[n] = "look" /\ ~misrouted => routes \subseteq IdsOf(Present)
    /\ op.kind = "stop" => routes = {}

SlotsInv == SlotTypes /\ WatchTypes /\ LockInv /\ FlightInv /\ RemovedInv /\ RouteInv

-----------------------------------------------------------------------------
\* The tally of a slot follows the restarts of the container in it, whether or not
\* the container, or the report of the restart that made it, has been seen.
Tracked(n) ==
    LET here == slot[n].id
        asked == inFlight[n]
    IN  \/ /\ asked = 0
           /\ restarts[n] <= tally[n].count + Extra(n)
           /\ known[n].id \in {0, here}
           /\ tally[n].expects \/ (tally[n].id = here /\ known[n].id = here)
        \/ /\ asked # 0 /\ asked = here
           /\ restarts[n] <= tally[n].count + Extra(n)
        \/ /\ asked # 0 /\ asked # here
           /\ restarts[n] <= tally[n].count + 1 + Extra(n)
           /\ known[n].id \in {0, asked, here}
           /\ \A r \in ReportsOf(n) : r.outcome \in {"restarted", "error"}

\* What is known of a slot: a count that began with the container a command started
\* in it, and that is below the limit for as long as a restart is under way.
CountOK(n) ==
    LET here == slot[n].id
        asked == inFlight[n]
    IN  /\ slot[n].by = "op" => restarts[n] = 0
        /\ slot[n].by = "thread" => restarts[n] <= Extra(n) \/ Tracked(n)
        /\ slot[n].st = "none" <=> slot[n].by = "none"
        \* The dead container is there until the thread that was asked removes it.
        /\ asked # 0 /\ asked = here =>
              /\ slot[n].st = "exited" /\ known[n].id = here /\ tally[n].id = here
              /\ \A r \in ReportsOf(n) : r.outcome # "gone"
        /\ thread[n] \in {"lock", "look"} => here = asked \/ slot[n].by # "thread"
        /\ thread[n] = "start" =>
              /\ here = 0
              /\ \/ restarts[n] = 0 /\ n \in crossed
                 \/ restarts[n] <= tally[n].count + Extra(n) /\ known[n].id \in {0, asked}
        /\ \A r \in ReportsOf(n) : r.id = asked
        /\ n \in cands => tally[n].id = known[n].id
        /\ tally[n].expects \/ asked # 0 => tally[n].id # 0
        /\ Limited => /\ thread[n] # "none" \/ n \in cands => tally[n].count < Limit
                      /\ restarts[n] <= Limit + Extra(n)

CountTypes == restarts \in [Slots -> Nat] /\ crossed \subseteq Slots
CountInv == CountTypes /\ \A n \in Slots : CountOK(n)

-----------------------------------------------------------------------------
LEMMA LockValues ==
  /\ Nobody # Command
  /\ \A n : Thread(n) # Nobody /\ Thread(n) # Command
  /\ \A m, n : Thread(m) = Thread(n) => m = n
  BY DEF Nobody, Command, Thread

LEMMA Numbering == Cardinality(Slots) \in Nat /\ \A n \in Slots : n \in 1..Cardinality(Slots)
  BY SlotsAssumption, FS_CardinalityType

\* The wait after a restart is a number of ticks.
LEMMA DelayType ==
  ASSUME NEW c \in Nat
  PROVE  (RestartDelay(c) + 4) \div 5 \in Nat
<1>1. c >= 6 \/ c \in {0, 1, 2, 3, 4, 5}
  OBVIOUS
<1>2. 2^0 \in Nat /\ 2^1 \in Nat /\ 2^2 \in Nat /\ 2^3 \in Nat /\ 2^4 \in Nat /\ 2^5 \in Nat /\ 60 \in Nat
  OBVIOUS
<1>3. RestartDelay(c) \in Nat
  BY <1>1, <1>2, Zenon DEF RestartDelay
<1> QED
  BY <1>3

TallyType == [id : Nat, count : Nat, ticks : Nat, expects : BOOLEAN]

LEMMA RecordType ==
  ASSUME NEW t \in TallyType
  PROVE  RecordRestart(t) \in TallyType
<1>1. t.count + 1 \in Nat
  BY DEF TallyType
<1>2. (RestartDelay(t.count + 1) + 4) \div 5 \in Nat
  BY <1>1, DelayType
<1> HIDE DEF RestartDelay
<1> QED
  BY <1>1, <1>2 DEF RecordRestart, TallyType

LEMMA ObserveType ==
  ASSUME NEW t \in TallyType, NEW id \in Nat
  PROVE  Observe(t, id) \in TallyType
  BY DEF Observe, TallyType, NoTally

\* What an inspect leaves of what was known are containers again.
LEMMA MergeType ==
  ASSUME SlotTypes, NEW k \in [Slots -> Copy], \A n \in Slots : CopyOK(k[n]), NEW ids
  PROVE  LET m == MergeInspected(k, ids)
         IN  m \in [Slots -> Copy] /\ \A n \in Slots : CopyOK(m[n])
<1>1. Empty \in Copy /\ CopyOK(Empty)
  BY DEF SlotTypes, Empty, Copy, CopyOK
<1> QED
  BY <1>1 DEF SlotTypes, MergeInspected

LEMMA InitSlots == Init => SlotsInv
<1> SUFFICES ASSUME Init PROVE SlotsInv
  OBVIOUS
<1> USE DEF Init
<1>1. SlotTypes
  <2>1. nextId \in Nat /\ routes \subseteq 1..nextId
    BY Numbering
  <2>2. slot \in [Slots -> Copy]
    BY Numbering DEF Copy
  <2>3. \A n \in Slots : CopyOK(slot[n])
    BY Numbering DEF CopyOK
  <2> QED
    BY <2>1, <2>2, <2>3 DEF SlotTypes, Idle
<1>2. WatchTypes
  BY Numbering DEF WatchTypes, Copy, CopyOK, Empty, NoTally
<1>3. LockInv
  BY LockValues DEF LockInv, Holding, Idle
<1>4. FlightInv
  BY DEF FlightInv
<1>5. RemovedInv
  BY DEF RemovedInv, StaysRemoved
<1>6. Present = Slots /\ IdsOf(Present) = Slots
  BY DEF Present, IdsOf
<1>7. RouteInv
  BY <1>6 DEF RouteInv, RoutedExist, Idle
<1> QED
  BY <1>1, <1>2, <1>3, <1>4, <1>5, <1>7 DEF SlotsInv

\* The running copies have ids that were handed out, and are there.
LEMMA RunningIds ==
  ASSUME SlotTypes
  PROVE  IdsOf(Up) \subseteq 1..nextId /\ IdsOf(Up) \subseteq IdsOf(Present) /\ Present \subseteq Slots
<1>1. \A n \in Up : n \in Present /\ n \in Slots /\ slot[n].id \in 1..nextId
  BY DEF SlotTypes, CopyOK, Copy, Up, Present
<1> QED
  BY <1>1 DEF IdsOf, Present

\* A thread that is asked for was not running: its slot had no restart in flight.
LEMMA DispatchSlots == SlotsInv /\ DispatchRestarts => SlotsInv'
<1> SUFFICES ASSUME SlotsInv, DispatchRestarts PROVE SlotsInv'
  OBVIOUS
<1> USE DEF SlotsInv, engine, watch, bounds, history
<1>1. UNCHANGED <<slot, nextId, routes, lock, op, mode, feed, stream, tally, reports, history>>
  BY DEF DispatchRestarts
<1>2. cands' = {} /\ step' = "idle"
  BY DEF DispatchRestarts
<1>3. CASE UNCHANGED <<known, inFlight, thread>>
  BY <1>1, <1>2, <1>3 DEF SlotTypes, WatchTypes, CopyOK, LockInv, FlightInv, ReportsOf, RemovedInv,
     StaysRemoved, RouteInv, RoutedExist, IdsOf, Present
<1>4. ASSUME NEW go \in SUBSET cands,
             known' = MergeInspected(known, {known[n].id : n \in cands}),
             inFlight' = [n \in Slots |-> IF n \in go THEN known[n].id ELSE inFlight[n]],
             thread' = [n \in Slots |-> IF n \in go THEN "lock" ELSE thread[n]]
      PROVE  SlotsInv'
  <2>1. known' \in [Slots -> Copy] /\ \A n \in Slots : CopyOK(known[n])'
    <3>1. \A n \in Slots : CopyOK(known'[n])
      BY <1>4, MergeType DEF WatchTypes
    <3> QED
      BY <1>1, <1>4, <3>1, MergeType DEF WatchTypes, CopyOK
  <2>2. \A n \in go : n \in Slots /\ known[n].id # 0 /\ inFlight[n] = 0 /\ thread[n] = "none" /\ ReportsOf(n) = {}
    BY DEF WatchTypes, SlotTypes, FlightInv, ReportsOf, CopyOK
  <2>3. SlotTypes'
    BY <1>1, <1>4 DEF SlotTypes, CopyOK
  <2>4. WatchTypes'
    <3>1. inFlight' \in [Slots -> Nat] /\ \A n \in Slots : inFlight'[n] <= nextId
      BY <1>4, <2>2 DEF WatchTypes, CopyOK, Copy
    <3> QED
      BY <1>1, <1>2, <2>1, <3>1 DEF WatchTypes
  <2>5. LockInv'
    BY <1>1, <1>4, <2>2 DEF SlotTypes, LockInv, Holding
  <2>6. FlightInv'
    BY <1>1, <1>2, <1>4, <2>2 DEF SlotTypes, WatchTypes, FlightInv, ReportsOf
  <2>7. RemovedInv' /\ RouteInv'
    BY <1>1, <1>4 DEF SlotTypes, RemovedInv, StaysRemoved, RouteInv, RoutedExist, IdsOf, Present
  <2> QED
    BY <2>3, <2>4, <2>5, <2>6, <2>7
<1> QED
  BY <1>3, <1>4 DEF DispatchRestarts

LEMMA EventsSlots == SlotsInv /\ ApplyEvents => SlotsInv'
<1> SUFFICES ASSUME SlotsInv, ApplyEvents PROVE SlotsInv'
  OBVIOUS
<1> USE DEF SlotsInv, engine, watch, bounds, history
<1>1. UNCHANGED <<slot, nextId, routes, lock, op, mode, tally, inFlight, reports, cands, step, thread, history>>
  BY DEF ApplyEvents
<1>2. stream' = {} /\ feed' \in {"polling", "events", "ended"} /\ cands = {}
  BY DEF ApplyEvents, FlightInv, WatchTypes
<1>3. known' \in [Slots -> Copy] /\ \A n \in Slots : CopyOK(known'[n])
  BY MergeType DEF ApplyEvents, Drain, WatchTypes
<1>4. SlotTypes' /\ WatchTypes'
  BY <1>1, <1>2, <1>3 DEF SlotTypes, WatchTypes, CopyOK
<1>5. LockInv' /\ FlightInv' /\ RemovedInv' /\ RouteInv'
  BY <1>1, <1>2 DEF LockInv, FlightInv, ReportsOf, RemovedInv, StaysRemoved, RouteInv, RoutedExist, IdsOf, Present
<1> QED
  BY <1>4, <1>5

\* What the reports leave of what was known and of the tally has its type.
LEMMA AfterTypes ==
  ASSUME SlotsInv
  PROVE  /\ KnownAfter \in [Slots -> Copy] /\ \A n \in Slots : CopyOK(KnownAfter[n])
         /\ TallyAfter \in [Slots -> TallyType]
<1>1. Empty \in Copy /\ CopyOK(Empty)
  BY DEF SlotsInv, SlotTypes, Empty, Copy, CopyOK
<1>2. KnownAfter \in [Slots -> Copy] /\ \A n \in Slots : CopyOK(KnownAfter[n])
  BY <1>1 DEF SlotsInv, WatchTypes, KnownAfter
<1>3. \A n \in Slots : tally[n] \in TallyType
  BY DEF SlotsInv, WatchTypes, TallyType
<1>4. \A n \in Slots : RecordRestart(tally[n]) \in TallyType
  BY <1>3, RecordType
<1>5. \A n \in Slots : [tally[n] EXCEPT !.ticks = IF @ > 0 THEN @ - 1 ELSE 0] \in TallyType
  BY <1>3 DEF TallyType
<1>6. TallyAfter \in [Slots -> TallyType]
  BY <1>4, <1>5 DEF TallyAfter
<1> QED
  BY <1>2, <1>6

LEMMA ObserveCopiesType ==
  ASSUME NEW k \in [Slots -> Copy], NEW t \in [Slots -> TallyType], NEW flying
  PROVE  ObserveCopies(k, t, flying) \in [Slots -> TallyType]
<1>1. NoTally \in TallyType
  BY DEF NoTally, TallyType
<1>2. \A n \in Slots : Observe(t[n], k[n].id) \in TallyType
  BY ObserveType DEF Copy
<1> QED
  BY <1>1, <1>2 DEF ObserveCopies

\* What a tick does, with the listing, or what it left of the events, as k.
LEMMA TickSteps ==
  ASSUME SlotsInv, NEW listing \in BOOLEAN, Tick(listing)
  PROVE  /\ UNCHANGED <<slot, nextId, routes, lock, op, thread, history>>
         /\ reports' = {} /\ stream' = {} /\ mode' = "adopted"
         /\ feed' \in {"polling", "events", "ended"}
         /\ inFlight' = [n \in Slots |-> IF ReportsOf(n) = {} THEN inFlight[n] ELSE 0]
         /\ known' \in {slot, KnownAfter, MergeInspected(KnownAfter, stream)}
         /\ tally' = ObserveCopies(known', TallyAfter, inFlight')
         /\ cands' = FindCandidates(known', tally', inFlight')
         /\ step' = IF cands' = {} THEN "idle" ELSE "dispatch"
<1> USE DEF engine, history
<1>1. PICK listed \in BOOLEAN, inspected \in BOOLEAN :
        LET f == IF feed = "ended" THEN "polling" ELSE feed
            d == IF mode = "adopted" /\ inspected THEN Drain(KnownAfter) ELSE KnownAfter
            k == IF listed THEN slot ELSE d
        IN  /\ known' = k
            /\ feed' \in (IF listing THEN MatchFeed(f, k) ELSE {f})
            /\ tally' = ObserveCopies(k, TallyAfter, inFlight')
            /\ cands' = FindCandidates(k, tally', inFlight')
  BY DEF Tick
<1>2. feed' \in {"polling", "events", "ended"}
  BY <1>1 DEF SlotsInv, WatchTypes, MatchFeed
<1>3. known' \in {slot, KnownAfter, MergeInspected(KnownAfter, stream)}
  BY <1>1 DEF Drain
<1>4. tally' = ObserveCopies(known', TallyAfter, inFlight') /\ cands' = FindCandidates(known', tally', inFlight')
  BY <1>1
<1> QED
  BY <1>2, <1>3, <1>4 DEF Tick

LEMMA TickSlots ==
  ASSUME SlotsInv, NEW listing \in BOOLEAN, Tick(listing)
  PROVE  SlotsInv'
<1> USE TickSteps DEF SlotsInv, history
<1>1. known' \in [Slots -> Copy] /\ \A n \in Slots : CopyOK(known'[n])
  BY MergeType, AfterTypes DEF SlotTypes
<1>2. tally' \in [Slots -> TallyType]
  BY <1>1, AfterTypes, ObserveCopiesType
<1>3. cands' \subseteq Slots /\ \A n \in cands' : inFlight'[n] = 0 /\ known'[n].st = "exited"
  BY DEF FindCandidates
<1>4. SlotTypes'
  BY DEF SlotTypes, CopyOK
<1>5. WatchTypes'
  <2>1. inFlight' \in [Slots -> Nat] /\ \A n \in Slots : inFlight'[n] <= nextId
    BY DEF SlotTypes, WatchTypes
  <2>2. \A n \in Slots : CopyOK(known[n])'
    BY <1>1 DEF CopyOK
  <2>3. step' \in {"idle", "dispatch"} /\ reports' = {} /\ mode' = "adopted"
    OBVIOUS
  <2>4. tally' \in [Slots -> [id : Nat, count : Nat, ticks : Nat, expects : BOOLEAN]]
    BY <1>2 DEF TallyType
  <2>5. nextId' = nextId /\ feed' \in {"polling", "events", "ended"}
    OBVIOUS
  <2> HIDE TickSteps
  <2> QED
    BY <1>1, <1>3, <2>1, <2>2, <2>3, <2>4, <2>5 DEF WatchTypes
<1>6. FlightInv'
  BY <1>3 DEF FlightInv, ReportsOf
<1>7. LockInv' /\ RemovedInv' /\ RouteInv'
  BY DEF LockInv, RemovedInv, StaysRemoved, RouteInv, RoutedExist, IdsOf, Present
<1> QED
  BY <1>4, <1>5, <1>6, <1>7

LEMMA StepSlots == SlotsInv /\ [Next]_vars => SlotsInv'
<1> SUFFICES ASSUME SlotsInv, [Next]_vars PROVE SlotsInv'
  OBVIOUS
<1> USE DEF SlotsInv, engine, watch, bounds, history
<1>1. CASE OpenWatch
  <2>1. SlotTypes'
    BY <1>1, LockValues DEF SlotTypes, CopyOK, Copy, Holding, OpenWatch
  <2>2. WatchTypes'
    BY <1>1 DEF SlotTypes, WatchTypes, CopyOK, Outcomes, Copy, OpenWatch
  <2>3. LockInv'
    BY <1>1, LockValues DEF SlotTypes, LockInv, Holding, OpenWatch
  <2>4. FlightInv'
    BY <1>1, LockValues DEF SlotTypes, WatchTypes, FlightInv, ReportsOf, OpenWatch
  <2>5. RemovedInv'
    BY <1>1, LockValues DEF SlotTypes, LockInv, RemovedInv, StaysRemoved, Holding, OpenWatch
  <2>6. RouteInv'
    BY <1>1, LockValues DEF SlotTypes, LockInv, RouteInv, RoutedExist, IdsOf, Present, Up, Holding, OpenWatch
  <2> QED
    BY <2>1, <2>2, <2>3, <2>4, <2>5, <2>6 DEF SlotsInv
<1>2. CASE DispatchRestarts
  BY <1>2, DispatchSlots
<1>3. CASE ApplyEvents
  BY <1>3, EventsSlots
<1>4. ASSUME NEW listing \in BOOLEAN, Tick(listing) PROVE SlotsInv'
  BY <1>4, TickSlots
<1>5. CASE BeginRollout
  <2>1. SlotTypes'
    <3>1. op' \in [kind : {"none", "fill", "empty", "stop"}, todo : SUBSET Slots]
      BY <1>5, RunningIds DEF SlotTypes, BeginRollout
    <3>2. lock' = Command
      BY <1>5 DEF BeginRollout
    <3>3. UNCHANGED <<slot, nextId, routes, stream, thread, removed, misrouted>>
      BY <1>5 DEF BeginRollout
    <3> QED
      BY <3>1, <3>2, <3>3 DEF SlotTypes, CopyOK
  <2>2. WatchTypes'
    BY <1>5 DEF SlotTypes, WatchTypes, CopyOK, Outcomes, Copy, BeginRollout
  <2>3. LockInv'
    BY <1>5, LockValues DEF SlotTypes, LockInv, Holding, BeginRollout
  <2>4. FlightInv'
    BY <1>5, LockValues DEF SlotTypes, WatchTypes, FlightInv, ReportsOf, BeginRollout
  <2>5. RemovedInv'
    BY <1>5, LockValues DEF SlotTypes, LockInv, RemovedInv, StaysRemoved, Holding, BeginRollout
  <2>6. RouteInv'
    BY <1>5, LockValues DEF SlotTypes, LockInv, RouteInv, RoutedExist, IdsOf, Present, Up, Holding, BeginRollout
  <2> QED
    BY <2>1, <2>2, <2>3, <2>4, <2>5, <2>6 DEF SlotsInv
<1>6. CASE BeginStop
  <2>1. SlotTypes'
    <3>1. op' \in [kind : {"none", "fill", "empty", "stop"}, todo : SUBSET Slots]
      BY <1>6, RunningIds DEF SlotTypes, BeginStop
    <3>2. lock' \in {Nobody, Command, lock} /\ routes' \in {routes, {}} /\ misrouted' \in BOOLEAN
      BY <1>6 DEF SlotTypes, BeginStop
    <3>3. UNCHANGED <<slot, nextId, stream, thread, removed>>
      BY <1>6 DEF BeginStop
    <3> QED
      BY <3>1, <3>2, <3>3 DEF SlotTypes, CopyOK
  <2>2. WatchTypes'
    BY <1>6 DEF SlotTypes, WatchTypes, CopyOK, Outcomes, Copy, BeginStop
  <2>3. LockInv'
    BY <1>6, LockValues DEF SlotTypes, LockInv, Holding, BeginStop
  <2>4. FlightInv'
    BY <1>6, LockValues DEF SlotTypes, WatchTypes, FlightInv, ReportsOf, BeginStop
  <2>5. RemovedInv'
    BY <1>6, LockValues DEF SlotTypes, LockInv, RemovedInv, StaysRemoved, Holding, BeginStop
  <2>6. RouteInv'
    BY <1>6, LockValues DEF SlotTypes, LockInv, RouteInv, RoutedExist, IdsOf, Present, Up, Holding, BeginStop
  <2> QED
    BY <2>1, <2>2, <2>3, <2>4, <2>5, <2>6 DEF SlotsInv
<1>7. CASE EndCommand
  <2>1. SlotTypes'
    BY <1>7, RunningIds DEF SlotTypes, CopyOK, Holding, EndCommand, Idle
  <2>2. WatchTypes'
    BY <1>7 DEF SlotTypes, WatchTypes, CopyOK, Outcomes, Copy, EndCommand, Idle
  <2>3. LockInv'
    BY <1>7, LockValues DEF SlotTypes, LockInv, Holding, EndCommand, Idle
  <2>4. FlightInv'
    BY <1>7, LockValues DEF SlotTypes, WatchTypes, FlightInv, ReportsOf, EndCommand, Idle
  <2>5. RemovedInv'
    BY <1>7, LockValues DEF SlotTypes, LockInv, RemovedInv, StaysRemoved, Holding, EndCommand, Idle
  <2>6. RouteInv'
    <3>1. \A m \in Slots : thread[m] \notin Holding
      BY <1>7, LockValues DEF SlotTypes, LockInv, EndCommand
    <3>2. thread' = thread /\ op'.kind = "none" /\ slot' = slot /\ IdsOf(Present)' = IdsOf(Present)
      BY <1>7 DEF EndCommand, Idle, IdsOf, Present
    <3>3. ~misrouted' => routes' \subseteq IdsOf(Present)
      BY <1>7, RunningIds DEF RouteInv, EndCommand
    <3> QED
      BY <3>1, <3>2, <3>3 DEF RouteInv, RoutedExist, Holding
  <2> QED
    BY <2>1, <2>2, <2>3, <2>4, <2>5, <2>6 DEF SlotsInv
<1>8. ASSUME NEW n \in Slots, RemoveCopy(n) PROVE SlotsInv'
  <2>1. SlotTypes'
    BY <1>8, LockValues DEF SlotTypes, CopyOK, Copy, Holding, RemoveCopy, Empty, Emit
  <2>2. WatchTypes'
    BY <1>8 DEF SlotTypes, WatchTypes, CopyOK, Outcomes, Copy, RemoveCopy, Empty, Emit
  <2>3. LockInv'
    BY <1>8, LockValues DEF SlotTypes, LockInv, Holding, RemoveCopy, Empty, Emit
  <2>4. FlightInv'
    BY <1>8, LockValues DEF SlotTypes, WatchTypes, FlightInv, ReportsOf, RemoveCopy, Empty, Emit
  <2>5. RemovedInv'
    BY <1>8, LockValues DEF SlotTypes, LockInv, RemovedInv, StaysRemoved, Holding, RemoveCopy, Empty, Emit
  <2>6. RouteInv'
    BY <1>8, LockValues DEF SlotTypes, LockInv, RouteInv, RoutedExist, IdsOf, Present, Up, Holding, RemoveCopy, Empty, Emit
  <2> QED
    BY <2>1, <2>2, <2>3, <2>4, <2>5, <2>6 DEF SlotsInv
<1>9. ASSUME NEW n \in Slots, StartCopy(n) PROVE SlotsInv'
  <2>1. SlotTypes'
    BY <1>9, LockValues DEF SlotTypes, CopyOK, Copy, Holding, StartCopy, Create, Emit
  <2>2. WatchTypes'
    BY <1>9 DEF SlotTypes, WatchTypes, CopyOK, Outcomes, Copy, StartCopy, Create, Emit
  <2>3. LockInv'
    BY <1>9, LockValues DEF SlotTypes, LockInv, Holding, StartCopy, Create, Emit
  <2>4. FlightInv'
    BY <1>9, LockValues DEF SlotTypes, WatchTypes, FlightInv, ReportsOf, StartCopy, Create, Emit
  <2>5. RemovedInv'
    BY <1>9, LockValues DEF SlotTypes, LockInv, RemovedInv, StaysRemoved, Holding, StartCopy, Create, Emit
  <2>6. RouteInv'
    BY <1>9, LockValues DEF SlotTypes, LockInv, RouteInv, RoutedExist, IdsOf, Present, Up, Holding, StartCopy, Create, Emit
  <2> QED
    BY <2>1, <2>2, <2>3, <2>4, <2>5, <2>6 DEF SlotsInv
<1>10. ASSUME NEW n \in Slots, TakeLock(n) PROVE SlotsInv'
  <2>1. SlotTypes'
    BY <1>10, LockValues DEF SlotTypes, CopyOK, Copy, Holding, TakeLock, Finish, Held, Goto
  <2>2. WatchTypes'
    BY <1>10 DEF SlotTypes, WatchTypes, CopyOK, Outcomes, Copy, TakeLock, Finish, Held, Goto
  <2>3. LockInv'
    BY <1>10, LockValues DEF SlotTypes, LockInv, Holding, TakeLock, Finish, Held, Goto
  <2>4. FlightInv'
    BY <1>10, LockValues DEF SlotTypes, WatchTypes, FlightInv, ReportsOf, TakeLock, Finish, Held, Goto
  <2>5. RemovedInv'
    BY <1>10, LockValues DEF SlotTypes, LockInv, RemovedInv, StaysRemoved, Holding, TakeLock, Finish, Held, Goto
  <2>6. RouteInv'
    BY <1>10, LockValues DEF SlotTypes, LockInv, RouteInv, RoutedExist, IdsOf, Present, Up, Holding, TakeLock, Finish, Held, Goto
  <2> QED
    BY <2>1, <2>2, <2>3, <2>4, <2>5, <2>6 DEF SlotsInv
<1>11. ASSUME NEW n \in Slots, RemoveDead(n) PROVE SlotsInv'
  <2>1. SlotTypes'
    BY <1>11, LockValues DEF SlotTypes, CopyOK, Copy, Holding, RemoveDead, DeadCopy, Delete, Emit, Finish, Held, Goto, Empty
  <2>2. WatchTypes'
    BY <1>11 DEF SlotTypes, WatchTypes, CopyOK, Outcomes, Copy, RemoveDead, DeadCopy, Delete, Emit, Finish, Held, Goto, Empty
  <2>3. LockInv'
    BY <1>11, LockValues DEF SlotTypes, LockInv, Holding, RemoveDead, DeadCopy, Delete, Emit, Finish, Held, Goto, Empty
  <2>4. FlightInv'
    BY <1>11, LockValues DEF SlotTypes, WatchTypes, FlightInv, ReportsOf, RemoveDead, DeadCopy, Delete, Emit, Finish, Held, Goto, Empty
  <2>5. RemovedInv'
    BY <1>11, LockValues DEF SlotTypes, LockInv, RemovedInv, StaysRemoved, Holding, RemoveDead, DeadCopy, Delete, Emit, Finish, Held, Goto, Empty
  <2>6. RouteInv'
    BY <1>11, LockValues DEF SlotTypes, LockInv, RouteInv, RoutedExist, IdsOf, Present, Up, Holding, RemoveDead, DeadCopy, Delete, Emit, Finish, Held, Goto, Empty
  <2> QED
    BY <2>1, <2>2, <2>3, <2>4, <2>5, <2>6 DEF SlotsInv
<1>12. ASSUME NEW n \in Slots, StartSlot(n) PROVE SlotsInv'
  <2>1. SlotTypes'
    BY <1>12, LockValues DEF SlotTypes, CopyOK, Copy, Holding, StartSlot, Create, Emit, Goto
  <2>2. WatchTypes'
    BY <1>12 DEF SlotTypes, WatchTypes, CopyOK, Outcomes, Copy, StartSlot, Create, Emit, Goto
  <2>3. LockInv'
    BY <1>12, LockValues DEF SlotTypes, LockInv, Holding, StartSlot, Create, Emit, Goto
  <2>4. FlightInv'
    BY <1>12, LockValues DEF SlotTypes, WatchTypes, FlightInv, ReportsOf, StartSlot, Create, Emit, Goto
  <2>5. RemovedInv'
    BY <1>12, LockValues DEF SlotTypes, LockInv, RemovedInv, StaysRemoved, Holding, StartSlot, Create, Emit, Goto
  <2>6. RouteInv'
    BY <1>12, LockValues DEF SlotTypes, LockInv, RouteInv, RoutedExist, IdsOf, Present, Up, Holding, StartSlot, Create, Emit, Goto
  <2> QED
    BY <2>1, <2>2, <2>3, <2>4, <2>5, <2>6 DEF SlotsInv
<1>13. ASSUME NEW n \in Slots, WaitHealthy(n) PROVE SlotsInv'
  <2>1. SlotTypes'
    BY <1>13, LockValues DEF SlotTypes, CopyOK, Copy, Holding, WaitHealthy, Delete, Emit, Goto, Empty
  <2>2. WatchTypes'
    BY <1>13 DEF SlotTypes, WatchTypes, CopyOK, Outcomes, Copy, WaitHealthy, Delete, Emit, Goto, Empty
  <2>3. LockInv'
    BY <1>13, LockValues DEF SlotTypes, LockInv, Holding, WaitHealthy, Delete, Emit, Goto, Empty
  <2>4. FlightInv'
    BY <1>13, LockValues DEF SlotTypes, WatchTypes, FlightInv, ReportsOf, WaitHealthy, Delete, Emit, Goto, Empty
  <2>5. RemovedInv'
    BY <1>13, LockValues DEF SlotTypes, LockInv, RemovedInv, StaysRemoved, Holding, WaitHealthy, Delete, Emit, Goto, Empty
  <2>6. RouteInv'
    BY <1>13, LockValues DEF SlotTypes, LockInv, RouteInv, RoutedExist, IdsOf, Present, Up, Holding, WaitHealthy, Delete, Emit, Goto, Empty
  <2> QED
    BY <2>1, <2>2, <2>3, <2>4, <2>5, <2>6 DEF SlotsInv
<1>14. ASSUME NEW n \in Slots, ReconfigureRouter(n) PROVE SlotsInv'
  <2>1. SlotTypes'
    BY <1>14, RunningIds DEF SlotTypes, CopyOK, Holding, ReconfigureRouter, Configure, Finish, Held, Goto
  <2>2. WatchTypes'
    BY <1>14 DEF SlotTypes, WatchTypes, CopyOK, Outcomes, Copy, ReconfigureRouter, Configure, Finish, Held, Goto
  <2>3. LockInv'
    BY <1>14, LockValues DEF SlotTypes, LockInv, Holding, ReconfigureRouter, Configure, Finish, Held, Goto
  <2>4. FlightInv'
    BY <1>14, LockValues DEF SlotTypes, WatchTypes, FlightInv, ReportsOf, ReconfigureRouter, Configure, Finish, Held, Goto
  <2>5. RemovedInv'
    BY <1>14, LockValues DEF SlotTypes, LockInv, RemovedInv, StaysRemoved, Holding, ReconfigureRouter, Configure, Finish, Held, Goto
  <2>6. RouteInv'
    BY <1>14, LockValues DEF SlotTypes, LockInv, RouteInv, RoutedExist, IdsOf, Present, Up, Holding, ReconfigureRouter, Configure, Finish, Held, Goto
  <2> QED
    BY <2>1, <2>2, <2>3, <2>4, <2>5, <2>6 DEF SlotsInv
<1>15. ASSUME NEW n \in Slots, RerouteAfterFailure(n) PROVE SlotsInv'
  <2>1. SlotTypes'
    BY <1>15, RunningIds DEF SlotTypes, CopyOK, Holding, RerouteAfterFailure, Configure, Finish, Held, Goto
  <2>2. WatchTypes'
    BY <1>15 DEF SlotTypes, WatchTypes, CopyOK, Outcomes, Copy, RerouteAfterFailure, Configure, Finish, Held, Goto
  <2>3. LockInv'
    BY <1>15, LockValues DEF SlotTypes, LockInv, Holding, RerouteAfterFailure, Configure, Finish, Held, Goto
  <2>4. FlightInv'
    BY <1>15, LockValues DEF SlotTypes, WatchTypes, FlightInv, ReportsOf, RerouteAfterFailure, Configure, Finish, Held, Goto
  <2>5. RemovedInv'
    BY <1>15, LockValues DEF SlotTypes, LockInv, RemovedInv, StaysRemoved, Holding, RerouteAfterFailure, Configure, Finish, Held, Goto
  <2>6. RouteInv'
    BY <1>15, LockValues DEF SlotTypes, LockInv, RouteInv, RoutedExist, IdsOf, Present, Up, Holding, RerouteAfterFailure, Configure, Finish, Held, Goto
  <2> QED
    BY <2>1, <2>2, <2>3, <2>4, <2>5, <2>6 DEF SlotsInv
<1>16. ASSUME NEW n \in Slots, Exit(n) PROVE SlotsInv'
  <2>1. SlotTypes'
    <3>1. PICK c \in {0, 1} : slot' = [slot EXCEPT ![n].st = "exited", ![n].code = c]
      BY <1>16 DEF Exit
    <3> DEFINE c2 == [slot[n] EXCEPT !.st = "exited", !.code = c]
    <3>4. slot' = [slot EXCEPT ![n] = c2] /\ c2 \in Copy /\ c2.id = slot[n].id
      BY <3>1 DEF SlotTypes, Copy
    <3>5. slot[n].st = "up"
      BY <1>16 DEF Exit
    <3>2. slot' \in [Slots -> Copy] /\ \A m \in Slots : CopyOK(slot[m])'
      <4> HIDE DEF c2
      <4> QED
        BY <1>16, <3>4, <3>5 DEF SlotTypes, CopyOK, Exit
    <3>3. stream' \subseteq 1..nextId
      BY <1>16 DEF SlotTypes, Copy, CopyOK, Exit, Emit
    <3> QED
      BY <1>16, <3>2, <3>3 DEF SlotTypes, Exit
  <2>2. WatchTypes'
    BY <1>16 DEF SlotTypes, WatchTypes, CopyOK, Outcomes, Copy, Exit, Emit
  <2>3. LockInv'
    BY <1>16, LockValues DEF SlotTypes, LockInv, Holding, Exit, Emit
  <2>4. FlightInv'
    BY <1>16, LockValues DEF SlotTypes, WatchTypes, FlightInv, ReportsOf, Exit, Emit
  <2>5. RemovedInv'
    BY <1>16, LockValues DEF SlotTypes, LockInv, RemovedInv, StaysRemoved, Holding, Exit, Emit
  <2>6. RouteInv'
    BY <1>16, LockValues DEF SlotTypes, LockInv, RouteInv, RoutedExist, IdsOf, Present, Up, Holding, Exit, Emit
  <2> QED
    BY <2>1, <2>2, <2>3, <2>4, <2>5, <2>6 DEF SlotsInv
<1>17. CASE StreamEnds
  <2>1. SlotTypes'
    BY <1>17, LockValues DEF SlotTypes, CopyOK, Copy, Holding, StreamEnds
  <2>2. WatchTypes'
    BY <1>17 DEF SlotTypes, WatchTypes, CopyOK, Outcomes, Copy, StreamEnds
  <2>3. LockInv'
    BY <1>17, LockValues DEF SlotTypes, LockInv, Holding, StreamEnds
  <2>4. FlightInv'
    BY <1>17, LockValues DEF SlotTypes, WatchTypes, FlightInv, ReportsOf, StreamEnds
  <2>5. RemovedInv'
    BY <1>17, LockValues DEF SlotTypes, LockInv, RemovedInv, StaysRemoved, Holding, StreamEnds
  <2>6. RouteInv'
    BY <1>17, LockValues DEF SlotTypes, LockInv, RouteInv, RoutedExist, IdsOf, Present, Up, Holding, StreamEnds
  <2> QED
    BY <2>1, <2>2, <2>3, <2>4, <2>5, <2>6 DEF SlotsInv
<1>18. CASE Crash
  <2>1. SlotTypes'
    BY <1>18, LockValues DEF SlotTypes, CopyOK, Copy, Holding, Crash, Empty, NoTally, Held
  <2>2. WatchTypes'
    BY <1>18 DEF SlotTypes, WatchTypes, CopyOK, Outcomes, Copy, Crash, Empty, NoTally, Held
  <2>3. LockInv'
    BY <1>18, LockValues DEF SlotTypes, LockInv, Holding, Crash, Empty, NoTally, Held
  <2>4. FlightInv'
    BY <1>18, LockValues DEF SlotTypes, WatchTypes, FlightInv, ReportsOf, Crash, Empty, NoTally, Held
  <2>5. RemovedInv'
    BY <1>18, LockValues DEF SlotTypes, LockInv, RemovedInv, StaysRemoved, Holding, Crash, Empty, NoTally, Held
  <2>6. RouteInv'
    <3>1. lock' = Nobody /\ ~misrouted' => lock = Nobody /\ ~misrouted
      BY <1>18, LockValues, Zenon DEF SlotTypes, Crash, Held
    <3>2. \A n \in Slots : thread'[n] = "none"
      BY <1>18 DEF Crash
    <3> QED
      BY <1>18, <3>1, <3>2 DEF RouteInv, RoutedExist, Crash, IdsOf, Present, engine
  <2> QED
    BY <2>1, <2>2, <2>3, <2>4, <2>5, <2>6 DEF SlotsInv
<1>19. CASE UNCHANGED vars
  BY <1>19 DEF vars, engine, watch, bounds, history, SlotsInv, SlotTypes, WatchTypes, CopyOK, LockInv,
     FlightInv, ReportsOf, RemovedInv, StaysRemoved, RouteInv, RoutedExist, IdsOf, Present
<1> QED
  BY <1>1, <1>2, <1>3, <1>4, <1>5, <1>6, <1>7, <1>8, <1>9, <1>10, <1>11, <1>12, <1>13, <1>14, <1>15, <1>16, <1>17, <1>18, <1>19 DEF Next, Watch, Commands, Restart

\* A copy that a command removed is not brought back, and the router sends to
\* containers that exist, for every number of slots, exits, commands and faults.
THEOREM SlotsStayConsistent == Spec => []SlotsConsistent
<1>1. SlotsInv => SlotsConsistent
  BY DEF SlotsInv, SlotTypes, WatchTypes, RemovedInv, RouteInv, SlotsConsistent, TypeOK, Copy, Outcomes
<1> QED
  BY <1>1, InitSlots, StepSlots, PTL DEF Spec

-----------------------------------------------------------------------------
\* A step that leaves all that belongs to a slot leaves its count.
LEMMA Untouched ==
  ASSUME NEW n \in Slots, CountOK(n),
         slot'[n] = slot[n], known'[n] = known[n], tally'[n] = tally[n], inFlight'[n] = inFlight[n],
         thread'[n] = thread[n], restarts'[n] = restarts[n], ReportsOf(n)' = ReportsOf(n),
         n \in cands' => n \in cands, n \in crossed' <=> n \in crossed
  PROVE  CountOK(n)'
  BY DEF CountOK, Tracked, Extra, Limited

LEMMA InitCount == Init => CountInv
  BY SlotsAssumption, LimitAssumption
     DEF Init, CountInv, CountTypes, CountOK, ReportsOf, Limited, Extra, NoTally

\* Only the slot that a restart or a command works on changes its count.
LEMMA OthersUntouched ==
  ASSUME SlotsInv, CountInv, NEW n \in Slots, NEW m \in Slots, m # n, Restart(n) \/ RemoveCopy(n) \/ StartCopy(n) \/ Exit(n)
  PROVE  CountOK(m)'
<1> USE DEF engine, watch, bounds, history
<1>1. slot'[m] = slot[m] /\ known'[m] = known[m] /\ tally'[m] = tally[m] /\ inFlight'[m] = inFlight[m]
  BY DEF SlotsInv, SlotTypes, Restart, TakeLock, RemoveDead, StartSlot, WaitHealthy, ReconfigureRouter, RerouteAfterFailure,
     Configure, Finish, Create, Delete, RemoveCopy, StartCopy, Exit
<1>2. thread'[m] = thread[m]
  BY DEF SlotsInv, SlotTypes, Restart, TakeLock, RemoveDead, StartSlot, WaitHealthy, ReconfigureRouter, RerouteAfterFailure,
     Configure, Finish, Goto, RemoveCopy, StartCopy, Exit
<1>3. restarts'[m] = restarts[m] /\ (m \in crossed' <=> m \in crossed) /\ cands' = cands
  BY DEF CountInv, CountTypes, Restart, TakeLock, RemoveDead, StartSlot, WaitHealthy, ReconfigureRouter, RerouteAfterFailure,
     RemoveCopy, StartCopy, Exit
<1>4. ReportsOf(m)' = ReportsOf(m)
  <2>1. reports' = reports \/ \E r : reports' = reports \union {r} /\ r.n = n
    BY DEF Restart, TakeLock, RemoveDead, StartSlot, WaitHealthy, ReconfigureRouter, RerouteAfterFailure,
       Configure, Finish, RemoveCopy, StartCopy, Exit
  <2> QED
    BY <2>1 DEF ReportsOf
<1> QED
  BY <1>1, <1>2, <1>3, <1>4, Untouched DEF CountInv

\* What was known of a slot and an inspect of its engine state agree again on what
\* is there: known is left, forgotten, or what the slot holds.
LEMMA MergeKeepsHere ==
  ASSUME NEW k, NEW ids, NEW n \in Slots
  PROVE  LET m == MergeInspected(k, ids)
         IN  m[n] \in {slot[n], Empty, k[n]} /\ (k[n].id = slot[n].id => m[n].id = slot[n].id)
  BY DEF MergeInspected

\* What the watch learns between ticks changes no count.
LEMMA EventsCount ==
  ASSUME SlotsInv, CountInv, ApplyEvents, NEW n \in Slots
  PROVE  CountOK(n)'
<1>1. UNCHANGED <<slot, tally, inFlight, reports, cands, thread, restarts, crossed>> /\ cands = {}
  BY DEF ApplyEvents, SlotsInv, FlightInv, engine, history
<1>2. known'[n] \in {slot[n], Empty, known[n]} /\ (known[n].id = slot[n].id => known'[n].id = slot[n].id)
  BY MergeKeepsHere DEF ApplyEvents, Drain
<1>3. ReportsOf(n)' = ReportsOf(n) /\ CountOK(n) /\ Empty.id = 0
  BY <1>1 DEF ReportsOf, CountInv, Empty
<1> QED
  BY <1>1, <1>2, <1>3 DEF CountOK, Tracked, Extra, Limited

\* A restart is asked for with the container that the slot holds, dead.
LEMMA DispatchCount ==
  ASSUME SlotsInv, CountInv, DispatchRestarts, NEW n \in Slots
  PROVE  CountOK(n)'
<1>1. UNCHANGED <<slot, tally, reports, restarts, crossed>> /\ cands' = {}
  BY DEF DispatchRestarts, engine, history
<1>2. ReportsOf(n)' = ReportsOf(n) /\ CountOK(n) /\ Empty.id = 0 /\ Empty.st = "none"
  BY <1>1 DEF ReportsOf, CountInv, Empty
<1>3. known'[n] \in {slot[n], Empty, known[n]} /\ (known[n].id = slot[n].id => known'[n].id = slot[n].id)
  BY MergeKeepsHere DEF DispatchRestarts
<1>4. CASE inFlight'[n] = inFlight[n] /\ thread'[n] = thread[n]
  BY <1>1, <1>2, <1>3, <1>4 DEF CountOK, Tracked, Extra, Limited
<1>5. CASE ~(inFlight'[n] = inFlight[n] /\ thread'[n] = thread[n])
  <2>1. /\ n \in cands /\ inFlight'[n] = known[n].id /\ thread'[n] = "lock"
        /\ known' = MergeInspected(known, {known[m].id : m \in cands})
        /\ known'[n].id = known[n].id /\ known'[n].st = "exited"
    BY <1>5 DEF DispatchRestarts, SlotsInv, SlotTypes, WatchTypes
  <2>2. known'[n] = slot[n] /\ slot[n].st = "exited" /\ known[n].id = slot[n].id
    BY <2>1, <1>2 DEF MergeInspected
  <2>3. inFlight[n] = 0 /\ ReportsOf(n) = {} /\ slot[n].id # 0 /\ tally[n].id = known[n].id
    BY <1>2, <2>1, <2>2 DEF SlotsInv, SlotTypes, FlightInv, ReportsOf, CopyOK, CountOK
  <2> QED
    BY <1>1, <1>2, <2>1, <2>2, <2>3 DEF CountOK, Tracked, Extra, Limited
<1> QED
  BY <1>4, <1>5

\* The steps of the restart of a slot.
LEMMA RestartCount ==
  ASSUME SlotsInv, CountInv, NEW n \in Slots, Restart(n)
  PROVE  CountOK(n)'
<1> USE DEF engine, history
<1>1. CountOK(n) /\ restarts[n] \in Nat /\ Limit \in Nat /\ tally[n].count \in Nat /\ inFlight[n] \in Nat /\ inFlight[n] <= nextId /\ nextId \in Nat
  BY LimitAssumption DEF CountInv, CountTypes, SlotsInv, SlotTypes, WatchTypes
<1>2. thread[n] # "none" => inFlight[n] # 0 /\ ReportsOf(n) = {}
  BY DEF SlotsInv, FlightInv
<1>3. UNCHANGED <<known, tally, inFlight, cands>>
  BY DEF Restart, TakeLock, RemoveDead, StartSlot, WaitHealthy, ReconfigureRouter, RerouteAfterFailure
<1>4. ASSUME NEW outcome \in Outcomes, Finish(n, outcome), thread[n] # "none", outcome = "gone" => slot[n].id # inFlight[n]
      PROVE  /\ thread'[n] = "none"
             /\ \A r \in ReportsOf(n)' : r.id = inFlight[n] /\ r.outcome = outcome
             /\ inFlight[n] # 0
  BY <1>2, <1>4 DEF Finish, Goto, ReportsOf, SlotsInv, SlotTypes
<1>5. CASE TakeLock(n)
  <2>1. UNCHANGED <<slot, restarts, crossed>> /\ thread[n] = "lock"
    BY <1>5 DEF TakeLock
  <2>2. CASE thread'[n] = "look" /\ reports' = reports
    BY <1>1, <1>2, <1>3, <2>1, <2>2 DEF CountOK, Tracked, Extra, Limited, ReportsOf
  <2>3. ASSUME NEW outcome \in {"busy", "error"}, Finish(n, outcome)
        PROVE  CountOK(n)'
    BY <1>1, <1>2, <1>3, <1>4, <2>1, <2>3 DEF CountOK, Tracked, Extra, Limited, Outcomes
  <2> QED
    BY <1>5, <2>2, <2>3 DEF TakeLock, Goto, SlotsInv, SlotTypes
<1>6. CASE RemoveDead(n)
  <2>1. UNCHANGED restarts /\ thread[n] = "look"
    BY <1>6 DEF RemoveDead
  <2>2. CASE DeadCopy(n) /\ Delete(n) /\ Goto(n, "start") /\ reports' = reports
             /\ crossed' = IF slot[n].id = inFlight[n] THEN crossed ELSE crossed \union {n}
    <3>1. slot'[n] = Empty /\ thread'[n] = "start" /\ slot[n].st = "exited" /\ ReportsOf(n)' = ReportsOf(n)
      BY <2>2 DEF Delete, Goto, DeadCopy, SlotsInv, SlotTypes, ReportsOf
    <3>2. slot[n].by \in {"op", "thread"}
      BY <1>1, <3>1 DEF CountOK, SlotsInv, SlotTypes, Copy
    <3>3. restarts[n] <= tally[n].count + Extra(n) \/ (slot[n].id # inFlight[n] /\ restarts[n] = 0)
      BY <1>1, <1>2, <2>1, <3>2 DEF CountOK, Tracked, Extra
    <3>4. \/ restarts[n] = 0 /\ n \in crossed'
          \/ /\ n \in crossed' <=> n \in crossed
             /\ restarts[n] <= tally[n].count + Extra(n) /\ known[n].id \in {0, inFlight[n]}
      BY <1>1, <1>2, <2>1, <2>2, <3>2, <3>3 DEF CountOK, Tracked, Extra
    <3> QED
      BY <1>1, <1>2, <1>3, <2>1, <2>2, <3>1, <3>4 DEF CountOK, Tracked, Extra, Limited, Empty
  <2>3. CASE ~DeadCopy(n) /\ Finish(n, "gone") /\ UNCHANGED <<slot, crossed>>
    BY <1>1, <1>2, <1>3, <1>4, <2>1, <2>3 DEF CountOK, Tracked, Extra, Limited, DeadCopy, Outcomes
  <2>4. CASE Finish(n, "error") /\ UNCHANGED <<slot, crossed>>
    BY <1>1, <1>2, <1>3, <1>4, <2>1, <2>4 DEF CountOK, Tracked, Extra, Limited, Outcomes
  <2> QED
    BY <1>6, <2>2, <2>3, <2>4 DEF RemoveDead
<1>7. CASE StartSlot(n)
  <2>1. UNCHANGED <<reports, crossed>> /\ thread[n] = "start" /\ ReportsOf(n)' = ReportsOf(n)
    BY <1>7 DEF StartSlot, ReportsOf
  <2>2. CASE Create(n, "thread") /\ Goto(n, "health") /\ restarts' = [restarts EXCEPT ![n] = @ + 1]
    <3>1. slot'[n] = [id |-> nextId + 1, st |-> "up", code |-> 0, by |-> "thread"] /\ thread'[n] = "health"
      BY <2>2 DEF Create, Goto, SlotsInv, SlotTypes
    <3>2. restarts'[n] = restarts[n] + 1 /\ inFlight[n] # slot'[n].id
      BY <1>1, <2>2, <3>1 DEF CountInv, CountTypes
    <3> QED
      BY <1>1, <1>2, <1>3, <2>1, <3>1, <3>2 DEF CountOK, Tracked, Extra, Limited
  <2>3. CASE Goto(n, "reroute") /\ UNCHANGED <<slot, restarts>>
    BY <1>1, <1>2, <1>3, <2>1, <2>3 DEF CountOK, Tracked, Extra, Limited, Goto, SlotsInv, SlotTypes
  <2> QED
    BY <1>7, <2>2, <2>3 DEF StartSlot
<1>8. CASE WaitHealthy(n)
  <2>1. UNCHANGED <<reports, crossed, restarts>> /\ thread[n] = "health" /\ ReportsOf(n)' = ReportsOf(n)
    BY <1>8 DEF WaitHealthy, ReportsOf
  <2>2. thread'[n] \in {"route", "reroute"} /\ slot'[n] \in {slot[n], Empty}
    BY <1>8 DEF WaitHealthy, Goto, Delete, SlotsInv, SlotTypes
  <2> QED
    BY <1>1, <1>2, <1>3, <2>1, <2>2 DEF CountOK, Tracked, Extra, Limited, Empty
<1>9. CASE ReconfigureRouter(n) \/ RerouteAfterFailure(n)
  <2>1. UNCHANGED <<slot, restarts, crossed>> /\ thread[n] \in {"route", "reroute"}
    BY <1>9 DEF ReconfigureRouter, RerouteAfterFailure
  <2>2. PICK outcome \in {"restarted", "error"} : Finish(n, outcome)
    BY <1>9 DEF ReconfigureRouter, RerouteAfterFailure, Configure
  <2> QED
    BY <1>1, <1>2, <1>3, <1>4, <2>1, <2>2 DEF CountOK, Tracked, Extra, Limited, Outcomes
<1> QED
  BY <1>5, <1>6, <1>7, <1>8, <1>9 DEF Restart

\* The steps of a command on a slot, and an exit.
LEMMA CommandCount ==
  ASSUME SlotsInv, CountInv, NEW n \in Slots, RemoveCopy(n) \/ StartCopy(n) \/ Exit(n)
  PROVE  CountOK(n)'
<1> USE DEF engine, history, bounds
<1>1. CountOK(n) /\ inFlight[n] \in Nat /\ inFlight[n] <= nextId /\ nextId \in Nat /\ Limit \in Nat
  BY LimitAssumption DEF CountInv, SlotsInv, SlotTypes, WatchTypes
<1>2. UNCHANGED <<known, tally, inFlight, cands, thread, reports>> /\ ReportsOf(n)' = ReportsOf(n)
  BY DEF RemoveCopy, StartCopy, Exit, ReportsOf
<1>3. op.kind # "none" => thread[n] \notin Holding
  BY LockValues DEF SlotsInv, LockInv
<1>4. CASE RemoveCopy(n)
  <2>1. slot'[n] = Empty /\ op.kind # "none" /\ UNCHANGED <<restarts, crossed>>
    BY <1>4 DEF RemoveCopy, SlotsInv, SlotTypes
  <2> QED
    BY <1>1, <1>2, <1>3, <2>1 DEF CountOK, Tracked, Extra, Limited, Empty, Holding
<1>5. CASE StartCopy(n)
  <2>1. slot'[n] = [id |-> nextId + 1, st |-> "up", code |-> 0, by |-> "op"]
    BY <1>5 DEF StartCopy, Create, SlotsInv, SlotTypes
  <2>2. op.kind # "none" /\ restarts'[n] = 0 /\ n \notin crossed'
    BY <1>5 DEF StartCopy, CountInv, CountTypes
  <2> QED
    BY <1>1, <1>2, <1>3, <2>1, <2>2 DEF CountOK, Tracked, Extra, Limited, Holding
<1>6. CASE Exit(n)
  <2>1. PICK c \in {0, 1} : slot' = [slot EXCEPT ![n].st = "exited", ![n].code = c]
    BY <1>6 DEF Exit
  <2>2. slot'[n].id = slot[n].id /\ slot'[n].by = slot[n].by /\ slot'[n].st = "exited"
    BY <2>1 DEF SlotsInv, SlotTypes, Copy
  <2>3. slot[n].st = "up" /\ UNCHANGED <<restarts, crossed>>
    BY <1>6 DEF Exit
  <2> QED
    BY <1>1, <1>2, <2>2, <2>3 DEF CountOK, Tracked, Extra, Limited
<1> QED
  BY <1>4, <1>5, <1>6

\* What a tick makes of the tally of a slot.  Where its restart is still under way
\* only the wait goes on.  Otherwise a report counts, and then what is known is seen.
LEMMA TickTally ==
  ASSUME SlotsInv, CountInv, NEW listing \in BOOLEAN, Tick(listing), NEW n \in Slots
  PROVE  LET counted == \E r \in ReportsOf(n) : r.outcome \in {"restarted", "error"}
             t == TallyAfter[n]
         IN  /\ t.id = tally[n].id
             /\ counted /\ t.id # 0 => t.count = tally[n].count + 1 /\ t.expects
             /\ ~counted => t.count = tally[n].count /\ t.expects = tally[n].expects
             /\ inFlight'[n] # 0 => tally'[n] = t
             /\ inFlight'[n] = 0 /\ known'[n].id # 0 => tally'[n] = Observe(t, known'[n].id)
             /\ inFlight'[n] = 0 /\ known'[n].id = 0 => tally'[n] = IF t.expects THEN t ELSE NoTally
<1> DEFINE t == TallyAfter[n]
           counted == \E r \in ReportsOf(n) : r.outcome \in {"restarted", "error"}
<1>1. tally[n] \in TallyType
  BY DEF SlotsInv, WatchTypes, TallyType
<1>2. CASE counted
  <2>1. t = RecordRestart(tally[n])
    BY <1>2 DEF TallyAfter
  <2>2. t.id = tally[n].id /\ (t.id # 0 => t.count = tally[n].count + 1 /\ t.expects)
    BY <1>1, <2>1 DEF RecordRestart, TallyType
  <2> QED
    BY <1>2, <2>2, TickSteps DEF ObserveCopies
<1>3. CASE ~counted
  <2>1. t = [tally[n] EXCEPT !.ticks = IF @ > 0 THEN @ - 1 ELSE 0]
    BY <1>3 DEF TallyAfter
  <2>2. t.id = tally[n].id /\ t.count = tally[n].count /\ t.expects = tally[n].expects
    BY <1>1, <2>1 DEF TallyType
  <2> QED
    BY <1>3, <2>2, TickSteps DEF ObserveCopies
<1> QED
  BY <1>2, <1>3

\* A tick that collects the report of a restart counts it before it sees the
\* container that the restart started; one that does not leaves the count.
LEMMA TickCount ==
  ASSUME SlotsInv, CountInv, NEW listing \in BOOLEAN, Tick(listing), NEW n \in Slots
  PROVE  CountOK(n)'
<1> DEFINE t == TallyAfter[n]
           counted == \E r \in ReportsOf(n) : r.outcome \in {"restarted", "error"}
           k == known'[n]
           here == slot[n].id
<1>1. UNCHANGED <<slot, thread, restarts, crossed>> /\ ReportsOf(n)' = {}
  BY TickSteps DEF history, ReportsOf
<1>2. inFlight'[n] = IF ReportsOf(n) = {} THEN inFlight[n] ELSE 0
  BY TickSteps
<1>3. CountOK(n) /\ restarts[n] \in Nat /\ tally[n].count \in Nat /\ tally[n] \in TallyType /\ Limit \in Nat
  BY LimitAssumption DEF CountInv, CountTypes, SlotsInv, WatchTypes, TallyType
<1>4. /\ k \in {slot[n], Empty, KnownAfter[n]}
      /\ KnownAfter[n].id = here => k.id = here
  BY TickSteps, MergeKeepsHere
<1>5. /\ KnownAfter[n] \in {known[n], Empty}
      /\ (\A r \in ReportsOf(n) : r.outcome = "busy" \/ r.id # known[n].id) => KnownAfter[n] = known[n]
      /\ (\E r \in ReportsOf(n) : r.outcome # "busy" /\ r.id = known[n].id) => KnownAfter[n] = Empty
  BY DEF KnownAfter
<1>6. Empty.id = 0 /\ Empty.st = "none" /\ NoTally.id = 0 /\ NoTally.count = 0 /\ NoTally.expects = FALSE
  BY DEF Empty, NoTally
<1>7. /\ t.id = tally[n].id
      /\ counted /\ t.id # 0 => t.count = tally[n].count + 1 /\ t.expects
      /\ ~counted => t.count = tally[n].count /\ t.expects = tally[n].expects
      /\ inFlight'[n] # 0 => tally'[n] = t
      /\ inFlight'[n] = 0 /\ k.id # 0 => tally'[n] = Observe(t, k.id)
      /\ inFlight'[n] = 0 /\ k.id = 0 => tally'[n] = IF t.expects THEN t ELSE NoTally
  BY TickTally
<1>8. t \in TallyType
  BY AfterTypes
<1> HIDE DEF t, k
<1>9. /\ k.id = t.id /\ t.id # 0 => Observe(t, k.id) = t
      /\ k.id # t.id /\ t.id # 0 /\ t.expects =>
            Observe(t, k.id).id = k.id /\ Observe(t, k.id).count = t.count /\ ~Observe(t, k.id).expects
      /\ Observe(t, k.id).id = k.id
      /\ Observe(t, k.id).expects => t.id = k.id
  BY <1>8 DEF Observe, NoTally, TallyType
<1>10. n \in cands' => inFlight'[n] = 0 /\ k.st = "exited" /\ (Limited => tally'[n].count < Limit)
  BY TickSteps DEF FindCandidates, ShouldRestart, Limited, k
<1>11. k.st # "none" => k.id # 0
  BY TickSlots DEF SlotsInv, WatchTypes, CopyOK, k
<1>12. n \in cands' => tally'[n].id = k.id
  BY <1>7, <1>9, <1>10, <1>11
<1>13. CASE inFlight'[n] # 0
  <2>1. ReportsOf(n) = {} /\ inFlight'[n] = inFlight[n] /\ inFlight[n] # 0 /\ n \notin cands'
    BY <1>2, <1>10, <1>13
  <2>2. tally'[n].id = tally[n].id /\ tally'[n].count = tally[n].count /\ tally'[n].expects = tally[n].expects
    BY <1>7, <2>1
  <2>3. KnownAfter[n] = known[n]
    BY <1>5, <2>1
  <2> QED
    BY <1>1, <1>3, <1>4, <1>6, <2>1, <2>2, <2>3 DEF CountOK, Tracked, Extra, Limited, k
<1>14. CASE inFlight'[n] = 0
  <2>1. thread[n] = "none"
    BY <1>2, <1>14 DEF SlotsInv, FlightInv
  <2>2. tally'[n].expects => tally'[n].id # 0
    <3>1. tally[n].id = 0 => ~counted /\ ~tally[n].expects
      BY <1>3 DEF CountOK, SlotsInv, FlightInv, ReportsOf
    <3>2. t.expects => t.id # 0
      BY <1>7, <3>1
    <3> QED
      BY <1>6, <1>7, <1>9, <1>14, <3>2
  <2>3. slot[n].by = "thread" => restarts[n] <= Extra(n) \/ Tracked(n)'
    <3> SUFFICES ASSUME slot[n].by = "thread", Tracked(n), ~(restarts[n] <= Extra(n)) PROVE Tracked(n)'
      BY <1>3 DEF CountOK
    <3>1. CASE inFlight[n] = 0
      <4>1. ReportsOf(n) = {} /\ KnownAfter[n] = known[n]
        BY <1>5, <3>1 DEF SlotsInv, FlightInv, ReportsOf
      <4>2. k.id \in {0, here} /\ (known[n].id = here => k.id = here)
        BY <1>4, <1>6, <3>1, <4>1 DEF Tracked
      <4>3. here # 0
        BY <1>3 DEF CountOK, SlotsInv, SlotTypes, CopyOK
      <4> QED
        BY <1>1, <1>3, <1>7, <1>9, <1>14, <3>1, <4>1, <4>2, <4>3 DEF Tracked, CountOK, Extra, k
    <3>2. CASE inFlight[n] # 0
      <4>1. ReportsOf(n) # {} /\ tally[n].id # 0 /\ here # 0
        BY <1>2, <1>3, <1>14, <3>2 DEF CountOK, SlotsInv, SlotTypes, CopyOK
      <4>2. k.id \in {0, here} /\ (~counted => inFlight[n] = here /\ k.id = here)
        <5>1. CASE inFlight[n] = here
          <6>1. \A r \in ReportsOf(n) : r \in reports /\ r.outcome \in Outcomes
            BY DEF ReportsOf, SlotsInv, WatchTypes
          <6>2. ~counted => \A r \in ReportsOf(n) : r.outcome = "busy"
            BY <1>3, <3>2, <5>1, <6>1 DEF CountOK, Outcomes
          <6> QED
            BY <1>3, <1>4, <1>5, <1>6, <3>2, <5>1, <6>2 DEF CountOK
        <5>2. CASE inFlight[n] # here
          <6>1. counted /\ known[n].id \in {0, inFlight[n], here}
            BY <3>2, <4>1, <5>2 DEF Tracked
          <6>2. known[n].id = inFlight[n] => KnownAfter[n] = Empty
            BY <1>3, <1>5, <3>2, <4>1, <5>2 DEF Tracked, CountOK
          <6> QED
            BY <1>4, <1>5, <1>6, <6>1, <6>2
        <5> QED
          BY <5>1, <5>2
      <4>3. restarts[n] <= t.count + Extra(n)
        BY <1>3, <1>7, <3>2, <4>1, <4>2 DEF Tracked, Extra
      <4>4. tally'[n].count = t.count /\ (tally'[n].expects \/ (tally'[n].id = here /\ k.id = here))
        BY <1>3, <1>7, <1>9, <1>14, <3>2, <4>1, <4>2 DEF CountOK
      <4> QED
        BY <1>1, <1>14, <4>2, <4>3, <4>4 DEF Tracked, Extra, k
    <3> QED
      BY <3>1, <3>2
  <2> QED
    BY <1>1, <1>3, <1>10, <1>12, <1>14, <2>1, <2>2, <2>3 DEF CountOK, Extra, Limited, k
<1> QED
  BY <1>13, <1>14

LEMMA StepCount == SlotsInv /\ CountInv /\ [Next]_vars => CountInv'
<1> SUFFICES ASSUME SlotsInv, CountInv, [Next]_vars PROVE CountInv'
  OBVIOUS
<1> USE DEF engine, watch, bounds, history
<1>1. CASE OpenWatch \/ StreamEnds \/ BeginRollout \/ BeginStop \/ EndCommand \/ UNCHANGED vars
  <2>1. UNCHANGED <<slot, known, tally, inFlight, thread, reports, cands, restarts, crossed>>
    BY <1>1 DEF OpenWatch, StreamEnds, BeginRollout, BeginStop, EndCommand, vars
  <2> QED
    BY <2>1, Untouched DEF CountInv, CountTypes, ReportsOf
<1>2. CASE ApplyEvents \/ DispatchRestarts \/ \E listing \in BOOLEAN : Tick(listing)
  <2>1. UNCHANGED <<restarts, crossed>>
    BY <1>2 DEF ApplyEvents, DispatchRestarts, Tick
  <2> QED
    BY <1>2, <2>1, EventsCount, DispatchCount, TickCount DEF CountInv, CountTypes
<1>3. ASSUME NEW n \in Slots, Restart(n) \/ RemoveCopy(n) \/ StartCopy(n) \/ Exit(n) PROVE CountInv'
  <2>1. CountTypes'
    BY <1>3 DEF CountInv, CountTypes, Restart, TakeLock, RemoveDead, StartSlot, WaitHealthy, ReconfigureRouter,
       RerouteAfterFailure, RemoveCopy, StartCopy, Exit
  <2>2. \A m \in Slots : m # n => CountOK(m)'
    BY <1>3, OthersUntouched
  <2>3. CountOK(n)'
    BY <1>3, RestartCount, CommandCount
  <2> QED
    BY <2>1, <2>2, <2>3 DEF CountInv
<1>4. CASE Crash
  <2>1. restarts' = [n \in Slots |-> 0] /\ crossed' = {} /\ reports' = {} /\ cands' = {} /\ slot' = slot
    BY <1>4 DEF Crash
  <2>2. inFlight' = [n \in Slots |-> 0] /\ thread' = [n \in Slots |-> "none"] /\ tally' = [n \in Slots |-> NoTally]
    BY <1>4 DEF Crash
  <2>3. \A n \in Slots : slot[n].st = "none" <=> slot[n].by = "none"
    BY DEF CountInv, CountOK
  <2> QED
    BY <2>1, <2>2, <2>3, LimitAssumption DEF CountInv, CountTypes, CountOK, Extra, Limited, ReportsOf, NoTally
<1> QED
  BY <1>1, <1>2, <1>3, <1>4 DEF Next, Watch, Commands

\* "on-failure:N" is kept: while the supervisor lives a slot sees at most N restarts
\* of what a command put in it, one more where the restart crossed that command.
THEOREM RestartsLimited == Spec => []LimitKept
<1>1. CountInv => LimitKept
  BY DEF CountInv, CountOK, LimitKept
<1>2. Init => SlotsInv /\ CountInv
  BY InitSlots, InitCount
<1>3. SlotsInv /\ CountInv /\ [Next]_vars => (SlotsInv /\ CountInv)'
  BY StepSlots, StepCount
<1> QED
  BY <1>1, <1>2, <1>3, PTL DEF Spec
=============================================================================
