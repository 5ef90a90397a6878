----------------------------- MODULE HostProofs -----------------------------
(***************************************************************************)
(* The parts of a host around its deploys, for any number of clients,      *)
(* servers, commands, requests and failures: the stats stream              *)
(* (ControlPlane), the choice of a command's host (RemoteTarget), a call   *)
(* of a plugin (PluginCall), installed bundles (PluginFiles), addon        *)
(* instances (Addons), the remote dashboard (RemoteSession), "riku init"   *)
(* (HostSetup) and an agent's requests (Agent).  Each part has an          *)
(* inductive invariant of its own.                                         *)
(***************************************************************************)
EXTENDS ControlPlane, RemoteTarget, PluginCall, PluginFiles, Addons, RemoteSession, HostSetup,
        Agent, FiniteSetTheorems, TLAPS

-----------------------------------------------------------------------------
(* The stats stream.                                                       *)

PlaneTypes ==
    /\ taken \in Nat /\ file \in Nat /\ sent \in Nat /\ unwritten \in BOOLEAN /\ frames \in Seq(Nat)
    /\ client \in [Clients -> {"away", "subscribed", "streaming"}]
    /\ cursor \in [Clients -> Nat] /\ shown \in [Clients -> Nat]

\* What the event loop has written and sent of the rounds it took; no client reads
\* ahead of what was sent, or shows what was not taken.
RoundsInOrder ==
    /\ sent <= taken /\ file <= taken /\ (~unwritten => file = taken)
    /\ \A c \in Clients : cursor[c] <= Len(frames) /\ shown[c] <= taken

\* The stats were sent in the order they were taken.
FramesInOrder ==
    /\ \A i \in 1..Len(frames) : frames[i] <= sent
    /\ \A i, j \in 1..Len(frames) : i <= j /\ frames[j] # Notice => frames[i] <= frames[j]

\* A client that is past the latest stats shows them, unless the channel has dropped them.
PastIsShown ==
    \A c \in Clients : \A i \in 1..Len(frames) :
        client[c] = "streaming" /\ sent = taken /\ ~unwritten /\ frames[i] = sent /\ i <= cursor[c]
            => shown[c] = taken \/ Len(frames) - i >= Ring

PlaneInv == PlaneTypes /\ RoundsInOrder /\ FramesInOrder /\ PastIsShown

\* A client comes to what it has not read, or to the oldest of it that is kept.
LEMMA OldestIsAhead ==
  ASSUME PlaneTypes, NEW c \in Clients, cursor[c] < Len(frames)
  PROVE  /\ Oldest(c) \in 1..Len(frames) /\ cursor[c] < Oldest(c)
         /\ \A i \in 1..Len(frames) : cursor[c] < i /\ i < Oldest(c) => Len(frames) - i >= Ring
<1>1. Len(frames) \in Nat /\ cursor[c] \in Nat
  BY DEF PlaneTypes
<1> QED
  BY <1>1, RingAssumption DEF Oldest, Lags

\* A frame more on the channel, which nobody has read.
LEMMA FrameMore ==
    ASSUME PlaneTypes, NEW f \in Nat, frames' = Append(frames, f)
    PROVE  /\ frames' \in Seq(Nat) /\ Len(frames) \in Nat /\ Len(frames') = Len(frames) + 1
           /\ \A i \in 1..Len(frames) : frames'[i] = frames[i] /\ frames[i] \in Nat
           /\ frames'[Len(frames) + 1] = f
<1>1. frames \in Seq(Nat)
  BY DEF PlaneTypes
<1> QED
  BY <1>1

\* A step of the control routes.
LEMMA PlaneElsewhere ==
    ASSUME PlaneInv, UNCHANGED <<taken, file, sent, frames, unwritten, cursor, shown>>,
           \/ UNCHANGED client
           \/ client' = [c \in Clients |-> "away"]
    PROVE  PlaneInv'
<1>1. PlaneTypes' /\ RoundsInOrder' /\ FramesInOrder'
  BY DEF PlaneInv, PlaneTypes, RoundsInOrder, FramesInOrder
<1>2. PastIsShown'
  BY DEF PlaneInv, PastIsShown
<1> QED
  BY <1>1, <1>2 DEF PlaneInv

LEMMA StepPlane == PlaneInv /\ [PlaneNext]_planeVars => PlaneInv'
<1> SUFFICES ASSUME PlaneInv, [PlaneNext]_planeVars PROVE PlaneInv'
  OBVIOUS
<1> USE DEF Loop, Streams
<1>0. PlaneTypes /\ RoundsInOrder /\ FramesInOrder /\ PastIsShown
  BY DEF PlaneInv
<1>n. Len(frames) \in Nat /\ \A i \in 1..Len(frames) : frames[i] \in Nat
  BY <1>0 DEF PlaneTypes
<1>1. CASE StartHealthServer \/ StopAsked \/ EndSupervisor
  BY <1>1, PlaneElsewhere DEF StartHealthServer, StopAsked, EndSupervisor
<1>2. CASE WriteStats
  <2>1. taken' = taken + 1 /\ UNCHANGED <<sent, frames, client, cursor, shown>> /\ taken = sent
    BY <1>2 DEF WriteStats
  <2>2. (unwritten' = unwritten /\ file' = taken + 1) \/ (unwritten' = TRUE /\ file' = file)
    BY <1>2 DEF WriteStats
  <2>3. PlaneTypes'
    <3>1. unwritten' \in BOOLEAN
      BY <1>0, <2>2 DEF PlaneTypes
    <3>2. file' \in Nat
      BY <1>0, <2>2 DEF PlaneTypes
    <3> QED
      BY <1>0, <2>1, <3>1, <3>2 DEF PlaneTypes
  <2>4. RoundsInOrder'
    BY <1>0, <2>1, <2>2 DEF RoundsInOrder, PlaneTypes
  <2>5. FramesInOrder' /\ PastIsShown'
    BY <1>0, <2>1 DEF FramesInOrder, PastIsShown, PlaneTypes
  <2> QED
    BY <2>3, <2>4, <2>5 DEF PlaneInv
<1>3. CASE BroadcastStats
  <2>1. /\ sent < taken /\ sent' = taken /\ frames' = Append(frames, taken)
        /\ UNCHANGED <<taken, file, unwritten, client, cursor, shown>>
    BY <1>3 DEF BroadcastStats
  <2>2. /\ frames' \in Seq(Nat) /\ Len(frames) \in Nat /\ Len(frames') = Len(frames) + 1
        /\ \A i \in 1..Len(frames) : frames'[i] = frames[i] /\ frames[i] \in Nat
        /\ frames'[Len(frames) + 1] = taken
    <3>1. taken \in Nat
      BY <1>0 DEF PlaneTypes
    <3> QED
      BY <1>0, <2>1, <3>1, FrameMore
  <2>3. PlaneTypes' /\ RoundsInOrder'
    BY <1>0, <2>1, <2>2 DEF PlaneTypes, RoundsInOrder
  <2>4. ASSUME NEW i \in 1..Len(frames)' PROVE frames'[i] <= taken /\ (i <= Len(frames) => frames'[i] < taken)
    BY <1>0, <2>1, <2>2 DEF FramesInOrder, PlaneTypes
  <2>5. FramesInOrder'
    <3>1. ASSUME NEW i \in 1..Len(frames)', NEW j \in 1..Len(frames)', i <= j, frames'[j] # Notice
          PROVE  frames'[i] <= frames'[j]
      <4>1. CASE j <= Len(frames)
        BY <4>1, <3>1, <1>0, <2>2 DEF FramesInOrder
      <4>2. CASE j = Len(frames) + 1
        BY <4>2, <2>2, <2>4
      <4> QED
        BY <4>1, <4>2, <2>2
    <3> QED
      BY <3>1, <2>1, <2>4 DEF FramesInOrder, Notice
  <2>6. PastIsShown'
    <3>1. ASSUME NEW c \in Clients, NEW i \in 1..Len(frames)', i <= cursor[c] PROVE frames'[i] # taken
      <4>1. i <= Len(frames)
        BY <3>1, <1>0, <2>2 DEF RoundsInOrder, PlaneTypes
      <4> QED
        BY <4>1, <1>0, <2>2, <2>4 DEF PlaneTypes
    <3> QED
      BY <3>1, <2>1 DEF PastIsShown
  <2> QED
    BY <2>3, <2>5, <2>6 DEF PlaneInv
<1>4. CASE BroadcastNotice
  <2>1. /\ frames' = Append(frames, 0)
        /\ UNCHANGED <<taken, file, sent, unwritten, client, cursor, shown>>
    BY <1>4 DEF BroadcastNotice, Notice
  <2>2. /\ frames' \in Seq(Nat) /\ Len(frames) \in Nat /\ Len(frames') = Len(frames) + 1
        /\ \A i \in 1..Len(frames) : frames'[i] = frames[i] /\ frames[i] \in Nat
        /\ frames'[Len(frames) + 1] = 0
    BY <1>0, <2>1, FrameMore
  <2>3. PlaneTypes' /\ RoundsInOrder'
    BY <1>0, <2>1, <2>2 DEF PlaneTypes, RoundsInOrder
  <2>4. FramesInOrder'
    <3>1. ASSUME NEW i \in 1..Len(frames)' PROVE frames'[i] <= sent
      BY <1>0, <2>2 DEF FramesInOrder, PlaneTypes
    <3>2. ASSUME NEW i \in 1..Len(frames)', NEW j \in 1..Len(frames)', i <= j, frames'[j] # Notice
          PROVE  frames'[i] <= frames'[j]
      <4>1. j <= Len(frames)
        BY <3>2, <2>2 DEF Notice
      <4> QED
        BY <4>1, <3>2, <1>0, <2>2 DEF FramesInOrder
    <3> QED
      BY <3>1, <3>2, <2>1 DEF FramesInOrder, Notice
  <2>5. PastIsShown'
    <3> SUFFICES ASSUME NEW c \in Clients, NEW i \in 1..Len(frames)',
                        client[c] = "streaming", sent = taken, ~unwritten, frames'[i] = sent, i <= cursor[c]
                 PROVE  shown[c] = taken \/ Len(frames)' - i >= Ring
      BY <2>1 DEF PastIsShown
    <3>1. i \in 1..Len(frames) /\ frames[i] = sent
      BY <1>0, <2>2 DEF RoundsInOrder, PlaneTypes
    <3>2. shown[c] = taken \/ Len(frames) - i >= Ring
      BY <3>1, <1>0 DEF PastIsShown
    <3> QED
      BY <3>1, <3>2, <2>2, RingAssumption
  <2> QED
    BY <2>3, <2>4, <2>5 DEF PlaneInv
<1>5. ASSUME NEW c \in Clients, Subscribe(c) PROVE PlaneInv'
  <2>1. /\ client' = [client EXCEPT ![c] = "subscribed"] /\ cursor' = [cursor EXCEPT ![c] = Len(frames)]
        /\ UNCHANGED <<taken, file, sent, frames, unwritten, shown>>
    BY <1>5 DEF Subscribe
  <2>2. PlaneTypes' /\ RoundsInOrder' /\ FramesInOrder'
    BY <1>0, <1>n, <2>1 DEF PlaneTypes, RoundsInOrder, FramesInOrder
  <2>3. PastIsShown'
    BY <1>0, <2>1 DEF PastIsShown, PlaneTypes
  <2> QED
    BY <2>2, <2>3 DEF PlaneInv
<1>6. ASSUME NEW c \in Clients, ReadSnapshot(c) PROVE PlaneInv'
  <2>1. /\ client' = [client EXCEPT ![c] = "streaming"] /\ shown' = [shown EXCEPT ![c] = file]
        /\ UNCHANGED <<taken, file, sent, frames, unwritten, cursor>>
    BY <1>6 DEF ReadSnapshot
  <2>2. PlaneTypes' /\ RoundsInOrder' /\ FramesInOrder'
    BY <1>0, <2>1 DEF PlaneTypes, RoundsInOrder, FramesInOrder
  <2>3. PastIsShown'
    BY <1>0, <2>1 DEF PastIsShown, PlaneTypes, RoundsInOrder
  <2> QED
    BY <2>2, <2>3 DEF PlaneInv
<1>7. ASSUME NEW c \in Clients, ReadBroadcast(c) PROVE PlaneInv'
  <2> DEFINE p == Oldest(c)
  <2>1. /\ cursor' = [cursor EXCEPT ![c] = p] /\ shown' = [shown EXCEPT ![c] = With(c, frames[p])]
        /\ UNCHANGED <<taken, file, sent, frames, unwritten, client>> /\ cursor[c] < Len(frames)
    BY <1>7 DEF ReadBroadcast
  <2>2. /\ p \in 1..Len(frames) /\ cursor[c] < p
        /\ \A i \in 1..Len(frames) : cursor[c] < i /\ i < p => Len(frames) - i >= Ring
    BY <1>0, <2>1, OldestIsAhead
  <2> HIDE DEF p
  <2>3. frames[p] \in Nat /\ frames[p] <= sent /\ With(c, frames[p]) \in Nat /\ With(c, frames[p]) <= taken
    BY <1>0, <1>n, <2>2 DEF FramesInOrder, RoundsInOrder, PlaneTypes, With
  <2>4. PlaneTypes' /\ RoundsInOrder' /\ FramesInOrder'
    BY <1>0, <1>n, <2>1, <2>2, <2>3 DEF PlaneTypes, RoundsInOrder, FramesInOrder
  <2>5. PastIsShown'
    <3> SUFFICES ASSUME NEW d \in Clients, NEW i \in 1..Len(frames),
                        client[d] = "streaming", sent = taken, ~unwritten, frames[i] = sent, i <= cursor'[d]
                 PROVE  shown'[d] = taken \/ Len(frames) - i >= Ring
      BY <2>1 DEF PastIsShown
    <3>1. CASE d # c
      BY <3>1, <1>0, <2>1 DEF PastIsShown, PlaneTypes
    <3>2. CASE d = c /\ cursor[c] < i
      <4>1. i = p \/ Len(frames) - i >= Ring
        <5>1. cursor'[c] = p
          BY <1>0, <2>1 DEF PlaneTypes
        <5>2. i <= p
          BY <5>1, <3>2
        <5>3. i = p \/ i < p
          BY <5>2, <2>2, <1>n
        <5> QED
          BY <5>3, <3>2, <2>2
      <4>2. i = p => With(c, frames[p]) = taken
        <5>1. sent = 0 => shown[c] = taken
          BY <1>0 DEF RoundsInOrder, PlaneTypes
        <5> QED
          BY <5>1 DEF With, Notice
      <4> QED
        BY <4>1, <4>2, <3>2, <1>0, <2>1 DEF PlaneTypes
    <3>3. CASE d = c /\ i <= cursor[c]
      <4>1. shown[c] = taken \/ Len(frames) - i >= Ring
        BY <3>3, <1>0 DEF PastIsShown
      <4>2. frames[p] # Notice => frames[p] = taken
        <5>1. i <= p
          BY <3>3, <1>0, <1>n, <2>2 DEF PlaneTypes
        <5>2. frames[p] # Notice => frames[i] <= frames[p]
          BY <5>1, <1>0, <2>2 DEF FramesInOrder
        <5> QED
          BY <5>2, <2>3, <1>0 DEF PlaneTypes
      <4> QED
        BY <4>1, <4>2, <3>3, <1>0, <2>1 DEF With, PlaneTypes
    <3> QED
      BY <3>1, <3>2, <3>3, <1>0, <1>n DEF PlaneTypes
  <2> QED
    BY <2>4, <2>5 DEF PlaneInv
<1>8. ASSUME NEW c \in Clients, Leave(c) PROVE PlaneInv'
  <2>1. /\ client' = [client EXCEPT ![c] = "away"] /\ shown' = [shown EXCEPT ![c] = 0]
        /\ UNCHANGED <<taken, file, sent, frames, unwritten, cursor>>
    BY <1>8 DEF Leave
  <2>2. PlaneTypes' /\ RoundsInOrder' /\ FramesInOrder'
    BY <1>0, <2>1 DEF PlaneTypes, RoundsInOrder, FramesInOrder
  <2>3. PastIsShown'
    BY <1>0, <2>1 DEF PastIsShown, PlaneTypes
  <2> QED
    BY <2>2, <2>3 DEF PlaneInv
<1>9. ASSUME NEW r \in Requests, Answer(r) \/ ExitInCommand(r) \/ \E t \in {"right", "wrong"} : Accept(r, t) PROVE PlaneInv'
  BY <1>9, PlaneElsewhere DEF Answer, ExitInCommand, Accept
<1>10. CASE UNCHANGED planeVars
  BY <1>10, PlaneElsewhere DEF planeVars, planeState
<1> QED
  BY <1>1, <1>2, <1>3, <1>4, <1>5, <1>6, <1>7, <1>8, <1>9, <1>10 DEF PlaneNext

\* The order of the stats file and the broadcast, and of the subscription and the
\* file's read, lets no client miss a round: whatever the ring keeps, one that has
\* read all it was sent shows the latest stats, or at least Ring notices came after them.
THEOREM StreamsCatchUp == PlaneSpec => []StreamCatchesUp
<1>1. PlaneInit => PlaneInv
  <2> SUFFICES ASSUME PlaneInit PROVE PlaneInv
    OBVIOUS
  <2>a. frames = <<>> /\ unwritten \in BOOLEAN
    BY Zenon DEF PlaneInit
  <2>b. frames \in Seq(Nat)
    BY <2>a
  <2>1. PlaneTypes
    BY <2>a, <2>b DEF PlaneInit, PlaneTypes
  <2>2. RoundsInOrder /\ FramesInOrder /\ PastIsShown
    BY DEF PlaneInit, RoundsInOrder, FramesInOrder, PastIsShown
  <2> QED
    BY <2>1, <2>2 DEF PlaneInv
<1>2. PlaneInv => StreamCatchesUp
  <2> SUFFICES ASSUME PlaneInv, NEW c \in Clients,
                      client[c] = "streaming", cursor[c] = Len(frames), sent = taken, ~unwritten
               PROVE  \/ shown[c] = taken
                      \/ \A i \in 1..Len(frames) : frames[i] = sent => Len(frames) - i >= Ring
    BY DEF StreamCatchesUp
  <2>1. \A i \in 1..Len(frames) : i <= cursor[c]
    BY DEF PlaneInv, PlaneTypes
  <2> QED
    BY <2>1 DEF PlaneInv, PastIsShown
<1> QED
  BY <1>1, <1>2, StepPlane, PTL DEF PlaneSpec

-----------------------------------------------------------------------------
(* Where a command runs.                                                   *)

IsList(l) == \E s, d : l = [servers |-> s, default |-> d]
ListsOK ==
    /\ IsList(slist)
    /\ edit = [e \in Editors |-> edit[e]]
    /\ \A e \in Editors : edit[e] # <<>> => \E l : IsList(l) /\ edit[e] = <<l>>

\* A command for a named server is on that server, or nowhere, from the first; it
\* was forwarded if it is on one.
OnItsWay ==
    /\ hops \in {0, 1} /\ ran \in BOOLEAN
    /\ ran => place # None
    /\ place # None /\ wanted # None => place = AddressOf[wanted]

TargetInv == ListsOK /\ OnItsWay /\ CommandsFindTheirHost

\* What is saved has a default that is in it.
LEMMA RawIsLoadable ==
  ASSUME NEW l, IsList(l)
  PROVE  IsList(ToRaw(l)) /\ (ToRaw(l).default # None => ToRaw(l).default \in Listed(ToRaw(l)))
<1>1. PICK s, d : l = [servers |-> s, default |-> d]
  BY DEF IsList
<1>2. ToRaw(l) = [servers |-> s, default |-> IF d \in Listed(l) THEN d ELSE None]
  BY <1>1 DEF ToRaw
<1>3. Listed(ToRaw(l)) = Listed(l)
  BY <1>1, <1>2 DEF Listed
<1>4. IsList(ToRaw(l))
  BY <1>2 DEF IsList
<1>5. ToRaw(l).default # None => ToRaw(l).default \in Listed(l)
  BY <1>2
<1> QED
  BY <1>3, <1>4, <1>5

\* What a server command makes of the list it loaded is a list.
LEMMA EditsAreLists ==
  ASSUME NEW l, IsList(l), NEW n
  PROVE  IsList(AddServer(l, n)) /\ IsList(RemoveServer(l, n)) /\ IsList([l EXCEPT !.default = n])
<1>1. PICK s, d : l = [servers |-> s, default |-> d]
  BY DEF IsList
<1>2. AddServer(l, n) = [servers |-> Append(s, n), default |-> d]
  BY <1>1 DEF AddServer
<1>3. [l EXCEPT !.default = n] = [servers |-> s, default |-> n]
  BY <1>1
<1>4. IsList(AddServer(l, n)) /\ IsList([l EXCEPT !.default = n])
  BY <1>2, <1>3 DEF IsList
<1>5. IsList(RemoveServer(l, n))
  BY DEF RemoveServer, IsList
<1> QED
  BY <1>4, <1>5

\* A server that -s names is the target or there is none; what came through ssh stays.
LEMMA NamedTarget ==
  ASSUME NEW list, NEW f \in ServerNames
  PROVE  Routing("forwarded", list, f, FALSE, FALSE) \in {f, "error"}
  BY NamesAssumption DEF Routing, Resolve

LEMMA ArrivedStays ==
  ASSUME NEW list
  PROVE  Routing("forwarded", list, None, FALSE, TRUE) = Here
  BY DEF Routing, Resolve

LEMMA StepTarget == TargetInv /\ [TargetNext]_targetVars => TargetInv'
<1> SUFFICES ASSUME TargetInv, [TargetNext]_targetVars PROVE TargetInv'
  OBVIOUS
<1> USE DEF TargetInv, Invocation, Editing
<1>1. None \notin ServerNames /\ None \notin Machines /\ Here \notin ServerNames /\ "error" \notin ServerNames /\ None # Here
  BY NamesAssumption DEF None, Here
<1>2. ASSUME NEW e \in Editors, SaveList(e) PROVE TargetInv'
  <2>1. PICK l : IsList(l) /\ edit[e] = <<l>>
    BY <1>2 DEF SaveList, ListsOK
  <2>2. slist' \in {slist, ToRaw(l)}
    BY <1>2, <2>1 DEF SaveList
  <2>3. ListsOK'
    BY <1>2, <2>2, <2>1, RawIsLoadable DEF SaveList, ListsOK
  <2>4. OnItsWay' /\ CommandsFindTheirHost'
    BY <1>2, <2>1, <2>2, RawIsLoadable DEF SaveList, OnItsWay, CommandsFindTheirHost, Listed
  <2> QED
    BY <2>3, <2>4
<1>3. ASSUME NEW e \in Editors, NEW k \in {"add", "remove", "default"}, NEW n \in ServerNames, LoadList(e, k, n)
      PROVE  TargetInv'
  <2>1. PICK l : IsList(l) /\ edit' = [edit EXCEPT ![e] = <<l>>]
    BY <1>3, EditsAreLists DEF LoadList, ListsOK
  <2>2. UNCHANGED <<slist, wanted, place, hops, ran>>
    BY <1>3 DEF LoadList
  <2>3. ListsOK'
    BY <2>1, <2>2 DEF ListsOK
  <2> QED
    BY <2>2, <2>3 DEF OnItsWay, CommandsFindTheirHost, Listed
<1>4. ASSUME NEW k \in {"forwarded", "server", "client"}, NEW f \in ServerNames \cup {None}, NEW l \in BOOLEAN, Invoke(k, f, l)
      PROVE  TargetInv'
  <2> DEFINE goesWhere == Routing(k, slist, f, l, FALSE)
  <2>1. UNCHANGED <<slist, edit>> /\ place = None
    BY <1>4 DEF Invoke
  <2>2. wanted' # None => k = "forwarded" /\ l = FALSE /\ f \in ServerNames /\ wanted' = f
    BY <1>4 DEF Invoke
  <2>3. wanted' # None => goesWhere \in {f, "error"}
    BY <2>2, NamedTarget
  <2>4. GoesTo(goesWhere, Here, 0)
    BY <1>4 DEF Invoke
  <2> HIDE DEF goesWhere
  <2>5. hops' \in {0, 1}
    BY <2>4 DEF GoesTo, PluginTakes
  <2>7. ran' \in BOOLEAN /\ (ran' => place' # None)
    BY <1>1, <2>4, Zenon DEF Here, None, GoesTo, PluginTakes
  <2>6. wanted' # None => ran' = FALSE /\ place' \in {None, AddressOf[f]}
    BY <1>1, <2>2, <2>3, <2>4 DEF GoesTo, PluginTakes, Here
  <2> QED
    BY <2>1, <2>2, <2>5, <2>6, <2>7 DEF ListsOK, OnItsWay, CommandsFindTheirHost, Listed
<1>5. CASE Arrive
  <2>1. GoesTo(Here, place, hops) /\ UNCHANGED <<slist, edit, wanted>> /\ place # None
    BY <1>1, <1>5, ArrivedStays DEF Arrive
  <2>2. hops' = hops /\ place' \in {None, place} /\ ran' \in BOOLEAN /\ (ran' => place' = place)
    BY <2>1 DEF GoesTo, PluginTakes, Here
  <2> QED
    BY <2>1, <2>2 DEF ListsOK, OnItsWay, CommandsFindTheirHost, Listed
<1>6. CASE LoseCommand \/ EndCommand
  <2>1. UNCHANGED <<slist, edit>> /\ place' = None /\ ran' = FALSE /\ hops' \in {hops, 0}
    BY <1>6 DEF LoseCommand, EndCommand, OnItsWay
  <2>2. ListsOK' /\ OnItsWay'
    BY <2>1 DEF ListsOK, OnItsWay
  <2> QED
    BY <2>1, <2>2 DEF OnItsWay, CommandsFindTheirHost, Listed
<1>7. CASE UNCHANGED targetVars
  BY <1>7 DEF targetVars, targetState, ListsOK, OnItsWay, CommandsFindTheirHost, Listed
<1> QED
  BY <1>2, <1>3, <1>4, <1>5, <1>6, <1>7 DEF TargetNext

\* Whatever lists the user and the servers keep and however edits overlap, a command
\* is forwarded at most once, one for a named server runs there or nowhere, and the
\* list that was saved can be loaded.
THEOREM HostsAreFound == TargetSpec => []CommandsFindTheirHost
<1>1. TargetInit => TargetInv
  <2> SUFFICES ASSUME TargetInit PROVE TargetInv
    OBVIOUS
  <2>1. IsList(slist) /\ slist.default = None
    BY DEF TargetInit, IsList, Empty
  <2>2. ListsOK
    BY <2>1 DEF TargetInit, ListsOK
  <2>3. OnItsWay
    BY DEF TargetInit, OnItsWay
  <2> QED
    BY <2>1, <2>2, <2>3 DEF TargetInit, TargetInv, CommandsFindTheirHost
<1>2. TargetInv => CommandsFindTheirHost
  BY DEF TargetInv
<1> QED
  BY <1>1, <1>2, StepTarget, PTL DEF TargetSpec

-----------------------------------------------------------------------------
(* A call of a plugin.                                                     *)

Failures == {"failed", "warned", "ignored"}
CallTypes ==
    /\ seam \in DOMAIN Callers /\ turn \in Nat
    /\ call \in {"idle", "input", "wait", "drain", "done"}
    /\ leader \in {"none", "runs", "ok", "failed", "killed"}
    /\ rest \in {"none", "group", "away", "ended"} /\ holds \in BOOLEAN
    /\ written \in Nat /\ pipe \in Nat /\ got \in Nat
    /\ badAt \in 0..written /\ stopped \in BOOLEAN
    /\ late \in BOOLEAN /\ outcome \in Failures \cup {"none", "ok"}
    /\ value \in Seq(Nat)

\* The pipe loses nothing as long as it is read, and a reader of lines reads no
\* further than the first unit that is not UTF-8.
NothingLost ==
    call \in {"input", "wait", "drain"} =>
        /\ stopped => ReadsLines /\ got + 1 = badAt
        /\ ~stopped => written = pipe + got
        /\ ~stopped /\ ReadsLines /\ badAt # 0 => got < badAt

\* The kernel goes past the wait, and calls the next plugin, only when this one has
\* ended; one that was late was killed, and all that is left of it is out of its group.
EndsFirst ==
    /\ call \in {"idle", "drain", "done"} => ~Runs
    /\ late => ~Runs /\ rest # "group"
\* A call that is over saw the end of the pipe, and nobody can print any more.
ReadToEnd == call = "done" /\ Called.reads # "never" => AtEnd
\* What is left of the output is what the caller can make of it.
KeptRight ==
    call = "done" /\ outcome = "ok" /\ Called.reads # "never" =>
        /\ badAt = 0 => got = written
        /\ badAt # 0 /\ (ReadsLines \/ seam = "env") => got = badAt - 1
        /\ Called.reads = "whole" => got \in {0, written}
        /\ seam \in {"start", "destroy"} => got = written
\* A filter's value has answers of the calls before this one, and of this one when it
\* has ended well and was read to the end.
Answers ==
    \A i \in 1..Len(value) :
        /\ value[i] <= turn
        /\ value[i] = turn => call = "done" /\ outcome = "ok" /\ got = written /\ Called.reads = "whole"

CallInv == CallTypes /\ NothingLost /\ EndsFirst /\ ReadToEnd /\ KeptRight /\ Answers

LEMMA FailuresAreNotOk ==
  ASSUME seam \in DOMAIN Callers
  PROVE  /\ Called.failure \in Failures
         /\ seam \in {"env", "start", "destroy"} => Called.reads = "bytes"
         /\ seam = "filter" => Called.reads = "whole"
<1> USE DEF Callers, BeforeBuild, AfterDeploy, Subscriber, RunFilter, RunUiPanel, AddonVerb, RouterVerb,
        LifecycleVerb, Detect, Build, GetEnv, GetStartCmd, Destroy, Caller
<1>1. seam \in {"pre_build", "post_deploy", "event", "filter", "panel", "addon", "router", "on_install",
                "detect", "build", "env", "start", "destroy"}
  OBVIOUS
<1> QED
  BY <1>1 DEF Failures, Called

\* A step that leaves the output and the kernel's part of the call alone.
LEMMA CallElsewhere ==
    ASSUME CallInv, CallTypes', EndsFirst',
           UNCHANGED <<seam, turn, written, pipe, got, badAt, stopped, outcome, value>>,
           UNCHANGED call \/ (call' \in {"wait", "drain"} /\ call \in {"input", "wait"}),
           Writers' => Writers \/ call # "done"
    PROVE  CallInv'
<1> USE DEF CallInv, Called, ReadsLines
<1>1. NothingLost'
  BY DEF NothingLost
<1>2. ReadToEnd'
  BY DEF ReadToEnd, AtEnd
<1>3. KeptRight'
  BY DEF KeptRight
<1>4. Answers'
  BY DEF Answers
<1> QED
  BY <1>1, <1>2, <1>3, <1>4

LEMMA StepCall == CallInv /\ [CallNext]_callVars => CallInv'
<1> SUFFICES ASSUME CallInv, [CallNext]_callVars PROVE CallInv'
  OBVIOUS
<1> USE DEF Kernel, Runs, Called
<1>0. CallTypes /\ EndsFirst
  BY DEF CallInv
<1>1. CASE ReadPayload
  <2>1. CallTypes' /\ EndsFirst' /\ (Writers' => Writers)
    BY <1>0, <1>1 DEF ReadPayload, CallTypes, EndsFirst, Writers
  <2> QED
    BY <1>1, <2>1, CallElsewhere DEF ReadPayload
<1>2. ASSUME NEW u \in BOOLEAN, PrintUnit(u) PROVE CallInv'
  <2>1. call # "done" /\ ~stopped
    BY <1>2 DEF PrintUnit, CallInv, ReadToEnd, AtEnd
  <2>2. badAt' = badAt \/ (badAt = 0 /\ badAt' = written + 1)
    BY <1>2 DEF PrintUnit
  <2>3. /\ written' = written + 1 /\ pipe' = pipe + 1 /\ call' # "done"
        /\ UNCHANGED <<seam, turn, call, leader, rest, holds, got, stopped, late, outcome, value>>
    BY <1>2, <2>1 DEF PrintUnit
  <2>4. CallTypes' /\ EndsFirst'
    BY <1>0, <2>2, <2>3 DEF CallTypes, EndsFirst
  <2>5. NothingLost'
    BY <1>0, <2>1, <2>2, <2>3 DEF CallInv, CallTypes, NothingLost, ReadsLines
  <2>6. ReadToEnd' /\ KeptRight'
    BY <2>3 DEF ReadToEnd, KeptRight
  <2>7. Answers'
    BY <2>1, <2>3 DEF CallInv, Answers
  <2> QED
    BY <2>4, <2>5, <2>6, <2>7 DEF CallInv
<1>3. ASSUME NEW w \in {"group", "away"}, NEW h \in BOOLEAN, LeaveBehind(w, h) PROVE CallInv'
  <2>1. CallTypes' /\ EndsFirst' /\ call # "done"
    BY <1>0, <1>3 DEF LeaveBehind, CallTypes, EndsFirst
  <2> QED
    BY <1>3, <2>1, CallElsewhere DEF LeaveBehind
<1>4. CASE RestEnds
  <2>1. CallTypes' /\ EndsFirst' /\ (Writers' => Writers)
    BY <1>0, <1>4 DEF RestEnds, CallTypes, EndsFirst, Writers
  <2> QED
    BY <1>4, <2>1, CallElsewhere DEF RestEnds
<1>5. CASE LeaderEnds
  <2>1. CallTypes' /\ EndsFirst' /\ (Writers' => Writers)
    BY <1>0, <1>5 DEF LeaderEnds, CallTypes, EndsFirst, Writers
  <2> QED
    BY <1>5, <2>1, CallElsewhere DEF LeaderEnds
<1>6. ASSUME NEW n \in 0..MaxPayload, SpawnPlugin(n) PROVE CallInv'
  <2>1. outcome' \in Failures \cup {outcome} /\ (call' = "done" => outcome' \in Failures)
    BY <1>0, <1>6, FailuresAreNotOk DEF SpawnPlugin, SpawnFailure, Failures, CallTypes
  <2>2. leader' \in {"runs", "failed"} /\ call' \in {"input", "done"} /\ (call' = "done" => leader' = "failed")
    BY <1>6 DEF SpawnPlugin
  <2>3. /\ UNCHANGED <<seam, turn, value>> /\ written' = 0 /\ pipe' = 0 /\ got' = 0
        /\ rest' = "none" /\ holds' = FALSE /\ late' = FALSE /\ badAt' = 0 /\ stopped' = FALSE
    BY <1>6 DEF SpawnPlugin
  <2>4. NothingLost' /\ EndsFirst'
    BY <2>1, <2>2, <2>3 DEF NothingLost, EndsFirst
  <2>5. holds' \in BOOLEAN /\ late' \in BOOLEAN /\ stopped' \in BOOLEAN
    BY <2>3
  <2>6. CallTypes'
    BY <1>0, <2>1, <2>2, <2>3, <2>5 DEF CallTypes
  <2>7. ReadToEnd' /\ KeptRight'
    BY <2>1, <2>2, <2>3 DEF ReadToEnd, AtEnd, Writers, KeptRight, Failures
  <2>8. Answers'
    BY <1>6 DEF SpawnPlugin, CallInv, Answers, CallTypes
  <2> QED
    BY <2>4, <2>6, <2>7, <2>8 DEF CallInv
<1>7. CASE SendPayload
  <2>1. CallTypes' /\ EndsFirst' /\ (Writers' => Writers)
    BY <1>0, <1>7 DEF SendPayload, CallTypes, EndsFirst, Writers
  <2> QED
    BY <1>7, <2>1, CallElsewhere DEF SendPayload
<1>8. CASE ReadOutput
  <2>1. call \in {"wait", "drain"} /\ pipe > 0 /\ ~stopped
    BY <1>8 DEF ReadOutput, ReadsNow
  <2>2. \/ ReadsLines /\ got + 1 = badAt /\ stopped' = TRUE /\ pipe' = 0 /\ got' = got
        \/ ~(ReadsLines /\ got + 1 = badAt) /\ pipe' = pipe - 1 /\ got' = got + 1 /\ stopped' = stopped
    BY <1>8 DEF ReadOutput
  <2>3. UNCHANGED <<seam, turn, call, leader, rest, holds, written, badAt, late, outcome, value>>
    BY <1>8 DEF ReadOutput
  <2>4. CallTypes' /\ EndsFirst'
    <3>1. pipe' \in Nat /\ got' \in Nat
      BY <1>0, <2>1, <2>2 DEF CallTypes
    <3>2. stopped' \in BOOLEAN
      BY <1>0, <2>2, Zenon DEF CallTypes
    <3> QED
      BY <1>0, <2>3, <3>1, <3>2 DEF CallTypes, EndsFirst
  <2>5. NothingLost'
    BY <1>0, <2>1, <2>2, <2>3 DEF CallInv, CallTypes, NothingLost, ReadsLines
  <2>6. ReadToEnd' /\ KeptRight' /\ Answers'
    BY <2>1, <2>3 DEF CallInv, ReadToEnd, KeptRight, Answers
  <2> QED
    BY <2>4, <2>5, <2>6 DEF CallInv
<1>9. CASE SeeExit
  <2>1. CallTypes' /\ EndsFirst' /\ (Writers' => Writers)
    BY <1>0, <1>9 DEF SeeExit, CallTypes, EndsFirst, Writers
  <2> QED
    BY <1>9, <2>1, CallElsewhere DEF SeeExit
<1>10. CASE CallTimesOut
  <2>1. CallTypes' /\ EndsFirst' /\ call # "done"
    BY <1>0, <1>10 DEF CallTimesOut, TerminateProcessTree, KillTree, CallTypes, EndsFirst
  <2> QED
    BY <1>10, <2>1, CallElsewhere DEF CallTimesOut
<1>11. ASSUME NEW j \in BOOLEAN, CloseCall(j) PROVE CallInv'
  <2>1. outcome' \in Failures \cup {"ok"} /\ (Succeeded => outcome' = "ok") /\ call' = "done" /\ call = "drain"
    BY <1>0, <1>11, FailuresAreNotOk DEF CloseCall, OutcomeOf, CallTypes
  <2>2. UNCHANGED <<seam, turn, leader, rest, holds, written, pipe, badAt, stopped, late>> /\ Joined /\ got' = Usable
    BY <1>11 DEF CloseCall
  <2>3. value' = value \/ (value' = Append(value, turn) /\ Succeeded /\ seam = "filter" /\ Usable > 0)
    BY <1>11 DEF CloseCall, ValueAfter
  <2>4. Usable \in Nat
    BY <1>0 DEF Usable, CallTypes
  <2>5. CallTypes' /\ EndsFirst' /\ NothingLost'
    <3>1. CallTypes'
      BY <1>0, <2>1, <2>2, <2>3, <2>4 DEF CallTypes
    <3>2. EndsFirst' /\ NothingLost'
      BY <1>0, <2>1, <2>2 DEF EndsFirst, NothingLost
    <3> QED
      BY <3>1, <3>2
  <2>6. ReadToEnd'
    BY <2>2 DEF ReadToEnd, AtEnd, Writers, Joined
  <2>7. /\ stopped => ReadsLines /\ got + 1 = badAt
        /\ ~stopped => written = pipe + got
        /\ ~stopped /\ ReadsLines /\ badAt # 0 => got < badAt
    BY <2>1 DEF CallInv, NothingLost
  <2>8. Called.reads # "never" => stopped \/ pipe = 0
    BY <2>2 DEF Joined, AtEnd
  <2>9. /\ seam \in {"env", "start", "destroy"} => Called.reads = "bytes"
        /\ seam = "filter" => Called.reads = "whole"
    BY <1>0, FailuresAreNotOk DEF CallTypes
  <2>10. ASSUME Called.reads # "never"
         PROVE  /\ badAt = 0 => Usable = written
                /\ badAt # 0 /\ (ReadsLines \/ seam = "env") => Usable = badAt - 1
                /\ Called.reads = "whole" => Usable \in {0, written}
                /\ seam \in {"start", "destroy"} => Usable = written
                /\ seam = "filter" /\ Usable > 0 => Usable = written
    <3>1. CASE stopped
      BY <3>1, <1>0, <2>7, <2>9 DEF Usable, ReadsLines, CallTypes
    <3>2. CASE ~stopped
      <4>1. written = got
        BY <3>2, <1>0, <2>7, <2>8, <2>10 DEF CallTypes
      <4> QED
        BY <4>1, <3>2, <1>0, <2>7, <2>9 DEF Usable, ReadsLines, CallTypes
    <3> QED
      BY <3>1, <3>2
  <2>11. KeptRight'
    BY <2>2, <2>10 DEF KeptRight, ReadsLines
  <2>12. Answers'
    <3>1. CASE value' = value
      BY <3>1, <2>1, <2>2 DEF CallInv, Answers
    <3>2. CASE value' = Append(value, turn) /\ Succeeded /\ seam = "filter" /\ Usable > 0
      <4>1. outcome' = "ok" /\ got' = written' /\ Called.reads' = "whole"
        BY <3>2, <2>1, <2>2, <2>9, <2>10
      <4>2. \A i \in 1..Len(value) : value[i] <= turn /\ value[i] # turn
        BY <2>1 DEF CallInv, Answers
      <4>3. value \in Seq(Nat) /\ turn \in Nat
        BY <1>0 DEF CallTypes
      <4> QED
        BY <4>1, <4>2, <4>3, <3>2, <2>1, <2>2 DEF Answers
    <3> QED
      BY <3>1, <3>2, <2>3
  <2> QED
    BY <2>5, <2>6, <2>11, <2>12 DEF CallInv
<1>12. CASE NextSubscriber
  <2>1. /\ call' = "idle" /\ turn' = turn + 1
        /\ UNCHANGED <<seam, leader, rest, holds, written, pipe, got, badAt, stopped, late, outcome, value>>
        /\ call = "done"
    BY <1>12 DEF NextSubscriber
  <2>2. CallTypes' /\ EndsFirst' /\ NothingLost' /\ ReadToEnd' /\ KeptRight'
    BY <1>0, <2>1 DEF CallTypes, EndsFirst, NothingLost, ReadToEnd, KeptRight
  <2>3. Answers'
    BY <1>0, <2>1 DEF CallInv, Answers, CallTypes
  <2> QED
    BY <2>2, <2>3 DEF CallInv
<1>13. CASE UNCHANGED callVars
  <2>1. CallTypes' /\ EndsFirst' /\ (Writers' => Writers)
    BY <1>0, <1>13 DEF callVars, callState, CallTypes, EndsFirst, Writers
  <2> QED
    BY <1>13, <2>1, CallElsewhere DEF callVars, callState
<1> QED
  BY <1>1, <1>2, <1>3, <1>4, <1>5, <1>6, <1>7, <1>8, <1>9, <1>10, <1>11, <1>12, <1>13 DEF CallNext

\* A plugin call that is over has all of its output that is UTF-8 to the end or, of one
\* that is not, what the caller's reader can make of it and never a cut answer; one that
\* timed out left nobody in the plugin's group, and a filter's value holds no failed
\* answer, for every size of the pipe, the output and the payload and any number of
\* subscribers.
THEOREM PluginCallsEndWhole == CallSpec => []CallsEndWhole
<1>1. CallInit => CallInv
  <2> SUFFICES ASSUME CallInit PROVE CallInv
    OBVIOUS
  <2> USE DEF CallInit
  <2>1. CallTypes
    <3>1. holds \in BOOLEAN /\ late \in BOOLEAN /\ stopped \in BOOLEAN
      OBVIOUS
    <3>2. value \in Seq(Nat)
      OBVIOUS
    <3> QED
      BY <3>1, <3>2 DEF CallTypes
  <2>2. NothingLost /\ EndsFirst /\ ReadToEnd /\ KeptRight
    BY DEF NothingLost, EndsFirst, Runs, ReadToEnd, KeptRight
  <2>3. Answers
    BY DEF Answers
  <2> QED
    BY <2>1, <2>2, <2>3 DEF CallInv
<1>2. CallInv => CallsEndWhole
  <2> SUFFICES ASSUME CallInv, call = "done" PROVE CallsEndWhole
    BY DEF CallsEndWhole
  <2>1. late => ~InGroup
    BY DEF CallInv, EndsFirst, InGroup
  <2>2. value # <<>> /\ value[Len(value)] = turn => outcome = "ok" /\ got = written
    BY DEF CallInv, CallTypes, Answers
  <2> QED
    BY <2>1, <2>2 DEF CallInv, KeptRight, CallsEndWhole
<1> QED
  BY <1>1, <1>2, StepCall, PTL DEF CallSpec

-----------------------------------------------------------------------------
(* Bundles and the lock file.                                              *)

Whole(v) == [entry |-> v, files |-> v]
HalfMade(v) == {[entry |-> v, files |-> NoFile], [entry |-> NoFile, files |-> v]}
Removing == {"unlink", "unload", "unsave"}
PluginTypes ==
    /\ bundle \in [Plugins -> [entry : Versions \cup {NoFile}, files : Versions \cup {NoFile}]]
    /\ lock \in [Plugins -> Versions \cup {NoFile}]
    /\ pstep \in [PluginCmds -> Removing \cup {"idle", "copy", "copy on", "load", "save"}]
    /\ target \in [PluginCmds -> [plugin : Plugins, version : Versions]]
    /\ doc \in [PluginCmds -> [Plugins -> Versions \cup {NoFile}]]
    /\ overlapped \in BOOLEAN /\ halfGone \in BOOLEAN

OneCommand == \A c, d \in PluginCmds : pstep[c] # "idle" /\ pstep[d] # "idle" => c = d

\* The lock file has an entry of a bundle that is whole, or about to be removed.
EntriesVouch ==
    \A p \in Plugins :
        \/ lock[p] = NoFile
        \/ bundle[p] = Whole(lock[p])
        \/ \E c \in PluginCmds : pstep[c] \in Removing /\ TheirPlugin(c) = p
\* What a command that has come this far has made of its bundle and has read.
AsFarAs(c) ==
    LET p == TheirPlugin(c)
        v == target[c].version
    IN  /\ pstep[c] = "copy" => bundle[p] = EmptyBundle /\ lock[p] = NoFile
        /\ pstep[c] = "copy on" =>
              bundle[p] \in HalfMade(v) /\ lock[p] = NoFile
        /\ pstep[c] \in {"load", "save"} => bundle[p] = Whole(v) /\ lock[p] = NoFile
        /\ pstep[c] \in {"unload", "unsave"} => bundle[p] = EmptyBundle
        /\ pstep[c] \in {"save", "unsave"} => doc[c] = lock

OneByOne ==
    ~overlapped /\ ~halfGone => OneCommand /\ EntriesVouch /\ \A c \in PluginCmds : AsFarAs(c)

BundleInv == PluginTypes /\ OneByOne

LEMMA VersionsAreFiles == NoFile \notin Versions /\ \A v \in Versions : Whole(v) # EmptyBundle
  BY DEF NoFile, Versions, Whole, EmptyBundle

\* The first file of a copy makes half of a bundle, the second all of it.
LEMMA CopyMakesWhole ==
  ASSUME NEW v \in Versions, NEW f \in {"entry", "files"}
  PROVE  /\ [EmptyBundle EXCEPT ![f] = v] \in HalfMade(v)
         /\ \A b \in HalfMade(v) : b[f] # v => [b EXCEPT ![f] = v] = Whole(v)
<1>1. [EmptyBundle EXCEPT ![f] = v] \in HalfMade(v)
  BY DEF EmptyBundle, HalfMade
<1>2. [[entry |-> v, files |-> NoFile] EXCEPT !["files"] = v] = Whole(v)
  BY DEF Whole
<1>3. [[entry |-> NoFile, files |-> v] EXCEPT !["entry"] = v] = Whole(v)
  BY DEF Whole
<1> QED
  BY <1>1, <1>2, <1>3 DEF HalfMade

LEMMA TypesStep == PluginTypes /\ [PluginNext]_pluginVars => PluginTypes'
<1> SUFFICES ASSUME PluginTypes, [PluginNext]_pluginVars PROVE PluginTypes'
  OBVIOUS
<1> USE DEF PluginTypes, TheirPlugin, PAt, Removing
<1>1. ASSUME NEW c \in PluginCmds, NEW k \in {"copy", "unlink"}, NEW p \in Plugins, NEW v \in Versions, Begin(c, k, p, v)
      PROVE  PluginTypes'
  <2>1. overlapped' \in BOOLEAN
    BY <1>1, Zenon DEF Begin
  <2> QED
    BY <1>1, <2>1 DEF Begin
<1>2. ASSUME NEW c \in PluginCmds, CopyFile(c) \/ UnlinkFile(c) PROVE PluginTypes'
  <2>1. PICK f \in {"entry", "files"}, v \in Versions \cup {NoFile} : bundle' \in {bundle, [bundle EXCEPT ![TheirPlugin(c)][f] = v]}
    BY <1>2 DEF CopyFile, UnlinkFile
  <2>2. bundle' \in [Plugins -> [entry : Versions \cup {NoFile}, files : Versions \cup {NoFile}]]
    <3> DEFINE b == [bundle[TheirPlugin(c)] EXCEPT ![f] = v]
    <3>1. b \in [entry : Versions \cup {NoFile}, files : Versions \cup {NoFile}]
      OBVIOUS
    <3>2. bundle' \in {bundle, [bundle EXCEPT ![TheirPlugin(c)] = b]}
      BY <2>1
    <3> HIDE DEF b
    <3> QED
      BY <3>1, <3>2
  <2>3. pstep' \in [PluginCmds -> Removing \cup {"idle", "copy", "copy on", "load", "save"}]
    BY <1>2 DEF CopyFile, UnlinkFile
  <2> QED
    BY <1>2, <2>2, <2>3 DEF CopyFile, UnlinkFile
<1>3. ASSUME NEW c \in PluginCmds, CopyNothing(c) \/ LoadLock(c) PROVE PluginTypes'
  <2>1. doc' \in [PluginCmds -> [Plugins -> Versions \cup {NoFile}]]
    BY <1>3 DEF CopyNothing, LoadLock
  <2>2. pstep' \in [PluginCmds -> Removing \cup {"idle", "copy", "copy on", "load", "save"}]
    BY <1>3 DEF CopyNothing, LoadLock
  <2> QED
    BY <1>3, <2>1, <2>2 DEF CopyNothing, LoadLock
<1>4. ASSUME NEW c \in PluginCmds, WriteLock(c) PROVE PluginTypes'
  <2>1. lock' \in [Plugins -> Versions \cup {NoFile}]
    <3>1. PICK v \in Versions \cup {NoFile} : lock' = [doc[c] EXCEPT ![TheirPlugin(c)] = v]
      BY <1>4 DEF WriteLock, SaveLock, SaveUnlock, Upsert, Without
    <3>2. doc[c] \in [Plugins -> Versions \cup {NoFile}]
      OBVIOUS
    <3> QED
      BY <3>1, <3>2
  <2>2. pstep' = [pstep EXCEPT ![c] = "idle"] /\ UNCHANGED <<bundle, target, doc, overlapped, halfGone>>
    BY <1>4 DEF WriteLock, SaveLock, SaveUnlock
  <2> QED
    BY <2>1, <2>2
<1>5. ASSUME NEW c \in PluginCmds, StopHere(c) PROVE PluginTypes'
  <2>1. halfGone' \in BOOLEAN
    BY <1>5, Zenon DEF StopHere
  <2> QED
    BY <1>5, <2>1 DEF StopHere
<1>6. ASSUME NEW c \in PluginCmds, AddMarket(c) \/ RemoveMarket(c) PROVE PluginTypes'
  <2>1. UNCHANGED <<bundle, lock, pstep, target, doc, overlapped, halfGone>>
    BY <1>6 DEF AddMarket, RemoveMarket
  <2> QED
    BY <2>1
<1>7. CASE UNCHANGED pluginVars
  BY <1>7 DEF pluginVars, pluginState
<1> HIDE DEF PluginTypes
<1>8. 1 \in Versions
  BY DEF Versions
<1> QED
  BY <1>1, <1>2, <1>3, <1>4, <1>5, <1>6, <1>7, <1>8 DEF PluginNext, InstallPlugin, AddFromMarket, RemovePlugin

LEMMA OneByOneStep == BundleInv /\ [PluginNext]_pluginVars => OneByOne'
<1> SUFFICES ASSUME BundleInv, PluginTypes, PluginTypes', [PluginNext]_pluginVars, ~overlapped', ~halfGone'
             PROVE  (OneCommand /\ EntriesVouch /\ \A c \in PluginCmds : AsFarAs(c))'
  BY TypesStep DEF OneByOne, BundleInv
<1> DEFINE Goal == OneCommand /\ EntriesVouch /\ \A c \in PluginCmds : AsFarAs(c)
<1> USE VersionsAreFiles DEF PluginTypes, TheirPlugin, PAt
<1>1. ASSUME NEW c \in PluginCmds, NEW k \in {"copy", "unlink"}, NEW p \in Plugins, NEW v \in Versions, Begin(c, k, p, v),
             k = "copy" => ~Has(p)
      PROVE  Goal'
  <2>1. ~overlapped /\ ~halfGone /\ PQuiet /\ EntriesVouch
    BY <1>1 DEF Begin, BundleInv, OneByOne
  <2>2. k = "copy" => bundle[p] = EmptyBundle /\ lock[p] = NoFile
    <3>1. k = "copy" => bundle[p] = EmptyBundle
      BY <1>1 DEF Has
    <3>2. lock[p] = NoFile \/ bundle[p] = Whole(lock[p])
      BY <2>1 DEF PQuiet, EntriesVouch, Removing
    <3>3. lock[p] = NoFile \/ (lock[p] \in Versions /\ Whole(lock[p]) # EmptyBundle)
      OBVIOUS
    <3> HIDE DEF PluginTypes
    <3> QED
      BY <3>1, <3>2, <3>3, Zenon
  <2>3. UNCHANGED <<bundle, lock, doc>> /\ pstep'[c] = k /\ target'[c].plugin = p
        /\ \A d \in PluginCmds : d # c => pstep'[d] = "idle"
    BY <1>1, <2>1 DEF Begin, PQuiet
  <2>4. OneCommand'
    BY <2>3 DEF OneCommand
  <2>5. EntriesVouch'
    BY <2>1, <2>3 DEF EntriesVouch, PQuiet, Removing
  <2>6. \A d \in PluginCmds : AsFarAs(d)'
    BY <2>2, <2>3 DEF AsFarAs
  <2> QED
    BY <2>4, <2>5, <2>6
<1>2. ASSUME NEW c \in PluginCmds, pstep[c] # "idle", UNCHANGED <<target, overlapped>>,
             \A d \in PluginCmds : d # c => pstep'[d] = pstep[d],
             ~overlapped /\ ~halfGone => EntriesVouch' /\ AsFarAs(c)',
             halfGone => halfGone'
      PROVE  Goal'
  <2>1. ~overlapped /\ ~halfGone
    BY <1>2
  <2>2. \A d \in PluginCmds : d # c => pstep'[d] = "idle"
    BY <1>2, <2>1 DEF BundleInv, OneByOne, OneCommand
  <2>3. OneCommand'
    BY <2>2 DEF OneCommand
  <2>4. \A d \in PluginCmds : d # c => AsFarAs(d)'
    BY <2>2 DEF AsFarAs
  <2> QED
    BY <1>2, <2>1, <2>3, <2>4
<1>3. ASSUME NEW c \in PluginCmds, ~overlapped, ~halfGone, pstep[c] # "idle"
      PROVE  /\ AsFarAs(c)
             /\ \A q \in Plugins : q # TheirPlugin(c) => lock[q] = NoFile \/ bundle[q] = Whole(lock[q])
             /\ pstep[c] \notin Removing =>
                   lock[TheirPlugin(c)] = NoFile \/ bundle[TheirPlugin(c)] = Whole(lock[TheirPlugin(c)])
  <2>1. OneCommand /\ EntriesVouch /\ AsFarAs(c)
    BY <1>3 DEF BundleInv, OneByOne
  <2>2. \A d \in PluginCmds : pstep[d] \in Removing => d = c
    BY <1>3, <2>1 DEF OneCommand, Removing
  <2> HIDE DEF PluginTypes, TheirPlugin
  <2>3. \A q \in Plugins : q # TheirPlugin(c) \/ pstep[c] \notin Removing => lock[q] = NoFile \/ bundle[q] = Whole(lock[q])
    BY <2>1, <2>2, Zenon DEF EntriesVouch
  <2>4. TheirPlugin(c) \in Plugins
    BY DEF PluginTypes, TheirPlugin
  <2> QED
    BY <2>1, <2>3, <2>4
<1>4. ASSUME NEW c \in PluginCmds, CopyFile(c) PROVE Goal'
  <2>1. pstep[c] \in {"copy", "copy on"} /\ UNCHANGED <<lock, target, doc, overlapped, halfGone>>
        /\ pstep' = [pstep EXCEPT ![c] = IF @ = "copy" THEN "copy on" ELSE "load"]
    BY <1>4 DEF CopyFile
  <2>2. PICK f \in {"entry", "files"} :
          /\ pstep[c] = "copy on" => bundle[TheirPlugin(c)][f] # target[c].version
          /\ bundle' = [bundle EXCEPT ![TheirPlugin(c)][f] = target[c].version]
    BY <1>4 DEF CopyFile
  <2> DEFINE b == [bundle[TheirPlugin(c)] EXCEPT ![f] = target[c].version]
  <2>3. bundle' = [bundle EXCEPT ![TheirPlugin(c)] = b]
    BY <2>2
  <2>4. ~overlapped /\ ~halfGone => EntriesVouch' /\ AsFarAs(c)'
    <3> SUFFICES ASSUME ~overlapped, ~halfGone PROVE EntriesVouch' /\ AsFarAs(c)'
      OBVIOUS
    <3>1. lock[TheirPlugin(c)] = NoFile
      BY <1>3, <2>1 DEF AsFarAs
    <3>2. /\ pstep[c] = "copy" => b \in HalfMade(target[c].version)
          /\ pstep[c] = "copy on" => b = Whole(target[c].version)
      <4>1. /\ pstep[c] = "copy" => bundle[TheirPlugin(c)] = EmptyBundle
            /\ pstep[c] = "copy on" => bundle[TheirPlugin(c)] \in HalfMade(target[c].version)
        BY <1>3, <2>1 DEF AsFarAs
      <4>2. target[c].version \in Versions
        OBVIOUS
      <4> QED
        BY <2>1, <2>2, <4>1, <4>2, CopyMakesWhole
    <3> HIDE DEF b
    <3>4. EntriesVouch'
      BY <1>3, <2>1, <2>3, <3>1 DEF EntriesVouch
    <3>5. bundle'[TheirPlugin(c)] = b /\ TheirPlugin(c)' = TheirPlugin(c) /\ target'[c].version = target[c].version
      BY <2>1, <2>3
    <3>6. AsFarAs(c)'
      BY <2>1, <3>1, <3>2, <3>5 DEF AsFarAs
    <3> QED
      BY <3>4, <3>6
  <2> QED
    BY <1>2, <2>1, <2>4
<1>5. ASSUME NEW c \in PluginCmds, CopyNothing(c) PROVE Goal'
  <2>1. pstep[c] = "copy on" /\ pstep' = [pstep EXCEPT ![c] = "load"] /\ UNCHANGED <<bundle, lock, target, doc, overlapped, halfGone>>
        /\ bundle[TheirPlugin(c)] = Whole(target[c].version)
    BY <1>5 DEF CopyNothing, Whole
  <2>2. ~overlapped /\ ~halfGone => EntriesVouch' /\ AsFarAs(c)'
    BY <1>3, <2>1 DEF EntriesVouch, AsFarAs, Removing
  <2> QED
    BY <1>2, <2>1, <2>2
<1>6. ASSUME NEW c \in PluginCmds, UnlinkFile(c) PROVE Goal'
  <2>1. pstep[c] = "unlink" /\ UNCHANGED <<lock, target, doc, overlapped, halfGone>>
        /\ pstep' \in {pstep, [pstep EXCEPT ![c] = "unload"]}
    BY <1>6 DEF UnlinkFile
  <2>2. (pstep' = pstep) \/ (bundle' = bundle /\ bundle[TheirPlugin(c)] = EmptyBundle /\ pstep'[c] = "unload")
    BY <1>6 DEF UnlinkFile, Has
  <2>3. \A q \in Plugins : q # TheirPlugin(c) => bundle'[q] = bundle[q]
    BY <1>6 DEF UnlinkFile
  <2>4. pstep'[c] \in Removing
    BY <2>1 DEF Removing
  <2>5. ~overlapped /\ ~halfGone => EntriesVouch' /\ AsFarAs(c)'
    <3>1. ~overlapped /\ ~halfGone => EntriesVouch'
      BY <1>3, <2>1, <2>3, <2>4 DEF EntriesVouch
    <3>2. AsFarAs(c)'
      BY <2>1, <2>2 DEF AsFarAs
    <3> QED
      BY <3>1, <3>2
  <2> QED
    BY <1>2, <2>1, <2>5
<1>7. ASSUME NEW c \in PluginCmds, LoadLock(c) PROVE Goal'
  <2>1. UNCHANGED <<bundle, lock, target, overlapped, halfGone>> /\ doc'[c] = lock
    BY <1>7 DEF LoadLock
  <2>2. \/ pstep[c] = "load" /\ pstep' = [pstep EXCEPT ![c] = "save"]
        \/ pstep[c] = "unload" /\ pstep' = [pstep EXCEPT ![c] = "unsave"]
    BY <1>7 DEF LoadLock
  <2>3. ~overlapped /\ ~halfGone => EntriesVouch' /\ AsFarAs(c)'
    BY <1>3, <2>1, <2>2 DEF EntriesVouch, AsFarAs, Removing
  <2> QED
    BY <1>2, <2>1, <2>2, <2>3
<1>8. ASSUME NEW c \in PluginCmds, WriteLock(c) PROVE Goal'
  <2>1. UNCHANGED <<bundle, target, overlapped, halfGone>> /\ pstep[c] \in {"save", "unsave"} /\ pstep' = [pstep EXCEPT ![c] = "idle"]
    BY <1>8 DEF WriteLock, SaveLock, SaveUnlock
  <2>2. lock' = [doc[c] EXCEPT ![TheirPlugin(c)] = IF pstep[c] = "save" THEN target[c].version ELSE NoFile]
    BY <1>8 DEF WriteLock, SaveLock, SaveUnlock, Upsert, Without
  <2>3. ~overlapped /\ ~halfGone => doc[c] = lock /\ (pstep[c] = "save" => bundle[TheirPlugin(c)] = Whole(target[c].version))
    BY <1>3, <2>1 DEF AsFarAs
  <2>4. ~overlapped /\ ~halfGone => EntriesVouch'
    BY <1>3, <2>1, <2>2, <2>3 DEF EntriesVouch
  <2>5. AsFarAs(c)'
    BY <2>1 DEF AsFarAs
  <2> QED
    BY <1>2, <2>1, <2>4, <2>5
<1>9. ASSUME NEW c \in PluginCmds, StopHere(c) PROVE Goal'
  <2>1. UNCHANGED <<bundle, lock, doc, target, overlapped>> /\ pstep[c] # "idle" /\ pstep' = [pstep EXCEPT ![c] = "idle"]
        /\ halfGone' = (halfGone \/ pstep[c] \in {"unlink", "unload", "unsave"})
    BY <1>9 DEF StopHere
  <2>2. pstep[c] \notin Removing
    BY <2>1 DEF Removing
  <2>3. ~overlapped /\ ~halfGone => EntriesVouch' /\ AsFarAs(c)'
    BY <1>3, <2>1, <2>2 DEF EntriesVouch, AsFarAs
  <2> QED
    BY <1>2, <2>1, <2>3
<1>10. ASSUME UNCHANGED <<bundle, lock, pstep, target, doc, overlapped, halfGone>> PROVE Goal'
  BY <1>10 DEF BundleInv, OneByOne, OneCommand, EntriesVouch, AsFarAs
<1> HIDE DEF Goal, PluginTypes
<1>12. ASSUME NEW c \in PluginCmds, NEW p \in Plugins, NEW v \in Versions, InstallPlugin(c, p, v) \/ AddFromMarket(c, p, v) PROVE Goal'
  BY <1>1, <1>12 DEF InstallPlugin, AddFromMarket
<1>13. ASSUME NEW c \in PluginCmds, NEW p \in Plugins, RemovePlugin(c, p) PROVE Goal'
  <2>1. 1 \in Versions
    BY DEF Versions
  <2> QED
    BY <1>1, <1>13, <2>1 DEF RemovePlugin
<1>14. ASSUME NEW c \in PluginCmds, AddMarket(c) \/ RemoveMarket(c) PROVE Goal'
  BY <1>10, <1>14 DEF AddMarket, RemoveMarket
<1>15. ASSUME UNCHANGED pluginVars PROVE Goal'
  BY <1>10, <1>15 DEF pluginVars, pluginState
<1>11. Goal'
  BY <1>4, <1>5, <1>6, <1>7, <1>8, <1>9, <1>12, <1>13, <1>14, <1>15 DEF PluginNext
<1> QED
  BY <1>11 DEF Goal

\* A bundle that is not whole is never vouched for by the lock file, for any number of
\* plugins and commands, as long as they run one at a time and removals get to their end.
THEOREM BrokenBundlesNoticed == PluginSpec => []BrokenIsNoticed
<1>1. PluginInit => BundleInv
  <2> SUFFICES ASSUME PluginInit PROVE BundleInv
    OBVIOUS
  <2>1. PluginTypes
    <3>1. (CHOOSE p \in Plugins : TRUE) \in Plugins /\ 1 \in Versions
      BY PluginsAssumption DEF Versions
    <3>2. overlapped \in BOOLEAN /\ halfGone \in BOOLEAN
      BY DEF PluginInit
    <3>3. target \in [PluginCmds -> [plugin : Plugins, version : Versions]]
      BY <3>1 DEF PluginInit
    <3>4. bundle \in [Plugins -> [entry : Versions \cup {NoFile}, files : Versions \cup {NoFile}]]
      BY DEF PluginInit, EmptyBundle
    <3> QED
      BY <3>2, <3>3, <3>4 DEF PluginInit, PluginTypes
  <2>2. OneByOne
    BY DEF PluginInit, OneByOne, OneCommand, EntriesVouch, AsFarAs
  <2> QED
    BY <2>1, <2>2 DEF BundleInv
<1>2. BundleInv /\ [PluginNext]_pluginVars => BundleInv'
  BY TypesStep, OneByOneStep DEF BundleInv
<1>3. BundleInv => BrokenIsNoticed
  <2> SUFFICES ASSUME BundleInv, PQuiet, ~overlapped, ~halfGone, NEW p \in Plugins, bundle[p].entry # bundle[p].files
               PROVE  Audit(p) # "ok"
    BY DEF BrokenIsNoticed
  <2>1. lock[p] = NoFile \/ bundle[p] = Whole(lock[p])
    BY DEF BundleInv, OneByOne, EntriesVouch, PQuiet, Removing
  <2>2. lock[p] = NoFile
    BY <2>1 DEF Whole
  <2> QED
    BY <2>2 DEF Audit
<1> QED
  BY <1>1, <1>2, <1>3, PTL DEF PluginSpec

-----------------------------------------------------------------------------
(* Addon instances.                                                        *)

Names == AddonApps \cup {Absent}
Binding == {"bind", "unbind", "save bind", "save unbind"}
Dropping == {"deprovision", "delete record"}
AddonTypes ==
    /\ record \in [Instances -> SUBSET Names] /\ stored \subseteq Instances
    /\ env \in [AddonApps -> Instances \cup {Absent}]
    /\ astep \in [AddonCmds -> Binding \cup Dropping \cup {"idle", "provision"}]
    /\ asked \in [AddonCmds -> [instance : Instances \cup {Absent}, app : Names]]
    /\ loaded \in [AddonCmds -> SUBSET Names]
    /\ raced \in BOOLEAN /\ unsaved \in BOOLEAN
    /\ \A c \in AddonCmds : /\ astep[c] # "idle" => Their(c) \in Instances
                            /\ astep[c] \in Binding => TheirApp(c) \in AddonApps

\* No two commands that run are about the same instance or the same app.
Apart ==
    \A c, d \in AddonCmds :
        astep[c] # "idle" /\ astep[d] # "idle" /\ c # d =>
            Their(c) # Their(d) /\ (TheirApp(c) = TheirApp(d) => TheirApp(c) = Absent)
\* An app whose ENV has an instance's keys is in its record, or about to be.
RecordedOK(a) ==
    \/ env[a] = Absent
    \/ a \in record[env[a]]
    \/ \E c \in AddonCmds : astep[c] = "save bind" /\ Their(c) = env[a] /\ TheirApp(c) = a
\* The record a command loaded is still the one on disk.
LoadedOK(c) ==
    /\ astep[c] \in Binding => loaded[c] = record[Their(c)]
    /\ astep[c] \in Dropping => record[Their(c)] = {}
    /\ astep[c] = "provision" => record[Their(c)] = {Absent}
    /\ astep[c] = "save unbind" => env[TheirApp(c)] = Absent
Recorded == \A a \in AddonApps : RecordedOK(a)
StillLoaded == \A c \in AddonCmds : LoadedOK(c)

AddonInv == AddonTypes /\ (~raced /\ ~unsaved => Apart /\ Recorded /\ StillLoaded)

LEMMA AddonTypesStep == AddonTypes /\ [AddonNext]_addonVars => AddonTypes'
<1> SUFFICES ASSUME AddonTypes, [AddonNext]_addonVars PROVE AddonTypes'
  OBVIOUS
<1> USE AddonAssumption DEF AddonTypes, Their, TheirApp, Moves, Names
<1>1. ASSUME NEW c \in AddonCmds, NEW i \in Instances, NEW a \in Names, NEW k \in {"provision", "bind", "unbind", "deprovision"},
             k \in Binding => a \in AddonApps, Request(c, i, a, k),
             stored' \subseteq Instances, loaded' \in [AddonCmds -> SUBSET Names], UNCHANGED <<record, env, unsaved>>
      PROVE  AddonTypes'
  <2>1. raced' \in BOOLEAN
    BY <1>1, Zenon DEF Request
  <2>2. astep' = [astep EXCEPT ![c] = k] /\ asked' = [asked EXCEPT ![c] = [instance |-> i, app |-> a]]
    BY <1>1 DEF Request
  <2> QED
    BY <1>1, <2>1, <2>2 DEF Binding, Dropping
<1>2. ASSUME NEW c \in AddonCmds, NEW i \in Instances, Provision(c, i) PROVE AddonTypes'
  <2>1. Request(c, i, Absent, "provision") /\ stored' \subseteq Instances /\ UNCHANGED <<record, env, unsaved, loaded>>
    BY <1>2 DEF Provision
  <2> QED
    BY <1>1, <2>1 DEF Binding
<1>3. ASSUME NEW c \in AddonCmds, NEW i \in Instances, NEW a \in Names, NEW k \in {"bind", "unbind", "deprovision"},
             k \in Binding => a \in AddonApps, Start(c, k, i, a)
      PROVE  AddonTypes'
  <2>1. loaded' \in [AddonCmds -> SUBSET Names]
    BY <1>3 DEF Start
  <2> QED
    BY <1>1, <1>3, <2>1 DEF Start
<1>4. ASSUME NEW c \in AddonCmds, Provisioned(c) PROVE AddonTypes'
  BY <1>4 DEF Provisioned, Binding
<1>5. ASSUME NEW c \in AddonCmds, SetEnvKeys(c) PROVE AddonTypes'
  BY <1>5 DEF SetEnvKeys, Binding
<1>6. ASSUME NEW c \in AddonCmds, RemoveEnvKeys(c) PROVE AddonTypes'
  BY <1>6 DEF RemoveEnvKeys, KeysGone, Binding
<1>7. ASSUME NEW c \in AddonCmds, SaveRecord(c) PROVE AddonTypes'
  <2>1. /\ astep[c] \in Binding /\ astep' = [astep EXCEPT ![c] = "idle"]
        /\ UNCHANGED <<stored, env, asked, loaded, raced, unsaved>>
        /\ \E s \in SUBSET Names : record' = [record EXCEPT ![Their(c)] = s]
    BY <1>7 DEF SaveRecord, Binding
  <2>2. record' \in [Instances -> SUBSET Names]
    BY <2>1
  <2> QED
    BY <2>1, <2>2 DEF Binding
<1>8. ASSUME NEW c \in AddonCmds, DropData(c) PROVE AddonTypes'
  BY <1>8 DEF DropData, Binding, Dropping
<1>9. ASSUME NEW c \in AddonCmds, DeleteRecord(c) PROVE AddonTypes'
  BY <1>9 DEF DeleteRecord, Binding
<1>10. ASSUME NEW c \in AddonCmds, GiveUpAddon(c) PROVE AddonTypes'
  <2>1. unsaved' \in BOOLEAN
    BY <1>10, Zenon DEF GiveUpAddon
  <2> QED
    BY <1>10, <2>1 DEF GiveUpAddon, Binding
<1>11. ASSUME UNCHANGED addonVars PROVE AddonTypes'
  BY <1>11 DEF addonVars, addonState
<1> HIDE DEF AddonTypes
<1>12. \A c \in AddonCmds, i \in Instances : Start(c, "deprovision", i, Absent) => AddonTypes'
  BY <1>3 DEF Binding
<1>13. \A c \in AddonCmds, i \in Instances, a \in AddonApps : Start(c, "bind", i, a) \/ Start(c, "unbind", i, a) => AddonTypes'
  BY <1>3
<1> QED
  BY <1>2, <1>4, <1>5, <1>6, <1>7, <1>8, <1>9, <1>10, <1>11, <1>12, <1>13 DEF AddonNext

LEMMA StepAddons == AddonInv /\ [AddonNext]_addonVars => AddonInv'
<1> SUFFICES ASSUME AddonInv, AddonTypes, AddonTypes', [AddonNext]_addonVars, ~raced', ~unsaved'
             PROVE  (Apart /\ Recorded /\ StillLoaded)'
  BY AddonTypesStep DEF AddonInv
<1> DEFINE Goal == Apart /\ Recorded /\ StillLoaded
<1> USE DEF Moves
<1>t. /\ record \in [Instances -> SUBSET Names] /\ env \in [AddonApps -> Instances \cup {Absent}]
      /\ astep \in [AddonCmds -> Binding \cup Dropping \cup {"idle", "provision"}]
      /\ asked \in [AddonCmds -> [instance : Instances \cup {Absent}, app : Names]]
      /\ \A c \in AddonCmds : /\ astep[c] # "idle" => Their(c) \in Instances
                              /\ astep[c] \in Binding => TheirApp(c) \in AddonApps
  BY DEF AddonTypes
<1>a. Absent \notin AddonApps /\ Absent \notin Instances
  BY AddonAssumption
<1> DEFINE Same(c) == Their(c)' = Their(c) /\ TheirApp(c)' = TheirApp(c)
<1>u. asked' = asked => \A c \in AddonCmds : Same(c)
  BY DEF Their, TheirApp
<1>0. ASSUME ~raced, ~unsaved PROVE Apart /\ Recorded /\ StillLoaded
  BY <1>0 DEF AddonInv
<1>1. ASSUME NEW c \in AddonCmds, NEW i \in Instances, NEW a \in Names, NEW k \in {"provision", "bind", "unbind", "deprovision"},
             Request(c, i, a, k), UNCHANGED <<record, env, unsaved>>,
             k = "provision" => record[i] = {Absent}, k = "deprovision" => record[i] = {},
             k \in Binding => loaded'[c] = record[i],
             \A d \in AddonCmds : d # c => loaded'[d] = loaded[d]
      PROVE  Goal'
  <2>1. ~raced /\ ~unsaved /\ ~Conflicts(i, a) /\ astep[c] = "idle"
    BY <1>1 DEF Request
  <2>2. astep' = [astep EXCEPT ![c] = k] /\ asked' = [asked EXCEPT ![c] = [instance |-> i, app |-> a]]
    BY <1>1 DEF Request
  <2>3. \A d \in AddonCmds : d # c => astep'[d] = astep[d] /\ Same(d)
    BY <1>t, <2>2 DEF Their, TheirApp
  <2>4. astep'[c] = k /\ Their(c)' = i /\ TheirApp(c)' = a
    BY <1>t, <2>2 DEF Their, TheirApp
  <2>5. Apart'
    BY <1>0, <2>1, <2>3, <2>4 DEF Apart, Conflicts
  <2>6. Recorded'
    <3>1. \A d \in AddonCmds : astep[d] = "save bind" => astep'[d] = "save bind" /\ Same(d)
      BY <2>1, <2>3
    <3> QED
      BY <1>0, <1>1, <2>1, <3>1 DEF Recorded, RecordedOK
  <2>7. ASSUME NEW d \in AddonCmds PROVE LoadedOK(d)'
    <3>1. LoadedOK(d)
      BY <1>0, <2>1 DEF StillLoaded
    <3>2. CASE d = c
      BY <1>1, <2>4, <3>2 DEF LoadedOK, Binding, Dropping
    <3>3. CASE d # c
      BY <1>1, <2>3, <3>1, <3>3 DEF LoadedOK
    <3> QED
      BY <3>2, <3>3
  <2> QED
    BY <2>5, <2>6, <2>7 DEF StillLoaded
<1>2. ASSUME NEW c \in AddonCmds, NEW i \in Instances, Provision(c, i) PROVE Goal'
  <2>1. Absent \in Names /\ record[i] = {Absent}
    BY <1>2 DEF Names, Provision, IsRecord
  <2>2. Request(c, i, Absent, "provision") /\ UNCHANGED <<record, env, unsaved, loaded>>
    BY <1>2 DEF Provision
  <2> QED
    BY <1>1, <2>1, <2>2 DEF Binding
<1>3. ASSUME NEW c \in AddonCmds, NEW i \in Instances, NEW a \in Names, NEW k \in {"bind", "unbind", "deprovision"},
             Start(c, k, i, a)
      PROVE  Goal'
  <2>1. Request(c, i, a, k) /\ UNCHANGED <<record, env, unsaved>> /\ loaded' = [loaded EXCEPT ![c] = record[i]]
        /\ (k = "deprovision" => record[i] = {})
    BY <1>3 DEF Start, MayStart
  <2>2. loaded'[c] = record[i] /\ \A d \in AddonCmds : d # c => loaded'[d] = loaded[d]
    BY <2>1 DEF AddonTypes
  <2>3. k \in {"provision", "bind", "unbind", "deprovision"} /\ k # "provision"
    OBVIOUS
  <2> HIDE DEF Goal
  <2> QED
    BY <1>1, <2>1, <2>2, <2>3
<1>4. ASSUME NEW c \in AddonCmds, astep[c] # "idle", UNCHANGED <<asked, loaded, raced>>,
             \A d \in AddonCmds : d # c => astep'[d] = astep[d],
             unsaved => unsaved'
      PROVE  /\ ~raced /\ ~unsaved /\ Apart' /\ Apart /\ Recorded /\ StillLoaded
             /\ \A d \in AddonCmds :
                   /\ Same(d) /\ loaded'[d] = loaded[d] /\ LoadedOK(d)
                   /\ d # c => astep'[d] = astep[d]
                   /\ d # c /\ astep[d] # "idle" => Their(d) # Their(c) /\ (TheirApp(d) = TheirApp(c) => TheirApp(c) = Absent)
  <2>1. ~raced /\ ~unsaved /\ Apart /\ Recorded /\ StillLoaded
    BY <1>0, <1>4
  <2>2. \A d \in AddonCmds : Same(d) /\ loaded'[d] = loaded[d]
    BY <1>4, <1>u
  <2>3. Apart'
    BY <1>4, <2>1, <2>2 DEF Apart
  <2> QED
    BY <1>4, <2>1, <2>2, <2>3 DEF Apart, StillLoaded
<1>5. ASSUME NEW c \in AddonCmds, Provisioned(c) PROVE Goal'
  <2>1. astep[c] = "provision" /\ astep' = [astep EXCEPT ![c] = "idle"] /\ record' = [record EXCEPT ![Their(c)] = {}]
        /\ UNCHANGED <<env, asked, loaded, raced, unsaved>>
    BY <1>5 DEF Provisioned
  <2>2. /\ Apart' /\ Recorded
        /\ \A d \in AddonCmds :
              /\ Same(d) /\ loaded'[d] = loaded[d] /\ LoadedOK(d)
              /\ d # c => astep'[d] = astep[d]
              /\ d # c /\ astep[d] # "idle" => Their(d) # Their(c) /\ (TheirApp(d) = TheirApp(c) => TheirApp(c) = Absent)
    BY <1>4, <1>t, <2>1
  <2>3. ASSUME NEW a \in AddonApps PROVE RecordedOK(a)'
    <3>1. RecordedOK(a)
      BY <2>2 DEF Recorded
    <3>2. \A d \in AddonCmds : astep[d] = "save bind" => astep'[d] = "save bind" /\ Same(d)
      BY <2>1, <2>2
    <3>3. env'[a] = env[a] /\ (env[a] # Absent /\ a \in record[env[a]] => a \in record'[env[a]])
      <4>1. record[Their(c)] = {Absent} /\ a # Absent
        BY <1>a, <2>1, <2>2 DEF LoadedOK
      <4> QED
        BY <1>t, <2>1, <4>1
    <3> QED
      BY <3>1, <3>2, <3>3 DEF RecordedOK
  <2>4. ASSUME NEW d \in AddonCmds PROVE LoadedOK(d)'
    BY <1>t, <1>a, <2>1, <2>2 DEF LoadedOK, Binding, Dropping
  <2> QED
    BY <2>2, <2>3, <2>4 DEF Recorded, StillLoaded
<1>6. ASSUME NEW c \in AddonCmds, SetEnvKeys(c) PROVE Goal'
  <2>1. astep[c] = "bind" /\ astep' = [astep EXCEPT ![c] = "save bind"] /\ env' = [env EXCEPT ![TheirApp(c)] = Their(c)]
        /\ UNCHANGED <<record, asked, loaded, raced, unsaved>>
    BY <1>6 DEF SetEnvKeys
  <2>2. /\ Apart' /\ Recorded
        /\ \A d \in AddonCmds :
              /\ Same(d) /\ loaded'[d] = loaded[d] /\ LoadedOK(d)
              /\ d # c => astep'[d] = astep[d]
              /\ d # c /\ astep[d] # "idle" => Their(d) # Their(c) /\ (TheirApp(d) = TheirApp(c) => TheirApp(c) = Absent)
    BY <1>4, <1>t, <2>1
  <2>3. ASSUME NEW a \in AddonApps PROVE RecordedOK(a)'
    <3>1. RecordedOK(a)
      BY <2>2 DEF Recorded
    <3> QED
      BY <1>t, <1>a, <2>1, <2>2, <3>1 DEF RecordedOK, Binding, Dropping, LoadedOK
  <2>4. ASSUME NEW d \in AddonCmds PROVE LoadedOK(d)'
    BY <1>t, <1>a, <2>1, <2>2 DEF LoadedOK, Binding, Dropping
  <2> QED
    BY <2>2, <2>3, <2>4 DEF Recorded, StillLoaded
<1>7. ASSUME NEW c \in AddonCmds, RemoveEnvKeys(c) PROVE Goal'
  <2>1. astep[c] = "unbind" /\ astep' = [astep EXCEPT ![c] = "save unbind"] /\ env' = [env EXCEPT ![TheirApp(c)] = Absent]
        /\ UNCHANGED <<record, asked, loaded, raced, unsaved>>
    BY <1>7 DEF RemoveEnvKeys, KeysGone
  <2>2. /\ Apart' /\ Recorded
        /\ \A d \in AddonCmds :
              /\ Same(d) /\ loaded'[d] = loaded[d] /\ LoadedOK(d)
              /\ d # c => astep'[d] = astep[d]
              /\ d # c /\ astep[d] # "idle" => Their(d) # Their(c) /\ (TheirApp(d) = TheirApp(c) => TheirApp(c) = Absent)
    BY <1>4, <1>t, <2>1
  <2>3. ASSUME NEW a \in AddonApps PROVE RecordedOK(a)'
    <3>1. RecordedOK(a)
      BY <2>2 DEF Recorded
    <3> QED
      BY <1>t, <1>a, <2>1, <2>2, <3>1 DEF RecordedOK, Binding, Dropping, LoadedOK
  <2>4. ASSUME NEW d \in AddonCmds PROVE LoadedOK(d)'
    BY <1>t, <1>a, <2>1, <2>2 DEF LoadedOK, Binding, Dropping
  <2> QED
    BY <2>2, <2>3, <2>4 DEF Recorded, StillLoaded
<1>8. ASSUME NEW c \in AddonCmds, SaveRecord(c) PROVE Goal'
  <2>1. astep[c] \in {"save bind", "save unbind"} /\ astep' = [astep EXCEPT ![c] = "idle"]
        /\ UNCHANGED <<env, asked, loaded, raced, unsaved>>
    BY <1>8 DEF SaveRecord
  <2>2. /\ Apart' /\ Recorded
        /\ \A d \in AddonCmds :
              /\ Same(d) /\ loaded'[d] = loaded[d] /\ LoadedOK(d)
              /\ d # c => astep'[d] = astep[d]
              /\ d # c /\ astep[d] # "idle" => Their(d) # Their(c) /\ (TheirApp(d) = TheirApp(c) => TheirApp(c) = Absent)
    BY <1>4, <1>t, <2>1
  <2>3. record' = [record EXCEPT ![Their(c)] = IF astep[c] = "save bind" THEN loaded[c] \cup {TheirApp(c)} ELSE loaded[c] \ {TheirApp(c)}]
    BY <1>8 DEF SaveRecord
  <2>4. loaded[c] = record[Their(c)] /\ (astep[c] = "save unbind" => env[TheirApp(c)] = Absent)
    BY <2>1, <2>2 DEF LoadedOK, Binding
  <2>5. ASSUME NEW a \in AddonApps PROVE RecordedOK(a)'
    <3>1. RecordedOK(a)
      BY <2>2 DEF Recorded
    <3> QED
      BY <1>t, <1>a, <2>1, <2>2, <2>3, <2>4, <3>1 DEF RecordedOK, Binding, Dropping, LoadedOK
  <2>6. ASSUME NEW d \in AddonCmds PROVE LoadedOK(d)'
    BY <1>t, <1>a, <2>1, <2>2, <2>3 DEF LoadedOK, Binding, Dropping
  <2> QED
    BY <2>2, <2>5, <2>6 DEF Recorded, StillLoaded
<1>9. ASSUME NEW c \in AddonCmds, DropData(c) PROVE Goal'
  <2>1. astep[c] = "deprovision" /\ astep' = [astep EXCEPT ![c] = "delete record"] /\ UNCHANGED <<record, env, asked, loaded, raced, unsaved>>
    BY <1>9 DEF DropData
  <2>2. /\ Apart' /\ Recorded
        /\ \A d \in AddonCmds :
              /\ Same(d) /\ loaded'[d] = loaded[d] /\ LoadedOK(d)
              /\ d # c => astep'[d] = astep[d]
              /\ d # c /\ astep[d] # "idle" => Their(d) # Their(c) /\ (TheirApp(d) = TheirApp(c) => TheirApp(c) = Absent)
    BY <1>4, <1>t, <2>1
  <2>3. ASSUME NEW a \in AddonApps PROVE RecordedOK(a)'
    <3>1. RecordedOK(a)
      BY <2>2 DEF Recorded
    <3>2. \A d \in AddonCmds : astep[d] = "save bind" => astep'[d] = "save bind" /\ Same(d)
      BY <2>1, <2>2
    <3>3. env'[a] = env[a] /\ (env[a] # Absent /\ a \in record[env[a]] => a \in record'[env[a]])
      BY <1>t, <1>a, <2>1, <2>2 DEF LoadedOK
    <3> QED
      BY <3>1, <3>2, <3>3 DEF RecordedOK
  <2>4. ASSUME NEW d \in AddonCmds PROVE LoadedOK(d)'
    BY <1>t, <1>a, <2>1, <2>2 DEF LoadedOK, Binding, Dropping
  <2> QED
    BY <2>2, <2>3, <2>4 DEF Recorded, StillLoaded
<1>10. ASSUME NEW c \in AddonCmds, DeleteRecord(c) PROVE Goal'
  <2>1. astep[c] = "delete record" /\ astep' = [astep EXCEPT ![c] = "idle"] /\ record' = [record EXCEPT ![Their(c)] = {Absent}]
        /\ UNCHANGED <<env, asked, loaded, raced, unsaved>>
    BY <1>10 DEF DeleteRecord
  <2>2. /\ Apart' /\ Recorded
        /\ \A d \in AddonCmds :
              /\ Same(d) /\ loaded'[d] = loaded[d] /\ LoadedOK(d)
              /\ d # c => astep'[d] = astep[d]
              /\ d # c /\ astep[d] # "idle" => Their(d) # Their(c) /\ (TheirApp(d) = TheirApp(c) => TheirApp(c) = Absent)
    BY <1>4, <1>t, <2>1
  <2>3. ASSUME NEW a \in AddonApps PROVE RecordedOK(a)'
    <3>1. RecordedOK(a)
      BY <2>2 DEF Recorded
    <3> QED
      BY <1>t, <1>a, <2>1, <2>2, <3>1 DEF RecordedOK, Binding, Dropping, LoadedOK
  <2>4. ASSUME NEW d \in AddonCmds PROVE LoadedOK(d)'
    BY <1>t, <1>a, <2>1, <2>2 DEF LoadedOK, Binding, Dropping
  <2> QED
    BY <2>2, <2>3, <2>4 DEF Recorded, StillLoaded
<1>11. ASSUME NEW c \in AddonCmds, GiveUpAddon(c) PROVE Goal'
  <2>1. astep[c] # "idle" /\ astep' = [astep EXCEPT ![c] = "idle"] /\ UNCHANGED <<record, env, asked, loaded, raced>>
        /\ unsaved' = (unsaved \/ astep[c] = "save bind")
    BY <1>11 DEF GiveUpAddon
  <2>2. /\ Apart' /\ Recorded /\ astep[c] # "save bind"
        /\ \A d \in AddonCmds :
              /\ Same(d) /\ loaded'[d] = loaded[d] /\ LoadedOK(d)
              /\ d # c => astep'[d] = astep[d]
              /\ d # c /\ astep[d] # "idle" => Their(d) # Their(c) /\ (TheirApp(d) = TheirApp(c) => TheirApp(c) = Absent)
    BY <1>4, <1>t, <2>1
  <2>3. ASSUME NEW a \in AddonApps PROVE RecordedOK(a)'
    <3>1. RecordedOK(a)
      BY <2>2 DEF Recorded
    <3>2. \A d \in AddonCmds : astep[d] = "save bind" => astep'[d] = "save bind" /\ Same(d)
      BY <2>1, <2>2
    <3>3. env'[a] = env[a] /\ (env[a] # Absent /\ a \in record[env[a]] => a \in record'[env[a]])
      BY <1>t, <1>a, <2>1, <2>2 DEF LoadedOK
    <3> QED
      BY <3>1, <3>2, <3>3 DEF RecordedOK
  <2>4. ASSUME NEW d \in AddonCmds PROVE LoadedOK(d)'
    BY <1>t, <1>a, <2>1, <2>2 DEF LoadedOK, Binding, Dropping
  <2> QED
    BY <2>2, <2>3, <2>4 DEF Recorded, StillLoaded
<1>12. ASSUME UNCHANGED addonVars PROVE Goal'
  <2>1. UNCHANGED <<record, env, astep, loaded, asked, raced, unsaved>>
    BY <1>12 DEF addonVars, addonState
  <2>2. Apart /\ Recorded /\ StillLoaded /\ \A d \in AddonCmds : Same(d)
    BY <1>0, <1>u, <2>1
  <2>3. Apart'
    BY <2>1, <2>2 DEF Apart
  <2>4. \A a \in AddonApps : RecordedOK(a)'
    BY <2>1, <2>2 DEF Recorded, RecordedOK
  <2>5. \A d \in AddonCmds : LoadedOK(d)'
    BY <2>1, <2>2 DEF StillLoaded, LoadedOK
  <2> QED
    BY <2>3, <2>4, <2>5 DEF Recorded, StillLoaded
<1> HIDE DEF Goal
<1>13. \A c \in AddonCmds, i \in Instances : Start(c, "deprovision", i, Absent) => Goal'
  BY <1>3 DEF Names
<1>14. \A c \in AddonCmds, i \in Instances, a \in AddonApps : Start(c, "bind", i, a) \/ Start(c, "unbind", i, a) => Goal'
  BY <1>3 DEF Names
<1>15. Goal'
  BY <1>2, <1>5, <1>6, <1>7, <1>8, <1>9, <1>10, <1>11, <1>12, <1>13, <1>14 DEF AddonNext
<1> QED
  BY <1>15 DEF Goal

\* Only deprovision takes data away, and where it does no app's ENV points at it.
LEMMA DataStays ==
  ASSUME AddonInv, [AddonNext]_addonVars, NEW a \in AddonApps, ~raced, ~unsaved, env[a] \in stored
  PROVE  env[a] \in stored'
<1>1. ASSUME NEW c \in AddonCmds, DropData(c) PROVE env[a] # Their(c)
  <2>1. astep[c] = "deprovision" /\ record[Their(c)] = {} /\ Apart /\ Recorded
    BY <1>1 DEF AddonInv, DropData, Moves, StillLoaded, LoadedOK, Dropping
  <2>2. env[a] # Absent
    BY AddonAssumption DEF AddonInv, AddonTypes
  <2> QED
    BY <2>1, <2>2 DEF Recorded, RecordedOK, Apart
<1>2. \/ \E c \in AddonCmds : DropData(c)
      \/ stored \subseteq stored'
  BY DEF AddonNext, Provision, Start, Provisioned, SetEnvKeys, RemoveEnvKeys, SaveRecord, DeleteRecord, GiveUpAddon, addonVars, addonState
<1> QED
  BY <1>1, <1>2 DEF DropData

\* The data loss guard: no step takes away the data of an instance that an app's ENV
\* points at, for any number of instances, apps and commands.
THEOREM DataIsGuarded == AddonSpec => DataLossGuard
<1>1. AddonInit => AddonInv
  <2> SUFFICES ASSUME AddonInit PROVE AddonInv
    OBVIOUS
  <2>1. AddonTypes
    <3>1. raced \in BOOLEAN /\ unsaved \in BOOLEAN
      BY DEF AddonInit
    <3> QED
      BY <3>1 DEF AddonInit, AddonTypes, Names, Binding
  <2>2. Apart /\ Recorded /\ StillLoaded
    BY DEF AddonInit, Apart, Recorded, RecordedOK, StillLoaded, LoadedOK, Binding, Dropping
  <2> QED
    BY <2>1, <2>2 DEF AddonInv
<1>2. AddonInv /\ [AddonNext]_addonVars =>
        [\A a \in AddonApps : ~raced /\ ~unsaved /\ env[a] \in stored => env[a] \in stored']_addonVars
  BY DataStays
<1> QED
  BY <1>1, <1>2, StepAddons, PTL DEF AddonSpec, DataLossGuard

-----------------------------------------------------------------------------
(* The remote dashboard.                                                   *)

SessionTypes ==
    /\ stage \in {"idle", "connect", "sudo", "starting", "running", "finish", "ended"}
    /\ script \in {"none", "login", "asking", "shell", "serving", "ended"}
    /\ out \in Seq({"motd", "ready", "bound", "closed"})
    /\ tosudo \in Seq({"password", "token"})
    /\ prompts \in Nat

NoReady == \A k \in 1..Len(out) : out[k] # "ready"
\* What is on the way to whoever reads stdin, and how far the command can be.
Handed ==
    /\ script \in {"none", "login"} => NoReady /\ tosudo = <<>> /\ err = <<>> /\ prompts = 0
    /\ script = "asking" =>
          /\ NoReady
          /\ tosudo \in {<<>>, <<"password">>} /\ (prompts = 0 => tosudo = <<>>)
    /\ script \in {"none", "login", "asking"} => stage \notin {"starting", "running"}
    /\ script = "shell" =>
          /\ prompts = 0 => err = <<>>
          /\ tosudo \in {<<>>, <<"token">>} /\ (stage = "sudo" => tosudo = <<>>)
\* What runs, and what the command must still end.
Alive ==
    /\ dashboard = "up" => script = "serving"
    /\ ssh = "up" => stage \notin {"idle", "connect", "ended"}
    /\ stage \in {"idle", "connect"} => script = "none"
    /\ stage \in {"idle", "connect", "ended"} => ~stdin
    /\ stage = "ended" => master # "up"
SessionInv == SessionTypes /\ Handed /\ Alive /\ read \subseteq {<<"sudo", "password">>, <<"shell", "token">>}

Lines == {"motd", "ready", "bound", "closed"}

LEMMA AddLine ==
  ASSUME SessionTypes, NEW l \in Lines, out' = Append(out, l)
  PROVE  /\ out' \in Seq(Lines)
         /\ l # "ready" /\ NoReady => NoReady'
BY DEF SessionTypes, NoReady, Lines

LEMMA PrintLines ==
  ASSUME SessionTypes, NEW ls \in Seq(Lines), NEW cs, Prints(ls, cs)
  PROVE  /\ out' \in Seq(Lines)
         /\ NoReady /\ (\A k \in 1..Len(ls) : ls[k] # "ready") => NoReady'
<1>1. CASE out' = out
  BY <1>1 DEF SessionTypes, NoReady, Lines
<1>2. CASE out' = out \o ls
  <2>1. out \in Seq(Lines)
    BY DEF SessionTypes, Lines
  <2>2. out \o ls \in Seq(Lines) /\ Len(out \o ls) = Len(out) + Len(ls) /\ Len(out) \in Nat /\ Len(ls) \in Nat
    BY <2>1
  <2>3. \A k \in 1..Len(out \o ls) : (out \o ls)[k] = IF k <= Len(out) THEN out[k] ELSE ls[k - Len(out)]
    BY <2>1
  <2> QED
    BY <1>2, <2>2, <2>3 DEF NoReady
<1> QED
  BY <1>1, <1>2 DEF Prints

\* What is cut off is the end of it.
LEMMA CutLines ==
  ASSUME SessionTypes, CutOff
  PROVE  /\ tosudo' \in Seq({"password", "token"})
         /\ tosudo = <<>> => tosudo' = <<>>
         /\ \A w \in {"password", "token"} : tosudo = <<w>> => tosudo' \in {<<>>, <<w>>}
<1>1. PICK n \in 0..Len(tosudo) : tosudo' = SubSeq(tosudo, 1, n)
  BY DEF CutOff
<1>2. Len(tosudo) \in Nat
  BY DEF SessionTypes
<1>3. tosudo' \in Seq({"password", "token"})
  BY <1>1, <1>2 DEF SessionTypes
<1>4. tosudo = <<>> => tosudo' = <<>>
  BY <1>1
<1>5. ASSUME NEW w \in {"password", "token"}, tosudo = <<w>> PROVE tosudo' \in {<<>>, <<w>>}
  <2>a. Len(<<w>>) = 1
    OBVIOUS
  <2>b. SubSeq(<<w>>, 1, 0) = <<>>
    OBVIOUS
  <2>c. SubSeq(<<w>>, 1, 1) = <<w>>
    <3> DEFINE one == SubSeq(<<w>>, 1, 1)
    <3>1. one = [i \in 1..1 |-> <<w>>[i]]
      OBVIOUS
    <3>2. <<w>> = [i \in 1..1 |-> w] /\ <<w>>[1] = w
      OBVIOUS
    <3>3. \A i \in 1..1 : <<w>>[i] = w
      BY <3>2
    <3> HIDE DEF one
    <3> QED
      BY <3>1, <3>2, <3>3, Zenon DEF one
  <2>0. Len(<<w>>) = 1 /\ SubSeq(<<w>>, 1, 0) = <<>> /\ SubSeq(<<w>>, 1, 1) = <<w>>
    BY <2>a, <2>b, <2>c
  <2>1. n = 0 \/ n = 1
    BY <1>5, <2>0
  <2> QED
    BY <1>1, <1>5, <2>0, <2>1
<1> QED
  BY <1>3, <1>4, <1>5

LEMMA DropLine ==
  ASSUME SessionTypes, out # <<>>, out' = Tail(out)
  PROVE  /\ out' \in Seq(Lines)
         /\ NoReady => NoReady' /\ Head(out) # "ready"
BY DEF SessionTypes, NoReady, Lines

LEMMA StepSession == SessionInv /\ [SessionNext]_sessionVars => SessionInv'
<1> SUFFICES ASSUME SessionTypes, Handed, Alive, read \subseteq {<<"sudo", "password">>, <<"shell", "token">>},
                    [SessionNext]_sessionVars
             PROVE  SessionInv'
  BY DEF SessionInv
<1> USE DEF SessionTypes, Handed, Alive, Local, Remote
<1>1. ASSUME NEW p \in Prompts, NEW g \in BOOLEAN, NEW c \in BOOLEAN, Login(g, c, p) PROVE SessionInv'
  <2> DEFINE greeting == IF g THEN <<"motd">> ELSE <<>>
  <2>1. /\ greeting \in Seq(Lines) /\ Append(greeting, "ready") \in Seq(Lines)
        /\ \A k \in 1..Len(greeting) : greeting[k] # "ready"
    <3>1. CASE g
      <4>1. greeting = <<"motd">>
        BY <3>1
      <4>2. "motd" \in Lines /\ "ready" \in Lines
        BY DEF Lines
      <4>3. <<"motd">> \in Seq(Lines) /\ Append(<<"motd">>, "ready") \in Seq(Lines)
        BY <4>2
      <4>4. \A k \in 1..Len(<<"motd">>) : <<"motd">>[k] # "ready"
        OBVIOUS
      <4> HIDE DEF greeting
      <4> QED
        BY <4>1, <4>3, <4>4
    <3>2. CASE ~g
      <4>1. greeting = <<>>
        BY <3>2
      <4>2. Append(<<>>, "ready") \in Seq(Lines) /\ <<>> \in Seq(Lines) /\ Len(<<>>) = 0
        BY DEF Lines
      <4> QED
        BY <4>1, <4>2
    <3> QED
      BY <3>1, <3>2
  <2>2. CASE c
    <3>1. script' = "shell" /\ Prints(Append(greeting, "ready"), <<>>) /\ script = "login" /\ UNCHANGED <<Local, ssh, tosudo, dashboard, read>>
      BY <1>1, <2>2 DEF Login
    <3> HIDE DEF greeting
    <3>2. out' \in Seq(Lines)
      BY <2>1, <3>1, PrintLines
    <3>3. err' = <<>>
      BY <3>1 DEF Prints
    <3> QED
      BY <3>1, <3>2, <3>3 DEF SessionInv, Lines
  <2>3. CASE ~c
    <3>1. script' = "asking" /\ Prints(greeting, p) /\ script = "login" /\ UNCHANGED <<Local, ssh, tosudo, dashboard, read>>
      BY <1>1, <2>3 DEF Login
    <3> HIDE DEF greeting
    <3>2. NoReady' /\ out' \in Seq(Lines)
      BY <2>1, <3>1, PrintLines
    <3> QED
      BY <3>1, <3>2 DEF SessionInv, Lines
  <2> QED
    BY <2>2, <2>3
<1>2. ASSUME NEW p \in Prompts, NEW r \in BOOLEAN, SudoReads(r, p) PROVE SessionInv'
  <2>1. /\ script = "asking" /\ tosudo = <<"password">> /\ prompts # 0
        /\ UNCHANGED <<Local, ssh, dashboard>> /\ tosudo' = Tail(tosudo)
        /\ read' = read \cup {<<"sudo", Head(tosudo)>>}
    BY <1>2 DEF SudoReads
  <2>2. tosudo' = <<>> /\ read' \subseteq {<<"sudo", "password">>, <<"shell", "token">>}
    BY <2>1
  <2>3. CASE script' = "shell" /\ Prints(<<"ready">>, <<>>)
    <3>0. <<"ready">> \in Seq(Lines)
      BY DEF Lines
    <3>1. out' \in Seq(Lines)
      BY <2>3, <3>0, PrintLines
    <3> QED
      BY <2>1, <2>2, <2>3, <3>1 DEF SessionInv, Lines
  <2>4. CASE UNCHANGED script /\ Prints(<<>>, p)
    <3> DEFINE none == <<>>
    <3>a. none \in Seq(Lines)
      OBVIOUS
    <3>b. \A k \in 1..Len(none) : none[k] # "ready"
      OBVIOUS
    <3>p. Prints(none, p)
      BY <2>4
    <3> HIDE DEF none
    <3>1. out' \in Seq(Lines)
      BY <3>p, <3>a, PrintLines
    <3>2. ASSUME NoReady PROVE NoReady'
      BY <3>2, <3>p, <3>a, <3>b, PrintLines
    <3> QED
      BY <2>1, <2>2, <2>4, <3>1, <3>2 DEF SessionInv, Lines
  <2> QED
    BY <1>2, <2>3, <2>4 DEF SudoReads
<1>3. CASE ShellReads
  <2>1. tosudo = <<"token">> /\ tosudo' = Tail(tosudo) /\ read' = read \cup {<<"shell", Head(tosudo)>>}
    BY <1>3 DEF ShellReads
  <2>2. tosudo' = <<>> /\ read' \subseteq {<<"sudo", "password">>, <<"shell", "token">>}
    BY <2>1
  <2> QED
    BY <1>3, <2>2 DEF ShellReads, SessionInv
<1>4. CASE ReportsPort
  <2> DEFINE line == <<"bound">>
  <2>a. line \in Seq(Lines)
    BY DEF Lines
  <2>b. \A k \in 1..Len(line) : line[k] # "ready"
    OBVIOUS
  <2>p. Prints(line, <<>>)
    BY <1>4 DEF ReportsPort
  <2> HIDE DEF line
  <2>1. out' \in Seq(Lines) /\ (NoReady => NoReady')
    <3>1. out' \in Seq(Lines)
      BY <2>p, <2>a, PrintLines
    <3>2. ASSUME NoReady PROVE NoReady'
      BY <3>2, <2>p, <2>a, <2>b, PrintLines
    <3> QED
      BY <3>1, <3>2
  <2>2. err' = err
    BY <1>4 DEF ReportsPort, Prints
  <2> QED
    BY <1>4, <2>1, <2>2 DEF ReportsPort, SessionInv, Lines
<1>5. CASE DashboardDies
  BY <1>5 DEF DashboardDies, SessionInv, NoReady
<1>6. CASE ScriptEnds
  BY <1>6 DEF ScriptEnds, SessionInv
<1>7. CASE ClientEnds
  BY <1>7, AddLine DEF ClientEnds, SessionInv, Lines
<1>8. CASE ConnectionDrops
  <2>1. /\ UNCHANGED <<Local, err, script, dashboard, read>> /\ ssh' = "exited"
        /\ CutOff /\ out' = Append(out, "closed")
    BY <1>8 DEF ConnectionDrops, CutOff
  <2>2. out' \in Seq(Lines) /\ (NoReady => NoReady')
    BY <2>1, AddLine DEF Lines
  <2> QED
    BY <2>1, <2>2, CutLines DEF SessionInv, Lines
<1>9. CASE Connect
  BY <1>9 DEF Connect, SessionInv, NoReady
<1>10. CASE SpawnClient
  BY <1>10 DEF SpawnClient, SessionInv, NoReady, Fails
<1>11. CASE HandleStderr
  <2>1. UNCHANGED <<master, ssh, out, script, dashboard, read>> /\ stage \in {"sudo", "starting", "running"} /\ err # <<>>
    BY <1>11 DEF HandleStderr
  <2>2. NoReady => NoReady'
    BY <2>1 DEF NoReady
  <2>3. CASE UNCHANGED <<prompts, tosudo, stage>>
    BY <2>1, <2>2, <2>3 DEF SessionInv
  <2>4. CASE prompts' = prompts + 1 /\ Fails /\ UNCHANGED tosudo
    BY <2>1, <2>2, <2>4 DEF SessionInv, Fails
  <2>5. CASE prompts = 0 /\ prompts' = prompts + 1 /\ stage = "sudo" /\ tosudo' = Append(tosudo, "password") /\ UNCHANGED stage
    <3>1. script = "asking" => tosudo' = <<"password">>
      BY <2>5
    <3>2. script \notin {"none", "login", "shell"}
      BY <2>1, <2>5
    <3>3. tosudo' \in Seq({"password", "token"})
      BY <2>5
    <3> QED
      BY <2>1, <2>2, <2>5, <3>1, <3>2, <3>3 DEF SessionInv
  <2> QED
    BY <1>11, <2>3, <2>4, <2>5 DEF HandleStderr, SendPassword, RejectPassword, Writes
<1>12. CASE HandleStdout
  <2>1. UNCHANGED <<master, ssh, err, prompts, script, dashboard, read>> /\ stage \in {"sudo", "starting"} /\ out # <<>> /\ out' = Tail(out)
    BY <1>12 DEF HandleStdout
  <2>2. CASE Fails /\ UNCHANGED tosudo
    BY <2>1, <2>2, DropLine DEF SessionInv, Fails, Lines
  <2>3. CASE UNCHANGED <<stage, tosudo>>
    BY <2>1, <2>3, DropLine DEF SessionInv, Lines
  <2>4. CASE stage = "starting" /\ stage' = "running" /\ UNCHANGED tosudo
    BY <2>1, <2>4, DropLine DEF SessionInv, Lines
  <2>5. CASE stage = "sudo" /\ IsReady(Head(out)) /\ stage' = "starting" /\ tosudo' = Append(tosudo, "token")
    <3>1. script \notin {"none", "login", "asking"}
      BY <2>1, <2>5, DropLine DEF IsReady
    <3>2. script = "shell" => tosudo' = <<"token">>
      BY <2>5
    <3>3. tosudo' \in Seq({"password", "token"}) /\ out' \in Seq({"motd", "ready", "bound", "closed"})
      BY <2>1, <2>5, DropLine DEF Lines
    <3> QED
      BY <2>1, <2>5, <3>1, <3>2, <3>3 DEF SessionInv
  <2> QED
    BY <1>12, <2>2, <2>3, <2>4, <2>5 DEF HandleStdout, Writes
<1>13. CASE Stalls \/ Interrupt \/ SeeClientEnd
  BY <1>13 DEF Stalls, Interrupt, SeeClientEnd, Fails, SessionInv, NoReady
<1>14. CASE CloseStdin \/ StopClient \/ StopMaster
  <2>1. CASE CloseStdin \/ StopMaster
    BY <2>1 DEF CloseStdin, StopMaster, SessionInv, NoReady
  <2>2. CASE StopClient
    <3>1. UNCHANGED <<Local, err, out, script, dashboard, read>> /\ ssh' = "exited" /\ CutOff
      BY <2>2 DEF StopClient, CutOff
    <3>2. NoReady => NoReady'
      BY <3>1 DEF NoReady
    <3> QED
      BY <3>1, <3>2, CutLines DEF SessionInv
  <2> QED
    BY <1>14, <2>1, <2>2
<1>15. CASE UNCHANGED sessionVars
  BY <1>15 DEF sessionVars, sessionState, SessionInv, NoReady
<1> QED
  BY <1>1, <1>2, <1>3, <1>4, <1>5, <1>6, <1>7, <1>8, <1>9, <1>10, <1>11, <1>12, <1>13, <1>14, <1>15 DEF SessionNext

\* sudo reads only the password and the script only the token, the command leaves no ssh
\* process of its own, and no dashboard is left on the server without a script that will
\* end it, for any number of password tries and of failures.
THEOREM SecretsAreKept == SessionSpec => []SecretsReachTheirReader
<1>1. SessionInit => SessionInv
  BY DEF SessionInit, SessionInv, SessionTypes, Handed, Alive, NoReady
<1>2. SessionInv => SecretsReachTheirReader
  BY DEF SessionInv, SessionTypes, Alive, SecretsReachTheirReader
<1> QED
  BY <1>1, <1>2, StepSession, PTL DEF SessionSpec

-----------------------------------------------------------------------------
(* Host setup.                                                             *)

\* The steps of a root run from the last one back; each set holds the ones before it.
AtService  == {"service start", "watchers", "done"}
AtHelper   == {"helper enable", "helper start", "helper check"}
AtUnits    == {"units", "service unit"} \cup AtHelper \cup AtService
AtNginx    == {"clear", "nginx root", "include", "worker"}
AtCaddy    == {"caddy root", "foreign", "caddyfile", "drop-in", "run dir", "caddy restart"}
AtRouter   == AtNginx \cup AtCaddy \cup AtUnits
AtVarRoot  == {"var root"} \cup AtRouter
AtTmpfiles == {"tmpfiles"} \cup AtVarRoot
AtSocket   == {"socket dir"} \cup AtTmpfiles
AtKeys     == {"stale binary", "keys", "group"} \cup AtSocket
AtBranch   == {"branch"} \cup AtKeys
AtHook     == {"hook"} \cup AtBranch
AtTree     == {"tree", "router file"} \cup AtHook
AtAccount  == {"account"} \cup AtTree

\* How far the last run came: one that ended well has made all its steps.
Reached == IF hstep = "idle" THEN (IF ended = "ok" THEN "done" ELSE "nothing") ELSE hstep

\* What is in place once a root run has come as far as it has.
UserPart ==
    /\ hstep \notin {"require", "user service"}
    /\ Reached \in AtAccount => binary = image
    /\ hstep # "idle" \/ ended # "none" => image # 0
    /\ Reached \in AtTree => "account" \in host
    /\ Reached \in AtHook => "tree" \in host
    /\ Reached \in AtBranch => "hook" \in host
    /\ Reached \in AtKeys => "branch" \in host
SocketPart ==
    /\ Reached \in AtSocket => "socket group" \in host
    /\ Reached \in AtTmpfiles /\ (tmpfiles \/ reboots = 0) => "socket dir" \in host
    /\ Reached \in AtVarRoot /\ tmpfiles => "tmpfiles" \in host
    /\ Reached \in AtRouter => "var root" \in host
NginxPart ==
    /\ Reached \in AtNginx => Router = "nginx"
    /\ Reached \in AtNginx \ {"clear"} => confd
    /\ Reached \in (AtNginx \ {"clear"}) \cup AtUnits /\ Router = "nginx" => "deploy files" \notin stale
    /\ Reached \in {"include", "worker"} \cup AtUnits /\ Router = "nginx" /\ confd => "nginx root" \in host
    /\ Reached \in {"worker"} \cup AtUnits /\ Router = "nginx" /\ confd => "include" \in host
    /\ Reached \in AtUnits /\ Router = "nginx" /\ confd => "worker in group" \in host
CaddyPart ==
    /\ Reached \in AtCaddy => Router = "caddy"
    /\ Reached \in (AtCaddy \ {"caddy root"}) \cup AtUnits /\ Router = "caddy" => "caddy root" \in host
    /\ Reached \in {"caddyfile", "drop-in", "run dir", "caddy restart"} \cup AtUnits /\ Router = "caddy" => "foreign sites" \notin stale
    /\ Reached \in {"drop-in", "run dir", "caddy restart"} \cup AtUnits /\ Router = "caddy" => "caddyfile" \in host
    /\ Reached \in {"run dir", "caddy restart"} \cup AtUnits /\ Router = "caddy" => "drop-in" \in host
    /\ Reached \in {"caddy restart"} \cup AtUnits /\ Router = "caddy" => "run dir" \in host
    /\ Reached \in {"caddy restart"} \cup AtUnits /\ Router = "caddy" => systemd
    /\ Reached \in AtUnits /\ Router = "caddy" => caddy = "socket"
UnitPart ==
    /\ Reached \in AtHelper \cup {"service unit", "service start", "watchers"} => withUnits
    /\ Reached \in AtHelper => systemd
    /\ Reached \in {"helper start", "helper check"} => "helper enabled" \in host
    /\ Reached = "helper check" => helper \in {0, binary}
    /\ Reached \in {"service unit"} \cup AtService /\ systemd /\ withUnits /\ Router # "plugin" =>
          helper = binary /\ "helper enabled" \in host
    /\ Reached \in AtService /\ withUnits => "service unit" \in host

SetupInv == reboots \in Nat /\ inits \in Nat /\ (asRoot => UserPart /\ SocketPart /\ NginxPart /\ CaddyPart /\ UnitPart)

LEMMA StepSetup == SetupInv /\ [SetupNext]_setupVars => SetupInv'
<1> SUFFICES ASSUME SetupInv, [SetupNext]_setupVars PROVE SetupInv'
  OBVIOUS
<1> DEFINE Goal == reboots \in Nat /\ inits \in Nat /\ (asRoot => UserPart /\ SocketPart /\ NginxPart /\ CaddyPart /\ UnitPart)
<1> USE DEF Run, Services, At, Puts, Clears, Reached, Router, AtAccount, AtTree, AtHook, AtBranch, AtKeys, AtSocket,
            AtTmpfiles, AtVarRoot, AtRouter, AtNginx, AtCaddy, AtHelper, AtUnits, AtService
<1>0. Goal
  BY DEF SetupInv
<1>1. ASSUME NEW root \in BOOLEAN, NEW units \in BOOLEAN, NEW new \in BOOLEAN, NEW r \in Routers \cup {"unset"},
             CmdInit(root, r, units, new)
      PROVE  Goal'
  <2>1. reboots \in Nat /\ reboots' = reboots /\ inits \in Nat /\ inits' = inits + 1
    BY <1>0, <1>1 DEF CmdInit
  <2>2. image' # 0
    <3>1. CASE new
      BY <1>1, <2>1, <3>1 DEF CmdInit
    <3>2. CASE ~new
      BY <1>1, <3>2 DEF CmdInit
    <3> QED
      BY <3>1, <3>2
  <2>3. asRoot' => hstep' = "binary"
    BY <1>1 DEF CmdInit
  <2>4. asRoot' => UserPart' /\ SocketPart' /\ NginxPart' /\ CaddyPart' /\ UnitPart'
    BY <2>2, <2>3 DEF UserPart, SocketPart, NginxPart, CaddyPart, UnitPart
  <2> QED
    BY <2>1, <2>4
<1>2. ASSUME InstallRootBinary PROVE Goal'
  BY <1>0, <1>2 DEF InstallRootBinary, UserPart, SocketPart, NginxPart, CaddyPart, UnitPart
<1>3. ASSUME EnsureAccount PROVE Goal'
  BY <1>0, <1>3 DEF EnsureAccount, UserPart, SocketPart, NginxPart, CaddyPart, UnitPart
<1>4. ASSUME RequireRootBinary PROVE Goal'
  BY <1>0, <1>4 DEF RequireRootBinary, UserPart, SocketPart, NginxPart, CaddyPart, UnitPart
<1>5. ASSUME PersistRouter PROVE Goal'
  BY <1>0, <1>5 DEF PersistRouter, UserPart, SocketPart, NginxPart, CaddyPart, UnitPart
<1>6. ASSUME CreateDirectoryStructure PROVE Goal'
  BY <1>0, <1>6 DEF CreateDirectoryStructure, UserPart, SocketPart, NginxPart, CaddyPart, UnitPart
<1>7. ASSUME CreateGitHook PROVE Goal'
  BY <1>0, <1>7 DEF CreateGitHook, UserPart, SocketPart, NginxPart, CaddyPart, UnitPart
<1>8. ASSUME SetDefaultBranch PROVE Goal'
  BY <1>0, <1>8 DEF SetDefaultBranch, UserPart, SocketPart, NginxPart, CaddyPart, UnitPart
<1>9. ASSUME RemoveStaleBinary PROVE Goal'
  BY <1>0, <1>9 DEF RemoveStaleBinary, UserPart, SocketPart, NginxPart, CaddyPart, UnitPart
<1>10. ASSUME SetupUserService PROVE Goal'
  <2>1. hstep = "user service" /\ UNCHANGED <<asRoot, inits, reboots>>
    BY <1>10 DEF SetupUserService
  <2> QED
    BY <1>0, <2>1 DEF UserPart
<1>11. ASSUME AddDeployKeys PROVE Goal'
  BY <1>0, <1>11 DEF AddDeployKeys, AfterKeys, UserPart, SocketPart, NginxPart, CaddyPart, UnitPart
<1>12. ASSUME NoDeployKeys PROVE Goal'
  BY <1>0, <1>12 DEF NoDeployKeys, AfterKeys, UserPart, SocketPart, NginxPart, CaddyPart, UnitPart
<1>13. ASSUME EnsureGroup PROVE Goal'
  BY <1>0, <1>13 DEF EnsureGroup, UserPart, SocketPart, NginxPart, CaddyPart, UnitPart
<1>14. ASSUME PrepareSocketRoot PROVE Goal'
  BY <1>0, <1>14 DEF PrepareSocketRoot, UserPart, SocketPart, NginxPart, CaddyPart, UnitPart
<1>15. ASSUME KeepAfterReboot PROVE Goal'
  <2>1. CASE tmpfiles /\ Puts("tmpfiles", "tmpfiles", "var root")
    BY <1>0, <2>1 DEF UserPart, SocketPart, NginxPart, CaddyPart, UnitPart
  <2>2. CASE ~tmpfiles /\ At("tmpfiles", "var root") /\ UNCHANGED <<routerFile, binary, host, stale, Services>>
    BY <1>0, <2>2 DEF UserPart, SocketPart, NginxPart, CaddyPart, UnitPart
  <2> QED
    BY <1>15, <2>1, <2>2 DEF KeepAfterReboot
<1>16. ASSUME SetupVarRoot PROVE Goal'
  BY <1>0, <1>16 DEF SetupVarRoot, UserPart, SocketPart, NginxPart, CaddyPart, UnitPart
<1>17. ASSUME ClearDeployOwnedRouterFiles PROVE Goal'
  BY <1>0, <1>17 DEF ClearDeployOwnedRouterFiles, UserPart, SocketPart, NginxPart, CaddyPart, UnitPart
<1>18. ASSUME PrepareNginxRoot PROVE Goal'
  BY <1>0, <1>18 DEF PrepareNginxRoot, UserPart, SocketPart, NginxPart, CaddyPart, UnitPart
<1>19. ASSUME InstallInclude PROVE Goal'
  BY <1>0, <1>19 DEF InstallInclude, UserPart, SocketPart, NginxPart, CaddyPart, UnitPart
<1>20. ASSUME GrantNginxSockets PROVE Goal'
  BY <1>0, <1>20 DEF GrantNginxSockets, UserPart, SocketPart, NginxPart, CaddyPart, UnitPart
<1>21. ASSUME PrepareCaddyRoot PROVE Goal'
  BY <1>0, <1>21 DEF PrepareCaddyRoot, UserPart, SocketPart, NginxPart, CaddyPart, UnitPart
<1>22. ASSUME ClearForeignEntries PROVE Goal'
  BY <1>0, <1>22 DEF ClearForeignEntries, UserPart, SocketPart, NginxPart, CaddyPart, UnitPart
<1>23. ASSUME AddCaddyfileImport PROVE Goal'
  BY <1>0, <1>23 DEF AddCaddyfileImport, UserPart, SocketPart, NginxPart, CaddyPart, UnitPart
<1>24. ASSUME WriteDropIn PROVE Goal'
  BY <1>0, <1>24 DEF WriteDropIn, UserPart, SocketPart, NginxPart, CaddyPart, UnitPart
<1>25. ASSUME CreateRunDir PROVE Goal'
  BY <1>0, <1>25 DEF CreateRunDir, UserPart, SocketPart, NginxPart, CaddyPart, UnitPart
<1>26. ASSUME RestartCaddy PROVE Goal'
  <2>1. CASE hstep' = "units" /\ caddy' = "socket" /\ UNCHANGED ended
    BY <1>0, <1>26, <2>1 DEF RestartCaddy, UserPart, SocketPart, NginxPart, CaddyPart, UnitPart
  <2>2. CASE hstep' = "idle" /\ ended' = "failed"
    BY <1>0, <1>26, <2>2 DEF RestartCaddy, UserPart, SocketPart, NginxPart, CaddyPart, UnitPart
  <2> QED
    BY <1>26, <2>1, <2>2 DEF RestartCaddy
<1>27. ASSUME SkipUnits PROVE Goal'
  BY <1>0, <1>27 DEF SkipUnits, UserPart, SocketPart, NginxPart, CaddyPart, UnitPart
<1>28. ASSUME ToService PROVE Goal'
  BY <1>0, <1>28 DEF ToService, UserPart, SocketPart, NginxPart, CaddyPart, UnitPart
<1>29. ASSUME WriteHelperUnit PROVE Goal'
  BY <1>0, <1>29 DEF WriteHelperUnit, UserPart, SocketPart, NginxPart, CaddyPart, UnitPart
<1>30. ASSUME EnableHelper \/ RestartHelper \/ HelperIsActive PROVE Goal'
  <2>1. CASE EnableHelper
    BY <1>0, <2>1 DEF EnableHelper, UserPart, SocketPart, NginxPart, CaddyPart, UnitPart
  <2>2. CASE RestartHelper
    BY <1>0, <2>2 DEF RestartHelper, UserPart, SocketPart, NginxPart, CaddyPart, UnitPart
  <2>3. CASE HelperIsActive
    <3>1. /\ hstep = "helper check" /\ hstep' = "service unit" /\ helper # 0
          /\ UNCHANGED <<asRoot, want, withUnits, image, inits, reboots, systemd, tmpfiles, confd, ended,
                         routerFile, binary, host, stale, helper, service, caddy>>
      BY <2>3 DEF HelperIsActive
    <3>2. asRoot => UserPart' /\ SocketPart'
      BY <1>0, <3>1 DEF UserPart, SocketPart
    <3>3. asRoot => NginxPart' /\ CaddyPart'
      BY <1>0, <3>1 DEF NginxPart, CaddyPart
    <3>4. asRoot => UnitPart'
      BY <1>0, <3>1 DEF UnitPart
    <3> QED
      BY <1>0, <3>1, <3>2, <3>3, <3>4
  <2> QED
    BY <1>30, <2>1, <2>2, <2>3
<1>31. ASSUME WriteSystemUnit PROVE Goal'
  BY <1>0, <1>31 DEF WriteSystemUnit, UserPart, SocketPart, NginxPart, CaddyPart, UnitPart
<1>32. ASSUME NEW e \in BOOLEAN, NEW s \in BOOLEAN, StartRikuService(e, s) PROVE Goal'
  <2>1. /\ hstep = "service start" /\ hstep' = "watchers" /\ host \subseteq host'
        /\ UNCHANGED <<asRoot, want, withUnits, image, inits, reboots, systemd, tmpfiles, confd, ended,
                       routerFile, binary, stale, helper, caddy>>
    BY <1>32 DEF StartRikuService
  <2>2. asRoot => UserPart' /\ SocketPart'
    BY <1>0, <2>1 DEF UserPart, SocketPart
  <2>3. asRoot => NginxPart' /\ CaddyPart'
    BY <1>0, <2>1 DEF NginxPart, CaddyPart
  <2>4. asRoot => UnitPart'
    BY <1>0, <2>1 DEF UnitPart
  <2> QED
    BY <1>0, <2>1, <2>2, <2>3, <2>4
<1>33. ASSUME RemoveOldWatchers PROVE Goal'
  BY <1>0, <1>33 DEF RemoveOldWatchers, UserPart, SocketPart, NginxPart, CaddyPart, UnitPart
<1>34. ASSUME FinishInit PROVE Goal'
  BY <1>0, <1>34 DEF FinishInit, UserPart, SocketPart, NginxPart, CaddyPart, UnitPart
<1>35. ASSUME FailInit PROVE Goal'
  BY <1>0, <1>35 DEF FailInit, UserPart, SocketPart, NginxPart, CaddyPart, UnitPart
<1>36. ASSUME Reboot PROVE Goal'
  <2>1. /\ UNCHANGED <<hstep, asRoot, image, ended, inits, routerFile, binary, stale, systemd, tmpfiles, confd, withUnits>>
        /\ hstep = "idle"
        /\ helper' = IF systemd /\ "helper enabled" \in host THEN binary ELSE 0
        /\ caddy' = IF "caddyfile" \notin host THEN "port" ELSE IF systemd /\ "drop-in" \in host THEN "socket" ELSE "down"
    BY <1>36 DEF Reboot, Made
  <2>2. /\ host \ {"socket dir", "run dir"} \subseteq host'
        /\ "tmpfiles" \in host /\ "socket dir" \in host => "socket dir" \in host'
        /\ systemd /\ "drop-in" \in host /\ "run dir" \in host => "run dir" \in host'
    BY <1>36 DEF Reboot, Kept, Made
  <2>3. reboots' \in Nat /\ reboots' # 0
    <3>1. reboots \in Nat /\ reboots' = reboots + 1
      BY <1>0, <1>36 DEF Reboot
    <3> QED
      BY <3>1
  <2>4. asRoot => UserPart' /\ UnitPart'
    BY <1>0, <2>1, <2>2 DEF UserPart, UnitPart
  <2>5. asRoot => SocketPart'
    <3>1. Reached' = Reached /\ (tmpfiles' \/ reboots' = 0 <=> tmpfiles)
      BY <2>1, <2>3 DEF Reached
    <3>2. tmpfiles' = tmpfiles
      BY <2>1
    <3> HIDE DEF Reached
    <3>3. ASSUME asRoot, Reached \in AtTmpfiles, tmpfiles' \/ reboots' = 0
          PROVE  "socket dir" \in host'
      <4>1. "socket dir" \in host
        BY <1>0, <3>1, <3>3 DEF SocketPart
      <4>2. "tmpfiles" \in host \/ Reached = "tmpfiles"
        BY <1>0, <3>1, <3>3 DEF SocketPart
      <4>3. Reached # "tmpfiles"
        BY <1>36 DEF Reboot, Reached
      <4> QED
        BY <2>2, <4>1, <4>2, <4>3
    <3>4. ASSUME asRoot, Reached \in AtVarRoot, tmpfiles' PROVE "tmpfiles" \in host'
      BY <1>0, <2>2, <3>1, <3>4 DEF SocketPart
    <3> QED
      BY <1>0, <2>2, <3>1, <3>3, <3>4 DEF SocketPart
  <2>6. asRoot => NginxPart' /\ CaddyPart'
    BY <1>0, <2>1, <2>2 DEF NginxPart, CaddyPart
  <2> QED
    BY <1>0, <2>1, <2>3, <2>4, <2>5, <2>6
<1>37. ASSUME UNCHANGED setupVars PROVE Goal'
  <2>1. /\ UNCHANGED <<hstep, asRoot, ended, inits, reboots, routerFile, binary, host, stale, helper, caddy>>
        /\ UNCHANGED <<withUnits, image, systemd, tmpfiles, confd>>
    BY <1>37 DEF setupVars, setupState
  <2>2. asRoot => UserPart' /\ SocketPart' /\ UnitPart'
    BY <1>0, <2>1 DEF UserPart, SocketPart, UnitPart
  <2>3. asRoot => NginxPart' /\ CaddyPart'
    BY <1>0, <2>1 DEF NginxPart, CaddyPart
  <2> QED
    BY <1>0, <2>1, <2>2, <2>3
<1> HIDE DEF Goal
<1>38. Goal'
  BY <1>1, <1>2, <1>3, <1>4, <1>5, <1>6, <1>7, <1>8, <1>9, <1>10, <1>11, <1>12, <1>13, <1>14, <1>15, <1>16, <1>17, <1>18, <1>19, <1>20, <1>21, <1>22, <1>23, <1>24, <1>25, <1>26, <1>27, <1>28, <1>29, <1>30, <1>31, <1>32, <1>33, <1>34, <1>35, <1>36, <1>37 DEF SetupNext
<1> QED
  BY <1>38 DEF Goal, SetupInv

\* A root init that ended well leaves the host whole, for any number of runs and reboots;
\* of the helper it says nothing on a host that does not run systemd.
THEOREM HostIsLeftWhole == SetupSpec => []InitLeavesHostWhole
<1>1. SetupInit => SetupInv
  <2> SUFFICES ASSUME SetupInit PROVE SetupInv
    OBVIOUS
  <2>1. Reached = "nothing" /\ hstep = "idle" /\ reboots = 0 /\ inits = 0 /\ ended = "none"
    BY DEF SetupInit, Reached
  <2> QED
    BY <2>1 DEF SetupInv, UserPart, SocketPart, NginxPart, CaddyPart, UnitPart, AtAccount, AtTree, AtHook,
         AtBranch, AtKeys, AtSocket, AtTmpfiles, AtVarRoot, AtRouter, AtNginx, AtCaddy, AtHelper, AtUnits, AtService
<1>2. SetupInv => InitLeavesHostWhole
  BY DEF SetupInv, UserPart, SocketPart, NginxPart, CaddyPart, UnitPart, Reached, AtAccount, AtTree, AtHook, AtBranch, AtKeys,
         AtSocket, AtTmpfiles, AtVarRoot, AtRouter, AtNginx, AtCaddy, AtHelper, AtUnits, AtService, InitLeavesHostWhole, Needed
<1> QED
  BY <1>1, <1>2, StepSetup, PTL DEF SetupSpec

-----------------------------------------------------------------------------
(* An agent's requests.                                                    *)

Places == {"new", "lock", "write", "allow", "refused", "run", "audit", "gone", "done"}
RateTypes ==
    /\ scope \in DOMAIN Limit
    /\ clock \in Nat /\ now \in [Calls -> Nat]
    /\ passed \subseteq Calls /\ DOMAIN times \subseteq passed /\ IsFiniteSet(DOMAIN times)
    /\ holder \in Calls \cup {Nobody}
    /\ acall \in [Calls -> Places] /\ DOMAIN fresh = Calls
    /\ \A r \in Calls : acall[r] = "write" <=> holder = r
    /\ \A r \in Calls : holder = r => DOMAIN fresh[r] \subseteq DOMAIN times
    /\ \A r \in passed : acall[r] \notin {"new", "lock", "write"}

\* The file lists at most as many requests as the limit, with the times they read; one
\* let through that it no longer lists is out of the window of one that it does.
FileTells ==
    /\ \A q \in DOMAIN times : times[q] = now[q]
    /\ Cardinality(DOMAIN times) <= Limit[scope]
    /\ \A q \in passed \ DOMAIN times : \E e \in DOMAIN times : now[q] + Window <= now[e]
\* Whoever holds the lock has read all of the file that is inside its window, and no
\* request in the file is later than it.
HolderKnows ==
    \A r \in Calls : holder = r =>
        /\ \A q \in DOMAIN times : now[q] <= now[r]
        /\ DOMAIN fresh[r] = {q \in DOMAIN times : now[r] - now[q] < Window}
        /\ \A q \in DOMAIN fresh[r] : fresh[r][q] = now[q]
InWindow(t) == {r \in passed : now[r] \in t..(t + Window - 1)}
WindowsHold == \A t \in Nat : Cardinality(InWindow(t)) <= Limit[scope]

Undisturbed == FileTells /\ HolderKnows /\ WindowsHold
RateInv == RateTypes /\ (~overtaken /\ ~emptied => Undisturbed)

LEMMA KeepsRate ==
  ASSUME RateInv, UNCHANGED Rate, acall' \in [Calls -> Places],
         \A r \in Calls : acall'[r] \notin {"new", "lock", "write"} \/ acall'[r] = acall[r],
         \A r \in Calls : acall'[r] = "write" <=> acall[r] = "write"
  PROVE  RateInv'
<1>1. UNCHANGED <<scope, clock, times, holder, now, fresh, passed, overtaken, emptied>>
  BY DEF Rate
<1>2. RateTypes'
  BY <1>1 DEF RateInv, RateTypes
<1>3. InWindow(0)' = InWindow(0) /\ \A t \in Nat : InWindow(t)' = InWindow(t)
  BY <1>1 DEF InWindow
<1>4. Undisturbed => Undisturbed'
  BY <1>1, <1>3 DEF Undisturbed, FileTells, HolderKnows, WindowsHold
<1> QED
  BY <1>1, <1>2, <1>4 DEF RateInv

\* Under the lock the file lists r, which is no earlier than what the file had.
LEMMA LetThrough ==
  ASSUME RateTypes, RateTypes', Undisturbed, NEW r \in Calls, holder = r, r \notin passed,
         Cardinality(DOMAIN fresh[r]) < Limit[scope],
         times' = Pushed(r), passed' = passed \cup {r}, holder' = Nobody,
         UNCHANGED <<scope, now>>
  PROVE  Undisturbed'
<1>1. /\ \A q \in DOMAIN times : now[q] <= now[r]
      /\ DOMAIN fresh[r] = {q \in DOMAIN times : now[r] - now[q] < Window}
      /\ \A q \in DOMAIN fresh[r] : fresh[r][q] = now[q]
  BY DEF Undisturbed, HolderKnows
<1>2. DOMAIN times' = DOMAIN fresh[r] \cup {r} /\ \A q \in DOMAIN times' : times'[q] = now'[q]
  BY <1>1 DEF Pushed
<1>3. now \in [Calls -> Nat] /\ DOMAIN times \subseteq Calls /\ passed \subseteq Calls /\ Window \in Nat /\ Limit[scope] \in Nat
  BY RateAssumption DEF RateTypes
<1>4. IsFiniteSet(DOMAIN fresh[r]) /\ IsFiniteSet(DOMAIN times')
  <2>1. IsFiniteSet(DOMAIN fresh[r])
    BY <1>1, FS_Subset DEF RateTypes
  <2> QED
    BY <1>2, <2>1, FS_AddElement
<1>5. Cardinality(DOMAIN times') <= Limit[scope] /\ Cardinality(DOMAIN times') \in Nat
  <2>1. r \notin DOMAIN fresh[r]
    BY <1>1 DEF RateTypes
  <2>2. Cardinality(DOMAIN times') = Cardinality(DOMAIN fresh[r]) + 1 /\ Cardinality(DOMAIN fresh[r]) \in Nat
    BY <1>2, <1>4, <2>1, FS_AddElement, FS_CardinalityType
  <2> QED
    BY <1>3, <2>2
<1>6. ASSUME NEW q \in passed' \ DOMAIN times' PROVE now[q] + Window <= now[r]
  <2>1. q \in passed /\ q \notin DOMAIN fresh[r]
    BY <1>2, <1>6
  <2>2. CASE q \in DOMAIN times
    BY <1>1, <1>3, <2>1, <2>2
  <2>3. CASE q \notin DOMAIN times
    <3>1. PICK e \in DOMAIN times : now[q] + Window <= now[e]
      BY <2>1, <2>3 DEF Undisturbed, FileTells
    <3>2. now[e] <= now[r] /\ now[e] \in Nat /\ now[q] \in Nat /\ now[r] \in Nat
      BY <1>1, <1>3, <2>1
    <3> QED
      BY <1>3, <3>1, <3>2
  <2> QED
    BY <2>2, <2>3
<1>7. FileTells'
  <2>1. r \in DOMAIN times'
    BY <1>2
  <2> QED
    BY <1>2, <1>5, <1>6, <2>1 DEF FileTells
<1>8. HolderKnows'
  BY RateAssumption DEF HolderKnows
<1>9. ASSUME NEW t \in Nat PROVE Cardinality(InWindow(t)') <= Limit[scope]
  <2>1. CASE now[r] \in t..(t + Window - 1)
    <3>1. InWindow(t)' \subseteq DOMAIN times'
      <4> SUFFICES ASSUME NEW q \in passed', now[q] \in t..(t + Window - 1), q \notin DOMAIN times' PROVE FALSE
        BY DEF InWindow
      <4>1. now[q] + Window <= now[r] /\ now[q] \in Nat /\ now[r] \in Nat
        BY <1>3, <1>6
      <4> QED
        BY <1>3, <2>1, <4>1
    <3>2. Cardinality(InWindow(t)') <= Cardinality(DOMAIN times') /\ Cardinality(InWindow(t)') \in Nat
      BY <1>4, <3>1, FS_Subset, FS_CardinalityType
    <3> QED
      BY <1>3, <1>5, <3>2
  <2>2. CASE now[r] \notin t..(t + Window - 1)
    <3>1. InWindow(t)' = InWindow(t)
      BY <2>2 DEF InWindow
    <3> QED
      BY <3>1 DEF Undisturbed, WindowsHold
  <2> QED
    BY <2>1, <2>2
<1> QED
  BY <1>7, <1>8, <1>9 DEF Undisturbed, WindowsHold

\* A request that is refused has found the file full, and writes back what it read.
LEMMA TurnedAway ==
  ASSUME RateTypes, RateTypes', Undisturbed, NEW r \in Calls, holder = r,
         ~(Cardinality(DOMAIN fresh[r]) < Limit[scope]),
         times' = fresh[r], holder' = Nobody, UNCHANGED <<scope, now, passed>>
  PROVE  Undisturbed'
<1>1. /\ DOMAIN fresh[r] \subseteq DOMAIN times
      /\ \A q \in DOMAIN fresh[r] : fresh[r][q] = now[q]
      /\ Cardinality(DOMAIN times) <= Limit[scope]
  BY DEF Undisturbed, HolderKnows, FileTells
<1>2. IsFiniteSet(DOMAIN times) /\ Limit[scope] \in Nat
  BY RateAssumption DEF RateTypes
<1>3. DOMAIN times' = DOMAIN times
  <2>1. Cardinality(DOMAIN fresh[r]) \in Nat /\ Cardinality(DOMAIN times) \in Nat
    BY <1>1, <1>2, FS_Subset, FS_CardinalityType
  <2>2. Cardinality(DOMAIN fresh[r]) <= Cardinality(DOMAIN times)
    BY <1>1, <1>2, FS_Subset
  <2>3. Cardinality(DOMAIN fresh[r]) = Cardinality(DOMAIN times)
    BY <1>1, <1>2, <2>1, <2>2
  <2> QED
    BY <1>1, <1>2, <2>3, FS_Subset
<1>4. FileTells'
  BY <1>1, <1>3 DEF Undisturbed, FileTells
<1>5. HolderKnows'
  BY RateAssumption DEF HolderKnows
<1>6. \A t \in Nat : InWindow(t)' = InWindow(t)
  BY DEF InWindow
<1> QED
  BY <1>4, <1>5, <1>6 DEF Undisturbed, WindowsHold

LEMMA StepRate == RateInv /\ [AgentNext]_agentVars => RateInv'
<1> SUFFICES ASSUME RateInv, RateTypes, [AgentNext]_agentVars PROVE RateInv'
  BY DEF RateInv
<1>t. acall \in [Calls -> Places] /\ now \in [Calls -> Nat] /\ passed \subseteq Calls
  BY DEF RateTypes
<1>0. ASSUME \A t \in Nat : InWindow(t)' = InWindow(t), UNCHANGED scope PROVE WindowsHold => WindowsHold'
  BY <1>0 DEF WindowsHold
<1>1. CASE Tick
  <2>1. clock' \in Nat /\ UNCHANGED <<scope, times, holder, acall, now, fresh, passed, overtaken, emptied>>
    BY <1>1 DEF Tick, RateTypes
  <2>2. RateTypes'
    BY <2>1 DEF RateTypes
  <2>3. \A t \in Nat : InWindow(t)' = InWindow(t)
    BY <2>1 DEF InWindow
  <2>4. Undisturbed => Undisturbed'
    BY <1>0, <2>1, <2>3 DEF Undisturbed, FileTells, HolderKnows
  <2> QED
    BY <2>1, <2>2, <2>4 DEF RateInv
<1>2. ASSUME NEW r \in Calls, Ask(r) PROVE RateInv'
  <2>1. /\ acall[r] = "new" /\ now' = [now EXCEPT ![r] = clock]
        /\ UNCHANGED <<scope, clock, times, holder, fresh, passed, overtaken, emptied>>
        /\ \E s \in {"lock", "refused"} : acall' = [acall EXCEPT ![r] = s]
    BY <1>2 DEF Ask, Steps
  <2>2. acall' \in [Calls -> Places] /\ acall'[r] \in {"lock", "refused"} /\ \A q \in Calls : q # r => acall'[q] = acall[q]
    BY <1>t, <2>1 DEF Places
  <2>3. r \notin passed /\ holder # r /\ clock \in Nat
    BY <2>1 DEF RateTypes
  <2>4. now' \in [Calls -> Nat] /\ \A q \in Calls : q # r => now'[q] = now[q]
    BY <1>t, <2>1, <2>3
  <2>5. RateTypes'
    BY <2>1, <2>2, <2>3, <2>4 DEF RateTypes
  <2>6. \A t \in Nat : InWindow(t)' = InWindow(t)
    BY <1>t, <2>1, <2>3, <2>4 DEF InWindow
  <2>7. \A q \in passed : now'[q] = now[q]
    BY <1>t, <2>3, <2>4
  <2>8. DOMAIN times \subseteq passed
    BY DEF RateTypes
  <2>9. FileTells => FileTells'
    BY <2>1, <2>7, <2>8 DEF FileTells
  <2>10. HolderKnows => HolderKnows'
    BY <2>1, <2>3, <2>4, <2>7, <2>8 DEF HolderKnows
  <2> QED
    BY <1>0, <2>1, <2>5, <2>6, <2>9, <2>10 DEF RateInv, Undisturbed
<1>3. ASSUME NEW r \in Calls, LockAndRead(r) PROVE RateInv'
  <2>1. /\ holder = Nobody /\ holder' = r /\ fresh' = [fresh EXCEPT ![r] = Recent(r)]
        /\ acall[r] = "lock" /\ acall' = [acall EXCEPT ![r] = "write"]
        /\ UNCHANGED <<scope, clock, times, now, passed, emptied>>
    BY <1>3 DEF LockAndRead, LockFree, Steps
  <2>2. overtaken' = (overtaken \/ \E q \in DOMAIN times : times[q] > now[r])
    BY <1>3 DEF LockAndRead
  <2>3. RateTypes'
    <3>1. \A q \in Calls : acall[q] # "write"
      BY <2>1, RateAssumption DEF RateTypes
    <3>2. acall' \in [Calls -> Places] /\ \A q \in Calls : acall'[q] = "write" <=> q = r
      BY <1>t, <2>1, <3>1 DEF Places
    <3>3. r \notin passed
      BY <2>1 DEF RateTypes
    <3>4. DOMAIN fresh' = Calls /\ DOMAIN fresh'[r] \subseteq DOMAIN times
      BY <2>1 DEF RateTypes, Recent
    <3> QED
      BY <1>t, <2>1, <3>2, <3>3, <3>4 DEF RateTypes
  <2>4. \A t \in Nat : InWindow(t)' = InWindow(t)
    BY <2>1 DEF InWindow
  <2>5. ASSUME ~overtaken', ~emptied' PROVE Undisturbed'
    <3>1. Undisturbed /\ \A q \in DOMAIN times : ~(times[q] > now[r])
      BY <2>1, <2>2, <2>5 DEF RateInv
    <3>2. \A q \in DOMAIN times : times[q] = now[q] /\ Capped(q, r) = now[q] /\ now[q] \in Nat
      BY <1>t, <3>1 DEF Undisturbed, FileTells, Capped, RateTypes
    <3>3. fresh'[r] = [q \in {p \in DOMAIN times : now[r] - now[p] < Window} |-> now[q]]
      BY <2>1, <3>2 DEF RateTypes, Recent
    <3>4. HolderKnows'
      BY <1>t, <2>1, <3>1, <3>2, <3>3 DEF HolderKnows
    <3>5. FileTells'
      BY <2>1, <3>1 DEF Undisturbed, FileTells
    <3> QED
      BY <1>0, <2>1, <2>4, <3>1, <3>4, <3>5 DEF Undisturbed
  <2> QED
    BY <2>3, <2>5 DEF RateInv
<1>4. ASSUME NEW r \in Calls, Rewrite(r) PROVE RateInv'
  <2>1. /\ acall[r] = "write" /\ holder' = Nobody /\ fresh' = [fresh EXCEPT ![r] = <<>>]
        /\ UNCHANGED <<scope, clock, now, overtaken>>
    BY <1>4 DEF Rewrite
  <2>2. holder = r /\ r \notin passed /\ \A q \in Calls : q # r => acall[q] # "write"
    BY <2>1 DEF RateTypes
  <2>3. ASSUME NEW s \in {"allow", "refused"}, acall' = [acall EXCEPT ![r] = s],
               passed' \in {passed, passed \cup {r}}, DOMAIN times' \subseteq passed', IsFiniteSet(DOMAIN times')
        PROVE  RateTypes'
    <3>1. acall' \in [Calls -> Places] /\ \A q \in Calls : acall'[q] = IF q = r THEN s ELSE acall[q]
      BY <1>t, <2>3 DEF Places
    <3> QED
      BY <2>1, <2>2, <2>3, <3>1, RateAssumption DEF RateTypes
  <2>4. IsFiniteSet(DOMAIN times) /\ DOMAIN times \subseteq passed
    BY DEF RateTypes
  <2>5. IsFiniteSet(DOMAIN fresh[r]) /\ DOMAIN fresh[r] \subseteq passed
    <3>1. DOMAIN fresh[r] \subseteq DOMAIN times
      BY <2>2 DEF RateTypes
    <3> QED
      BY <2>4, <3>1, FS_Subset
  <2>6. CASE times' = Pushed(r) /\ Allowed(r) /\ acall' = [acall EXCEPT ![r] = "allow"] /\ passed' = passed \cup {r} /\ UNCHANGED emptied
    <3>1. DOMAIN times' = DOMAIN fresh[r] \cup {r}
      BY <2>6 DEF Pushed
    <3>2. IsFiniteSet(DOMAIN times') /\ DOMAIN times' \subseteq passed'
      BY <2>5, <2>6, <3>1, FS_AddElement
    <3>3. RateTypes'
      BY <2>3, <2>6, <3>2
    <3>4. Undisturbed => Undisturbed'
      BY <2>1, <2>2, <2>6, <3>3, LetThrough DEF Allowed
    <3> QED
      BY <2>1, <2>6, <3>3, <3>4 DEF RateInv
  <2>7. CASE times' = fresh[r] /\ ~Allowed(r) /\ acall' = [acall EXCEPT ![r] = "refused"] /\ UNCHANGED <<passed, emptied>>
    <3>1. RateTypes'
      BY <2>3, <2>5, <2>7
    <3>2. Undisturbed => Undisturbed'
      BY <2>1, <2>2, <2>7, <3>1, TurnedAway DEF Allowed
    <3> QED
      BY <2>1, <2>7, <3>1, <3>2 DEF RateInv
  <2>8. CASE times' \in {times, <<>>} /\ emptied' = (emptied \/ times' # times) /\ acall' = [acall EXCEPT ![r] = "refused"] /\ UNCHANGED passed
    <3>1. DOMAIN times' \subseteq passed' /\ IsFiniteSet(DOMAIN times')
      BY <2>4, <2>8, FS_EmptySet
    <3>2. RateTypes'
      BY <2>3, <2>8, <3>1
    <3>3. ASSUME ~overtaken', ~emptied' PROVE Undisturbed'
      <4>1. UNCHANGED <<times, scope, now, passed>> /\ Undisturbed
        BY <2>1, <2>8, <3>3 DEF RateInv
      <4>2. \A t \in Nat : InWindow(t)' = InWindow(t)
        BY <4>1 DEF InWindow
      <4>3. HolderKnows'
        BY <2>1, RateAssumption DEF HolderKnows
      <4>4. FileTells'
        BY <4>1 DEF Undisturbed, FileTells
      <4> QED
        BY <1>0, <4>1, <4>2, <4>3, <4>4 DEF Undisturbed
    <3> QED
      BY <3>2, <3>3 DEF RateInv
  <2> QED
    BY <1>4, <2>6, <2>7, <2>8 DEF Rewrite
<1>5. ASSUME NEW r \in Calls, UNCHANGED Rate, acall[r] \in {"allow", "run", "audit"},
             \E s \in {"run", "audit", "refused", "gone", "done"} : acall' = [acall EXCEPT ![r] = s]
      PROVE  RateInv'
  <2>1. acall' \in [Calls -> Places]
    BY <1>t, <1>5 DEF Places
  <2>2. \A q \in Calls : acall'[q] \notin {"new", "lock", "write"} \/ acall'[q] = acall[q]
    BY <1>t, <1>5
  <2>3. \A q \in Calls : acall'[q] = "write" <=> acall[q] = "write"
    BY <1>t, <1>5
  <2> QED
    BY <1>5, <2>1, <2>2, <2>3, KeepsRate
<1>6. ASSUME NEW r \in Calls, NEW k \in Commands, Permit(r, k) PROVE RateInv'
  BY <1>5, <1>6 DEF Permit
<1>7. ASSUME NEW r \in Calls, AgentLook(r) \/ AgentAnswer(r) \/ AgentRestart(r) \/ AgentDestroyRequest(r) \/ AgentDestroyConfirm(r)
      PROVE  RateInv'
  <2>1. UNCHANGED Rate /\ acall[r] = "run" /\ acall' = [acall EXCEPT ![r] = "audit"]
    BY <1>7 DEF AgentLook, AgentAnswer, AgentRestart, AgentDestroyRequest, AgentDestroyConfirm, RunsOf, Steps
  <2> QED
    BY <1>5, <2>1
<1>8. ASSUME NEW r \in Calls, AgentDeploy(r) \/ LogAction(r) PROVE RateInv'
  BY <1>5, <1>8 DEF AgentDeploy, LogAction, Steps
<1>9. CASE UNCHANGED agentVars
  BY <1>9, <1>t, KeepsRate DEF agentVars, agentState, Rate
<1> QED
  BY <1>1, <1>2, <1>3, <1>4, <1>6, <1>7, <1>8, <1>9 DEF AgentNext

\* No window holds more of an agent's requests than its limit, for any number of requests,
\* any limit and any window.
THEOREM RateIsLimited == AgentSpec => []RateHolds
<1>1. AgentInit => RateInv
  <2> SUFFICES ASSUME AgentInit PROVE RateInv
    OBVIOUS
  <2>1. /\ scope \in DOMAIN Limit /\ clock = 0 /\ times = <<>> /\ holder = Nobody /\ passed = {}
        /\ acall = [r \in Calls |-> "new"] /\ now = [r \in Calls |-> 0] /\ DOMAIN fresh = Calls
    BY DEF AgentInit
  <2>2. DOMAIN times = {} /\ IsFiniteSet({}) /\ Cardinality({}) = 0
    BY <2>1, FS_EmptySet
  <2>3. RateTypes
    <3>1. \A r \in Calls : acall[r] = "new" /\ holder # r
      BY <2>1, RateAssumption
    <3> QED
      BY <2>1, <2>2, <3>1 DEF RateTypes, Places
  <2>4. \A t \in Nat : InWindow(t) = {}
    BY <2>1 DEF InWindow
  <2>5. Limit[scope] \in Nat
    BY <2>1, RateAssumption
  <2>6. Undisturbed
    <3>1. \A r \in Calls : holder # r
      BY <2>1, RateAssumption
    <3>2. HolderKnows
      BY <3>1 DEF HolderKnows
    <3>3. WindowsHold
      <4>1. \A t \in Nat : Cardinality(InWindow(t)) = 0
        BY <2>2, <2>4
      <4> QED
        BY <2>5, <4>1 DEF WindowsHold
    <3>4. FileTells
      BY <2>1, <2>2, <2>5 DEF FileTells
    <3> QED
      BY <3>2, <3>3, <3>4 DEF Undisturbed
  <2> QED
    BY <2>3, <2>6 DEF RateInv
<1>2. RateInv => RateHolds
  <2> SUFFICES ASSUME RateInv, ~overtaken, ~emptied, NEW t \in 0..MaxClock
               PROVE  Cardinality({r \in passed : now[r] \in t..(t + Window - 1)}) <= Limit[scope]
    BY DEF RateHolds
  <2>1. t \in Nat /\ WindowsHold
    BY DEF RateInv, Undisturbed
  <2> QED
    BY <2>1 DEF WindowsHold, InWindow
<1> QED
  BY <1>1, <1>2, StepRate, PTL DEF AgentSpec
=============================================================================
