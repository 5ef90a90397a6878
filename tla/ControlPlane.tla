----------------------------- MODULE ControlPlane -----------------------------
(***************************************************************************)
(* The supervisor's HTTP endpoint (riku-supervisor health/): what          *)
(* /metrics/stream shows while the event loop writes and broadcasts the    *)
(* stats (daemon/periodic.rs), and the /control routes, which run the      *)
(* command line's own commands in a thread of the supervisor.              *)
(*                                                                         *)
(* Stats are numbered as they are taken.  The broadcast channel carries    *)
(* them and the notices of deployments; it keeps the last Ring frames, and *)
(* a client that falls further behind skips ahead.                         *)
(***************************************************************************)
EXTENDS Budget, FiniteSets, Sequences

CONSTANTS
    Clients,        \* dashboards that stream the stats
    Requests,       \* control requests
    MaxStats,       \* bound: rounds of the event loop
    MaxFrames,      \* bound: frames broadcast
    Ring            \* frames the broadcast channel keeps

ASSUME RingAssumption == Ring \in Nat \ {0}

VARIABLES
    server,     \* "down", "up", "stopping" or "gone" with the supervisor
    bound,      \* the health server could take its port
    taken,      \* the stats of the event loop's last round
    file,       \* the stats in the stats file, 0 when there is none yet
    sent,       \* the stats last broadcast
    frames,     \* every frame broadcast: stats, or Notice
    unwritten,  \* a round could not write the stats file
    client,     \* client -> "away", "subscribed" or "streaming"
    cursor,     \* client -> the last frame before the next it will read
    shown,      \* client -> the stats it shows
    request,    \* request -> "new", "running" or what was answered
    busy        \* requests whose app's deploy lock another deploy holds
planeState == <<server, bound, taken, file, sent, frames, unwritten, client, cursor, shown, request, busy>>
planeVars == <<planeState, faults>>

Notice == 0

PlaneInit ==
    /\ server = "down" /\ bound = FALSE
    /\ taken = 0 /\ file = 0 /\ sent = 0 /\ frames = <<>> /\ unwritten = FALSE
    /\ client = [c \in Clients |-> "away"]
    /\ cursor = [c \in Clients |-> 0]
    /\ shown = [c \in Clients |-> 0]
    /\ request = [r \in Requests |-> "new"]
    /\ busy \in SUBSET Requests
    /\ faults = 0

Up == server \in {"up", "stopping"}
Loop == <<taken, file, sent, frames, unwritten>>
Streams == <<client, cursor, shown>>

\* start_health_endpoint: a token that cannot be kept or a port that is taken
\* leaves the supervisor without an endpoint, and it runs on.
StartHealthServer ==
    /\ server = "down"
    /\ server' = "up"
    /\ \/ bound' = TRUE /\ NoFault
       \/ bound' = FALSE /\ Fault
    /\ UNCHANGED <<Loop, Streams, request, busy>>

-----------------------------------------------------------------------------
(* write_stats_if_due: the file first, then the broadcast.                 *)

WriteStats ==
    /\ Up /\ taken = sent /\ taken < MaxStats
    /\ taken' = taken + 1
    /\ \/ file' = taken + 1 /\ UNCHANGED unwritten /\ NoFault
       \/ UNCHANGED file /\ unwritten' = TRUE /\ Fault
    /\ UNCHANGED <<server, bound, sent, frames, Streams, request, busy>>
BroadcastStats ==
    /\ Up /\ sent < taken
    /\ sent' = taken /\ frames' = Append(frames, taken)
    /\ UNCHANGED <<server, bound, taken, file, unwritten, Streams, request, busy>> /\ NoFault

\* run_periodic_maintenance, before it: what came of a generation, on the same channel.
BroadcastNotice ==
    /\ Up /\ taken = sent /\ Len(frames) < MaxFrames
    /\ frames' = Append(frames, Notice)
    /\ UNCHANGED <<server, bound, taken, file, sent, unwritten, Streams, request, busy>> /\ NoFault

\* metrics_stream_handler: subscribe, read the file, answer with that, then the
\* broadcasts.
Subscribe(c) ==
    /\ Up /\ bound /\ client[c] = "away"
    /\ client' = [client EXCEPT ![c] = "subscribed"]
    /\ cursor' = [cursor EXCEPT ![c] = Len(frames)]
    /\ UNCHANGED <<server, bound, Loop, shown, request, busy>> /\ NoFault
ReadSnapshot(c) ==
    /\ Up /\ client[c] = "subscribed"
    /\ client' = [client EXCEPT ![c] = "streaming"]
    /\ shown' = [shown EXCEPT ![c] = file]
    /\ UNCHANGED <<server, bound, Loop, cursor, request, busy>> /\ NoFault
\* BroadcastStream: what fell out of the ring is skipped.  tag_broadcast_event: a notice
\* leaves the stats that the client shows.
Lags(c) == cursor[c] + Ring < Len(frames)
Oldest(c) == IF Lags(c) THEN Len(frames) - Ring + 1 ELSE cursor[c] + 1
With(c, f) == IF f = Notice THEN shown[c] ELSE f
\* MUTANT: a client that lagged subscribes again, and shows what it had
ReadBroadcastAgain(c) ==
    /\ Up /\ client[c] = "streaming" /\ cursor[c] < Len(frames)
    /\ cursor' = [cursor EXCEPT ![c] = IF Lags(c) THEN Len(frames) ELSE @ + 1]
    /\ shown' = [shown EXCEPT ![c] = IF Lags(c) THEN @ ELSE With(c, frames[cursor[c] + 1])]
    /\ UNCHANGED <<server, bound, Loop, client, request, busy>> /\ NoFault
ReadBroadcast(c) ==
    /\ Up /\ client[c] = "streaming" /\ cursor[c] < Len(frames)
    /\ cursor' = [cursor EXCEPT ![c] = Oldest(c)]
    /\ shown' = [shown EXCEPT ![c] = With(c, frames[Oldest(c)])]
    /\ UNCHANGED <<server, bound, Loop, client, request, busy>> /\ NoFault
Leave(c) ==
    /\ client[c] # "away"
    /\ client' = [client EXCEPT ![c] = "away"]
    /\ shown' = [shown EXCEPT ![c] = 0]
    /\ UNCHANGED <<server, bound, Loop, cursor, request, busy>> /\ NoFault

-----------------------------------------------------------------------------
(* The control routes.                                                     *)

\* require_token, then run_blocking_command: a thread of its own.
Accept(r, token) ==
    /\ server = "up" /\ bound /\ request[r] = "new"
    /\ request' = [request EXCEPT ![r] = IF token = "right" THEN "running" ELSE "unauthorized"]
    /\ UNCHANGED <<server, bound, Loop, Streams, busy>> /\ NoFault
\* The command returned, or its thread panicked; DeployInProgress is a conflict.
Answer(r) ==
    /\ Up /\ request[r] = "running"
    /\ \/ /\ r \notin busy
          /\ request' = [request EXCEPT ![r] = "ok"] /\ NoFault
       \/ /\ r \in busy
          /\ request' = [request EXCEPT ![r] = "conflict"] /\ NoFault
       \/ /\ request' = [request EXCEPT ![r] = "failed"] /\ Fault
    /\ UNCHANGED <<server, bound, Loop, Streams, busy>>
\* cmd_deploy, where the app's environment cannot be set up, ends the process
\* with std::process::exit: here that process is the supervisor.
ExitInCommand(r) ==
    /\ Up /\ request[r] = "running" /\ r \notin busy
    /\ server' = "gone"
    /\ request' = [request EXCEPT ![r] = "cut off"]
    /\ client' = [c \in Clients |-> "away"]
    /\ UNCHANGED <<bound, Loop, cursor, shown, busy>> /\ Fault

\* A signal ends the event loop: health_running is cleared, the listener closes
\* within a poll, and the process ends without waiting for either.
StopAsked ==
    /\ server = "up" /\ server' = "stopping"
    /\ UNCHANGED <<bound, Loop, Streams, request, busy>> /\ NoFault
EndSupervisor ==
    /\ server = "stopping" /\ server' = "gone"
    /\ client' = [c \in Clients |-> "away"]
    /\ request' = [r \in Requests |-> IF request[r] = "running" THEN "cut off" ELSE request[r]]
    /\ UNCHANGED <<bound, Loop, cursor, shown, busy>> /\ NoFault

PlaneNext ==
    \/ StartHealthServer \/ WriteStats \/ BroadcastStats \/ BroadcastNotice \/ StopAsked \/ EndSupervisor
    \/ \E c \in Clients : Subscribe(c) \/ ReadSnapshot(c) \/ ReadBroadcast(c) \/ Leave(c)
    \/ \E r \in Requests : (\E t \in {"right", "wrong"} : Accept(r, t)) \/ Answer(r) \/ ExitInCommand(r)

PlaneSpec == PlaneInit /\ [][PlaneNext]_planeVars

-----------------------------------------------------------------------------
\* A client that has read everything it was sent shows the latest stats, at
\* whatever moment of a round it came and however far it fell behind, unless the
\* stats file could not be written, or so many notices followed those stats that
\* the channel had dropped them before the client got there.
StreamCatchesUp ==
    \A c \in Clients :
        client[c] = "streaming" /\ cursor[c] = Len(frames) /\ sent = taken /\ ~unwritten
            => \/ shown[c] = taken
               \/ \A i \in 1..Len(frames) : frames[i] = sent => Len(frames) - i >= Ring

\* control.rs: "behavior stays identical to running `riku <cmd>` directly": a
\* command that ends its own process there must not end the supervisor.  Not
\* so: the language runtimes exit where a deploy stands, and take the supervisor along.
RequestsSpareSupervisor ==
    [][server' = "gone" => server \in {"gone", "stopping"}]_server
=============================================================================
