----------------------------- MODULE MCCommands -----------------------------
\* The commands of one host, each kind in behaviours of its own: those that
\* deploy an app (Push), the ports of two apps (Ports), the worker configs of
\* one (WorkerFiles), its files (AppFiles) and the commands on a container app
\* (Rollout).  "focus" says which; the others stay as they were at the start.
EXTENDS Push, Ports, WorkerFiles, AppFiles, Rollout

VARIABLE focus

MCRevs == 1..2

\* Revision 2 drops the database, gives up the route and has no release command.
MCProjects ==
    <<[order |-> <<"db", "web">>, healthy |-> [db |-> {}, web |-> {"db"}], routed |-> "web",
       built |-> {"web"}, storage |-> {"db"}, release |-> TRUE],
      [order |-> <<"web">>, healthy |-> [web |-> {}], routed |-> "none",
       built |-> {}, storage |-> {}, release |-> FALSE]>>

PushState == <<hooked, refs, dir, tree, runs, log, lockedBy, call, calls, last, swapped>>
PortState == <<env, count, web, busy, use, uses>>
FileState == <<procfile, startCmd, auto, counts, enabled, sockets, keys, pc, entries, todo, deploys, done>>
AppState == <<files, containerApp, engineUp, archive, deploying, destroying, force, holder, raced, commands>>

Init ==
    /\ focus \in {"push", "ports", "workers", "files", "containers"}
    /\ PushInit /\ PortInit /\ FileInit /\ AppInit /\ RolloutInit
    /\ focus # "push" => dir = "none"
    /\ focus # "workers" => procfile = {}
    /\ focus # "files" => containerApp = FALSE

Next ==
    /\ UNCHANGED focus
    /\ \/ focus = "push" /\ PushNext /\ UNCHANGED <<PortState, FileState, AppState, rolloutVars>>
       \/ focus = "ports" /\ PortNext /\ UNCHANGED <<PushState, FileState, AppState, rolloutVars>>
       \/ focus = "workers" /\ FileNext /\ UNCHANGED <<PushState, PortState, AppState, rolloutVars>>
       \/ focus = "files" /\ AppNext /\ UNCHANGED <<PushState, PortState, FileState, rolloutVars>>
       \/ focus = "containers" /\ RolloutNext /\ UNCHANGED <<PushState, PortState, FileState, AppState, faults>>

vars == <<focus, pushVars, portVars, fileVars, appVars, rolloutVars>>

Spec == Init /\ [][Next]_vars
=============================================================================
