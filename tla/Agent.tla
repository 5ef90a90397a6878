-------------------------------- MODULE Agent --------------------------------
(***************************************************************************)
(* A request of an AI agent (riku-cli agent/execute.rs, auth.rs, audit.rs  *)
(* and state.rs): the rate limit of its agent id, the permission of its    *)
(* scope, the audit log opened ahead of a change, the command itself, and  *)
(* the audit entry.  Each request is a process of its own.                 *)
(*                                                                         *)
(* The rate limit's file lists the times of the requests let through.  A   *)
(* request reads the clock before it asks for the file's lock, then reads, *)
(* empties and rewrites the file under it.                                 *)
(***************************************************************************)
EXTENDS Budget, FiniteSets

CONSTANTS
    Calls,          \* requests of one agent id
    Commands,       \* the commands they may be
    Limit,          \* scope -> requests it may make in a window
    Window,         \* length of the window
    MaxClock        \* bound: time of the last request

Nobody == "nobody"
ASSUME RateAssumption ==
    /\ Nobody \notin Calls
    /\ \A s \in DOMAIN Limit : Limit[s] \in Nat
    /\ Window \in Nat /\ MaxClock \in Nat
Looking == {"apps", "logs", "ps", "config:get", "config:show", "stats"}
\* AgentScope::allows and is_mutating.
Allows(s, command) ==
    \/ command \in Looking
    \/ command \in {"deploy", "restart", "run", "config:set"} /\ s \in {"staging", "production"}
    \/ command \in {"destroy", "destroy confirmed", "stop", "stop confirmed"} /\ s = "production"
IsMutating(command) == command \notin Looking

VARIABLES
    scope,      \* of the agent's session
    app,        \* the app that its commands name is there
    tokens,     \* times of the destroy requests that wait to be confirmed
    clock,
    times,      \* the file: the time of each request listed in it, in whatever order
    holder,     \* the request that holds its lock
    acall,      \* request -> where it is
    now,        \* request -> the clock it read
    command,    \* request -> what it asks for
    fresh,      \* request -> the times it read that are inside the window
    passed,     \* the requests that were let through
    overtaken,  \* a request got the lock after one that read a later clock
    emptied,    \* the file was emptied and could not be written again
    changed,    \* the requests whose command changed something
    audited     \* the requests with an entry in the audit log
agentState == <<scope, app, tokens, clock, times, holder, acall, now, command, fresh, passed, overtaken, emptied, changed, audited>>
agentVars == <<agentState, faults>>

AgentInit ==
    /\ scope \in DOMAIN Limit /\ app = TRUE /\ tokens = {}
    /\ clock = 0 /\ times = <<>> /\ holder = Nobody
    /\ acall = [r \in Calls |-> "new"]
    /\ now = [r \in Calls |-> 0]
    /\ command = [r \in Calls |-> "apps"]
    /\ fresh = [r \in Calls |-> <<>>]
    /\ passed = {} /\ overtaken = FALSE /\ emptied = FALSE
    /\ changed = {} /\ audited = {}
    /\ faults = 0

Steps(r, here, next) == acall[r] = here /\ acall' = [acall EXCEPT ![r] = next]
Rate == <<scope, clock, times, holder, now, fresh, passed, overtaken, emptied>>
Host == <<app, tokens, changed>>

Tick ==
    /\ clock < MaxClock /\ clock' = clock + 1
    /\ UNCHANGED <<scope, times, holder, acall, now, command, fresh, passed, overtaken, emptied, Host, audited>> /\ NoFault

\* check_rate_limit_now reads the clock; an agent directory that cannot be made
\* private refuses the request.
Ask(r) ==
    /\ \/ Steps(r, "new", "lock") /\ NoFault
       \/ Steps(r, "new", "refused") /\ Fault
    /\ now' = [now EXCEPT ![r] = clock]
    /\ UNCHANGED <<scope, command, clock, times, holder, fresh, passed, overtaken, emptied, Host, audited>>

\* recent_requests: a time ahead of this request's clock counts as its own.
Capped(q, r) == IF times[q] > now[r] THEN now[r] ELSE times[q]
Recent(r) == [q \in {p \in DOMAIN times : now[r] - Capped(p, r) < Window} |-> Capped(q, r)]
LockShared == TRUE  \* MUTANT: a shared lock where an exclusive one is meant
LockFree == holder = Nobody
LockAndRead(r) ==
    /\ LockFree
    /\ Steps(r, "lock", "write")
    /\ holder' = r
    /\ fresh' = [fresh EXCEPT ![r] = Recent(r)]
    /\ overtaken' = (overtaken \/ \E q \in DOMAIN times : times[q] > now[r])
    /\ UNCHANGED <<scope, clock, times, now, command, passed, emptied, Host, audited>> /\ NoFault
\* replace_content empties the file, then writes it; the lock goes with it.
Allowed(r) == Cardinality(DOMAIN fresh[r]) < Limit[scope]
Pushed(r) == [q \in DOMAIN fresh[r] \cup {r} |-> IF q = r THEN now[r] ELSE fresh[r][q]]
Rewrite(r) ==
    /\ acall[r] = "write"
    /\ holder' = Nobody
    /\ fresh' = [fresh EXCEPT ![r] = <<>>]
    /\ \/ /\ times' = IF Allowed(r) THEN Pushed(r) ELSE fresh[r]
          /\ acall' = [acall EXCEPT ![r] = IF Allowed(r) THEN "allow" ELSE "refused"]
          /\ passed' = IF Allowed(r) THEN passed \cup {r} ELSE passed
          /\ UNCHANGED emptied /\ NoFault
       \/ /\ times' \in {times, <<>>}
          /\ emptied' = (emptied \/ times' # times)
          /\ acall' = [acall EXCEPT ![r] = "refused"]
          /\ UNCHANGED passed /\ Fault
    /\ UNCHANGED <<scope, clock, now, command, overtaken, Host, audited>>

\* What the request asks for matters from here on.  A refusal of the scope is
\* audited; open_before_mutation, which a change cannot do without, opens the
\* audit log.
Permit(r, k) ==
    /\ acall[r] = "allow"
    /\ command' = [command EXCEPT ![r] = k]
    /\ \/ acall' = [acall EXCEPT ![r] = IF Allows(scope, k) THEN "run" ELSE "audit"] /\ NoFault
       \/ /\ Allows(scope, k) /\ IsMutating(k)
          /\ acall' = [acall EXCEPT ![r] = "refused"] /\ Fault
    /\ UNCHANGED <<Rate, Host, audited>>

\* The commands.  Only some of those that count as changes change anything.
RunsOf(r, what) == command[r] \in what /\ Steps(r, "run", "audit")
Changes(r) == changed' = changed \cup {r}
AgentLook(r) ==
    /\ RunsOf(r, Looking)
    /\ UNCHANGED <<Rate, command, Host, audited>> /\ NoFault
\* config:set, run and stop answer, and do nothing; stop asks for a confirmation.
AgentAnswer(r) ==
    /\ RunsOf(r, {"config:set", "run", "stop"})
    /\ UNCHANGED <<Rate, command, Host, audited>> /\ NoFault
\* cmd_deploy; one that cannot set up the app's environment ends the process.
AgentDeploy(r) ==
    /\ command[r] = "deploy" /\ acall[r] = "run"
    /\ IF app THEN Changes(r) ELSE UNCHANGED changed
    /\ \/ acall' = [acall EXCEPT ![r] = "audit"] /\ NoFault
       \/ app /\ acall' = [acall EXCEPT ![r] = "gone"] /\ Fault
    /\ UNCHANGED <<Rate, command, app, tokens, audited>>
\* restart, and stop once confirmed.
AgentRestart(r) ==
    /\ RunsOf(r, {"restart", "stop confirmed"})
    /\ IF app THEN Changes(r) ELSE UNCHANGED changed
    /\ UNCHANGED <<Rate, command, app, tokens, audited>> /\ NoFault
\* The token is named for the second it was asked for in.
AgentDestroyRequest(r) ==
    /\ RunsOf(r, {"destroy"})
    /\ tokens' = IF app THEN tokens \cup {clock} ELSE tokens
    /\ UNCHANGED <<Rate, command, app, changed, audited>> /\ NoFault
\* A token that was issued for the app is used up, then the app destroyed.
AgentDestroyConfirm(r) ==
    /\ RunsOf(r, {"destroy confirmed"})
    /\ \/ /\ \E t \in tokens : tokens' = tokens \ {t}
          /\ \/ app /\ app' = FALSE /\ Changes(r)
             \/ ~app /\ UNCHANGED <<app, changed>>
       \/ UNCHANGED Host
    /\ UNCHANGED <<Rate, command, audited>> /\ NoFault
\* log_agent_action: an entry that cannot be written is warned of.
LogAction(r) ==
    /\ Steps(r, "audit", "done")
    /\ \/ audited' = audited \cup {r} /\ NoFault
       \/ UNCHANGED audited /\ Fault
    /\ UNCHANGED <<Rate, command, Host>>

AgentNext ==
    \/ Tick
    \/ \E r \in Calls : \/ \E k \in Commands : Permit(r, k)
                        \/ Ask(r) \/ LockAndRead(r) \/ Rewrite(r) \/ LogAction(r)
                        \/ AgentLook(r) \/ AgentAnswer(r) \/ AgentDeploy(r) \/ AgentRestart(r)
                        \/ AgentDestroyRequest(r) \/ AgentDestroyConfirm(r)

AgentSpec == AgentInit /\ [][AgentNext]_agentVars

-----------------------------------------------------------------------------
\* No window holds more of an agent's requests than its limit, however its
\* processes interleave, as long as none of them waited for the lock past one
\* with a later clock (whose time it would take back to its own) and no failed
\* write emptied the file.
RateHolds ==
    ~overtaken /\ ~emptied =>
        \A t \in 0..MaxClock : Cardinality({r \in passed : now[r] \in t..(t + Window - 1)}) <= Limit[scope]

\* audit.rs: "An action that cannot be recorded must not run".  Not so: the
\* log is opened ahead of it, and the write after it may fail.
ChangesAreRecorded ==
    \A r \in changed : acall[r] \in {"done", "gone"} => r \in audited
=============================================================================
