-------------------------------- MODULE Ports --------------------------------
(***************************************************************************)
(* Procfile apps on one host: the ENV and SCALING files, the worker        *)
(* configs of their web and background kinds, and the loopback ports.      *)
(* Config changes write ENV before their deploy takes the lock; stop and   *)
(* delete-worker take no lock; the locks of two apps are independent.      *)
(*                                                                         *)
(* Ports that riku picks itself come from the kernel's ephemeral range and *)
(* are taken to lie outside the ports that users pin.  How copies replace  *)
(* each other is Rolling.                                                  *)
(***************************************************************************)
EXTENDS Budget, FiniteSets

CONSTANTS
    Apps,
    Pins,       \* ports that users pin with PORT
    Picks,      \* ephemeral ports
    Users,      \* commands that may be under way at once
    MaxAsked,   \* bound: copies asked for
    MaxUses,    \* bound: commands
    Overlap     \* whether two commands of one app may be under way at once

ASSUME PortsAssumption ==
    /\ Pins \subseteq Nat \ {0} /\ Pins \intersect Picks = {}
    /\ "none" \notin Apps \union Users /\ MaxAsked \in Nat /\ Overlap \in BOOLEAN

VARIABLES
    env,        \* PORT in each app's ENV file, 0 for none
    count,      \* the web line of its SCALING file, 0 for no line
    web,        \* its enabled web copies: [n, port]
    busy,       \* who holds its deploy lock
    use,        \* each user's command
    uses

portVars == <<env, count, web, busy, use, uses, faults>>

NoUse == [kind |-> "none", at |-> "none", app |-> "none", arg |-> 0, mem |-> 0, delta |-> 0, ok |-> FALSE]

PortInit ==
    /\ env = [a \in Apps |-> 0] /\ count = [a \in Apps |-> 0]
    /\ web = [a \in Apps |-> {}] /\ busy = [a \in Apps |-> "none"]
    /\ use = [u \in Users |-> NoUse] /\ uses = 0 /\ faults = 0

PortsOf(a) == {w.port : w \in web[a]}
AppOf(u) == use[u].app
Here(u, s) == use[u].at = s
Step(u, s) == use' = [use EXCEPT ![u].at = s]

\* The command ends; a deploy lets the lock go.
Done(u, ok) ==
    /\ use' = [use EXCEPT ![u].at = "none", ![u].ok = ok]
    /\ busy' = [a \in Apps |-> IF busy[a] = u THEN "none" ELSE busy[a]]

\* The web count: its line, else one.
ReadCount(a) == IF count[a] = 0 THEN 1 ELSE count[a]

-----------------------------------------------------------------------------
\* What each command does before its deploy.

BeginUse(u) ==
    \E a \in Apps :
        /\ use[u].at = "none" /\ uses < MaxUses /\ uses' = uses + 1
        /\ Overlap \/ \A v \in Users : use[v].at # "none" => AppOf(v) # a
        /\ \E k \in {"set", "scale", "deploy", "stop", "restart", "delete"} :
           \E x \in CASE k = "set" -> Pins \union {0} [] k = "scale" -> 1..MaxAsked [] OTHER -> {0} :
              use' = [use EXCEPT ![u] = [NoUse EXCEPT !.kind = k, !.app = a, !.arg = x, !.at = k]]
        /\ UNCHANGED <<env, count, web, busy, faults>>

\* config set and config unset read ENV, change it in memory and write it whole.
ConfigReads(u) ==
    /\ Here(u, "set")
    /\ use' = [use EXCEPT ![u].at = "write", ![u].mem = use[u].arg]
    /\ UNCHANGED <<env, count, web, busy, uses, faults>>

UpdateEnv(u) ==
    /\ Here(u, "write")
    /\ \/ NoFault /\ env' = [env EXCEPT ![AppOf(u)] = use[u].mem] /\ Step(u, "deploy") /\ UNCHANGED busy
       \/ Fault /\ Done(u, FALSE) /\ UNCHANGED env
    /\ UNCHANGED <<count, web, uses>>

\* A count asked for becomes a difference to the SCALING line read now; a kind
\* without a line counts as zero here.
ScaleProcfile(u) ==
    /\ Here(u, "scale")
    /\ use' = [use EXCEPT ![u].at = "deploy", ![u].delta = use[u].arg - count[AppOf(u)]]
    /\ UNCHANGED <<env, count, web, busy, uses, faults>>

\* stop removes the enabled and available configs one by one.
StopProcfileApp(u) ==
    /\ use[u].at \in {"stop", "restart"}
    /\ \/ NoFault /\ web' = [web EXCEPT ![AppOf(u)] = {}]
          /\ IF Here(u, "stop") THEN Done(u, TRUE) ELSE Step(u, "deploy") /\ UNCHANGED busy
       \/ Fault /\ \E left \in SUBSET web[AppOf(u)] : web' = [web EXCEPT ![AppOf(u)] = left]
          /\ Done(u, FALSE)
    /\ UNCHANGED <<env, count, uses>>

\* Only the highest copy can be deleted.
DeleteWorker(u) ==
    /\ Here(u, "delete")
    /\ web[AppOf(u)] # {}
    /\ use' = [use EXCEPT ![u].at = "scaling", ![u].delta = 0 - 1]
    /\ UNCHANGED <<env, count, web, busy, uses, faults>>

-----------------------------------------------------------------------------
\* The deploy.

TakeDeployLock(u) ==
    /\ Here(u, "deploy")
    /\ \/ busy[AppOf(u)] = "none" /\ busy' = [busy EXCEPT ![AppOf(u)] = u] /\ Step(u, "load")
       \/ busy[AppOf(u)] # "none" /\ Done(u, FALSE)
    /\ UNCHANGED <<env, count, web, uses, faults>>

LoadDeployEnv(u) ==
    /\ Here(u, "load")
    /\ \/ NoFault /\ use' = [use EXCEPT ![u].at = "scaling", ![u].mem = env[AppOf(u)]] /\ UNCHANGED busy
       \/ Fault /\ Done(u, FALSE)
    /\ UNCHANGED <<env, count, web, uses>>

Changed(n, d) == IF n + d < 0 THEN 0 ELSE n + d

\* Copies above the new count lose their links at once.
RemoveScaledDown(a, n) == {w \in web[a] : w.n <= n}

\* The counts are read, changed and written with a line for every kind; the write
\* truncates first, so a failure leaves no lines.
ApplyScalingDeltas(u) ==
    LET a == AppOf(u)
        n == Changed(ReadCount(a), use[u].delta) IN
    /\ Here(u, "scaling")
    /\ \/ /\ NoFault /\ count' = [count EXCEPT ![a] = n]
          /\ web' = [web EXCEPT ![a] = IF n < ReadCount(a) THEN RemoveScaledDown(a, n) ELSE @]
          /\ IF use[u].kind = "delete" THEN Done(u, TRUE) ELSE Step(u, "count") /\ UNCHANGED busy
       \/ Fault /\ count' = [count EXCEPT ![a] = 0] /\ Done(u, FALSE) /\ UNCHANGED web
    /\ UNCHANGED <<env, uses>>

\* A pinned port runs one web process.
CheckCount(u) ==
    /\ Here(u, "count")
    /\ IF use[u].mem = 0 THEN Step(u, "roll") /\ UNCHANGED busy
       ELSE IF ReadCount(AppOf(u)) > 1 THEN Done(u, FALSE)
       ELSE Step(u, "envs") /\ UNCHANGED busy
    /\ UNCHANGED <<env, count, web, uses, faults>>

\* Another app has the port in its ENV.
AppUsesPort(u) ==
    /\ Here(u, "envs")
    /\ IF \E b \in Apps \ {AppOf(u)} : env[b] = use[u].mem THEN Done(u, FALSE)
       ELSE Step(u, "copies") /\ UNCHANGED busy
    /\ UNCHANGED <<env, count, web, uses, faults>>

CopyOnPort(a, p) == p \in PortsOf(a)

\* MUTANT: only the ENV files of the other apps are looked at.
CheckCopiesNot(u) ==
    /\ Here(u, "copies")
    /\ Step(u, "roll") /\ UNCHANGED busy
    /\ UNCHANGED <<env, count, web, uses, faults>>

\* A copy of another app runs on it, or a process that is not ours listens.
CheckCopies(u) ==
    /\ Here(u, "copies")
    /\ IF \E b \in Apps \ {AppOf(u)} : CopyOnPort(b, use[u].mem) THEN Done(u, FALSE)
       ELSE Step(u, "roll") /\ UNCHANGED busy
    /\ UNCHANGED <<env, count, web, uses, faults>>

\* The copies of a replacement: the pinned port, or distinct unused ones.
UnusedPorts(a) == Picks \ UNION {PortsOf(b) : b \in Apps}

NewCopies(u) ==
    LET a == AppOf(u)
        N == 1..count[a]
        pin == use[u].mem
    IN  IF pin # 0 THEN {{[n |-> n, port |-> pin] : n \in N}}
        ELSE {{[n |-> n, port |-> f[n]] : n \in N} :
                f \in {g \in [N -> UnusedPorts(a)] : \A i, j \in N : i # j => g[i] # g[j]}}

\* A pinned port stops the old copy first; otherwise old and new overlap.
RollWebKind(u) ==
    LET a == AppOf(u) IN
    /\ Here(u, "roll")
    /\ \/ NoFault /\ \E C \in NewCopies(u) : web' = [web EXCEPT ![a] = C]
          /\ Step(u, "persist") /\ UNCHANGED busy
       \/ Fault /\ \E C \in NewCopies(u), old \in SUBSET web[a] : \E new \in SUBSET C :
                     /\ \A v \in old, w \in new : v.n # w.n
                     /\ web' = [web EXCEPT ![a] = old \union new]
          /\ Done(u, FALSE)
    /\ UNCHANGED <<env, count, uses>>

\* Starting a web copy rewrites ENV with the route's keys: read, change, write.
PersistReads(u) ==
    /\ Here(u, "persist")
    /\ use' = [use EXCEPT ![u].at = "rewrite", ![u].mem = env[AppOf(u)]]
    /\ UNCHANGED <<env, count, web, busy, uses, faults>>

RewriteAppEnv(u) ==
    /\ Here(u, "rewrite")
    /\ \/ NoFault /\ env' = [env EXCEPT ![AppOf(u)] = use[u].mem] /\ Done(u, TRUE)
       \/ Fault /\ Done(u, FALSE) /\ UNCHANGED env
    /\ UNCHANGED <<count, web, uses>>

KilledUse(u) ==
    /\ use[u].at # "none" /\ Fault
    /\ Done(u, FALSE)
    /\ UNCHANGED <<env, count, web, uses>>

PortNext ==
    \E u \in Users :
        \/ BeginUse(u) \/ ConfigReads(u) \/ UpdateEnv(u) \/ ScaleProcfile(u)
        \/ StopProcfileApp(u) \/ DeleteWorker(u)
        \/ TakeDeployLock(u) \/ LoadDeployEnv(u) \/ ApplyScalingDeltas(u)
        \/ CheckCount(u) \/ AppUsesPort(u) \/ CheckCopies(u)
        \/ RollWebKind(u) \/ PersistReads(u) \/ RewriteAppEnv(u) \/ KilledUse(u)

PortSpec == PortInit /\ [][PortNext]_portVars

-----------------------------------------------------------------------------
\* No two apps have web copies on one pinned port, although each deploy only
\* looks at what the others have written and holds no lock of theirs: ENV is
\* written before the check, so of two apps that want a port one sees the other.
PinnedPortsDiffer ==
    \A a, b \in Apps : a # b => PortsOf(a) \intersect PortsOf(b) \intersect Pins = {}
=============================================================================
