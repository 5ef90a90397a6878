----------------------------- MODULE WorkerFiles -----------------------------
(***************************************************************************)
(* create_workers_generic over the deploys of one Procfile app: the        *)
(* Procfile and the counts change between deploys, a deploy may fail or be *)
(* killed half-way, and the next one starts from the worker configs, the   *)
(* sockets and the routing keys that are left.  How the copies of one kind *)
(* replace each other is Rolling; here a kind is replaced in one step, of  *)
(* which a failure leaves a part.                                          *)
(***************************************************************************)
EXTENDS Budget, FiniteSets

CONSTANTS
    Kinds,      \* process kinds that a Procfile may name
    MaxCopies,  \* bound: copies of a kind
    MaxDeploys  \* bound: deploys

Wsgi == {"wsgi", "jwsgi", "rwsgi", "php"}
WebFacing == {"web"} \union Wsgi
OneShotKinds == {"release", "preflight"}
NoProcfile == {"no Procfile"}

ASSUME KindsAssumption == "web" \in Kinds /\ "no Procfile" \notin Kinds /\ MaxCopies \in Nat

VARIABLES
    procfile,   \* kinds of the Procfile as written, or NoProcfile
    startCmd,   \* the runtime plugin has a start command
    auto,       \* RIKU_AUTO_RESTART
    counts,     \* the SCALING count of each kind
    enabled,    \* worker configs: [kind, n, at] with the deploy that wrote them
    sockets,    \* numbers n of the <app>@<n>.sock files that are there
    keys,       \* routing keys of the ENV file: "none", "web" or "wsgi"
    pc, entries, todo,  \* the deploy: its step, parsed Procfile, kinds to do
    deploys,
    done        \* history: the last deploy's result

fileVars == <<procfile, startCmd, auto, counts, enabled, sockets, keys, pc, entries, todo,
              deploys, done, faults>>
inputs == <<procfile, startCmd, auto, counts>>

FileInit ==
    /\ procfile \in (SUBSET Kinds) \union {NoProcfile} /\ startCmd = FALSE /\ auto = TRUE
    /\ counts = [k \in Kinds |-> 1]
    /\ enabled = {} /\ sockets = {} /\ keys = "none"
    /\ pc = "idle" /\ entries = {} /\ todo = {} /\ deploys = 0 /\ done = "none"
    /\ faults = 0

-----------------------------------------------------------------------------
\* A uWSGI kind named in the Procfile disables web; php does not.
ParseProcfile(P) == IF P \intersect {"wsgi", "jwsgi", "rwsgi"} # {} THEN P \ {"web"} ELSE P

IsWebFacing(k) == k \in WebFacing
CopiesOf(k) == {w \in enabled : w.kind = k}
Written(k, n) == [kind |-> k, n |-> n, at |-> deploys]

\* The file riku names for a uWSGI copy has its number and not its kind.
CopySocket(w) == IF w.kind \in Wsgi THEN {w.n} ELSE {}

Fail == pc' = "idle" /\ done' = "failed"
Go(s) == pc' = s /\ UNCHANGED done

\* A copy's own socket goes with it.
StopCopies(W) ==
    /\ enabled' = enabled \ W
    /\ sockets' = sockets \ UNION {CopySocket(w) : w \in W}

-----------------------------------------------------------------------------
\* The user edits the app between deploys.
Edit ==
    /\ pc = "idle" /\ deploys < MaxDeploys
    /\ \E P \in (SUBSET Kinds) \union {NoProcfile} : procfile' = P
    /\ startCmd' \in BOOLEAN /\ auto' \in BOOLEAN
    /\ \E k \in Kinds, n \in 0..MaxCopies : counts' = [counts EXCEPT ![k] = n]
    /\ deploys' = deploys + 1 /\ pc' = "check" /\ done' = "none"
    /\ UNCHANGED <<enabled, sockets, keys, entries, todo, faults>>

\* A pinned port, a shared socket or too many copies refuse the deploy.
CheckAddresses ==
    /\ pc = "check"
    /\ (NoFault /\ Go("stale")) \/ (Fault /\ Fail)
    /\ UNCHANGED <<inputs, enabled, sockets, keys, entries, todo, deploys>>

\* MUTANT: configs of kinds that no router fronts are only written over.
RemoveStaleKept ==
    /\ pc = "stale" /\ NoFault
    /\ UNCHANGED enabled
    /\ Go("entries")
    /\ UNCHANGED <<inputs, sockets, keys, entries, todo, deploys>>

\* Configs of kinds that no router fronts go first, unless restarts are off; one
\* that cannot be removed is left with a warning.
RemoveStaleConfigs ==
    /\ pc = "stale"
    /\ \/ NoFault /\ enabled' = {w \in enabled : auto => IsWebFacing(w.kind)} /\ UNCHANGED done
       \/ /\ Fault /\ auto /\ done' = "warned"
          /\ \E W \in SUBSET {w \in enabled : ~IsWebFacing(w.kind)} : enabled' = enabled \ W
    /\ pc' = "entries"
    /\ UNCHANGED <<inputs, sockets, keys, entries, todo, deploys>>

\* An empty or missing Procfile falls back to the plugin's start command; without
\* one the deploy goes on without touching any process.
ReadEntries ==
    /\ pc = "entries" /\ NoFault
    /\ LET P == IF procfile = NoProcfile THEN {} ELSE ParseProcfile(procfile) IN
       \/ /\ P # {} \/ startCmd
          /\ entries' = IF P # {} THEN P ELSE {"web"}
          /\ Go("keys")
       \/ /\ P = {} /\ ~startCmd
          /\ entries' = {} /\ pc' = "idle" /\ done' = "skipped"
    /\ UNCHANGED <<inputs, enabled, sockets, keys, todo, deploys>>

ClearRouteEnv ==
    /\ pc = "keys"
    /\ \/ /\ NoFault /\ Go("surplus")
          /\ keys' = IF \E k \in entries : IsWebFacing(k) THEN keys ELSE "none"
       \/ Fault /\ Fail /\ UNCHANGED keys
    /\ UNCHANGED <<inputs, enabled, sockets, entries, todo, deploys>>

IsSurplus(w) == ~IsWebFacing(w.kind) /\ w.kind \in entries \ OneShotKinds /\ w.n > counts[w.kind]

RemoveSurplusConfigs ==
    /\ pc = "surplus"
    /\ enabled' = {w \in enabled : ~IsSurplus(w)}
    /\ todo' = entries \ OneShotKinds
    /\ Go("kinds")
    /\ UNCHANGED <<inputs, sockets, keys, entries, deploys, faults>>

\* The keys follow the kind whose copy was written last.
ApplyRouteKeys(k) == IF k \in Wsgi THEN "wsgi" ELSE "web"

NewWorkers(k) == {Written(k, n) : n \in 1..counts[k]}

\* Kinds come in no order (a hash map).  The copies of a web facing one are
\* replaced one by one: a failure leaves old copies and new ones.
RollWebFacing(k) ==
    /\ IsWebFacing(k) /\ counts[k] > 0
    /\ \/ /\ NoFault
          /\ enabled' = (enabled \ CopiesOf(k)) \union NewWorkers(k)
          /\ sockets' = (sockets \ UNION {CopySocket(w) : w \in CopiesOf(k)})
                          \union UNION {CopySocket(w) : w \in NewWorkers(k)}
          /\ keys' = ApplyRouteKeys(k)
          /\ Go("kinds")
       \/ /\ Fault /\ Fail
          /\ \E Old \in SUBSET CopiesOf(k) : \E New \in SUBSET NewWorkers(k) :
                /\ \A v \in Old, w \in New : v.n # w.n
                /\ enabled' = (enabled \ CopiesOf(k)) \union Old \union New
                /\ sockets' = (sockets \ UNION {CopySocket(w) : w \in CopiesOf(k) \ Old})
                                \union UNION {CopySocket(w) : w \in New}
          /\ keys' \in {keys, ApplyRouteKeys(k)}

StopWebKind(k) ==
    /\ IsWebFacing(k) /\ counts[k] = 0
    /\ \/ NoFault /\ StopCopies(CopiesOf(k)) /\ Go("kinds")
       \/ Fault /\ (\E W \in SUBSET CopiesOf(k) : StopCopies(W)) /\ Fail
    /\ UNCHANGED keys

\* The config files are written over those that are there.
WriteCopies(k) ==
    /\ ~IsWebFacing(k)
    /\ \/ /\ NoFault /\ Go("kinds")
          /\ enabled' = {w \in enabled : w.kind # k \/ w.n > counts[k]} \union NewWorkers(k)
       \/ /\ Fault /\ Fail
          /\ \E m \in 0..counts[k] :
                enabled' = {w \in enabled : w.kind # k \/ w.n > m} \union {Written(k, n) : n \in 1..m}
    /\ UNCHANGED <<sockets, keys>>

ReplaceKind ==
    /\ pc = "kinds"
    /\ \E k \in todo :
        /\ todo' = todo \ {k}
        /\ RollWebFacing(k) \/ StopWebKind(k) \/ WriteCopies(k)
    /\ UNCHANGED <<inputs, entries, deploys>>

Dropped == {w \in enabled : IsWebFacing(w.kind) /\ w.kind \notin entries}

\* Web facing kinds that left the Procfile are stopped.
StopDroppedKinds ==
    /\ pc = "kinds" /\ todo = {}
    /\ \/ NoFault /\ StopCopies(Dropped) /\ pc' = "idle"
          /\ done' = IF done = "warned" THEN "warned" ELSE "ok"
       \/ Fault /\ (\E W \in SUBSET Dropped : StopCopies(W)) /\ Fail
    /\ UNCHANGED <<inputs, keys, entries, todo, deploys>>

\* riku stop: every enabled config, then the copies' own sockets, without the lock
\* but not beside a deploy here.
StopApp ==
    /\ pc = "idle" /\ enabled # {} /\ deploys < MaxDeploys
    /\ deploys' = deploys + 1 /\ done' = "stopped"
    /\ StopCopies(enabled)
    /\ UNCHANGED <<inputs, keys, pc, entries, todo, faults>>

KillDeploy ==
    /\ pc # "idle" /\ Fault /\ Fail
    /\ UNCHANGED <<inputs, enabled, sockets, keys, entries, todo, deploys>>

FileNext ==
    \/ Edit \/ CheckAddresses \/ RemoveStaleConfigs \/ ReadEntries \/ ClearRouteEnv
    \/ RemoveSurplusConfigs \/ ReplaceKind \/ StopDroppedKinds \/ StopApp \/ KillDeploy

FileSpec == FileInit /\ [][FileNext]_fileVars

-----------------------------------------------------------------------------
Wanted == UNION {NewWorkers(k) : k \in entries \ OneShotKinds}

\* A deploy that went through leaves the Procfile's copies, all written by it, and
\* no others of a web facing kind, whatever earlier deploys that failed or were
\* killed have left, unless a config could not be removed;
\* its routing keys name a kind that runs, or none does.
DeployLeavesProcfile ==
    done = "ok" =>
        /\ Wanted \subseteq enabled
        /\ {w \in enabled \ Wanted : auto \/ IsWebFacing(w.kind)} = {}
        /\ \A w \in enabled : IsWebFacing(w.kind) =>
              \E v \in enabled : IsWebFacing(v.kind) /\ keys = ApplyRouteKeys(v.kind)

\* Every uWSGI copy that a deploy leaves running has its own socket.  Not so: a
\* socket is named after the app and the number, so copies of two kinds share one
\* and stopping a kind that left the Procfile removes the other's.
OwnSocket ==
    done = "ok" => UNION {CopySocket(w) : w \in enabled} \subseteq sockets
=============================================================================
