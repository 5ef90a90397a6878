------------------------------- MODULE Rollout -------------------------------
(***************************************************************************)
(* The commands on a container app: deploy, restart, stop, scale, image    *)
(* update and destroy, one at a time under the deploy lock, each a         *)
(* sequence of engine, router and file calls of which any may fail, and    *)
(* killed between any two.  The app was deployed with a Procfile before.   *)
(*                                                                         *)
(* How the copies of one service are replaced, and what a failure half-way *)
(* leaves, is Rolling; here it is one step with any mix as its outcome.    *)
(***************************************************************************)
EXTENDS Naturals, Sequences, FiniteSets

CONSTANTS
    Projects,   \* by revision: [order, healthy, routed, built, storage, release]
    MaxContainers,  \* bound: copies asked for
    MaxMoves,   \* bound: times a registry tag moves
    MaxOps,     \* bound: commands
    MaxFailures   \* bound: failed calls, kills and copies that die

VARIABLES
    checkout,   \* revision in the app directory; 0 is the Procfile app
    images,     \* the engine's image of each service, 0 for none
    registry,   \* the image that the tag of a pulled service names
    copies,     \* the engine's containers of the app
    box,        \* the release container: "none", "running", "done" or "failed"
    route,      \* who gets the app's requests: copies, or the Procfile workers
    scaling,    \* the SCALING file
    workers,    \* Procfile workers: "running", "parked" or "gone"
    cmd,        \* the command under way
    answer,     \* what the last command reported
    ops, failures

rolloutVars == <<checkout, images, registry, copies, box, route, scaling, workers, cmd, answer, ops, failures>>

RangeOf(q) == {q[i] : i \in DOMAIN q}
P == Projects[checkout]
Services == UNION {RangeOf(Projects[r].order) : r \in DOMAIN Projects}

ASSUME RolloutAssumption ==
    /\ MaxContainers \in Nat /\ DOMAIN Projects \subseteq Nat \ {0}
    /\ \A r \in DOMAIN Projects :
          /\ Projects[r].order \in Seq(Services) /\ Projects[r].release \in BOOLEAN
          /\ Projects[r].routed \in RangeOf(Projects[r].order) \union {"none"}
    /\ Services \intersect {"all", "none"} = {}

ContainersOf(s) == {c \in copies : c.svc = s}
Addresses(C) == {<<c.svc, c.n>> : c \in C}
Procfile == {<<"workers", 0>>}
NoCounts == [s \in {} |-> 0]
NoCmd == [kind |-> "none", at |-> "none", todo |-> <<>>, svc |-> "all", want |-> 0, counts |-> NoCounts]
NoAnswer == [kind |-> "none", svc |-> "all", want |-> 0, ok |-> FALSE]

RolloutInit ==
    /\ checkout = 0
    /\ images = [s \in Services |-> 0] /\ registry = [s \in Services |-> 1]
    /\ copies = {} /\ box = "none" /\ route = Procfile
    /\ scaling = [kind \in {"web"} |-> 1] /\ workers = "running"
    /\ cmd = NoCmd /\ answer = NoAnswer /\ ops = 0 /\ failures = 0

-----------------------------------------------------------------------------
\* The compose file's rules and the SCALING file.

Storage(s) == s \in P.storage

\* Copies wanted: the SCALING entry, else one.
CountOf(s) == IF s \in DOMAIN scaling THEN scaling[s] ELSE 1

\* Whether a service may run this many copies: storage and unrouted ports do not
\* scale.
CheckScale(s, n) ==
    /\ n > 0 /\ s \in RangeOf(P.order)
    /\ n > 1 => ~Storage(s)

CheckCounts == \A s \in RangeOf(P.order) : CheckScale(s, CountOf(s))

\* The position in start order; a service no longer in the file ranks last.
StartRank(s) ==
    IF s \in RangeOf(P.order) THEN CHOOSE i \in DOMAIN P.order : P.order[i] = s
    ELSE Len(P.order) + 1

-----------------------------------------------------------------------------
\* How a command goes on, ends or fails.

Failure == failures < MaxFailures /\ failures' = failures + 1
NoFailure == UNCHANGED failures
In(kind, step) == cmd.kind = kind /\ cmd.at = step
Goto(step) == cmd' = [cmd EXCEPT !.at = step] /\ UNCHANGED answer
End(ok) ==
    /\ answer' = [kind |-> cmd.kind, svc |-> cmd.svc, want |-> cmd.want, ok |-> ok]
    /\ cmd' = NoCmd
disk == <<checkout, scaling, workers>>
engine == <<images, copies, box>>

Kill ==
    /\ cmd.kind # "none" /\ Failure
    /\ cmd' = NoCmd /\ answer' = NoAnswer
    /\ UNCHANGED <<disk, engine, registry, route, ops>>

StartCommand(kind, svc, want) ==
    /\ cmd.kind = "none" /\ ops < MaxOps /\ ops' = ops + 1
    /\ cmd' = [NoCmd EXCEPT !.kind = kind, !.at = "load", !.svc = svc, !.want = want]
    /\ answer' = NoAnswer
    /\ UNCHANGED <<engine, registry, route, scaling, workers, failures>>

\* A push has put its revision in the app directory before the deploy.
BeginContainerDeploy(r) ==
    /\ r >= checkout /\ checkout' = r
    /\ StartCommand("deploy", "all", 0)

BeginOperation ==
    /\ checkout # 0
    /\ \/ \E s \in Services \union {"all"}, k \in {"restart", "stop"} : StartCommand(k, s, 0)
       \/ \E s \in Services, n \in 1..MaxContainers : StartCommand("scale", s, n)
       \/ StartCommand("destroy", "all", 0)
    /\ UNCHANGED checkout

\* The supervisor asks for a check of a watched service; a built one is left
\* alone before the lock is taken.
BeginUpdate(s) ==
    /\ checkout # 0 /\ s \in RangeOf(P.order)
    /\ ~(s \in P.built)
    /\ StartCommand("update", s, 0)
    /\ UNCHANGED checkout

\* The services a restart is about, in start order.
Chosen(svc) == IF svc = "all" THEN P.order ELSE <<svc>>

\* The lock, the project, the engine and the scratch directory; a service that
\* the compose file does not have is an error, except to destroy.
LoadApp ==
    /\ cmd.at = "load"
    /\ IF cmd.svc \in RangeOf(P.order) \union {"all"}
       THEN \/ /\ NoFailure /\ UNCHANGED answer
               /\ cmd' = [cmd EXCEPT
                     !.at = CASE cmd.kind = "deploy" -> "counts"
                              [] cmd.kind = "restart" -> "deps"
                              [] cmd.kind = "stop" -> "unroute"
                              [] cmd.kind = "scale" -> "scale"
                              [] cmd.kind = "update" -> "pull"
                              [] cmd.kind = "destroy" -> "remove",
                     !.todo = IF cmd.kind = "restart" THEN Chosen(cmd.svc) ELSE <<>>]
            \/ Failure /\ End(FALSE)
       ELSE NoFailure /\ End(FALSE)
    /\ UNCHANGED <<disk, engine, registry, route, ops>>

-----------------------------------------------------------------------------
\* Deploy: counts, images and the release command.

PrepareCounts ==
    /\ In("deploy", "counts") /\ NoFailure
    /\ IF CheckCounts
       THEN cmd' = [cmd EXCEPT !.at = "images", !.todo = P.order] /\ UNCHANGED answer
       ELSE End(FALSE)
    /\ UNCHANGED <<disk, engine, registry, route, ops>>

\* A service with a build section is built from the checkout, another pulled.
PrepareService(s) == IF s \in P.built THEN 10 + checkout ELSE registry[s]

\* Hooks, the registry login, a build or a pull may fail; images made stay.
PrepareImages ==
    /\ In("deploy", "images")
    /\ \/ /\ cmd.todo # <<>> /\ NoFailure
          /\ images' = [images EXCEPT ![Head(cmd.todo)] = PrepareService(Head(cmd.todo))]
          /\ cmd' = [cmd EXCEPT !.todo = Tail(@)] /\ UNCHANGED answer
       \/ Failure /\ End(FALSE) /\ UNCHANGED images
       \/ cmd.todo = <<>> /\ NoFailure /\ Goto("release") /\ UNCHANGED images
    /\ UNCHANGED <<disk, copies, box, registry, route, ops>>

\* A release container that a killed deploy left is removed by name, which the
\* engine refuses while it runs.
RemoveStale ==
    /\ In("deploy", "release") /\ P.release
    /\ \/ box # "running" /\ NoFailure /\ box' = "none" /\ Goto("run")
       \/ box = "running" /\ NoFailure /\ End(FALSE) /\ UNCHANGED box
       \/ Failure /\ End(FALSE) /\ UNCHANGED box
    /\ UNCHANGED <<disk, images, copies, registry, route, ops>>

NoRelease ==
    /\ In("deploy", "release") /\ ~P.release /\ NoFailure
    /\ Goto("workers")
    /\ UNCHANGED <<disk, engine, registry, route, ops>>

StartRelease ==
    /\ In("deploy", "run")
    /\ \/ NoFailure /\ box' = "running" /\ Goto("wait")
       \/ Failure /\ End(FALSE) /\ UNCHANGED box
    /\ UNCHANGED <<disk, images, copies, registry, route, ops>>

ReleaseExits ==
    /\ box = "running"
    /\ box' \in {"done", "failed"}
    /\ UNCHANGED <<disk, images, copies, registry, route, cmd, answer, ops, failures>>

\* The container is removed whatever its exit code; a wait that times out finds
\* it running, and then the removal fails too.
RunToExit ==
    /\ In("deploy", "wait")
    /\ \/ box = "done" /\ NoFailure /\ box' = "none" /\ Goto("workers")
       \/ box = "failed" /\ NoFailure /\ box' = "none" /\ End(FALSE)
       \/ Failure /\ End(FALSE) /\ UNCHANGED box
    /\ UNCHANGED <<disk, images, copies, registry, route, ops>>

\* MUTANT: the workers are parked before the rollout.
LoadWorkersParks ==
    /\ In("deploy", "workers") /\ NoFailure
    /\ workers' = IF workers = "running" THEN "parked" ELSE workers
    /\ cmd' = [cmd EXCEPT !.at = "deps", !.todo = P.order] /\ UNCHANGED answer
    /\ UNCHANGED <<checkout, scaling, engine, registry, route, ops>>

LoadWorkers ==
    /\ In("deploy", "workers")
    /\ \/ NoFailure /\ UNCHANGED answer
          /\ cmd' = [cmd EXCEPT !.at = "deps", !.todo = P.order]
       \/ Failure /\ End(FALSE)
    /\ UNCHANGED <<disk, engine, registry, route, ops>>

-----------------------------------------------------------------------------
\* Rolling out the services of a deploy, a restart or an update.

\* Every copy of each service_healthy dependency is healthy, and there is one.
DependenciesHealthy(s) ==
    \A d \in P.healthy[s] : ContainersOf(d) # {} /\ \A c \in ContainersOf(d) : c.st = "healthy"

WaitForDependencies ==
    /\ cmd.at = "deps" /\ cmd.todo # <<>>
    /\ \/ DependenciesHealthy(Head(cmd.todo)) /\ NoFailure /\ Goto("swap")
       \/ ~DependenciesHealthy(Head(cmd.todo)) /\ NoFailure /\ End(FALSE)
       \/ Failure /\ End(FALSE)
    /\ UNCHANGED <<disk, engine, registry, route, ops>>

\* A built image is never pulled; a pulled one that is missing is.
ImageOf(s) == IF images[s] = 0 /\ ~(s \in P.built) THEN registry[s] ELSE images[s]

Slots == 1..(MaxContainers + 1)
SlotSets(n) == {N \in SUBSET Slots : Cardinality(N) = n}
NewContainers(s, N) == {[svc |-> s, n |-> n, img |-> ImageOf(s), st |-> "healthy"] : n \in N}

\* A replacement that succeeds leaves the wanted number of new copies, routed; one
\* that fails leaves any of the old ones and fewer or as many new ones.
RollService ==
    LET s == Head(cmd.todo) IN
    /\ cmd.at = "swap"
    /\ images' = [images EXCEPT ![s] = ImageOf(s)]
    /\ \/ /\ ImageOf(s) # 0 /\ NoFailure
          /\ \E N \in SlotSets(CountOf(s)) :
               /\ copies' = (copies \ ContainersOf(s)) \union NewContainers(s, N)
               /\ route' = IF s = P.routed THEN Addresses(NewContainers(s, N)) ELSE route
          /\ cmd' = [cmd EXCEPT !.at = "deps", !.todo = Tail(@)] /\ UNCHANGED answer
       \/ /\ IF ImageOf(s) # 0 THEN Failure ELSE NoFailure
          /\ \E old \in SUBSET ContainersOf(s) :
             \E some \in (IF ImageOf(s) # 0 THEN {NewContainers(s, N) : N \in SUBSET Slots} ELSE {{}}) :
                /\ Addresses(old) \intersect Addresses(some) = {}
                /\ Cardinality(some) <= CountOf(s)
                /\ copies' = (copies \ ContainersOf(s)) \union old \union some
                /\ route' \in IF s = P.routed /\ old \union some # {}
                              THEN {route, Addresses(old \union some)} ELSE {route}
          /\ End(FALSE)
    /\ UNCHANGED <<disk, registry, box, ops>>

RolledOut ==
    /\ cmd.at = "deps" /\ cmd.todo = <<>> /\ NoFailure
    /\ IF cmd.kind = "deploy" THEN Goto("dropped") ELSE End(TRUE)
    /\ UNCHANGED <<disk, engine, registry, route, ops>>

DroppedContainers == {c \in copies : ~(c.svc \in RangeOf(P.order))}

\* MUTANT: containers of services that the compose file dropped are kept.
RemoveDroppedNothing ==
    /\ In("deploy", "dropped") /\ NoFailure
    /\ Goto("unroute")
    /\ UNCHANGED <<disk, engine, registry, route, ops>>

RemoveDropped ==
    /\ In("deploy", "dropped")
    /\ \/ \E c \in DroppedContainers : NoFailure /\ copies' = copies \ {c} /\ UNCHANGED <<cmd, answer>>
       \/ DroppedContainers = {} /\ NoFailure /\ Goto("unroute") /\ UNCHANGED copies
       \/ DroppedContainers # {} /\ Failure /\ End(FALSE) /\ UNCHANGED copies
    /\ UNCHANGED <<disk, images, box, registry, route, ops>>

\* An app without a routed port is taken off the router.
RollOutApp ==
    /\ In("deploy", "unroute")
    /\ \/ NoFailure /\ Goto("park") /\ route' = IF P.routed = "none" THEN {} ELSE route
       \/ P.routed = "none" /\ Failure /\ End(FALSE) /\ UNCHANGED route
    /\ UNCHANGED <<disk, engine, registry, ops>>

-----------------------------------------------------------------------------
\* Retiring the Procfile workers.

\* Enabled links are renamed; parked ones of an earlier deploy are found again.
ParkWorkers ==
    /\ In("deploy", "park")
    /\ \/ workers = "gone" /\ NoFailure /\ End(TRUE) /\ UNCHANGED workers
       \/ workers # "gone" /\ NoFailure /\ workers' = "parked" /\ Goto("stopped")
       \/ workers # "gone" /\ Failure /\ End(FALSE) /\ UNCHANGED workers
    /\ UNCHANGED <<checkout, scaling, engine, registry, route, ops>>

WaitStopped ==
    /\ In("deploy", "stopped")
    /\ \/ NoFailure /\ Goto("discard")
       \/ Failure /\ End(FALSE)
    /\ UNCHANGED <<disk, engine, registry, route, ops>>

\* A failure from here on is a warning.
Discard ==
    /\ In("deploy", "discard")
    /\ \/ NoFailure /\ workers' = "gone"
       \/ Failure /\ UNCHANGED workers
    /\ Goto("forget")
    /\ UNCHANGED <<checkout, scaling, engine, registry, route, ops>>

ForgetScaling ==
    /\ In("deploy", "forget")
    /\ \/ NoFailure /\ scaling' = [s \in DOMAIN scaling \intersect RangeOf(P.order) |-> scaling[s]]
       \/ Failure /\ UNCHANGED scaling
    /\ End(TRUE)
    /\ UNCHANGED <<checkout, workers, engine, registry, route, ops>>

-----------------------------------------------------------------------------
\* Stop and destroy.

Targets == IF cmd.svc = "all" THEN copies ELSE ContainersOf(cmd.svc)

\* The app leaves the router before the routed service is stopped, or nothing is.
StopUnroutes ==
    LET hit == P.routed # "none" /\ cmd.svc \in {"all", P.routed} IN
    /\ In("stop", "unroute")
    /\ \/ NoFailure /\ route' = (IF hit THEN {} ELSE route) /\ Goto("remove")
       \/ hit /\ Failure /\ End(FALSE) /\ UNCHANGED route
    /\ UNCHANGED <<disk, engine, registry, ops>>

\* Dependents are stopped and removed first; a failure leaves the rest.
RemoveContainers ==
    /\ cmd.at = "remove"
    /\ \/ \E c \in Targets :
            /\ cmd.kind = "stop" => \A d \in Targets : StartRank(d.svc) <= StartRank(c.svc)
            /\ NoFailure /\ copies' = copies \ {c} /\ UNCHANGED <<cmd, answer>>
       \/ Targets # {} /\ Failure /\ End(FALSE) /\ UNCHANGED copies
       \/ /\ Targets = {} /\ NoFailure /\ UNCHANGED copies
          /\ IF cmd.kind = "stop" THEN End(TRUE) ELSE Goto("network")
    /\ UNCHANGED <<disk, images, box, registry, route, ops>>

\* A running release container keeps the network; the command fails.
RemoveNetwork ==
    /\ In("destroy", "network")
    /\ \/ box # "running" /\ NoFailure /\ End(TRUE)
       \/ box = "running" /\ NoFailure /\ End(FALSE)
       \/ Failure /\ End(FALSE)
    /\ UNCHANGED <<disk, engine, registry, route, ops>>

-----------------------------------------------------------------------------
\* Scale.

\* Growing fills the lowest free indexes, shrinking drops the highest ones, and
\* the routes follow the running copies, as long as there is one.
ScaleTo ==
    LET s == cmd.svc
        have == ContainersOf(s)
        below(c) == {d \in have : d.n < c.n}
        free == {n \in Slots : ~\E c \in have : c.n = n}
        lack == IF Cardinality(have) < cmd.want THEN cmd.want - Cardinality(have) ELSE 0
        gone == {c \in have : Cardinality(below(c)) >= cmd.want}
        add == NewContainers(s, {n \in free : Cardinality({m \in free : m < n}) < lack})
        left == (have \ gone) \union add
        serving == {c \in left : c.st # "exited"}
    IN
    /\ In("scale", "scale")
    /\ images' = [images EXCEPT ![s] = ImageOf(s)]
    /\ \/ /\ ~CheckScale(s, cmd.want) /\ NoFailure /\ End(FALSE) /\ UNCHANGED <<copies, route>>
       \/ /\ CheckScale(s, cmd.want) /\ ImageOf(s) # 0 /\ NoFailure
          /\ copies' = (copies \ have) \union left
          /\ route' = IF s = P.routed /\ left # have /\ serving # {} THEN Addresses(serving) ELSE route
          /\ Goto("clear")
       \/ /\ CheckScale(s, cmd.want) /\ (IF ImageOf(s) = 0 THEN NoFailure ELSE Failure)
          /\ \E fewer \in SUBSET gone :
             \E more \in (IF ImageOf(s) = 0 THEN {{}} ELSE SUBSET add) :
               /\ copies' = (copies \ fewer) \union more
               /\ route' \in IF s = P.routed
                             THEN {route, Addresses((have \ gone) \union more)} ELSE {route}
          /\ End(FALSE)
    /\ UNCHANGED <<disk, registry, box, ops>>

\* The file is truncated and written: until then it has no counts at all.
ClearScaling ==
    /\ In("scale", "clear")
    /\ \/ NoFailure /\ cmd' = [cmd EXCEPT !.at = "record", !.counts = scaling] /\ UNCHANGED answer
          /\ scaling' = NoCounts
       \/ Failure /\ End(FALSE) /\ UNCHANGED scaling
    /\ UNCHANGED <<checkout, workers, engine, registry, route, ops>>

WriteScaling ==
    /\ In("scale", "record") /\ NoFailure
    /\ scaling' = [k \in DOMAIN cmd.counts \union {cmd.svc} |->
                      IF k = cmd.svc THEN cmd.want ELSE cmd.counts[k]]
    /\ End(TRUE)
    /\ UNCHANGED <<checkout, workers, engine, registry, route, ops>>

-----------------------------------------------------------------------------
\* Image update.

Running(s) == {c \in ContainersOf(s) : c.st # "exited"}

\* The tag is pulled; the copies are replaced if any runs another image.  A
\* service without a running copy is not started.
UpdateService ==
    LET s == cmd.svc IN
    /\ In("update", "pull")
    /\ \/ /\ NoFailure /\ images' = [images EXCEPT ![s] = registry[s]]
          /\ IF \A c \in Running(s) : c.img = registry[s]
             THEN End(TRUE)
             ELSE cmd' = [cmd EXCEPT !.at = "deps", !.todo = <<s>>] /\ UNCHANGED answer
       \/ Failure /\ End(FALSE) /\ UNCHANGED images
    /\ UNCHANGED <<disk, copies, box, registry, route, ops>>

\* Somebody pushes a new image under the tag.
TagMoves(s) ==
    /\ registry[s] <= MaxMoves /\ registry' = [registry EXCEPT ![s] = @ + 1]
    /\ UNCHANGED <<disk, engine, route, cmd, answer, ops, failures>>

Sicken(c) ==
    /\ Failure /\ c.st = "healthy"
    /\ \E st \in {"exited", "unhealthy"} : copies' = (copies \ {c}) \union {[c EXCEPT !.st = st]}
    /\ UNCHANGED <<disk, images, box, registry, route, cmd, answer, ops>>

-----------------------------------------------------------------------------
Starts == BeginOperation \/ (\E r \in DOMAIN Projects : BeginContainerDeploy(r)) \/ (\E s \in Services : BeginUpdate(s))

Deploy ==
    \/ PrepareCounts \/ PrepareImages \/ RemoveStale \/ NoRelease \/ StartRelease \/ RunToExit
    \/ LoadWorkers \/ RemoveDropped \/ RollOutApp
    \/ ParkWorkers \/ WaitStopped \/ Discard \/ ForgetScaling

Rolls == WaitForDependencies \/ RollService \/ RolledOut

OtherSteps ==
    \/ StopUnroutes \/ RemoveContainers \/ RemoveNetwork
    \/ ScaleTo \/ ClearScaling \/ WriteScaling \/ UpdateService

World == ReleaseExits \/ (\E s \in Services : TagMoves(s)) \/ (\E c \in copies : Sicken(c))

RolloutNext == Starts \/ LoadApp \/ Deploy \/ Rolls \/ OtherSteps \/ World \/ Kill

RolloutSpec == RolloutInit /\ [][RolloutNext]_rolloutVars

-----------------------------------------------------------------------------
\* What a command that reported success has done, whatever earlier commands
\* that failed or were killed left behind.
OkMeansDone ==
    LET ok(kind) == answer.ok /\ answer.kind = kind
        Whole(s) == Cardinality(ContainersOf(s)) = CountOf(s)
        Routed == P.routed # "none" => route = Addresses(ContainersOf(P.routed))
    IN
    \* A deploy: the services of its compose file and no others, at their counts,
    \* on the images it made, routed; nothing of its release or of the Procfile app runs.
    /\ ok("deploy") =>
         /\ {c.svc : c \in copies} = RangeOf(P.order)
         /\ \A s \in RangeOf(P.order) : Whole(s) /\ \A c \in ContainersOf(s) : c.img = images[s]
         /\ Routed /\ (P.routed = "none" => route = {})
         /\ P.release => box = "none"
         /\ workers # "running"
    \* A restart: the services asked for, at their counts, routed.
    /\ ok("restart") =>
         /\ \A s \in RangeOf(P.order) : answer.svc \in {"all", s} => Whole(s)
         /\ answer.svc \in {"all", P.routed} => Routed
    \* A stop: no copy is left and the router sends to none.
    /\ ok("stop") =>
         /\ \A c \in copies : ~(answer.svc \in {"all", c.svc})
         /\ P.routed # "none" /\ answer.svc \in {"all", P.routed} => route = {}
    \* A scale: the number of copies is the one on record, and later deploys use it.
    /\ ok("scale") => Whole(answer.svc) /\ CountOf(answer.svc) = answer.want
    /\ ok("destroy") => copies = {}

\* The Procfile workers stop only when every service of the new app has its
\* copies and the router sends to them: a failed or killed switch leaves the
\* Procfile app running.
SwitchKeepsServing ==
    [][workers = "running" /\ workers' # "running" =>
        /\ \A s \in RangeOf(P.order) : Cardinality(ContainersOf(s)) = CountOf(s)
        /\ P.routed # "none" => route = Addresses(ContainersOf(P.routed))]_rolloutVars
=============================================================================
