------------------------------ MODULE PluginCall ------------------------------
(***************************************************************************)
(* One call of a plugin (riku-plugins executor.rs and the seams that use   *)
(* it): the kernel spawns the plugin as the leader of a process group,     *)
(* writes a payload to its stdin, waits for it under a timeout, and reads  *)
(* what it printed, in threads that started before the wait or only after  *)
(* it.  Events and filters call their subscribers one after the other, a   *)
(* filter passing on the value that the one before it answered.            *)
(*                                                                         *)
(* A pipe holds PipeSize units.  A plugin may leave a process behind, in   *)
(* its group or out of it, with its stdout open or closed, and may print   *)
(* what is not UTF-8: a reader of lines ends there and closes the pipe, a  *)
(* reader of the whole answer drops all of it when it has come to its end. *)
(***************************************************************************)
EXTENDS Budget, Sequences

CONSTANTS
    PipeSize,       \* units a pipe holds before its writer blocks
    MaxOutput,      \* bound: units that the processes of one call print
    MaxPayload,     \* bound: units of one payload
    MaxSubscribers  \* bound: subscribers of one event or filter

-----------------------------------------------------------------------------
(* The callers.  "input": a payload is piped to the plugin; "reads": its   *)
(* output is read in threads as it runs, by lines or as a whole answer, in *)
(* lines after it ended, as bytes, or goes to null; "timed": a timeout     *)
(* applies; "failure": what a failure is taken for; "chain": every         *)
(* subscriber is called in turn.                                           *)

Caller(input, reads, timed, failure, chain) ==
    [input |-> input, reads |-> reads, timed |-> timed, failure |-> failure, chain |-> chain]
BeforeBuild == Caller(FALSE, "after", TRUE, "failed", FALSE)
AfterDeploy == Caller(FALSE, "after", TRUE, "warned", FALSE)
Subscriber == Caller(TRUE, "after", TRUE, "warned", TRUE)
RunFilter == Caller(TRUE, "whole", TRUE, "warned", TRUE)
RunUiPanel == Caller(TRUE, "whole", TRUE, "warned", FALSE)
AddonVerb == Caller(TRUE, "whole", TRUE, "failed", FALSE)
RouterVerb == Caller(TRUE, "whole", TRUE, "failed", FALSE)
LifecycleVerb == Caller(TRUE, "never", TRUE, "warned", FALSE)
Detect == Caller(FALSE, "never", TRUE, "failed", FALSE)
Build == Caller(FALSE, "lines", TRUE, "failed", FALSE)
GetEnv == Caller(FALSE, "bytes", FALSE, "warned", FALSE)
GetStartCmd == Caller(FALSE, "bytes", FALSE, "ignored", FALSE)
Destroy == Caller(FALSE, "bytes", FALSE, "failed", FALSE)
Callers == [pre_build |-> BeforeBuild, post_deploy |-> AfterDeploy, event |-> Subscriber,
            filter |-> RunFilter, panel |-> RunUiPanel, addon |-> AddonVerb, router |-> RouterVerb,
            on_install |-> LifecycleVerb, detect |-> Detect, build |-> Build, env |-> GetEnv,
            start |-> GetStartCmd, destroy |-> Destroy]

VARIABLES
    seam,       \* which caller it is
    turn,       \* the subscriber being called
    call,       \* where the kernel is: "idle", "input", "wait", "drain" or "done"
    leader,     \* the plugin itself: "none", "runs", "ok", "failed" or "killed"
    rest,       \* the process it left behind: "none", "group", "away" or "ended"
    holds,      \* that process has the plugin's stdout open
    unsent, inpipe,     \* the payload: not written yet, written and not read
    written, pipe, got, \* its output: printed, in the pipe, read by the kernel
    badAt,      \* the first unit it printed that is not UTF-8, or 0
    stopped,    \* the reader has ended at that unit
    late,       \* wait_with_timeout returned true
    outcome,    \* what the call was taken for
    value       \* the subscribers whose answers made the value, in order
callState == <<seam, turn, call, leader, rest, holds, unsent, inpipe, written, pipe, got, badAt, stopped, late, outcome, value>>
callVars == <<callState, faults>>

CallInit ==
    /\ seam \in DOMAIN Callers
    /\ turn = 1 /\ call = "idle" /\ leader = "none" /\ rest = "none" /\ holds = FALSE
    /\ unsent = 0 /\ inpipe = 0 /\ written = 0 /\ pipe = 0 /\ got = 0
    /\ badAt = 0 /\ stopped = FALSE /\ late = FALSE /\ outcome = "none" /\ value = <<>>
    /\ faults = 0

Called == Callers[seam]
LastTurn == IF Called.chain THEN MaxSubscribers ELSE 1
Runs == leader = "runs"
InGroup == Runs \/ rest = "group"
Writers == Runs \/ (rest \in {"group", "away"} /\ holds)
Kernel == <<seam, turn, call, unsent, got, stopped, late, outcome, value>>

-----------------------------------------------------------------------------
(* The plugin's processes.                                                 *)

ReadPayload ==
    /\ Runs /\ inpipe > 0
    /\ inpipe' = inpipe - 1
    /\ UNCHANGED <<Kernel, leader, rest, holds, written, badAt, pipe>> /\ NoFault
\* Null outputs take everything; a full pipe blocks the writer, a closed one takes nothing.
PrintUnit(utf8) ==
    /\ Writers /\ written < MaxOutput /\ pipe < PipeSize
    /\ Called.reads # "never" /\ ~stopped
    /\ written' = written + 1 /\ pipe' = pipe + 1
    /\ badAt' = IF badAt = 0 /\ ~utf8 THEN written + 1 ELSE badAt
    /\ UNCHANGED <<Kernel, leader, rest, holds, inpipe>> /\ NoFault
LeaveBehind(where, open) ==
    /\ Runs /\ rest = "none"
    /\ rest' = where /\ holds' = open
    /\ UNCHANGED <<Kernel, leader, inpipe, written, badAt, pipe>> /\ NoFault
RestEnds ==
    /\ rest \in {"group", "away"}
    /\ rest' = "ended"
    /\ UNCHANGED <<Kernel, leader, holds, inpipe, written, badAt, pipe>> /\ NoFault
LeaderEnds ==
    /\ Runs
    /\ \/ leader' = "ok" /\ NoFault
       \/ leader' = "failed" /\ (IF stopped THEN NoFault ELSE Fault)
    /\ UNCHANGED <<Kernel, rest, holds, inpipe, written, badAt, pipe>>

-----------------------------------------------------------------------------
(* The kernel.                                                             *)

\* spawn_retrying_etxtbsy: five attempts, then what the caller makes of it.
SpawnFailure == IF seam \in {"post_deploy", "env", "start"} THEN "failed" ELSE Called.failure
SpawnPlugin(payload) ==
    /\ call = "idle" /\ turn <= LastTurn
    /\ \/ /\ leader' = "runs" /\ call' = "input"
          /\ unsent' = IF Called.input THEN payload ELSE 0
          /\ UNCHANGED outcome /\ NoFault
       \/ /\ leader' = "failed" /\ call' = "done" /\ outcome' = SpawnFailure
          /\ UNCHANGED unsent /\ Fault
    /\ rest' = "none" /\ holds' = FALSE /\ inpipe' = 0
    /\ written' = 0 /\ pipe' = 0 /\ got' = 0 /\ badAt' = 0 /\ stopped' = FALSE /\ late' = FALSE
    /\ UNCHANGED <<seam, turn, value>>
\* writeln! to stdin, which is closed afterwards; an error is ignored, so a
\* plugin that is gone ends the write.  No timeout runs yet.
SendPayload ==
    /\ call = "input"
    /\ IF unsent > 0 /\ Runs
       THEN inpipe < PipeSize /\ inpipe' = inpipe + 1 /\ unsent' = unsent - 1 /\ UNCHANGED call
       ELSE call' = "wait" /\ unsent' = 0 /\ UNCHANGED inpipe
    /\ UNCHANGED <<seam, turn, leader, rest, holds, written, pipe, got, badAt, stopped, late, outcome, value>> /\ NoFault
\* capture_stdout, stream_stderr, tee_output and Command::output read while the
\* plugin runs; emit_plugin_output reads what is left once it has ended.
ReadsNow == \/ Called.reads \in {"lines", "whole", "bytes"} /\ call \in {"wait", "drain"}
            \/ Called.reads = "after" /\ call = "drain"
ReadsLines == Called.reads \in {"lines", "after"}
ReadOutput ==
    /\ ReadsNow /\ pipe > 0 /\ ~stopped
    /\ \/ ReadsLines /\ got + 1 = badAt /\ stopped' = TRUE /\ pipe' = 0 /\ UNCHANGED got
       \/ ~(ReadsLines /\ got + 1 = badAt) /\ pipe' = pipe - 1 /\ got' = got + 1 /\ UNCHANGED stopped
    /\ UNCHANGED <<seam, turn, call, leader, rest, holds, unsent, inpipe, written, badAt, late, outcome, value>> /\ NoFault
SeeExit ==
    /\ call = "wait" /\ ~Runs
    /\ call' = "drain"
    /\ UNCHANGED <<seam, turn, leader, rest, holds, unsent, inpipe, written, pipe, got, badAt, stopped, late, outcome, value>> /\ NoFault
KillLeader(r) == r  \* MUTANT: kill(pid) where killpg(pid) is meant
\* terminate_process_tree kills the whole group, which the plugin leads.
KillTree(r) == IF r = "group" THEN "ended" ELSE r
TerminateLeader == leader' = "killed" /\ rest' = KillLeader(rest)
TerminateProcessTree == leader' = "killed" /\ rest' = KillTree(rest)
CallTimesOut ==
    /\ call = "wait" /\ Runs /\ Called.timed
    /\ TerminateProcessTree
    /\ call' = "drain" /\ late' = TRUE
    /\ UNCHANGED <<seam, turn, holds, unsent, inpipe, written, pipe, got, badAt, stopped, outcome, value>> /\ NoFault

\* What the caller makes of the end: a post-deploy hook, an event, a lifecycle
\* verb and a panel only warn; "detect" answers no; "env" and "start" use what was printed.
Succeeded == ~late /\ leader = "ok"
OutcomeOf == IF Succeeded THEN "ok" ELSE Called.failure
\* What the caller has in the end: read_to_string leaves nothing of an answer that is
\* not UTF-8, and the lines of "env" are taken up to the first that is not.
Usable == IF badAt = 0 THEN got
        ELSE IF Called.reads = "whole" THEN 0
        ELSE IF seam = "env" THEN badAt - 1
        ELSE got
\* run_filter: any failure, an empty answer or one that is not JSON passes the
\* input on unchanged.
ValueAfter(json) == IF seam = "filter" /\ Succeeded /\ json /\ Usable > 0 THEN Append(value, turn) ELSE value
\* The readers are joined (or the output read here): they see the end of the
\* pipe only when the last process that holds it is gone.
AtEnd == stopped \/ (pipe = 0 /\ ~Writers)
Joined == AtEnd \/ Called.reads = "never"
CloseCall(json) ==
    /\ call = "drain" /\ Joined
    /\ call' = "done" /\ outcome' = OutcomeOf /\ value' = ValueAfter(json) /\ got' = Usable
    /\ UNCHANGED <<seam, turn, leader, rest, holds, unsent, inpipe, written, pipe, badAt, stopped, late>> /\ NoFault
NextSubscriber ==
    /\ call = "done" /\ turn < LastTurn
    /\ call' = "idle" /\ turn' = turn + 1
    /\ UNCHANGED <<seam, leader, rest, holds, unsent, inpipe, written, pipe, got, badAt, stopped, late, outcome, value>> /\ NoFault

CallNext ==
    \/ \E n \in 0..MaxPayload : SpawnPlugin(n)
    \/ SendPayload \/ ReadPayload \/ ReadOutput
    \/ \E u \in BOOLEAN : PrintUnit(u)
    \/ \E w \in {"group", "away"}, h \in BOOLEAN : LeaveBehind(w, h)
    \/ RestEnds \/ LeaderEnds \/ SeeExit \/ CallTimesOut \/ NextSubscriber
    \/ \E j \in BOOLEAN : CloseCall(j)

CallSpec == CallInit /\ [][CallNext]_callVars

-----------------------------------------------------------------------------
\* One that timed out has left nobody in the plugin's group.  A call that went well has
\* all that was printed to it, if that was UTF-8; if not, a reader of lines (and "env")
\* has all before the first unit that is not, an answer is dropped as a whole and never
\* cut, and what is read as bytes is all there.  A filter's value holds only the whole
\* answer of a subscriber that ended well.
CallsEndWhole ==
    call = "done" =>
        /\ late => ~InGroup
        /\ outcome = "ok" /\ Called.reads # "never" =>
              /\ badAt = 0 => got = written
              /\ badAt # 0 /\ (ReadsLines \/ seam = "env") => got = badAt - 1
              /\ Called.reads = "whole" => got \in {0, written}
              /\ seam \in {"start", "destroy"} => got = written
        /\ value # <<>> /\ value[Len(value)] = turn => outcome = "ok" /\ got = written
=============================================================================
