---------------------------- MODULE RemoteSession ----------------------------
(***************************************************************************)
(* "riku dashboard" against a server (riku-remote remote/dashboard/): a    *)
(* master ssh connection, an ssh client that runs a script as the deploy   *)
(* user through sudo, and a handshake over its three streams: sudo's       *)
(* prompt on stderr, a ready line and the bound port on stdout, and on     *)
(* stdin the password for sudo, then the token for the script.             *)
(*                                                                         *)
(* The two readers feed one queue of events, so what comes on stderr and   *)
(* what comes on stdout may be seen in either order, and a chunk of stderr *)
(* may end within the prompt.                                              *)
(*                                                                         *)
(* The command waits for its own ssh processes only.  The server's side    *)
(* learns from the end of its stdin, some time later, that they are gone.  *)
(***************************************************************************)
EXTENDS Budget, Sequences

CONSTANT MaxTries   \* bound: passwords that sudo reads

VARIABLES
    stage,      \* "idle", "connect", "sudo", "starting", "running", "finish" or "ended"
    master, ssh,    \* the ssh processes: "none", "up" or "exited"
    stdin,      \* the client's stdin is open
    held,       \* the first part of a prompt, kept until the rest comes
    prompts,    \* prompts seen
    interrupted,    \* a stop signal came
    result,     \* what the command returned
    tosudo,     \* the lines written to stdin and not read yet
    err, out,   \* the chunks of stderr and the lines of stdout on the way
    script,     \* the server's side: "none", "login", "asking", "shell", "serving" or "ended"
    dashboard,  \* "none", "up", "told" to end or "dead"
    tries, read \* passwords tried, and who read which line
sessionState == <<stage, master, ssh, stdin, held, prompts, interrupted, result,
                  tosudo, err, out, script, dashboard, tries, read>>
sessionVars == <<sessionState, faults>>

Local == <<stage, master, stdin, held, prompts, interrupted, result>>

SessionInit ==
    /\ stage = "idle" /\ master = "none" /\ ssh = "none" /\ stdin = FALSE
    /\ held = FALSE /\ prompts = 0 /\ interrupted = FALSE /\ result = "none"
    /\ tosudo = <<>> /\ err = <<>> /\ out = <<>>
    /\ script = "none" /\ dashboard = "none" /\ tries = 0 /\ read = {}
    /\ faults = 0

-----------------------------------------------------------------------------
(* The server.                                                             *)

Prompts == {<<"prompt">>, <<"head", "tail">>, <<"text", "prompt">>}
\* What the server prints gets to a client that is still there.
Prints(lines, chunks) ==
    /\ out' = IF ssh = "up" THEN out \o lines ELSE out
    /\ err' = IF ssh = "up" THEN err \o chunks ELSE err

\* The login shell may print a line of its own.  sudo asks, or its last
\* password still counts.
Login(greets, cached, prompt) ==
    /\ script = "login"
    /\ LET greeting == IF greets THEN <<"motd">> ELSE <<>>
       IN IF cached THEN script' = "shell" /\ Prints(Append(greeting, "ready"), <<>>)
          ELSE script' = "asking" /\ Prints(greeting, prompt)
    /\ UNCHANGED <<Local, ssh, tosudo, dashboard, tries, read>> /\ NoFault
SudoReads(right, prompt) ==
    /\ script = "asking" /\ tosudo # <<>> /\ tries < MaxTries
    /\ tosudo' = Tail(tosudo) /\ tries' = tries + 1
    /\ read' = read \cup {<<"sudo", Head(tosudo)>>}
    /\ IF right /\ Head(tosudo) = "password"
       THEN script' = "shell" /\ Prints(<<"ready">>, <<>>)
       ELSE UNCHANGED script /\ Prints(<<>>, prompt)
    /\ UNCHANGED <<Local, ssh, dashboard>> /\ NoFault
ShellReads ==
    /\ script = "shell" /\ tosudo # <<>>
    /\ tosudo' = Tail(tosudo) /\ read' = read \cup {<<"shell", Head(tosudo)>>}
    /\ script' = "serving" /\ dashboard' = "up"
    /\ UNCHANGED <<Local, ssh, err, out, tries>> /\ NoFault
ReportsPort ==
    /\ dashboard = "up" /\ "bound" \notin {out[i] : i \in 1..Len(out)} /\ stage = "starting"
    /\ Prints(<<"bound">>, <<>>)
    /\ UNCHANGED <<Local, ssh, tosudo, script, dashboard, tries, read>> /\ NoFault
\* It dies of its own and the script reads on, or of the script's kill.
DashboardDies ==
    /\ dashboard' = "dead"
    /\ \/ dashboard = "up" /\ Fault
       \/ dashboard = "told" /\ NoFault
    /\ UNCHANGED <<Local, ssh, tosudo, err, out, script, tries, read>>
\* The end of stdin ends whoever reads it, the script's cat too: it tells the dashboard.
ScriptEnds ==
    /\ script \in {"login", "asking", "shell", "serving"}
    /\ \/ ~stdin /\ tosudo = <<>>
       \/ ssh # "up"
       \/ script = "asking" /\ tries = MaxTries
    /\ script' = "ended" /\ dashboard' = IF dashboard = "up" THEN "told" ELSE dashboard
    /\ UNCHANGED <<Local, ssh, tosudo, err, out, tries, read>> /\ NoFault
\* The session's stdout is the dashboard's too.
ClientEnds ==
    /\ ssh = "up" /\ script = "ended" /\ dashboard # "told"
    /\ ssh' = "exited" /\ out' = Append(out, "closed")
    /\ UNCHANGED <<Local, tosudo, err, script, dashboard, tries, read>> /\ NoFault
\* The client is gone, with some of what it was given to send: the server has not noticed.
CutOff ==
    /\ ssh = "up" /\ ssh' = "exited"
    /\ \E n \in 0..Len(tosudo) : tosudo' = SubSeq(tosudo, 1, n)
    /\ UNCHANGED <<Local, err, script, dashboard, tries, read>>
ConnectionDrops == master = "up" /\ CutOff /\ out' = Append(out, "closed") /\ Fault

-----------------------------------------------------------------------------
(* The command.                                                            *)

Remote == <<script, dashboard, tries, read>>
Fails == stage' = "finish" /\ result' = "error"

\* SshControl::start; without the master nothing else is started.
Connect ==
    /\ stage = "idle"
    /\ \/ stage' = "connect" /\ master' = "up" /\ UNCHANGED result /\ NoFault
       \/ stage' = "ended" /\ master' = "exited" /\ result' = "error" /\ Fault
    /\ UNCHANGED <<ssh, stdin, held, prompts, interrupted, tosudo, err, out, Remote>>
SpawnClient ==
    /\ stage = "connect"
    /\ \/ /\ stage' = "sudo" /\ ssh' = "up" /\ stdin' = TRUE /\ script' = "login"
          /\ UNCHANGED result /\ NoFault
       \/ Fails /\ UNCHANGED <<ssh, stdin, script>> /\ Fault
    /\ UNCHANGED <<master, held, prompts, interrupted, tosudo, err, out, dashboard, tries, read>>

\* A write to a client that is gone fails.
Writes(line) == ssh = "up" /\ tosudo' = Append(tosudo, line)
\* send_password, or the user gives up.
SendPassword == \/ Writes("password") /\ UNCHANGED <<stage, result, stdin>>
                \/ Fails /\ UNCHANGED <<tosudo, stdin>>
RejectPassword == Fails /\ stdin' = FALSE /\ UNCHANGED tosudo
SeesPrompt(chunk) == chunk = "prompt" \/ (chunk = "tail" /\ held)
\* Handshake::stderr: a prompt counts in the Sudo stage only; a first one is
\* answered and a second means that the password was wrong.
HandleStderr ==
    /\ stage \in {"sudo", "starting", "running"} /\ err # <<>>
    /\ err' = Tail(err)
    /\ held' = (stage = "sudo" /\ Head(err) = "head")
    /\ IF stage = "sudo" /\ SeesPrompt(Head(err))
       THEN prompts' = prompts + 1 /\ IF prompts = 0 THEN SendPassword ELSE RejectPassword
       ELSE UNCHANGED <<prompts, tosudo, stage, result, stdin>>
    /\ UNCHANGED <<master, ssh, interrupted, out, Remote>> /\ NoFault

IsAnyLine(line) == line # "closed"  \* MUTANT: the first line on stdout is taken for it
\* Handshake::stdout_line: the ready line, and it only, moves on to Starting.
IsReady(line) == line = "ready"
HandleStdout ==
    /\ stage \in {"sudo", "starting"} /\ out # <<>>
    /\ out' = Tail(out)
    /\ \/ /\ stage = "sudo" /\ IsReady(Head(out))
          /\ held' = FALSE
          /\ \/ stage' = "starting" /\ Writes("token") /\ UNCHANGED result
             \/ ssh # "up" /\ Fails /\ UNCHANGED tosudo
       \* open_forward: the port picked may be taken, or ssh refuses.
       \/ /\ stage = "starting" /\ Head(out) = "bound"
          /\ \/ stage' = "running" /\ UNCHANGED result
             \/ Fails
          /\ UNCHANGED <<tosudo, held>>
       \/ /\ Head(out) = "closed" /\ Fails /\ UNCHANGED <<tosudo, held>>
       \/ /\ Head(out) = "motd" \/ (stage = "starting" /\ Head(out) = "ready")
          /\ ~(stage = "sudo" /\ IsReady(Head(out)))
          /\ UNCHANGED <<stage, tosudo, held, result>>
    /\ UNCHANGED <<master, ssh, stdin, prompts, interrupted, err, Remote>> /\ NoFault
\* A deadline of the stage passes, or a stop signal came.
Stalls ==
    /\ stage \in {"sudo", "starting"} /\ Fails
    /\ UNCHANGED <<master, ssh, stdin, held, prompts, interrupted, tosudo, err, out, Remote>> /\ NoFault
Interrupt ==
    /\ stage \in {"sudo", "starting", "running"} /\ ~interrupted
    /\ interrupted' = TRUE /\ stage' = "finish"
    /\ UNCHANGED <<master, ssh, stdin, held, prompts, result, tosudo, err, out, Remote>> /\ NoFault
\* wait: the client ended.
SeeClientEnd ==
    /\ stage = "running" /\ ssh = "exited" /\ Fails
    /\ UNCHANGED <<master, ssh, stdin, held, prompts, interrupted, tosudo, err, out, Remote>> /\ NoFault

\* finish: close stdin, give the client its grace and end it, then the master;
\* settle: a stop signal makes any outcome a clean one.
CloseStdin ==
    /\ stage = "finish" /\ stdin
    /\ stdin' = FALSE
    /\ UNCHANGED <<stage, master, ssh, held, prompts, interrupted, result, tosudo, err, out, Remote>> /\ NoFault
\* stop_child: it ends within its grace (ClientEnds), or is sent SIGTERM and waited for.
StopClient == stage = "finish" /\ ~stdin /\ CutOff /\ UNCHANGED out /\ NoFault
StopMaster ==
    /\ stage = "finish" /\ ~stdin /\ ssh # "up"
    /\ stage' = "ended" /\ master' = "exited"
    /\ result' = IF interrupted THEN "ok" ELSE result
    /\ UNCHANGED <<ssh, stdin, held, prompts, interrupted, tosudo, err, out, Remote>> /\ NoFault

SessionNext ==
    \/ \E p \in Prompts : (\E g, c \in BOOLEAN : Login(g, c, p)) \/ (\E r \in BOOLEAN : SudoReads(r, p))
    \/ ShellReads \/ ReportsPort \/ DashboardDies \/ ScriptEnds \/ ClientEnds \/ ConnectionDrops
    \/ Connect \/ SpawnClient \/ HandleStderr \/ HandleStdout \/ Stalls \/ Interrupt \/ SeeClientEnd
    \/ CloseStdin \/ StopClient \/ StopMaster

SessionSpec == SessionInit /\ [][SessionNext]_sessionVars

-----------------------------------------------------------------------------
\* Whatever the server prints, however its streams interleave and wherever a
\* chunk ends, sudo reads only the password and the script only the token.  Once the
\* command is over, no ssh process of it is running and stdin is closed; a dashboard
\* that still runs on the server then has its script waiting for the end of stdin,
\* and no script ends without telling its dashboard to.
SecretsReachTheirReader ==
    /\ read \subseteq {<<"sudo", "password">>, <<"shell", "token">>}
    /\ stage = "ended" => ssh # "up" /\ master # "up" /\ ~stdin
    /\ dashboard = "up" => script = "serving"
=============================================================================
