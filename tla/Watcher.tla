------------------------------- MODULE Watcher -------------------------------
(***************************************************************************)
(* The supervisor's view of workers-enabled.  Riku's commands change the   *)
(* worker configs (a file in workers-available and a link to it in         *)
(* workers-enabled) one file operation at a time; the supervisor daemon    *)
(* learns of it through the events of its directory watch, in order,       *)
(* through SIGHUP, which makes it compare the directory with the           *)
(* modification times it has recorded, or when it starts, when it loads    *)
(* what it finds before it has a watch.                                    *)
(*                                                                         *)
(* A config is its text, named by the time it was written; 0 stands for no *)
(* file, no recorded time, no process.  What happens to a process between  *)
(* two configs is the subject of Generations.                              *)
(***************************************************************************)
EXTENDS Naturals, Sequences, FiniteSets

CONSTANTS Workers,      \* worker names, each with one config file name
          Actors,       \* commands that run at the same time
          MaxCommands,  \* bound on the commands begun
          MaxClock,     \* bound on the times files are written at
          MaxFaults     \* bound on failing spawns and stops and on crashes

(* The files there are at the start were written at time 1.                *)
ASSUME WatcherAssumption == {MaxCommands, MaxFaults} \subseteq Nat /\ MaxClock \in Nat \ {0}

VARIABLES
  link,     \* link[w]: <w>.toml is in workers-enabled
  mtime,    \* mtime[w]: modification time of the file in workers-available
  text,     \* text[w]: what that file says
  clock,    \* the time of the last write
  cmd,      \* cmd[a]: worker and remaining steps of the command a runs
  begun,    \* commands begun
  mode,     \* "down", "loading", "up", or "reloading" (up, in a SIGHUP pass)
  listing,  \* the workers the directory listing of the pass showed
  todo,     \* the workers the pass has yet to look at
  job,      \* what the daemon is doing with one worker
  events,   \* the channel of the watch
  hup,      \* RELOAD_COUNTER > 0
  watched,  \* watched_configs: the modification times recorded
  runs,     \* runs[w]: the text the supervisor last started w from
  faults,   \* faults so far
  untold,   \* history: changed, and neither event nor signal since
  missed,   \* history: recorded with another time than that of what it runs
  asked     \* history: restart_worker called, and not started since

files  == <<link, mtime, text, clock>>
daemon == <<mode, listing, todo, job, events, hup, watched, runs>>
watcherVars == <<files, cmd, begun, daemon, faults, untold, missed, asked>>

-----------------------------------------------------------------------------
(* The commands, as the file operations each makes on one worker.          *)

Redeploy   == <<"unlink", "write", "link", "hup">>   \* a non web worker
Rewrite    == <<"write", "link", "hup">>   \* a free slot, or no auto restart
Retire     == <<"unlink", "hup", "drop">>  \* a web copy that was replaced
StopApp    == <<"unlink", "drop">>
Migrate    == <<"park", "hup", "wait", "drop">>
RestartApp == <<"relink">>
HotReload  == <<"truncate", "fill">>

Commands == {Redeploy, Rewrite, Retire, StopApp, Migrate, RestartApp, HotReload}

Steps == {"unlink", "write", "link", "hup", "drop", "park", "wait", "relink",
          "truncate", "fill"}

(* The link resolves to a file, and to one with a config in it.            *)
Readable(w) == link[w] /\ mtime[w] > 0
Parsable(w) == Readable(w) /\ text[w] > 0

Watching == mode \in {"up", "reloading"}

NoJob == [step |-> "none"]

WatcherTypeOK ==
  /\ link \in [Workers -> BOOLEAN]
  /\ mtime \in [Workers -> 0 .. MaxClock]
  /\ text \in [Workers -> 0 .. MaxClock]
  /\ \A w \in Workers : text[w] <= mtime[w]
  /\ clock \in 0 .. MaxClock
  /\ begun \in 0 .. MaxCommands
  /\ cmd \in [Actors -> [w: Workers, steps: Seq(Steps), keep: 0 .. MaxClock,
                         at: 0 .. MaxClock]]
  /\ mode \in {"down", "loading", "up", "reloading"}
  /\ listing \subseteq Workers /\ todo \subseteq Workers
  /\ job = NoJob \/ job \in [step: {"stat", "load", "apply", "handle"},
                             w: Workers, at: 0 .. MaxClock]
  /\ job # NoJob /\ job.step # "handle" => mode # "up" /\ job.w \in todo
  /\ events \in Seq([kind: {"Modify", "Remove"}, w: Workers])
  /\ ~Watching => events = << >>
  /\ hup \in BOOLEAN
  /\ watched \in [Workers -> 0 .. MaxClock]
  /\ runs \in [Workers -> 0 .. MaxClock]
  /\ faults \in 0 .. MaxFaults
  /\ untold \cup missed \cup asked \subseteq Workers

None == [w \in Workers |-> 0]

(* A command also holds the text it read and the time of the file it has   *)
(* open.                                                                   *)
Call(w, steps) == [w |-> w, steps |-> steps, keep |-> 0, at |-> 0]
Idle(w) == Call(w, << >>)

(* Any set of workers may be deployed when the supervisor first starts.    *)
WatcherInit ==
  /\ link \in [Workers -> BOOLEAN]
  /\ mtime = [w \in Workers |-> IF link[w] THEN 1 ELSE 0]
  /\ text = mtime
  /\ clock = 1
  /\ \E w \in Workers : cmd = [a \in Actors |-> Idle(w)]
  /\ begun = 0
  /\ mode = "down"
  /\ listing = {} /\ todo = {} /\ job = NoJob
  /\ events = << >> /\ hup = FALSE
  /\ watched = None /\ runs = None
  /\ faults = 0
  /\ untold = {} /\ missed = {} /\ asked = {}

-----------------------------------------------------------------------------
(* The steps of the commands.  A command is serial, commands are not.      *)

Begin(a) ==
  /\ cmd[a].steps = << >> /\ begun < MaxCommands
  /\ \E w \in Workers, c \in Commands :
       /\ c = RestartApp => mtime[w] > 0
       /\ c = HotReload => Readable(w)
       /\ cmd' = [cmd EXCEPT ![a] = Call(w, c)]
  /\ begun' = begun + 1
  /\ UNCHANGED <<files, daemon, faults, untold, missed, asked>>

At(a, step) == cmd[a].steps # << >> /\ Head(cmd[a].steps) = step

(* a is past this step; the command is forgotten after its last one.       *)
Past(a) == IF Len(cmd[a].steps) = 1 THEN Idle(cmd[a].w)
                                    ELSE [cmd[a] EXCEPT !.steps = Tail(@)]

Does(a, step) ==
  /\ At(a, step)
  /\ cmd' = [cmd EXCEPT ![a] = Past(a)]
  /\ UNCHANGED begun

(* The watch reports the change of <w>.toml, if there is a watch yet.      *)
Reported(kind, w) ==
  /\ events' = IF Watching THEN Append(events, [kind |-> kind, w |-> w])
                           ELSE events
  /\ untold' = IF Watching THEN untold \ {w} ELSE untold \cup {w}
  /\ UNCHANGED <<mode, listing, todo, job, hup, watched, runs>>

(* fs::remove_file of the enabled link.                                    *)
Unlink(a) ==
  LET w == cmd[a].w IN
  /\ Does(a, "unlink")
  /\ link' = [link EXCEPT ![w] = FALSE]
  /\ IF link[w] THEN Reported("Remove", w) ELSE UNCHANGED <<daemon, untold>>
  /\ asked' = asked \ {w}
  /\ UNCHANGED <<mtime, text, clock, faults, missed>>

(* write_private: the file in workers-available appears whole.             *)
Write(a) ==
  LET w == cmd[a].w IN
  /\ Does(a, "write")
  /\ clock < MaxClock
  /\ clock' = clock + 1
  /\ mtime' = [mtime EXCEPT ![w] = clock']
  /\ text' = [text EXCEPT ![w] = clock']
  /\ untold' = IF link[w] THEN untold \cup {w} ELSE untold
  /\ UNCHANGED <<link, daemon, faults, missed, asked>>

(* replace_symlink: a rename over the link, which the watch calls Modify.  *)
Link(a) ==
  LET w == cmd[a].w IN
  /\ Does(a, "link")
  /\ link' = [link EXCEPT ![w] = TRUE]
  /\ Reported("Modify", w)
  /\ UNCHANGED <<mtime, text, clock, faults, missed, asked>>

(* restart_worker makes the same rename and nothing else.                  *)
Relink(a) ==
  LET w == cmd[a].w IN
  /\ Does(a, "relink")
  /\ link' = [link EXCEPT ![w] = TRUE]
  /\ Reported("Modify", w)
  /\ asked' = IF Watching /\ runs[w] > 0 THEN asked \cup {w} ELSE asked
  /\ UNCHANGED <<mtime, text, clock, faults, missed>>

(* notify_supervisor_reload: SIGHUP to the pid of a live supervisor.       *)
Hup(a) ==
  /\ Does(a, "hup")
  /\ hup' = (mode # "down")
  /\ untold' = IF mode # "down" THEN {} ELSE untold
  /\ UNCHANGED <<files, mode, listing, todo, job, events, watched, runs,
                 faults, missed, asked>>

(* The link is renamed to a name that is not a .toml: the event names a    *)
(* .toml that is no longer there, and says nothing to the daemon.          *)
Park(a) ==
  LET w == cmd[a].w IN
  /\ Does(a, "park")
  /\ link' = [link EXCEPT ![w] = FALSE]
  /\ IF link[w]
     THEN /\ events' = IF Watching
                       THEN Append(events, [kind |-> "Modify", w |-> w])
                       ELSE events
          /\ untold' = untold \cup {w}
     ELSE UNCHANGED <<events, untold>>
  /\ asked' = asked \ {w}
  /\ UNCHANGED <<mtime, text, clock, mode, listing, todo, job, hup, watched,
                 runs, faults, missed>>

(* No live pid marker is left, or no supervisor runs.                      *)
Wait(a) ==
  /\ Does(a, "wait")
  /\ runs[cmd[a].w] = 0
  /\ UNCHANGED <<files, daemon, faults, untold, missed, asked>>

(* The file in workers-available is removed.                               *)
Drop(a) ==
  LET w == cmd[a].w IN
  /\ Does(a, "drop")
  /\ mtime' = [mtime EXCEPT ![w] = 0]
  /\ text' = [text EXCEPT ![w] = 0]
  /\ UNCHANGED <<link, clock, daemon, faults, untold, missed, asked>>

(* touch_worker_configs reads the config and writes it back through the    *)
(* link, in place: fs::write truncates the file, then fills it.  Whether   *)
(* the watch of the directory reports a write to the target of one of its  *)
(* links is up to the platform.                                            *)
Changed(w) ==
  /\ clock < MaxClock
  /\ clock' = clock + 1
  /\ mtime' = [mtime EXCEPT ![w] = clock']
  /\ \/ link[w] /\ Reported("Modify", w)
     \/ untold' = untold \cup {w} /\ UNCHANGED daemon

Truncate(a) ==
  LET w == cmd[a].w IN
  /\ At(a, "truncate") /\ Readable(w)
  /\ Changed(w)
  /\ text' = [text EXCEPT ![w] = 0]
  /\ cmd' = [cmd EXCEPT ![a] = [Past(a) EXCEPT !.keep = text[w], !.at = clock']]
  /\ UNCHANGED <<link, begun, faults, missed, asked>>

(* A file that was replaced or removed meanwhile is not the one open here. *)
Fill(a) ==
  LET w == cmd[a].w IN
  /\ Does(a, "fill")
  /\ IF mtime[w] = cmd[a].at
     THEN Changed(w) /\ text' = [text EXCEPT ![w] = cmd[a].keep]
     ELSE UNCHANGED <<clock, mtime, text, daemon, untold>>
  /\ UNCHANGED <<link, faults, missed, asked>>

(* The command fails or is killed between two steps.                       *)
Kill(a) ==
  /\ cmd[a].steps # << >>
  /\ cmd' = [cmd EXCEPT ![a] = Idle(cmd[a].w)]
  /\ UNCHANGED <<files, begun, daemon, faults, untold, missed, asked>>

Command ==
  \E a \in Actors :
    \/ Begin(a) \/ Unlink(a) \/ Write(a) \/ Link(a) \/ Relink(a) \/ Hup(a)
    \/ Park(a) \/ Wait(a) \/ Drop(a) \/ Truncate(a) \/ Fill(a)
    \/ Kill(a)

-----------------------------------------------------------------------------
(* The daemon.  Only its own steps follow; commands interleave with them.  *)

Commandless == <<files, cmd, begun>>

(* run: the pid file, the signal listener, then the configs that are there.*)
Start ==
  /\ mode = "down"
  /\ mode' = "loading"
  /\ listing' = {w \in Workers : link[w]}
  /\ todo' = listing'
  /\ untold' = {} /\ missed' = {} /\ asked' = {}
  /\ UNCHANGED <<Commandless, job, events, hup, watched, runs, faults>>

(* An error leaves run(), or the process is killed: systemd ends what is   *)
(* left of the unit, and starts it again.                                  *)
Die ==
  /\ mode' = "down"
  /\ listing' = {} /\ todo' = {} /\ job' = NoJob
  /\ events' = << >> /\ hup' = FALSE
  /\ watched' = None /\ runs' = None
  /\ UNCHANGED <<Commandless, untold, missed, asked>>

Fault == faults < MaxFaults /\ faults' = faults + 1

DaemonCrash == mode # "down" /\ Fault /\ Die

(* w is started from what its file says now.                               *)
Started(w) ==
  /\ runs' = [runs EXCEPT ![w] = text[w]]
  /\ asked' = asked \ {w}

Stopped(w) ==
  /\ runs' = [runs EXCEPT ![w] = 0]
  /\ watched' = [watched EXCEPT ![w] = 0]
  /\ missed' = missed \ {w}
  /\ asked' = asked \ {w}

(* A failed start may have stopped the process there was.                  *)
ProcessLost(w) ==
  \/ UNCHANGED runs
  \/ Parsable(w) /\ runs' = [runs EXCEPT ![w] = 0]

(* load_initial_configs: read and spawn, then record the file's time.  Any *)
(* error ends the daemon.                                                  *)
LoadInitial(w) ==
  /\ mode = "loading" /\ job = NoJob /\ w \in todo
  /\ Parsable(w)
  /\ Started(w)
  /\ job' = [step |-> "stat", w |-> w, at |-> mtime[w]]
  /\ UNCHANGED <<Commandless, mode, listing, todo, events, hup, watched,
                 faults, untold, missed>>

LoadInitialFails(w) ==
  /\ mode = "loading" /\ job = NoJob /\ w \in todo
  /\ \/ ~Parsable(w) /\ UNCHANGED faults
     \/ Fault
  /\ Die

(* The watch starts only now; a SIGHUP has been counted since Start.       *)
Watch ==
  /\ mode = "loading" /\ job = NoJob /\ todo = {}
  /\ mode' = "up"
  /\ UNCHANGED <<Commandless, listing, todo, job, events, hup, watched, runs,
                 faults, untold, missed, asked>>

(* fs::metadata after the load.  It may be that of another file than the   *)
(* one loaded, or of none.                                                 *)
Stat ==
  /\ job # NoJob /\ job.step = "stat" /\ mtime[job.w] > 0 /\ link[job.w]
  /\ watched' = [watched EXCEPT ![job.w] = mtime[job.w]]
  /\ missed' = IF mtime[job.w] = job.at THEN missed \ {job.w}
                                       ELSE missed \cup {job.w}
  /\ todo' = todo \ {job.w}
  /\ job' = NoJob
  /\ UNCHANGED <<Commandless, mode, listing, events, hup, runs, faults, untold,
                 asked>>

StatFails ==
  /\ job # NoJob /\ job.step = "stat" /\ ~Readable(job.w)
  /\ IF mode = "loading"
     THEN Die
     ELSE /\ missed' = IF runs[job.w] > 0 THEN missed \cup {job.w} ELSE missed
          /\ todo' = todo \ {job.w}
          /\ job' = NoJob
          /\ UNCHANGED <<Commandless, mode, listing, events, hup, watched, runs,
                         untold, asked>>
  /\ UNCHANGED faults

(* Mutant: the counter is read and not reset.                              *)
TakeReloadKeepsCounter ==
  /\ mode = "up" /\ job = NoJob /\ hup
  /\ mode' = "reloading"
  /\ listing' = {w \in Workers : link[w]}
  /\ todo' = listing' \cup {w \in Workers : watched[w] > 0}
  /\ UNCHANGED <<Commandless, job, events, hup, watched, runs, faults, untold,
                 missed, asked>>

(* reload_if_requested swaps the counter, then reload_all_configs lists.   *)
TakeReload ==
  /\ mode = "up" /\ job = NoJob /\ hup
  /\ hup' = FALSE
  /\ mode' = "reloading"
  /\ listing' = {w \in Workers : link[w]}
  /\ todo' = listing' \cup {w \in Workers : watched[w] > 0}
  /\ UNCHANGED <<Commandless, job, events, watched, runs, faults, untold,
                 missed, asked>>

Gone == todo \ listing

(* Recorded configs the listing does not show are unloaded first.          *)
UnloadGone(w) ==
  /\ mode = "reloading" /\ w \in Gone
  /\ Stopped(w)
  /\ todo' = todo \ {w}
  /\ UNCHANGED <<Commandless, mode, listing, job, events, hup, faults, untold>>

UnloadGoneFails == mode = "reloading" /\ Gone # {} /\ Fault /\ Die

(* Then each listed config is loaded when it is new, or applied when its   *)
(* file is newer than recorded.                                            *)
Newer(w) == Readable(w) /\ mtime[w] > watched[w]

LookAt(w) ==
  /\ mode = "reloading" /\ job = NoJob /\ Gone = {} /\ w \in todo
  /\ \/ /\ watched[w] = 0
        /\ job' = [step |-> "load", w |-> w, at |-> 0]
        /\ UNCHANGED todo
     \/ /\ watched[w] > 0 /\ Newer(w)
        /\ job' = [step |-> "apply", w |-> w, at |-> mtime[w]]
        /\ UNCHANGED todo
     \/ /\ watched[w] > 0 /\ ~Newer(w)
        /\ todo' = todo \ {w}
        /\ UNCHANGED job
  /\ UNCHANGED <<Commandless, mode, listing, events, hup, watched, runs, faults,
                 untold, missed, asked>>

(* load_config_file of a new config.  An error is only logged.             *)
PassLoad ==
  /\ job # NoJob /\ job.step = "load"
  /\ \/ /\ Parsable(job.w) /\ Started(job.w) /\ UNCHANGED faults
        /\ job' = [job EXCEPT !.step = "stat", !.at = mtime[job.w]]
     \/ /\ IF Parsable(job.w) THEN Fault ELSE UNCHANGED faults
        /\ job' = [job EXCEPT !.step = "stat"]
        /\ ProcessLost(job.w)
        /\ UNCHANGED asked
  /\ UNCHANGED <<Commandless, mode, listing, todo, events, hup, watched, untold,
                 missed>>

(* handle_modified_config, with the time read before it.  The time is      *)
(* recorded also when it fails, before or after the old process stopped.   *)
PassApply ==
  /\ job # NoJob /\ job.step = "apply"
  /\ \/ /\ Parsable(job.w) /\ Started(job.w) /\ UNCHANGED faults
        /\ missed' = missed \ {job.w}
     \/ /\ IF Parsable(job.w) THEN Fault ELSE UNCHANGED faults
        /\ ProcessLost(job.w)
        /\ missed' = missed \cup {job.w}
        /\ UNCHANGED asked
  /\ watched' = [watched EXCEPT ![job.w] = job.at]
  /\ todo' = todo \ {job.w}
  /\ job' = NoJob
  /\ UNCHANGED <<Commandless, mode, listing, events, hup, untold>>

ReloadDone ==
  /\ mode = "reloading" /\ job = NoJob /\ todo = {}
  /\ mode' = "up"
  /\ UNCHANGED <<Commandless, listing, todo, job, events, hup, watched, runs,
                 faults, untold, missed, asked>>

(* handle_file_event.                                                      *)
Event(kind) ==
  /\ mode = "up" /\ job = NoJob
  /\ events # << >> /\ Head(events).kind = kind

(* Mutant: the recorded time outlives the config.                          *)
HandleRemoveKeepsTime ==
  /\ Event("Remove")
  /\ runs' = [runs EXCEPT ![Head(events).w] = 0]
  /\ missed' = missed \ {Head(events).w}
  /\ asked' = asked \ {Head(events).w}
  /\ events' = Tail(events)
  /\ UNCHANGED <<Commandless, mode, listing, todo, job, hup, watched, faults,
                 untold>>

HandleRemove ==
  /\ Event("Remove")
  /\ Stopped(Head(events).w)
  /\ events' = Tail(events)
  /\ UNCHANGED <<Commandless, mode, listing, todo, job, hup, faults, untold>>

HandleModify ==
  /\ Event("Modify")
  /\ LET w == Head(events).w IN
       job' = IF Newer(w)
              THEN [step |-> "handle", w |-> w, at |-> mtime[w]]
              ELSE NoJob
  /\ events' = Tail(events)
  /\ UNCHANGED <<Commandless, mode, listing, todo, hup, watched, runs, faults,
                 untold, missed, asked>>

HandleApply ==
  /\ job # NoJob /\ job.step = "handle"
  /\ Parsable(job.w)
  /\ Started(job.w)
  /\ watched' = [watched EXCEPT ![job.w] = job.at]
  /\ missed' = missed \ {job.w}
  /\ job' = NoJob
  /\ UNCHANGED <<Commandless, mode, listing, todo, events, hup, faults, untold>>

HandleFails ==
  /\ \/ /\ job # NoJob /\ job.step = "handle"
        /\ IF Parsable(job.w) THEN Fault ELSE UNCHANGED faults
     \/ Event("Remove") /\ Fault
  /\ Die

Works ==
  \/ Start \/ Watch \/ Stat \/ StatFails \/ TakeReload \/ PassLoad \/ PassApply
  \/ ReloadDone \/ HandleRemove \/ HandleModify \/ HandleApply \/ HandleFails
  \/ \E w \in Workers : LoadInitial(w) \/ LoadInitialFails(w) \/ UnloadGone(w)
                        \/ LookAt(w)

WatcherNext == Command \/ Works \/ UnloadGoneFails \/ DaemonCrash

WatcherSpec == WatcherInit /\ [][WatcherNext]_watcherVars

(* The daemon's thread runs, and systemd restarts the unit.                *)
FairWatcherSpec == WatcherSpec /\ WF_watcherVars(Works)

-----------------------------------------------------------------------------
(* Nothing is on its way to the daemon and it is not at work.              *)
Quiet == mode = "up" /\ job = NoJob /\ events = << >> /\ ~hup

(* When everything the commands did has been reported by the watch or by a *)
(* signal and the daemon has worked it off, each enabled worker runs with  *)
(* the config on disk and no disabled worker runs, however the events, the *)
(* passes over the directory, restarts of the daemon and the steps of      *)
(* killed and concurrent commands interleave.  Excepted is a config that a *)
(* load recorded under the time of a later file, or failed to apply.       *)
Synced ==
  Quiet => \A w \in Workers \ (untold \cup missed) :
             /\ Parsable(w) => runs[w] = text[w]
             /\ ~link[w] => runs[w] = 0

(* The daemon's state at any moment, and what runs when it is at rest. *)
WatcherConsistent == WatcherTypeOK /\ Synced

(* restart_worker takes effect: the worker it was called for has been      *)
(* stopped and started again once the daemon has handled the rename.       *)
RestartTakesEffect == Quiet => asked = {}

(* The daemon comes to rest: its passes end, a signal is taken once, and a *)
(* daemon that ended is back.  A link that leads to no config, once it is  *)
(* there, keeps it from starting.                                          *)
Settles == <>[]Quiet \/ []<>(\E w \in Workers : link[w] /\ ~Parsable(w))

=============================================================================
