------------------------------ MODULE LogFiles ------------------------------
(***************************************************************************)
(* A worker's log file: the capture thread that appends the worker's lines *)
(* to it (riku-supervisor process/spawn.rs), the supervisor's own rotation *)
(* by copy and truncate (log_rotation/mod.rs, daemon/maintenance.rs) and a *)
(* logrotate that renames it away.                                         *)
(*                                                                         *)
(* A line is its number.  The path names an inode; the thread writes       *)
(* through the handle it has, to the end of whatever inode that is, and at *)
(* most every two seconds looks whether the path names another one.        *)
(***************************************************************************)
EXTENDS Budget, Sequences

CONSTANTS
    MaxWritten,     \* bound: lines the worker writes
    MaxSize,        \* lines from which a log is rotated (10 MB in the code)
    Retention,      \* rotated files kept (5 in the code)
    MaxRenames      \* bound: external rotations

\* Fewer than one line is no reason to rotate, and <log>.1 is always there to copy to.
ASSUME RotateAssumption ==
    /\ {MaxWritten, MaxRenames, MaxFaults} \subseteq Nat
    /\ {MaxSize, Retention} \subseteq Nat \ {0}

NoFile == 0
LogInodes == 1..(MaxRenames + 1)
Slots == 1..Retention

VARIABLES
    logName,    \* the inode the log's path names, NoFile while it names none
    content,    \* inode -> the lines in it
    handle,     \* the inode the capture thread writes to
    rotated,    \* slot -> the lines in <log>.<slot>
    away,       \* the inodes logrotate renamed, oldest first
    written,    \* how many lines the worker wrote
    rotation,   \* "idle", or the step the supervisor's rotation is at
    rounds,     \* rotations that ended
    cut,        \* a rotation ended between its copy and its truncate
    crossed     \* logrotate renamed the log in the middle of a rotation

rotateState == <<logName, content, handle, rotated, away, written, rotation, rounds, cut, crossed>>
rotateVars == <<rotateState, faults>>

RotateInit ==
    /\ logName = 1 /\ handle = 1
    /\ content = [i \in LogInodes |-> <<>>]
    /\ rotated = [s \in Slots |-> <<>>]
    /\ away = <<>> /\ written = 0 /\ rotation = "idle" /\ rounds = 0 /\ cut = FALSE /\ crossed = FALSE
    /\ faults = 0

\* O_APPEND: the line lands at the end the file has now.
CaptureLine ==
    /\ written < MaxWritten
    /\ written' = written + 1
    /\ content' = [content EXCEPT ![handle] = Append(@, written')]
    /\ UNCHANGED <<logName, handle, rotated, away, rotation, rounds, cut, crossed>> /\ NoFault

\* reopen_if_rotated: a missing path, or one that cannot be opened, keeps the handle.
ReopenIfRotated ==
    /\ logName # NoFile /\ logName # handle
    /\ (handle' = logName /\ NoFault) \/ (UNCHANGED handle /\ Fault)
    /\ UNCHANGED <<logName, content, rotated, away, written, rotation, rounds, cut, crossed>>

\* logrotate: rename, then create, in two steps, whatever the supervisor does.
RenameAway ==
    /\ logName # NoFile /\ Len(away) < MaxRenames
    /\ away' = Append(away, logName)
    /\ logName' = NoFile
    /\ crossed' = (crossed \/ rotation # "idle")
    /\ UNCHANGED <<content, handle, rotated, written, rotation, rounds, cut>> /\ NoFault

CreateAnew ==
    /\ logName = NoFile
    /\ logName' = Len(away) + 1
    /\ UNCHANGED <<content, handle, rotated, away, written, rotation, rounds, cut, crossed>> /\ NoFault

-----------------------------------------------------------------------------
(* rotate_app_logs and rotate, on the supervisor's own thread.             *)

\* needs_rotation; the oldest rotated file is removed, a failure is ignored.
DropOldest ==
    /\ rotation = "idle" /\ logName # NoFile /\ Len(content[logName]) >= MaxSize
    /\ rotation' = "shift"
    /\ \/ rotated' = [rotated EXCEPT ![Retention] = <<>>] /\ NoFault
       \/ UNCHANGED rotated /\ Fault
    /\ UNCHANGED <<logName, content, handle, away, written, rounds, cut, crossed>>

\* MUTANT: the files move up from the lowest, each over the next.
ShiftFromLowest(r, stuck) == [s \in Slots |-> IF s = Retention THEN r[1] ELSE <<>>]

\* Each kept file moves one slot up, the highest first; a rename that fails leaves
\* its file where it is, and the one below then moves over it.
ShiftUp(r, stuck) ==
    [s \in Slots |->
        IF s > 1 /\ s - 1 \notin stuck /\ r[s - 1] # <<>> THEN r[s - 1]
        ELSE IF s = Retention \/ s \in stuck THEN r[s]
        ELSE <<>>]

ShiftRotated ==
    /\ rotation = "shift"
    /\ rotation' = "copy"
    /\ \/ rotated' = ShiftUp(rotated, {}) /\ NoFault
       \/ \E s \in Slots \ {Retention} : rotated' = ShiftUp(rotated, {s}) /\ Fault
    /\ UNCHANGED <<logName, content, handle, away, written, rounds, cut, crossed>>

\* The file is copied to <log>.1 over whatever is there; a failed copy ends the
\* rotation before the truncate.  A log that is not there, or that cannot be opened,
\* ends it before anything is written.
CopyToFirst ==
    /\ rotation = "copy"
    /\ \/ /\ logName # NoFile /\ NoFault
          /\ rotated' = [rotated EXCEPT ![1] = content[logName]]
          /\ rotation' = "truncate" /\ UNCHANGED cut
       \/ /\ logName # NoFile /\ Fault
          /\ \E n \in 0..Len(content[logName]) :
                rotated' = [rotated EXCEPT ![1] = SubSeq(content[logName], 1, n)]
          /\ rotation' = "idle" /\ cut' = TRUE
       \/ /\ (logName = NoFile /\ NoFault) \/ Fault
          /\ rotation' = "idle" /\ UNCHANGED <<rotated, cut>>
    /\ UNCHANGED <<logName, content, handle, away, written, rounds, crossed>>

\* Truncated in place: the thread's handle stays good.  A failure, or a kill before
\* it, leaves the lines in both files; a log that was renamed away is not created.
TruncateLog ==
    /\ rotation = "truncate" /\ rotation' = "idle" /\ rounds' = rounds + 1
    /\ \/ /\ logName # NoFile /\ NoFault
          /\ content' = [content EXCEPT ![logName] = <<>>] /\ UNCHANGED cut
       \/ logName = NoFile /\ NoFault /\ UNCHANGED <<content, cut>>
       \/ UNCHANGED content /\ cut' = TRUE /\ Fault
    /\ UNCHANGED <<logName, handle, rotated, away, written, crossed>>

RotateNext ==
    \/ CaptureLine \/ ReopenIfRotated \/ RenameAway \/ CreateAnew
    \/ DropOldest \/ ShiftRotated \/ CopyToFirst \/ TruncateLog

RotateSpec == RotateInit /\ [][RotateNext]_rotateVars

-----------------------------------------------------------------------------
Rising(s) == \A i, j \in DOMAIN s : i < j => s[i] < s[j]
Before(s, t) == \A i \in DOMAIN s, j \in DOMAIN t : s[i] < t[j]

(* Read from the oldest rotated file to the log itself, the worker's lines  *)
(* are in the order it wrote them and none is there twice, whatever renames *)
(* failed and wherever logrotate came between, unless a rotation ended      *)
(* between its copy and its truncate.  Without failures, and with logrotate *)
(* out of its way, every one of the last Retention rotations still has its  *)
(* file.                                                                    *)
LinesStayInOrder ==
    /\ ~cut /\ rotation = "idle" =>
          /\ \A s \in Slots : Rising(rotated[s])
          /\ \A s, t \in Slots : s > t => Before(rotated[s], rotated[t])
          /\ logName # NoFile => \A s \in Slots : Before(rotated[s], content[logName])
    /\ \A i \in LogInodes : Rising(content[i])
    /\ rotation = "idle" /\ faults = 0 /\ ~crossed =>
          \A s \in Slots : s <= rounds => rotated[s] # <<>>
=============================================================================
