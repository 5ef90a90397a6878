---------------------------- MODULE ContainerLogs ----------------------------
(***************************************************************************)
(* Copying a container's output into its copy's log file: the log thread   *)
(* and its puller (riku-supervisor containers/log_thread.rs, log_pull.rs)  *)
(* and the bounded "logs --timestamps" call below it (riku-container       *)
(* engine/logs.rs, bounded.rs).                                            *)
(*                                                                         *)
(* A line is its number, in the order the engine recorded the output; its  *)
(* stamp and its stream are functions of it, chosen at the start.  Stamps  *)
(* never go back, and lines may share one.  The cursor is the newest stamp *)
(* copied and how many lines of that stamp were.  An append that fails may *)
(* have written some of its lines: those stand in the log, after the lines *)
(* of the appends before it, and come again with the next call.            *)
(***************************************************************************)
EXTENDS Budget, FiniteSets, Sequences

CONSTANTS
    MaxLines,       \* bound: lines a container prints
    Cap,            \* lines of each stream that one call keeps (8 MB in the code)
    MaxStops        \* bound: times the container stops

\* A call that kept no line would never get anywhere.
ASSUME LogAssumption ==
    /\ {MaxLines, Cap} \subseteq Nat \ {0}
    /\ {MaxStops, MaxFaults} \subseteq Nat

Streams == {"stdout", "stderr"}
Lines == 1..MaxLines

VARIABLES
    stream, stamp,  \* line -> its stream and its stamp
    printed,        \* how many lines the engine has recorded
    state,          \* what the container does: "running", "stopped", "removed"
    known,          \* what the thread was last told of it
    begin,          \* where a container seen for the first time starts
    cursor,         \* NoCursor, FromFirst, or [at, lines]
    gone,           \* the engine said it does not exist
    file,           \* the lines of the appends that went through, in order
    spilt,          \* the lines of those that failed, and how many of file stood before them
    first,          \* the first line this supervisor has to copy
    stops,
    replayed        \* the history was started again after part of it was copied

logState == <<stream, stamp, printed, state, known, begin, cursor, gone, file, spilt, first, stops, replayed>>
logVars == <<logState, faults>>

NoCursor == [at |-> MaxLines + 1, lines |-> 0]
FromFirst == [at |-> 0, lines |-> 0]
Output == <<stream, stamp>>

Follows(f, l) == f[l] \in {f[l - 1], f[l - 1] + 1}

LogInit ==
    /\ stream \in [Lines -> Streams]
    /\ stamp \in {f \in [Lines -> Lines] : f[1] = 1 /\ \A l \in Lines \ {1} : Follows(f, l)}
    /\ printed \in {0, 1} /\ state = "running"
    /\ known = "unlisted" /\ begin = "from now"
    /\ cursor = NoCursor /\ gone = FALSE
    /\ file = <<>> /\ spilt = {} /\ first = 1
    /\ stops = 0 /\ replayed = FALSE /\ faults = 0

-----------------------------------------------------------------------------
Emit ==
    /\ state = "running" /\ printed < MaxLines
    /\ printed' = printed + 1
    /\ UNCHANGED <<Output, state, known, begin, cursor, gone, file, spilt, first, stops, replayed>> /\ NoFault

\* It stops, is started again under the same id, or is removed by a deploy.
ChangeState ==
    /\ \/ state = "running" /\ stops < MaxStops /\ state' = "stopped" /\ stops' = stops + 1
       \/ state = "stopped" /\ state' = "running" /\ UNCHANGED stops
       \/ state # "removed" /\ stops < MaxStops /\ state' = "removed" /\ stops' = stops + 1
    /\ UNCHANGED <<Output, printed, known, begin, cursor, gone, file, spilt, first, replayed>> /\ NoFault

\* The watch's listing: what it says of the container may be a tick old.
Listed ==
    /\ known' = CASE state = "removed" -> "unlisted" [] OTHER -> state
    /\ gone' = (gone /\ known' # "unlisted")
    /\ UNCHANGED <<Output, printed, state, begin, cursor, file, spilt, first, stops, replayed>> /\ NoFault

-----------------------------------------------------------------------------
(* One call: what is kept of each stream, and how the two are merged.      *)

Since(at) == {l \in 1..printed : stamp[l] >= at}
OfStream(L, s) == {l \in L : stream[l] = s}
Oldest(L, n) == {l \in L : Cardinality({m \in L : m <= l}) <= n}
Newest(L) == {l \in L : \A m \in L : m <= l}

\* The client is killed when one stream passes the cap; the stream that did not
\* still has every line recorded before the one at which the other did.
Capped(L, s) == Cardinality(OfStream(L, s)) > Cap
Kept(L, s) == Oldest(OfStream(L, s), Cap)

\* cut_off: both streams are complete up to the newest line of a capped one.
Cuts(L) == UNION {{stamp[l] : l \in Newest(Kept(L, s))} : s \in {s \in Streams : Capped(L, s)}}

Whole(L) == LET cuts == Cuts(L) IN
    {l \in UNION {Kept(L, s) : s \in Streams} : \A c \in cuts : stamp[l] <= c}

\* merged: a stable sort on the stamps, stdout before stderr where they are equal.
Precedes(l, m) ==
    \/ stamp[l] < stamp[m]
    \/ stamp[l] = stamp[m] /\ stream[l] = stream[m] /\ l < m
    \/ stamp[l] = stamp[m] /\ stream[l] = "stdout" /\ stream[m] = "stderr"

Place(l, L) == Cardinality({m \in L : Precedes(m, l)}) + 1

Merged(L) == LET whole == Whole(L) IN
    [i \in 1..Cardinality(whole) |-> CHOOSE l \in whole : Place(l, whole) = i]

LinesAt(s, at) == Cardinality({i \in DOMAIN s : stamp[s[i]] = at})

\* MUTANT: the cursor is the newest stamp alone.
UnseenAfter(s, c) == SelectSeq(s, LAMBDA l : stamp[l] > c.at)

\* unseen: the lines at the cursor's stamp that were copied before are skipped.
Unseen(s, c) ==
    LET older == Cardinality({i \in DOMAIN s : stamp[s[i]] < c.at})
        again == LinesAt(s, c.at)
        skip == older + (IF again < c.lines THEN again ELSE c.lines)
    IN SubSeq(s, skip + 1, Len(s))

CursorAfter(s, c) ==
    IF s = <<>> THEN c
    ELSE [at |-> stamp[s[Len(s)]], lines |-> LinesAt(s, stamp[s[Len(s)]])]

-----------------------------------------------------------------------------
\* start, for a running container without a cursor.  After its newest line on the
\* thread's first round, from the first line on later ones.  A failed call leaves it
\* without a cursor.
StartCopying ==
    /\ known = "running" /\ ~gone /\ cursor = NoCursor
    /\ \/ /\ begin = "all" /\ NoFault
          /\ cursor' = FromFirst /\ first' = 1
          /\ replayed' = (replayed \/ first > 1 \/ file # <<>>)
          /\ UNCHANGED gone
       \/ /\ begin = "from now" /\ state # "removed" /\ NoFault
          /\ cursor' = (IF printed = 0 THEN FromFirst ELSE [at |-> stamp[printed], lines |-> 1])
          /\ first' = printed + 1
          /\ UNCHANGED <<gone, replayed>>
       \/ /\ begin = "from now" /\ state = "removed" /\ NoFault
          /\ gone' = TRUE
          /\ UNCHANGED <<cursor, first, replayed>>
       \/ /\ begin = "from now" /\ Fault
          /\ first' = printed + 1
          /\ UNCHANGED <<cursor, gone, replayed>>
    /\ begin' = "all"
    /\ UNCHANGED <<Output, printed, state, known, file, spilt, stops>>

\* append: it may fail after any number of its lines, the last of them perhaps in part.
Spill(u) ==
    \E n \in 0..Len(u) : spilt' = spilt \cup {[after |-> Len(file), line |-> u[i]] : i \in 1..n}

\* pull: one call, the unseen lines appended, the cursor moved.  A failed call or a
\* failed append leaves the cursor for the next round.
Pull(next) ==
    /\ cursor # NoCursor
    /\ \/ /\ state # "removed" /\ NoFault
          /\ LET s == Merged(Since(cursor.at)) IN
             /\ file' = file \o Unseen(s, cursor)
             /\ cursor' = IF next = "keep" THEN CursorAfter(s, cursor) ELSE NoCursor
          /\ UNCHANGED <<spilt, gone>>
       \/ /\ state = "removed" /\ NoFault
          /\ cursor' = NoCursor /\ gone' = TRUE /\ UNCHANGED <<file, spilt>>
       \/ /\ Fault /\ UNCHANGED <<file, gone>>
          /\ \/ UNCHANGED spilt
             \/ state # "removed" /\ Spill(Unseen(Merged(Since(cursor.at)), cursor))
          /\ cursor' = IF next = "keep" THEN cursor ELSE NoCursor
    /\ UNCHANGED <<Output, printed, state, known, begin, first, stops, replayed>>

PullRunning == known = "running" /\ ~gone /\ Pull("keep")

\* The last call for a container that stopped; then it is forgotten.
PullStopped == known = "stopped" /\ Pull("forget")

Forget ==
    /\ known = "unlisted" /\ cursor # NoCursor /\ cursor' = NoCursor
    /\ UNCHANGED <<Output, printed, state, known, begin, gone, file, spilt, first, stops, replayed>> /\ NoFault

LogNext == Emit \/ ChangeState \/ Listed \/ StartCopying \/ PullRunning \/ PullStopped \/ Forget

LogSpec == LogInit /\ [][LogNext]_logVars

-----------------------------------------------------------------------------
\* No line of one stream has the stamp of a line of the other.
StreamsApart == \A l, m \in Lines : stamp[l] = stamp[m] => stream[l] = stream[m]

(* The lines of the appends that went through are in the order of their     *)
(* stamps, whatever a call's cap cut off and whichever calls failed.  If no *)
(* stamp is shared between the streams, they are the container's lines in   *)
(* the order it printed them, each once and none left out, from where this  *)
(* supervisor started; and what an append that failed had written are lines *)
(* that had not been copied and, if a later one goes through, come again.   *)
(* All unless the history was started again (a copy that stopped and came   *)
(* back).                                                                   *)
CopiedOnceInOrder ==
    ~replayed =>
        /\ \A i \in 1..(Len(file) - 1) : stamp[file[i]] <= stamp[file[i + 1]]
        /\ StreamsApart =>
              /\ file # <<>> => file[1] <= first
              /\ \A i \in 1..(Len(file) - 1) : file[i + 1] = file[i] + 1
              /\ \A x \in spilt : /\ x.after > 0 => file[x.after] < x.line
                                  /\ x.after < Len(file) => file[x.after + 1] <= x.line

(* What Start is for: lines an earlier supervisor already logged are not    *)
(* copied again.  Not so: a copy that stops and comes back is read from its *)
(* first line.                                                              *)
LoggedOnce == \A i \in DOMAIN file : file[i] >= first /\ \A j \in DOMAIN file : file[i] = file[j] => i = j
=============================================================================
