----------------------------- MODULE RemoteTarget -----------------------------
(***************************************************************************)
(* Where a command runs (riku-remote remote/): the user's list of servers, *)
(* which "riku server add", "remove" and "default" load and save whole,    *)
(* and the choice that every other command makes from its flags, the git   *)
(* remotes and that list.  On a server the command arrives through ssh, as *)
(* a forced command, and the server's user may have a list of its own.     *)
(***************************************************************************)
EXTENDS Budget, Sequences, FiniteSets

CONSTANTS
    ServerNames,    \* names servers are registered under
    AddressOf,      \* name -> the machine it means
    Editors,        \* server commands that may run at the same time
    MaxEdits,       \* bound: server commands
    MaxInvokes      \* bound: other commands

None == "none"
Here == "here"
Machines == {AddressOf[n] : n \in ServerNames}
\* No server is called what stands for another answer.
ASSUME NamesAssumption == {None, Here, "error"} \cap (ServerNames \cup Machines) = {}
Listed(list) == {list.servers[i] : i \in 1..Len(list.servers)}

VARIABLES
    slist,      \* the file: servers, in order, and the default
    edit,       \* editor -> "idle", or what it is about to save
    edits, invokes,
    remotes,    \* the machines that the repository's git remotes name
    theirs,     \* the list of the user that commands arrive as, on every server
    wanted,      \* the server that -s names for the command that runs
    place,      \* where it is: Here, a machine, or None
    hops,       \* how often it was forwarded
    ran         \* it ran, there
targetState == <<slist, edit, edits, invokes, remotes, theirs, wanted, place, hops, ran>>
targetVars == <<targetState, faults>>

Empty == [servers |-> <<>>, default |-> None]
TargetInit ==
    /\ slist = Empty
    /\ edit = [e \in Editors |-> <<>>]
    /\ edits = 0 /\ invokes = 0
    /\ remotes \in SUBSET Machines
    /\ theirs \in {Empty} \cup {[servers |-> <<n>>, default |-> n] : n \in ServerNames}
    /\ wanted = None /\ place = None /\ hops = 0 /\ ran = FALSE
    /\ faults = 0

Editing == <<slist, edit, edits>>
Invocation == <<wanted, place, hops, ran, invokes>>

-----------------------------------------------------------------------------
(* ServerList::add, remove and set_default.                                *)

AddServer(list, n) == [list EXCEPT !.servers = Append(@, n)]
RemoveServer(list, n) ==
    [servers |-> SelectSeq(list.servers, LAMBDA s : s # n),
     default |-> IF list.default = n THEN None ELSE list.default]
\* "mutate": load, and change what was loaded if the name allows it.
LoadList(e, kind, n) ==
    /\ edit[e] = <<>> /\ edits < MaxEdits
    /\ kind = "add" <=> n \notin Listed(slist)
    /\ edits' = edits + 1
    /\ edit' = [edit EXCEPT ![e] = << CASE kind = "add" -> AddServer(slist, n)
                                        [] kind = "remove" -> RemoveServer(slist, n)
                                        [] OTHER -> [slist EXCEPT !.default = n] >>]
    /\ UNCHANGED <<slist, remotes, theirs, Invocation>> /\ NoFault
\* to_raw writes the default that is listed; the file is renamed into place.
ToRaw(list) == [list EXCEPT !.default = IF @ \in Listed(list) THEN @ ELSE None]
SaveList(e) ==
    /\ edit[e] # <<>>
    /\ edit' = [edit EXCEPT ![e] = <<>>]
    /\ \/ slist' = ToRaw(edit[e][1]) /\ NoFault
       \/ UNCHANGED slist /\ Fault
    /\ UNCHANGED <<edits, remotes, theirs, Invocation>>

-----------------------------------------------------------------------------
(* target_for and resolve.                                                 *)

Matched(list) ==
    {n \in Listed(list) : \E i \in 1..Len(list.servers) :
        /\ list.servers[i] = n /\ AddressOf[n] \in remotes
        /\ \A j \in 1..(i - 1) : AddressOf[list.servers[j]] # AddressOf[n]}
ByGitRemote(list) ==
    IF Cardinality(Matched(list)) > 1 THEN "error"
    ELSE IF Matched(list) # {} THEN CHOOSE n \in Matched(list) : TRUE
    ELSE IF list.default # None THEN list.default ELSE Here
\* MUTANT: a command that came through ssh is resolved like any other
ResolveAlways(list, f, local, ssh) ==
    IF local THEN Here
    ELSE IF f # None THEN (IF f \in Listed(list) THEN f ELSE "error")
    ELSE ByGitRemote(list)
Resolve(list, f, local, ssh) ==
    IF local \/ ssh THEN Here
    ELSE IF f # None THEN (IF f \in Listed(list) THEN f ELSE "error")
    ELSE ByGitRemote(list)
\* routing: forwarded commands and "dashboard" resolve a target; a command for
\* the server itself is refused with -s, and the rest run here.
Routing(kind, list, f, local, ssh) ==
    CASE local \/ ssh -> Resolve(list, f, local, ssh)
      [] kind = "forwarded" -> Resolve(list, f, local, ssh)
      [] kind = "server" /\ f # None -> "error"
      [] OTHER -> Here

\* A client plugin of that name takes the command, wherever it is.
PluginTakes(n) == place' = None /\ hops' = n /\ ran' = FALSE
\* Nothing runs after an error; Here is where the command is already.
GoesTo(target, from, n) ==
    \/ target # "error" /\ PluginTakes(n)
    \/ /\ place' = IF target = "error" THEN None ELSE IF target = Here THEN from ELSE AddressOf[target]
       /\ hops' = IF target \in {"error", Here} THEN n ELSE n + 1
       /\ ran' = (target = Here)
\* The user types a command on the laptop.
Invoke(kind, f, local) ==
    /\ place = None /\ invokes < MaxInvokes
    /\ invokes' = invokes + 1
    /\ wanted' = IF kind = "forwarded" /\ ~local THEN f ELSE None
    /\ GoesTo(Routing(kind, slist, f, local, FALSE), Here, 0)
    /\ UNCHANGED <<Editing, remotes, theirs>> /\ NoFault
\* It arrives on a server, without -s, which was stripped.
Arrive ==
    /\ place \in Machines /\ ~ran
    /\ GoesTo(Routing("forwarded", theirs, None, FALSE, TRUE), place, hops)
    /\ UNCHANGED <<Editing, remotes, theirs, wanted, invokes>> /\ NoFault
\* ssh fails on the way.
LoseCommand ==
    /\ place \in Machines /\ ~ran
    /\ place' = None /\ UNCHANGED <<wanted, hops, ran, invokes, Editing, remotes, theirs>> /\ Fault
EndCommand ==
    /\ ran
    /\ place' = None /\ ran' = FALSE /\ wanted' = None /\ hops' = 0
    /\ UNCHANGED <<invokes, Editing, remotes, theirs>> /\ NoFault

TargetNext ==
    \/ \E e \in Editors : SaveList(e) \/ \E k \in {"add", "remove", "default"}, n \in ServerNames : LoadList(e, k, n)
    \/ \E k \in {"forwarded", "server", "client"}, f \in ServerNames \cup {None}, l \in BOOLEAN : Invoke(k, f, l)
    \/ Arrive \/ LoseCommand \/ EndCommand

TargetSpec == TargetInit /\ [][TargetNext]_targetVars

-----------------------------------------------------------------------------
\* A command is forwarded at most once, whatever list the server's user keeps;
\* one that a server is named for runs there or nowhere; and overlapping edits
\* never leave a list whose default is not in it, which no command could load.
CommandsFindTheirHost ==
    /\ hops <= 1
    /\ ran /\ wanted # None => place = AddressOf[wanted]
    /\ slist.default # None => slist.default \in Listed(slist)
=============================================================================
