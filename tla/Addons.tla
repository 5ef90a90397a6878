------------------------------- MODULE Addons -------------------------------
(***************************************************************************)
(* Addon instances (riku-plugins addon/service.rs and state.rs): "riku     *)
(* addon create", "bind", "unbind", "destroy" and "backup".  A command     *)
(* loads the instance's record, runs the plugin's verb, rewrites the app's *)
(* ENV and saves the record it loaded, with no lock over any of it.        *)
(***************************************************************************)
EXTENDS Budget

CONSTANTS
    Instances,      \* addon instances
    AddonApps,      \* apps they are bound to
    AddonCmds,      \* the commands that may run at the same time
    MaxAddonCmds    \* bound: commands in all

VARIABLES
    record,     \* instance -> "none", or the apps its record says are bound
    stored,     \* the instances whose data directory is there
    env,        \* app -> the instance that its ENV's key points at, or "none"
    astep,      \* command -> where it is
    asked,      \* command -> [instance, app]
    loaded,     \* command -> the bindings it loaded
    acmds,
    raced,      \* two commands on the same instance or the same app overlapped
    unsaved     \* a bind rewrote the ENV and did not get to save its record
addonState == <<record, stored, env, astep, asked, loaded, acmds, raced, unsaved>>
addonVars == <<addonState, faults>>

Absent == "none"
ASSUME AddonAssumption == Absent \notin AddonApps \cup Instances
IsRecord(i) == record[i] # {Absent}

AddonInit ==
    /\ record = [i \in Instances |-> {Absent}]
    /\ stored = {}
    /\ env = [a \in AddonApps |-> Absent]
    /\ astep = [c \in AddonCmds |-> "idle"]
    /\ asked = [c \in AddonCmds |-> [instance |-> Absent, app |-> Absent]]
    /\ loaded = [c \in AddonCmds |-> {}]
    /\ acmds = 0 /\ raced = FALSE /\ unsaved = FALSE
    /\ faults = 0

Moves(c, here, next) == astep[c] = here /\ astep' = [astep EXCEPT ![c] = next]
Their(c) == asked[c].instance
TheirApp(c) == asked[c].app
Conflicts(i, a) == \E c \in AddonCmds : astep[c] # "idle" /\ (Their(c) = i \/ (a # Absent /\ TheirApp(c) = a))
Request(c, i, a, next) ==
    /\ astep[c] = "idle" /\ acmds < MaxAddonCmds
    /\ acmds' = acmds + 1
    /\ raced' = (raced \/ Conflicts(i, a))
    /\ astep' = [astep EXCEPT ![c] = next]
    /\ asked' = [asked EXCEPT ![c] = [instance |-> i, app |-> a]]

\* provision refuses an instance that has a record; the data directory comes
\* before the plugin's verb.
Provision(c, i) ==
    /\ ~IsRecord(i)
    /\ Request(c, i, Absent, "provision")
    /\ stored' = stored \cup {i}
    /\ UNCHANGED <<record, env, loaded, unsaved>> /\ NoFault
Provisioned(c) ==
    /\ Moves(c, "provision", "idle")
    /\ record' = [record EXCEPT ![Their(c)] = {}]
    /\ UNCHANGED <<stored, env, asked, loaded, acmds, raced, unsaved>> /\ NoFault

MayStartAny(kind, i, a) == \* MUTANT: deprovision does not look at the bindings
    IsRecord(i) /\ (kind = "unbind" => a \in record[i])
\* bind, unbind and deprovision begin by loading the record; unbind wants the
\* app in it and deprovision an empty one.
MayStart(kind, i, a) ==
    /\ IsRecord(i)
    /\ kind = "unbind" => a \in record[i]
    /\ kind = "deprovision" => record[i] = {}
Start(c, kind, i, a) ==
    /\ MayStart(kind, i, a)
    /\ Request(c, i, a, kind)
    /\ loaded' = [loaded EXCEPT ![c] = record[i]]
    /\ UNCHANGED <<record, stored, env, unsaved>> /\ NoFault

\* The verb answered: set_env_keys replaces the keys the plugin gave, whoever
\* set them before; remove_env_keys removes the recorded ones, whoever set them.
SetEnvKeys(c) ==
    /\ Moves(c, "bind", "save bind")
    /\ env' = [env EXCEPT ![TheirApp(c)] = Their(c)]
    /\ UNCHANGED <<record, stored, asked, loaded, acmds, raced, unsaved>> /\ NoFault
KeysGone(c) == [env EXCEPT ![TheirApp(c)] = Absent]
RemoveEnvKeys(c) ==
    /\ Moves(c, "unbind", "save unbind")
    /\ env' = KeysGone(c)
    /\ UNCHANGED <<record, stored, asked, loaded, acmds, raced, unsaved>> /\ NoFault
SaveRecord(c) ==
    /\ \/ /\ Moves(c, "save bind", "idle")
          /\ record' = [record EXCEPT ![Their(c)] = loaded[c] \cup {TheirApp(c)}]
       \/ /\ Moves(c, "save unbind", "idle")
          /\ record' = [record EXCEPT ![Their(c)] = loaded[c] \ {TheirApp(c)}]
    /\ UNCHANGED <<stored, env, asked, loaded, acmds, raced, unsaved>> /\ NoFault

\* deprovision: the verb, the data directory, then the record.
DropData(c) ==
    /\ Moves(c, "deprovision", "delete record")
    /\ stored' = stored \ {Their(c)}
    /\ UNCHANGED <<record, env, asked, loaded, acmds, raced, unsaved>> /\ NoFault
DeleteRecord(c) ==
    /\ Moves(c, "delete record", "idle")
    /\ record' = [record EXCEPT ![Their(c)] = {Absent}]
    /\ UNCHANGED <<stored, env, asked, loaded, acmds, raced, unsaved>> /\ NoFault

\* A verb or a write fails, or the command is killed.
GiveUpAddon(c) ==
    /\ astep[c] # "idle"
    /\ astep' = [astep EXCEPT ![c] = "idle"]
    /\ unsaved' = (unsaved \/ astep[c] = "save bind")
    /\ UNCHANGED <<record, stored, env, asked, loaded, acmds, raced>> /\ Fault

AddonNext ==
    \E c \in AddonCmds :
        \/ \E i \in Instances : Provision(c, i) \/ Start(c, "deprovision", i, Absent)
        \/ \E i \in Instances, a \in AddonApps : Start(c, "bind", i, a) \/ Start(c, "unbind", i, a)
        \/ Provisioned(c) \/ SetEnvKeys(c) \/ RemoveEnvKeys(c) \/ SaveRecord(c)
        \/ DropData(c) \/ DeleteRecord(c) \/ GiveUpAddon(c)

AddonSpec == AddonInit /\ [][AddonNext]_addonVars

-----------------------------------------------------------------------------
\* The "data loss guard": no step takes away the data of an instance while an
\* app's ENV points at it, whatever fails on the way, unless commands on the same
\* instance or app overlapped or a bind could not save its record.  (deprovision
\* looks at the record, so every app whose ENV has the keys must be in it.)
DataLossGuard ==
    [][\A a \in AddonApps : ~raced /\ ~unsaved /\ env[a] \in stored => env[a] \in stored']_addonVars
=============================================================================
