----------------------------- MODULE PluginFiles -----------------------------
(***************************************************************************)
(* Installed plugin bundles and the lock file that records them            *)
(* (riku-plugins install.rs, lockfile.rs, signing.rs and marketplace/):    *)
(* "riku plugins install", "add", "remove", "marketplace add" and          *)
(* "remove", each a process of its own that takes no lock.                 *)
(*                                                                         *)
(* A bundle is its entry, the one file that is hashed, and its other files;*)
(* copying and removing a directory does them one at a time.  The lock     *)
(* file is read whole, changed and written back whole.                     *)
(***************************************************************************)
EXTENDS Budget

CONSTANTS
    PluginCmds,     \* the commands that may run at the same time
    Plugins,        \* plugin names
    MaxPluginCmds   \* bound: commands per runner

ASSUME PluginsAssumption == Plugins # {}

Versions == {1, 2}
NoFile == 0
EmptyBundle == [entry |-> NoFile, files |-> NoFile]

VARIABLES
    bundle,     \* plugin -> the version its entry and its other files are of
    lock,       \* plugin -> the version the lock file records
    market,     \* the marketplace index is cloned and registered
    pstep,      \* command -> where it is
    target,     \* command -> [plugin, version]
    doc,        \* command -> the lock file as it read it
    pcmds,
    overlapped, \* two commands ran at the same time
    halfGone    \* a removal did not get to its end
pluginState == <<bundle, lock, market, pstep, target, doc, pcmds, overlapped, halfGone>>
pluginVars == <<pluginState, faults>>

PluginInit ==
    /\ bundle = [p \in Plugins |-> EmptyBundle]
    /\ lock = [p \in Plugins |-> NoFile]
    /\ market = "none"
    /\ pstep = [c \in PluginCmds |-> "idle"]
    /\ target = [c \in PluginCmds |-> [plugin |-> CHOOSE p \in Plugins : TRUE, version |-> 1]]
    /\ doc = [c \in PluginCmds |-> [p \in Plugins |-> NoFile]]
    /\ pcmds = [c \in PluginCmds |-> 0]
    /\ overlapped = FALSE /\ halfGone = FALSE
    /\ faults = 0

PQuiet == \A c \in PluginCmds : pstep[c] = "idle"
PAt(c, here, next) == pstep[c] = here /\ pstep' = [pstep EXCEPT ![c] = next]
TheirPlugin(c) == target[c].plugin
Has(p) == bundle[p] # EmptyBundle

\* A command starts; what it is asked for is checked against the disk first:
\* install_from_dir refuses a name that is there (after the checksum and the
\* signature of the source), remove one that is not.
Begin(c, kind, p, v) ==
    /\ pstep[c] = "idle" /\ pcmds[c] < MaxPluginCmds
    /\ pcmds' = [pcmds EXCEPT ![c] = @ + 1]
    /\ overlapped' = (overlapped \/ ~PQuiet)
    /\ pstep' = [pstep EXCEPT ![c] = kind]
    /\ target' = [target EXCEPT ![c] = [plugin |-> p, version |-> v]]
    /\ UNCHANGED <<bundle, lock, market, doc, halfGone>> /\ NoFault
InstallPlugin(c, p, v) == ~Has(p) /\ Begin(c, "copy", p, v)
RemovePlugin(c, p) == Has(p) /\ Begin(c, "unlink", p, 1)
\* install_named: the one marketplace entry of that name says where it is.
AddFromMarket(c, p, v) == market = "registered" /\ InstallPlugin(c, p, v)

\* copy_dir_recursive, then make_executable and on_install, which only warns:
\* either file first.
CopyFile(c) ==
    /\ pstep[c] \in {"copy", "copy on"}
    /\ \E f \in {"entry", "files"} :
          /\ pstep[c] = "copy on" => bundle[TheirPlugin(c)][f] # target[c].version
          /\ bundle' = [bundle EXCEPT ![TheirPlugin(c)][f] = target[c].version]
    /\ pstep' = [pstep EXCEPT ![c] = IF @ = "copy" THEN "copy on" ELSE "load"]
    /\ UNCHANGED <<lock, market, target, doc, pcmds, overlapped, halfGone>> /\ NoFault
\* An overlapping install of the same version has copied it already.
CopyNothing(c) ==
    /\ bundle[TheirPlugin(c)] = [entry |-> target[c].version, files |-> target[c].version]
    /\ PAt(c, "copy on", "load")
    /\ UNCHANGED <<bundle, lock, market, target, doc, pcmds, overlapped, halfGone>> /\ NoFault

\* on_uninstall, then remove_dir_all.
UnlinkFile(c) ==
    /\ pstep[c] = "unlink"
    /\ IF Has(TheirPlugin(c))
       THEN /\ \E f \in {"entry", "files"} :
                  /\ bundle[TheirPlugin(c)][f] # NoFile
                  /\ bundle' = [bundle EXCEPT ![TheirPlugin(c)][f] = NoFile]
            /\ UNCHANGED pstep
       ELSE pstep' = [pstep EXCEPT ![c] = "unload"] /\ UNCHANGED bundle
    /\ UNCHANGED <<lock, market, target, doc, pcmds, overlapped, halfGone>> /\ NoFault

\* Lockfile::upsert and Lockfile::remove: load, then save what was loaded with
\* one entry changed.  An unreadable lock file loads as an empty one.
LoadLock(c) ==
    /\ \/ PAt(c, "load", "save")
       \/ PAt(c, "unload", "unsave")
    /\ doc' = [doc EXCEPT ![c] = lock]
    /\ UNCHANGED <<bundle, lock, market, target, pcmds, overlapped, halfGone>> /\ NoFault
Upsert(c) == [doc[c] EXCEPT ![TheirPlugin(c)] = target[c].version]
WithoutNothing(c) == doc[c]   \* MUTANT: remove leaves the lock file alone
Without(c) == [doc[c] EXCEPT ![TheirPlugin(c)] = NoFile]
SaveLock(c) == PAt(c, "save", "idle") /\ lock' = Upsert(c)
SaveUnlock(c) == PAt(c, "unsave", "idle") /\ lock' = Without(c)
WriteLock(c) ==
    /\ SaveLock(c) \/ SaveUnlock(c)
    /\ UNCHANGED <<bundle, market, target, doc, pcmds, overlapped, halfGone>> /\ NoFault

\* Any step fails, or the command is killed: nothing is taken back.
StopHere(c) ==
    /\ pstep[c] # "idle"
    /\ pstep' = [pstep EXCEPT ![c] = "idle"]
    /\ halfGone' = (halfGone \/ pstep[c] \in {"unlink", "unload", "unsave"})
    /\ UNCHANGED <<bundle, lock, market, target, doc, pcmds, overlapped>> /\ Fault

\* marketplace add: clone, check the index, register; an index that does not
\* parse takes the clone away again.  remove: unregister, then the clone.
AddMarket(c) ==
    /\ pstep[c] = "idle" /\ pcmds[c] < MaxPluginCmds /\ market # "registered"
    /\ pcmds' = [pcmds EXCEPT ![c] = @ + 1]
    /\ \/ market' = "registered" /\ NoFault
       \/ market' \in {"none", "cloned"} /\ Fault
    /\ UNCHANGED <<bundle, lock, pstep, target, doc, overlapped, halfGone>>
RemoveMarket(c) ==
    /\ pstep[c] = "idle" /\ pcmds[c] < MaxPluginCmds /\ market = "registered"
    /\ pcmds' = [pcmds EXCEPT ![c] = @ + 1]
    /\ \/ market' = "none" /\ NoFault
       \/ market' = "cloned" /\ Fault
    /\ UNCHANGED <<bundle, lock, pstep, target, doc, overlapped, halfGone>>

\* audit_bundle: what "riku plugins doctor" says of a bundle on disk.
Audit(p) == IF bundle[p].entry = NoFile THEN "fail"
            ELSE IF lock[p] = NoFile THEN "warn"
            ELSE IF lock[p] = bundle[p].entry THEN "ok" ELSE "fail"

PluginNext ==
    \E c \in PluginCmds :
        \/ \E p \in Plugins, v \in Versions : InstallPlugin(c, p, v) \/ AddFromMarket(c, p, v)
        \/ \E p \in Plugins : RemovePlugin(c, p)
        \/ CopyFile(c) \/ CopyNothing(c) \/ UnlinkFile(c) \/ LoadLock(c) \/ WriteLock(c)
        \/ StopHere(c) \/ AddMarket(c) \/ RemoveMarket(c)

PluginSpec == PluginInit /\ [][PluginNext]_pluginVars

-----------------------------------------------------------------------------
\* A bundle that is not whole is never one that "riku plugins doctor" vouches
\* for, whatever was killed on the way, as long as commands ran one at a time
\* and every removal got to its end.  (An install that ends early leaves no lock
\* entry; one left over from a removal, or put back by an overlapping command,
\* would vouch for the next half-made install of that version.)
BrokenIsNoticed ==
    PQuiet /\ ~overlapped /\ ~halfGone =>
        \A p \in Plugins : Has(p) /\ bundle[p].entry # bundle[p].files => Audit(p) # "ok"

\* lockfile.rs: the lock file "records every installed bundle".  Not so: of two
\* commands at once the later write loses the entry of the earlier.
LockRecordsBundles ==
    PQuiet /\ faults = 0 =>
        \A p \in Plugins : Has(p) => lock[p] # NoFile
=============================================================================
