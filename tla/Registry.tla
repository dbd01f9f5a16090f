------------------------------ MODULE Registry ------------------------------
(***************************************************************************)
(* The plugin registry (core/marketplace/registry.go): one plugin in       *)
(* several versions, installed, enabled, disabled, run and uninstalled by  *)
(* goroutines that share the index.  The mutex covers the index and its    *)
(* file; the directories of the versions are touched outside it.  The      *)
(* daemon may die between any two steps.  The daemon's own commands only   *)
(* read the registry; the callers here are those its operations allow.     *)
(***************************************************************************)
EXTENDS Naturals

CONSTANTS
    PluginVersions, \* versions of the plugin
    Operators,      \* goroutines that call the registry
    NoVersion,      \* model value: not installed
    MaxFailures,    \* bound: extractions, removals and saves that fail
    MaxDeaths       \* bound: deaths of the daemon

ASSUME RegistryAssumption ==
    /\ NoVersion \notin PluginVersions
    /\ MaxFailures \in Nat /\ MaxDeaths \in Nat

(* The entry of the index: the installed version, and Enabled.             *)
PluginEntries == [ver : {NoVersion} \cup PluginVersions, enabled : BOOLEAN]

NotInstalled == [ver |-> NoVersion, enabled |-> FALSE]

(* A manifest and its archive: fit, or with one thing wrong.               *)
Offers == {"fit", "other arch", "altered", "unsigned", "privileged"}

VARIABLES
    index,      \* Registry.index
    file,       \* marketplace-index.json
    dir,        \* dir[v]: absent, empty, or the offer whose files it holds
    step,       \* step[o]: the next step of o
    ver,        \* ver[o]: the version whose directory o works on
    offer,      \* offer[o]: what o installs
    lost,       \* history: the last save has failed
    spoiled,    \* history: a race, a failed extraction or a failed save
    failures, deaths

pluginvars == <<index, file, dir, step, ver, offer, lost, spoiled, failures,
                deaths>>

Goes(o, from, to) == step[o] = from /\ step' = [step EXCEPT ![o] = to]

MayFail == failures < MaxFailures /\ failures' = failures + 1

(* saveIndexLocked writes the index as it is now; nobody looks at an error.*)
Saves ==
    \/ /\ file' = index'
       /\ lost' = FALSE
       /\ UNCHANGED <<spoiled, failures>>
    \/ /\ MayFail
       /\ lost' = TRUE /\ spoiled' = TRUE
       /\ UNCHANGED file

(* Another goroutine is at work on the directory of v.                     *)
Busy(o, v) == \E p \in Operators \ {o} : step[p] # "idle" /\ ver[p] = v

-----------------------------------------------------------------------------
(* Install.                                                                *)

(* checkCompat, verifyHash, verifyGPG, the sandbox check.                  *)
Passes(a) == a = "fit"

(* What is rejected leaves nothing behind; MkdirAll follows the checks.    *)
Install(o) ==
    /\ Goes(o, "idle", "extract")
    /\ \E v \in PluginVersions, a \in Offers :
        /\ Passes(a)
        /\ ver' = [ver EXCEPT ![o] = v]
        /\ offer' = [offer EXCEPT ![o] = a]
        /\ dir' = [dir EXCEPT ![v] = IF @ = "absent" THEN "empty" ELSE @]
        /\ spoiled' = (spoiled \/ Busy(o, v))
    /\ UNCHANGED <<index, file, lost, failures, deaths>>

(* tar fails in a directory that somebody has removed.                     *)
ExtractArchive(o) ==
    /\ \/ /\ Goes(o, "extract", "register")
          /\ dir[ver[o]] # "absent"
          /\ dir' = [dir EXCEPT ![ver[o]] = offer[o]]
          /\ UNCHANGED <<spoiled, failures>>
       \/ /\ Goes(o, "extract", "idle")
          /\ IF dir[ver[o]] = "absent" THEN UNCHANGED failures ELSE MayFail
          /\ dir' = [dir EXCEPT ![ver[o]] = "absent"]
          /\ spoiled' = TRUE
    /\ UNCHANGED <<index, file, ver, offer, lost, deaths>>

Register(o) ==
    /\ Goes(o, "register", "save")
    /\ index' = [ver |-> ver[o], enabled |-> FALSE]
    /\ UNCHANGED <<file, dir, ver, offer, lost, spoiled, failures, deaths>>

(* Variant: what Install has registered is saved, not what is there now.   *)
SavedOwn(o) == [ver |-> ver[o], enabled |-> FALSE]

SavedIndex(o) == index

SaveIndex(o) ==
    /\ Goes(o, "save", "idle")
    /\ \/ /\ file' = SavedIndex(o)
          /\ lost' = FALSE
          /\ UNCHANGED <<spoiled, failures>>
       \/ /\ MayFail
          /\ lost' = TRUE /\ spoiled' = TRUE
          /\ UNCHANGED file
    /\ UNCHANGED <<index, dir, ver, offer, deaths>>

-----------------------------------------------------------------------------
(* Enable, Disable, Uninstall, Run.                                        *)

SetEnabled(o, to) ==
    /\ step[o] = "idle"
    /\ index.ver # NoVersion
    /\ index' = [index EXCEPT !.enabled = to]
    /\ Saves
    /\ UNCHANGED <<dir, step, ver, offer, deaths>>

Enable(o)  == SetEnabled(o, TRUE)
Disable(o) == SetEnabled(o, FALSE)

(* Variant: the index keeps the plugin until its files are gone.           *)
DelistedLate == index

Delisted == NotInstalled

(* Under one lock the index loses the plugin and is saved.                 *)
Uninstall(o) ==
    /\ Goes(o, "idle", "remove")
    /\ index.ver # NoVersion
    /\ ver' = [ver EXCEPT ![o] = index.ver]
    /\ index' = Delisted
    /\ \/ /\ file' = index'
          /\ lost' = FALSE
          /\ spoiled' = (spoiled \/ Busy(o, index.ver))
          /\ UNCHANGED failures
       \/ /\ MayFail
          /\ lost' = TRUE /\ spoiled' = TRUE
          /\ UNCHANGED file
    /\ UNCHANGED <<dir, offer, deaths>>

(* RemoveAll; an error is logged.                                          *)
RemoveAll(o) ==
    /\ Goes(o, "remove", "idle")
    /\ \/ dir' = [dir EXCEPT ![ver[o]] = "absent"] /\ UNCHANGED failures
       \/ MayFail /\ UNCHANGED dir
    /\ UNCHANGED <<index, file, ver, offer, lost, spoiled, deaths>>

(* Run copies the entry, unlocks, and executes what the directory holds.   *)
Run(o) ==
    /\ Goes(o, "idle", "exec")
    /\ index.enabled
    /\ ver' = [ver EXCEPT ![o] = index.ver]
    /\ UNCHANGED <<index, file, dir, offer, lost, spoiled, failures, deaths>>

(* Without an entry point it is an error; the plugin may run for long.     *)
Exec(o) ==
    /\ Goes(o, "exec", "idle")
    /\ UNCHANGED <<index, file, dir, ver, offer, lost, spoiled, failures,
                   deaths>>

-----------------------------------------------------------------------------
(* The daemon dies and NewRegistry loads the index.                        *)
DaemonDies ==
    /\ deaths < MaxDeaths
    /\ deaths' = deaths + 1
    /\ index' = file
    /\ step' = [o \in Operators |-> "idle"]
    /\ lost' = FALSE
    /\ UNCHANGED <<file, dir, ver, offer, spoiled, failures>>

RegistryInit ==
    /\ index = NotInstalled /\ file = NotInstalled
    /\ dir = [v \in PluginVersions |-> "absent"]
    /\ step = [o \in Operators |-> "idle"]
    /\ ver = [o \in Operators |-> NoVersion]
    /\ offer = [o \in Operators |-> "fit"]
    /\ lost = FALSE /\ spoiled = FALSE
    /\ failures = 0 /\ deaths = 0

OperatorStep(o) ==
    \/ Install(o) \/ ExtractArchive(o) \/ Register(o) \/ SaveIndex(o)
    \/ Enable(o) \/ Disable(o)
    \/ Uninstall(o) \/ RemoveAll(o)
    \/ Run(o) \/ Exec(o)

RegistryNext ==
    \/ \E o \in Operators : OperatorStep(o)
    \/ DaemonDies

RegistrySpec == RegistryInit /\ [][RegistryNext]_pluginvars

RegistryTypeOK ==
    /\ index \in PluginEntries /\ file \in PluginEntries
    /\ dir \in [PluginVersions -> {"absent", "empty"} \cup Offers]
    /\ step \in [Operators ->
                 {"idle", "extract", "register", "save", "remove", "exec"}]
    /\ ver \in [Operators -> {NoVersion} \cup PluginVersions]
    /\ offer \in [Operators -> Offers]
    /\ {lost, spoiled} \subseteq BOOLEAN
    /\ failures \in 0..MaxFailures /\ deaths \in 0..MaxDeaths

-----------------------------------------------------------------------------
(* Saves of several goroutines never put an older index over a newer one:  *)
(* the file is the index unless an install is about to save it or the last *)
(* save has failed.  Every save writes the index of its own critical       *)
(* section, which another goroutine may have changed since Register.       *)
FileIsIndex ==
    lost \/ file = index \/ \E o \in Operators : step[o] = "save"

(* What the index, in memory or on disk, calls installed is in its         *)
(* directory, and has passed every check: over deaths of the daemon at any *)
(* step, as long as no two operations meet on one version and no           *)
(* extraction or save fails.                                               *)
InstalledIsThere ==
    \A e \in {index, file} :
        ~spoiled /\ e.ver # NoVersion => dir[e.ver] = "fit"

=============================================================================
