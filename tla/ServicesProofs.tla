--------------------------- MODULE ServicesProofs ---------------------------
(***************************************************************************)
(* Proofs about three services of hisnosd: the plugin registry, for any    *)
(* number of versions and of goroutines and any number of faults and       *)
(* deaths of the daemon; the fleet policy, for any set of bundles and any  *)
(* number of syncs at once; and the guard against real-time priorities,    *)
(* for any set of processes.                                               *)
(***************************************************************************)
EXTENDS Registry, FleetSync, RTGuard, TLAPS

(* What is needed of the types.                                            *)
Typed ==
    /\ step \in [Operators ->
                 {"idle", "extract", "register", "save", "remove", "exec"}]
    /\ ver \in [Operators -> {NoVersion} \cup PluginVersions]
    /\ offer \in [Operators -> Offers]
    /\ dir \in [PluginVersions -> {"absent", "empty"} \cup Offers]
    /\ index \in PluginEntries /\ file \in PluginEntries
    /\ spoiled \in BOOLEAN

(* The goroutines that work on the directory of a version.                 *)
OnFiles == {"extract", "register", "save", "remove"}

Working(o) == step[o] \in OnFiles

WorkOnVersions == \A o \in Operators : Working(o) => ver[o] \in PluginVersions

(* Only what has passed the checks is extracted.                           *)
FitOffers == \A o \in Operators : step[o] = "extract" => offer[o] = "fit"

(* As long as nothing has spoiled it: two goroutines work on two versions, *)
Apart ==
    \A o, p \in Operators : Working(o) /\ Working(p) /\ o # p => ver[o] # ver[p]

(* what was extracted is there to be registered,                           *)
Extracted ==
    \A o \in Operators : step[o] \in {"register", "save"} => dir[ver[o]] = "fit"

(* what is being removed is in no index,                                   *)
RemovedAreDelisted ==
    \A o \in Operators :
        step[o] = "remove" => index.ver # ver[o] /\ file.ver # ver[o]

(* and what is in an index is there.                                       *)
ListedAreThere ==
    /\ index.ver # NoVersion => dir[index.ver] = "fit"
    /\ file.ver # NoVersion => dir[file.ver] = "fit"

Clean == Apart /\ Extracted /\ RemovedAreDelisted /\ ListedAreThere

RegistryInv ==
    /\ Typed /\ WorkOnVersions /\ FitOffers
    /\ ~spoiled => Clean

-----------------------------------------------------------------------------
(* The index on disk.                                                      *)

LEMMA StepsTyped ==
    ASSUME Typed, [RegistryNext]_pluginvars
    PROVE  step' \in [Operators ->
                 {"idle", "extract", "register", "save", "remove", "exec"}]
BY
   DEF Typed, RegistryNext, pluginvars, OperatorStep, Install, ExtractArchive,
       Register, SaveIndex,
       Enable, Disable, SetEnabled, Uninstall, RemoveAll, Run, Exec, DaemonDies, Goes

LEMMA TypedKept ==
    ASSUME Typed, [RegistryNext]_pluginvars
    PROVE  Typed'
<1>0. step' \in [Operators ->
                 {"idle", "extract", "register", "save", "remove", "exec"}]
  BY StepsTyped
<1> USE <1>0 DEF Typed
<1>1. ASSUME NEW o \in Operators, Install(o) PROVE Typed'
  BY <1>1 DEF Install, Busy
<1>2. ASSUME NEW o \in Operators, ExtractArchive(o) PROVE Typed'
  BY ZenonT(40), <1>2 DEF ExtractArchive, MayFail
<1>3. ASSUME NEW o \in Operators, Register(o) PROVE Typed'
  BY <1>3 DEF Register, PluginEntries
<1>4. ASSUME NEW o \in Operators, SaveIndex(o) PROVE Typed'
  BY <1>4 DEF SaveIndex, SavedIndex, MayFail
<1>5. ASSUME NEW o \in Operators, NEW to \in BOOLEAN, SetEnabled(o, to) PROVE Typed'
  BY <1>5 DEF SetEnabled, Saves, MayFail, PluginEntries
<1>6. ASSUME NEW o \in Operators, Uninstall(o) PROVE Typed'
  <2>1. NotInstalled \in PluginEntries
    BY DEF NotInstalled, PluginEntries
  <2>2. index' = NotInstalled /\ file' \in {NotInstalled, file}
    BY <1>6 DEF Uninstall, Delisted
  <2>3. ver' \in [Operators -> {NoVersion} \cup PluginVersions]
    BY <1>6 DEF Uninstall, PluginEntries
  <2>4. spoiled' \in BOOLEAN
    BY <1>6 DEF Uninstall
  <2>5. UNCHANGED <<dir, offer>>
    BY <1>6 DEF Uninstall
  <2> QED
    BY <2>1, <2>2, <2>3, <2>4, <2>5
<1>7. ASSUME NEW o \in Operators, RemoveAll(o) PROVE Typed'
  BY <1>7 DEF RemoveAll, MayFail
<1>8. ASSUME NEW o \in Operators, Run(o) PROVE Typed'
  BY <1>8 DEF Run, PluginEntries
<1>9. ASSUME NEW o \in Operators, Exec(o) PROVE Typed'
  BY <1>9 DEF Exec
<1>10. CASE DaemonDies
  BY <1>10 DEF DaemonDies
<1>11. CASE UNCHANGED pluginvars
  BY <1>11 DEF pluginvars
<1> QED
  BY <1>1, <1>2, <1>3, <1>4, <1>5, <1>6, <1>7, <1>8, <1>9, <1>10, <1>11
     DEF RegistryNext, OperatorStep, Enable, Disable

LEMMA InitTyped == RegistryInit => Typed
<1>1. NotInstalled \in PluginEntries
  BY DEF NotInstalled, PluginEntries
<1>2. "fit" \in Offers
  BY DEF Offers
<1> SUFFICES ASSUME RegistryInit PROVE Typed
  OBVIOUS
<1>3. /\ step \in [Operators -> {"idle", "extract", "register", "save", "remove", "exec"}]
      /\ ver \in [Operators -> {NoVersion} \cup PluginVersions]
      /\ offer \in [Operators -> Offers]
      /\ dir \in [PluginVersions -> {"absent", "empty"} \cup Offers]
  BY <1>2 DEF RegistryInit
<1>4. index \in PluginEntries /\ file \in PluginEntries /\ spoiled \in BOOLEAN
  BY <1>1 DEF RegistryInit
<1> QED
  BY <1>3, <1>4 DEF Typed

(* The faults and deaths are counted up to their bounds.                   *)
CountsOK ==
    /\ lost \in BOOLEAN
    /\ failures \in 0..MaxFailures /\ deaths \in 0..MaxDeaths

LEMMA CountsKept ==
    ASSUME CountsOK, [RegistryNext]_pluginvars
    PROVE  CountsOK'
<1>1. lost' \in BOOLEAN
  BY DEF CountsOK, RegistryNext, pluginvars, OperatorStep, Install,
         ExtractArchive, Register, SaveIndex, Enable, Disable, SetEnabled,
         Saves, Uninstall, RemoveAll, Run, Exec, DaemonDies
<1>2. UNCHANGED failures \/ MayFail
  BY DEF RegistryNext, pluginvars, OperatorStep, Install, ExtractArchive,
         Register, SaveIndex, Enable, Disable, SetEnabled, Saves, Uninstall,
         RemoveAll, Run, Exec, DaemonDies
<1>3. UNCHANGED deaths \/ (deaths < MaxDeaths /\ deaths' = deaths + 1)
  BY DEF RegistryNext, pluginvars, OperatorStep, Install, ExtractArchive,
         Register, SaveIndex, Enable, Disable, SetEnabled, Saves, Uninstall,
         RemoveAll, Run, Exec, DaemonDies
<1>4. failures' \in 0..MaxFailures
  BY <1>2, RegistryAssumption DEF CountsOK, MayFail
<1>5. deaths' \in 0..MaxDeaths
  BY <1>3, RegistryAssumption DEF CountsOK
<1> QED
  BY <1>1, <1>4, <1>5 DEF CountsOK

(* The index, the goroutines and the directories keep their types.         *)
THEOREM RegistryTypeCorrect == RegistrySpec => []RegistryTypeOK
<1> DEFINE Types == Typed /\ CountsOK
<1>1. RegistryInit => Types
  <2> SUFFICES ASSUME RegistryInit PROVE CountsOK
    BY InitTyped
  <2>1. lost \in BOOLEAN
    BY DEF RegistryInit
  <2>2. failures \in 0..MaxFailures /\ deaths \in 0..MaxDeaths
    BY RegistryAssumption DEF RegistryInit
  <2> QED
    BY <2>1, <2>2 DEF CountsOK
<1>2. Types /\ [RegistryNext]_pluginvars => Types'
  BY TypedKept, CountsKept
<1>3. Types => RegistryTypeOK
  BY DEF Typed, CountsOK, RegistryTypeOK
<1> QED
  BY <1>1, <1>2, <1>3, PTL DEF RegistrySpec

(* A step of another goroutine leaves one that is about to save there.     *)
LEMMA SaverWaits ==
    ASSUME NEW o \in Operators, NEW p \in Operators, p # o, Typed,
           step[p] = "save", NEW from, NEW to, Goes(o, from, to)
    PROVE  step'[p] = "save"
BY DEF Goes, Typed

(* No save puts an older index over a newer one.                           *)
THEOREM FileIsTheIndex == RegistrySpec => []FileIsIndex
<1>1. RegistryInit => Typed /\ FileIsIndex
  BY InitTyped DEF RegistryInit, FileIsIndex
<1>2. Typed /\ FileIsIndex /\ [RegistryNext]_pluginvars => Typed' /\ FileIsIndex'
  <2> SUFFICES ASSUME Typed, FileIsIndex, [RegistryNext]_pluginvars
               PROVE  FileIsIndex'
    BY TypedKept
  <2>1. ASSUME NEW o \in Operators, Install(o) PROVE FileIsIndex'
    BY <2>1, SaverWaits DEF Install, FileIsIndex, Goes
  <2>2. ASSUME NEW o \in Operators, ExtractArchive(o) PROVE FileIsIndex'
    BY <2>2, SaverWaits DEF ExtractArchive, FileIsIndex, Goes
  <2>3. ASSUME NEW o \in Operators, Register(o) PROVE FileIsIndex'
    <3>1. step'[o] = "save"
      BY <2>3 DEF Register, Goes, Typed
    <3> QED
      BY <3>1 DEF FileIsIndex
  <2>4. ASSUME NEW o \in Operators, SaveIndex(o) PROVE FileIsIndex'
    BY <2>4 DEF SaveIndex, SavedIndex, MayFail, FileIsIndex
  <2>5. ASSUME NEW o \in Operators, NEW to \in BOOLEAN, SetEnabled(o, to)
        PROVE  FileIsIndex'
    BY <2>5 DEF SetEnabled, Saves, MayFail, FileIsIndex
  <2>6. ASSUME NEW o \in Operators, Uninstall(o) PROVE FileIsIndex'
    BY <2>6 DEF Uninstall, MayFail, FileIsIndex
  <2>7. ASSUME NEW o \in Operators, RemoveAll(o) PROVE FileIsIndex'
    BY <2>7, SaverWaits DEF RemoveAll, FileIsIndex, Goes
  <2>8. ASSUME NEW o \in Operators, Run(o) PROVE FileIsIndex'
    BY <2>8, SaverWaits DEF Run, FileIsIndex, Goes
  <2>9. ASSUME NEW o \in Operators, Exec(o) PROVE FileIsIndex'
    BY <2>9, SaverWaits DEF Exec, FileIsIndex, Goes
  <2>10. CASE DaemonDies
    BY <2>10 DEF DaemonDies, FileIsIndex
  <2>11. CASE UNCHANGED pluginvars
    BY <2>11 DEF pluginvars, FileIsIndex
  <2> QED
    BY <2>1, <2>2, <2>3, <2>4, <2>5, <2>6, <2>7, <2>8, <2>9, <2>10, <2>11
       DEF RegistryNext, OperatorStep, Enable, Disable
<1> QED
  BY <1>1, <1>2, PTL DEF RegistrySpec

-----------------------------------------------------------------------------
(* The directories.                                                        *)

(* One goroutine goes on; the others stay where they are.                  *)
LEMMA OthersStay ==
    ASSUME Typed, NEW o \in Operators, NEW from, NEW to, Goes(o, from, to)
    PROVE  /\ step[o] = from /\ step'[o] = to
           /\ \A p \in Operators \ {o} : step'[p] = step[p]
BY DEF Goes, Typed

(* Who begins on a version that nobody else is at work on works apart.     *)
LEMMA BeginsApart ==
    ASSUME RegistryInv, ~spoiled, NEW o \in Operators, NEW v \in PluginVersions, NEW to \in OnFiles,
           Goes(o, "idle", to), ver' = [ver EXCEPT ![o] = v], ~Busy(o, v)
    PROVE  /\ Apart'
           /\ \A p \in Operators \ {o} : Working(p) => ver[p] # v
<1>1. /\ step'[o] = to /\ \A p \in Operators \ {o} : step'[p] = step[p]
      /\ ver'[o] = v /\ \A p \in Operators \ {o} : ver'[p] = ver[p]
  BY OthersStay DEF RegistryInv, Typed
<1>2. \A p \in Operators \ {o} : Working(p) => ver[p] # v
  BY DEF Busy, Working, OnFiles
<1>3. Apart
  BY DEF RegistryInv, Clean
<1> QED
  BY <1>1, <1>2, <1>3 DEF Apart, Working

(* Who stays at work, or stops, leaves everybody apart.                    *)
LEMMA StaysApart ==
    ASSUME RegistryInv, ~spoiled, NEW o \in Operators, NEW from, NEW to, Goes(o, from, to),
           to \in OnFiles => from \in OnFiles, ver' = ver
    PROVE  Apart'
<1>1. step[o] = from /\ step'[o] = to /\ \A p \in Operators \ {o} : step'[p] = step[p]
  BY OthersStay DEF RegistryInv
<1>2. Apart
  BY DEF RegistryInv, Clean
<1> QED
  BY <1>1, <1>2 DEF Apart, Working

LEMMA WorkKept ==
    ASSUME RegistryInv, [RegistryNext]_pluginvars
    PROVE  WorkOnVersions' /\ FitOffers'
<1> USE DEF RegistryInv, WorkOnVersions, FitOffers, Working, OnFiles
<1>1. ASSUME NEW o \in Operators, Install(o) PROVE WorkOnVersions' /\ FitOffers'
  <2>1. PICK v \in PluginVersions, a \in Offers :
          /\ a = "fit" /\ ver' = [ver EXCEPT ![o] = v] /\ offer' = [offer EXCEPT ![o] = a]
    BY <1>1 DEF Install, Passes
  <2> QED
    BY <1>1, <2>1, OthersStay DEF Install, Typed
<1>2. ASSUME NEW o \in Operators, ExtractArchive(o) PROVE WorkOnVersions' /\ FitOffers'
  BY <1>2, OthersStay DEF ExtractArchive
<1>3. ASSUME NEW o \in Operators, Register(o) PROVE WorkOnVersions' /\ FitOffers'
  BY <1>3, OthersStay DEF Register
<1>4. ASSUME NEW o \in Operators, SaveIndex(o) PROVE WorkOnVersions' /\ FitOffers'
  BY <1>4, OthersStay DEF SaveIndex
<1>5. ASSUME NEW o \in Operators, NEW to \in BOOLEAN, SetEnabled(o, to)
      PROVE  WorkOnVersions' /\ FitOffers'
  BY <1>5 DEF SetEnabled
<1>6. ASSUME NEW o \in Operators, Uninstall(o) PROVE WorkOnVersions' /\ FitOffers'
  <2>1. index.ver \in PluginVersions /\ ver' = [ver EXCEPT ![o] = index.ver] /\ offer' = offer
    BY <1>6 DEF Uninstall, Typed, PluginEntries
  <2>2. Goes(o, "idle", "remove")
    BY <1>6 DEF Uninstall
  <2> QED
    BY <2>1, <2>2, OthersStay DEF Typed
<1>7. ASSUME NEW o \in Operators, RemoveAll(o) PROVE WorkOnVersions' /\ FitOffers'
  BY <1>7, OthersStay DEF RemoveAll
<1>8. ASSUME NEW o \in Operators, Run(o) PROVE WorkOnVersions' /\ FitOffers'
  BY <1>8, OthersStay DEF Run, Typed
<1>9. ASSUME NEW o \in Operators, Exec(o) PROVE WorkOnVersions' /\ FitOffers'
  BY <1>9, OthersStay DEF Exec
<1>10. CASE DaemonDies
  BY <1>10 DEF DaemonDies
<1>11. CASE UNCHANGED pluginvars
  BY <1>11 DEF pluginvars
<1> QED
  BY <1>1, <1>2, <1>3, <1>4, <1>5, <1>6, <1>7, <1>8, <1>9, <1>10, <1>11
     DEF RegistryNext, OperatorStep, Enable, Disable

LEMMA CleanKept ==
    ASSUME RegistryInv, ~spoiled, ~spoiled', [RegistryNext]_pluginvars
    PROVE  Clean'
<1>0. Typed /\ Clean /\ WorkOnVersions /\ FitOffers
  BY DEF RegistryInv
<1>1. ASSUME NEW o \in Operators, Install(o) PROVE Clean'
  <2>1. PICK v \in PluginVersions, a \in Offers :
          /\ ver' = [ver EXCEPT ![o] = v]
          /\ dir' = [dir EXCEPT ![v] = IF @ = "absent" THEN "empty" ELSE @]
          /\ spoiled' = (spoiled \/ Busy(o, v))
    BY <1>1 DEF Install
  <2>2. Goes(o, "idle", "extract") /\ UNCHANGED <<index, file>> /\ ~Busy(o, v)
    BY <1>1, <2>1 DEF Install
  <2>3. /\ Apart'
        /\ \A p \in Operators \ {o} : Working(p) => ver[p] # v
    BY <2>1, <2>2, BeginsApart DEF OnFiles
  <2>4. /\ step'[o] = "extract"
        /\ \A p \in Operators \ {o} : step'[p] = step[p] /\ ver'[p] = ver[p]
    BY <1>0, <2>1, <2>2, OthersStay DEF Typed
  <2>5. \A w \in PluginVersions : dir[w] = "fit" => dir'[w] = "fit"
    BY <1>0, <2>1 DEF Typed
  <2>6. Extracted'
    BY <1>0, <2>4, <2>5 DEF Clean, Extracted, WorkOnVersions, Working, OnFiles
  <2>7. RemovedAreDelisted'
    BY <1>0, <2>2, <2>4 DEF Clean, RemovedAreDelisted
  <2>8. ListedAreThere'
    BY <1>0, <2>2, <2>5 DEF Clean, ListedAreThere, Typed, PluginEntries
  <2> QED
    BY <2>3, <2>6, <2>7, <2>8 DEF Clean
<1>2. ASSUME NEW o \in Operators, ExtractArchive(o) PROVE Clean'
  <2>1. /\ Goes(o, "extract", "register")
        /\ dir' = [dir EXCEPT ![ver[o]] = offer[o]]
        /\ UNCHANGED <<index, file, ver>>
    BY <1>2 DEF ExtractArchive
  <2>2. /\ step[o] = "extract" /\ step'[o] = "register"
        /\ \A p \in Operators \ {o} : step'[p] = step[p]
    BY <1>0, <2>1, OthersStay
  <2>3. offer[o] = "fit" /\ ver[o] \in PluginVersions
    BY <1>0, <2>2 DEF FitOffers, WorkOnVersions, Working, OnFiles
  <2>4. dir'[ver[o]] = "fit" /\ \A w \in PluginVersions : dir[w] = "fit" => dir'[w] = "fit"
    BY <1>0, <2>1, <2>3 DEF Typed
  <2>5. Apart'
    BY <2>1, StaysApart DEF OnFiles
  <2>6. Extracted'
    BY <1>0, <2>1, <2>2, <2>4
       DEF Clean, Extracted, WorkOnVersions, Working, OnFiles
  <2>7. RemovedAreDelisted'
    BY <1>0, <2>1, <2>2 DEF Clean, RemovedAreDelisted
  <2>8. ListedAreThere'
    BY <1>0, <2>1, <2>4 DEF Clean, ListedAreThere, Typed, PluginEntries
  <2> QED
    BY <2>5, <2>6, <2>7, <2>8 DEF Clean
<1>3. ASSUME NEW o \in Operators, Register(o) PROVE Clean'
  <2>1. /\ Goes(o, "register", "save")
        /\ index' = [ver |-> ver[o], enabled |-> FALSE]
        /\ UNCHANGED <<file, dir, ver>>
    BY <1>3 DEF Register
  <2>2. /\ step[o] = "register" /\ step'[o] = "save"
        /\ \A p \in Operators \ {o} : step'[p] = step[p]
    BY <1>0, <2>1, OthersStay
  <2>3. Apart'
    BY <2>1, StaysApart DEF OnFiles
  <2>4. Extracted'
    BY <1>0, <2>1, <2>2 DEF Clean, Extracted
  <2>5. \A p \in Operators \ {o} : Working(p) => ver[p] # ver[o]
    BY <1>0, <2>2 DEF Clean, Apart, Working, OnFiles
  <2>6. RemovedAreDelisted'
    BY <1>0, <2>1, <2>2, <2>5 DEF Clean, RemovedAreDelisted, Working, OnFiles
  <2>7. ListedAreThere'
    BY <1>0, <2>1, <2>2 DEF Clean, ListedAreThere, Extracted
  <2> QED
    BY <2>3, <2>4, <2>6, <2>7 DEF Clean
<1>4. ASSUME NEW o \in Operators, SaveIndex(o) PROVE Clean'
  <2>1. /\ Goes(o, "save", "idle") /\ file' = index
        /\ UNCHANGED <<index, dir, ver>>
    BY <1>4 DEF SaveIndex, SavedIndex
  <2>2. /\ step'[o] = "idle" /\ \A p \in Operators \ {o} : step'[p] = step[p]
    BY <1>0, <2>1, OthersStay
  <2>3. Apart'
    BY <2>1, StaysApart DEF OnFiles
  <2> QED
    BY <1>0, <2>1, <2>2, <2>3
       DEF Clean, Extracted, RemovedAreDelisted, ListedAreThere
<1>5. ASSUME NEW o \in Operators, NEW to \in BOOLEAN, SetEnabled(o, to) PROVE Clean'
  <2>1. /\ index' = [index EXCEPT !.enabled = to] /\ file' \in {index', file}
        /\ UNCHANGED <<dir, step, ver>>
    BY <1>5 DEF SetEnabled, Saves
  <2>2. index'.ver = index.ver /\ file'.ver \in {index.ver, file.ver}
    BY <1>0, <2>1 DEF Typed, PluginEntries
  <2> QED
    BY <1>0, <2>1, <2>2
       DEF Clean, Apart, Extracted, RemovedAreDelisted, ListedAreThere, Working
<1>6. ASSUME NEW o \in Operators, Uninstall(o) PROVE Clean'
  <2>1. /\ Goes(o, "idle", "remove")
        /\ ver' = [ver EXCEPT ![o] = index.ver]
        /\ index' = NotInstalled /\ file' = NotInstalled
        /\ UNCHANGED dir /\ ~Busy(o, index.ver) /\ index.ver # NoVersion
    BY <1>6 DEF Uninstall, Delisted
  <2>2. index.ver \in PluginVersions /\ NotInstalled.ver = NoVersion
    BY <1>0, <2>1 DEF Typed, PluginEntries, NotInstalled
  <2>3. Apart'
    BY <2>1, <2>2, BeginsApart DEF OnFiles
  <2>4. /\ step'[o] = "remove" /\ ver'[o] = index.ver
        /\ \A p \in Operators \ {o} : step'[p] = step[p] /\ ver'[p] = ver[p]
    BY <1>0, <2>1, OthersStay DEF Typed
  <2>5. Extracted'
    BY <1>0, <2>1, <2>4 DEF Clean, Extracted
  <2>6. RemovedAreDelisted'
    BY <1>0, <2>1, <2>2, <2>4, RegistryAssumption
       DEF RemovedAreDelisted, WorkOnVersions, Working, OnFiles
  <2>7. ListedAreThere'
    BY <2>1, <2>2 DEF ListedAreThere
  <2> QED
    BY <2>3, <2>5, <2>6, <2>7 DEF Clean
<1>7. ASSUME NEW o \in Operators, RemoveAll(o) PROVE Clean'
  <2>1. /\ Goes(o, "remove", "idle")
        /\ dir' \in {dir, [dir EXCEPT ![ver[o]] = "absent"]}
        /\ UNCHANGED <<index, file, ver>>
    BY <1>7 DEF RemoveAll
  <2>2. /\ step[o] = "remove" /\ step'[o] = "idle"
        /\ \A p \in Operators \ {o} : step'[p] = step[p]
    BY <1>0, <2>1, OthersStay
  <2>3. \A w \in PluginVersions \ {ver[o]} : dir'[w] = dir[w]
    BY <1>0, <2>1 DEF Typed
  <2>4. index.ver # ver[o] /\ file.ver # ver[o]
    BY <1>0, <2>2 DEF Clean, RemovedAreDelisted
  <2>5. \A p \in Operators \ {o} : Working(p) => ver[p] # ver[o] /\ ver[p] \in PluginVersions
    BY <1>0, <2>2 DEF Clean, Apart, WorkOnVersions, Working, OnFiles
  <2>6. Apart'
    BY <2>1, StaysApart DEF OnFiles
  <2>7. Extracted'
    BY <1>0, <2>1, <2>2, <2>3, <2>5 DEF Clean, Extracted, Working, OnFiles
  <2>8. RemovedAreDelisted'
    BY <1>0, <2>1, <2>2 DEF Clean, RemovedAreDelisted
  <2>9. ListedAreThere'
    BY <1>0, <2>1, <2>3, <2>4 DEF Clean, ListedAreThere, Typed, PluginEntries
  <2> QED
    BY <2>6, <2>7, <2>8, <2>9 DEF Clean
<1>8. ASSUME NEW o \in Operators, Run(o) PROVE Clean'
  <2>1. /\ Goes(o, "idle", "exec") /\ ver' = [ver EXCEPT ![o] = index.ver]
        /\ UNCHANGED <<index, file, dir>>
    BY <1>8 DEF Run
  <2>2. /\ step'[o] = "exec"
        /\ \A p \in Operators \ {o} : step'[p] = step[p] /\ ver'[p] = ver[p]
    BY <1>0, <2>1, OthersStay DEF Typed
  <2> QED
    BY <1>0, <2>1, <2>2
       DEF Clean, Apart, Extracted, RemovedAreDelisted, ListedAreThere, Working, OnFiles
<1>9. ASSUME NEW o \in Operators, Exec(o) PROVE Clean'
  <2>1. Goes(o, "exec", "idle") /\ UNCHANGED <<index, file, dir, ver>>
    BY <1>9 DEF Exec
  <2>2. step'[o] = "idle" /\ \A p \in Operators \ {o} : step'[p] = step[p]
    BY <1>0, <2>1, OthersStay
  <2> QED
    BY <1>0, <2>1, <2>2
       DEF Clean, Apart, Extracted, RemovedAreDelisted, ListedAreThere, Working, OnFiles
<1>10. CASE DaemonDies
  <2>1. /\ index' = file /\ UNCHANGED <<file, dir>>
        /\ \A o \in Operators : step'[o] = "idle"
    BY <1>10 DEF DaemonDies
  <2> QED
    BY <1>0, <2>1
       DEF Clean, Apart, Extracted, RemovedAreDelisted, ListedAreThere, Working, OnFiles
<1>11. CASE UNCHANGED pluginvars
  BY <1>0, <1>11
     DEF pluginvars, Clean, Apart, Extracted, RemovedAreDelisted, ListedAreThere, Working
<1> QED
  BY <1>1, <1>2, <1>3, <1>4, <1>5, <1>6, <1>7, <1>8, <1>9, <1>10, <1>11
     DEF RegistryNext, OperatorStep, Enable, Disable

(* What has spoiled the registry is not forgotten.                         *)
LEMMA SpoiledLasts ==
    ASSUME spoiled, Typed, [RegistryNext]_pluginvars
    PROVE  spoiled'
BY
   DEF RegistryNext, pluginvars, OperatorStep, Install, ExtractArchive,
       Register, SaveIndex, Enable,
       Disable, SetEnabled, Saves, Uninstall, RemoveAll, Run, Exec, DaemonDies

(* A plugin in an index is in its directory, and has passed every check.   *)
THEOREM InstalledPluginsAreThere == RegistrySpec => []InstalledIsThere
<1>1. RegistryInit => RegistryInv
  <2> SUFFICES ASSUME RegistryInit PROVE RegistryInv
    OBVIOUS
  <2>1. Typed /\ NotInstalled.ver = NoVersion
    BY InitTyped DEF NotInstalled
  <2> QED
    BY <2>1
       DEF RegistryInit, RegistryInv, WorkOnVersions, FitOffers, Clean, Apart,
           Extracted,
                RemovedAreDelisted, ListedAreThere, Working, OnFiles
<1>2. RegistryInv /\ [RegistryNext]_pluginvars => RegistryInv'
  <2> SUFFICES ASSUME RegistryInv, [RegistryNext]_pluginvars PROVE RegistryInv'
    OBVIOUS
  <2>1. Typed' /\ WorkOnVersions' /\ FitOffers'
    BY TypedKept, WorkKept DEF RegistryInv
  <2>2. ~spoiled' => Clean'
    BY CleanKept, SpoiledLasts DEF RegistryInv
  <2> QED
    BY <2>1, <2>2 DEF RegistryInv
<1>3. RegistryInv => InstalledIsThere
  BY DEF RegistryInv, Clean, ListedAreThere, InstalledIsThere
<1> QED
  BY <1>1, <1>2, <1>3, PTL DEF RegistrySpec

-----------------------------------------------------------------------------
(* The fleet policy.                                                       *)

(* What a goroutine of Sync works on: it has fetched a bundle, beyond the  *)
(* checks one that is not for another fleet and is signed unless a check   *)
(* was skipped, and beyond the executor one whose rules were executed.     *)
Fetched == \A s \in Syncs : syncing[s] # "idle" => bundle[s] \in Bundles

Checked ==
    \A s \in Syncs :
        syncing[s] \in {"apply", "remember", "save"} =>
            bundle[s].fleet # "other" /\ (bundle[s].signed \/ skipped)

Executed ==
    \A s \in Syncs :
        syncing[s] \in {"remember", "save"} => bundle[s] \in applied

(* A step of one goroutine moves none of the others.                       *)
LEMMA OthersDoNotProceed ==
    ASSUME FleetTypeOK, NEW s \in Syncs, NEW from, NEW to,
           Proceeds(s, from, to)
    PROVE  /\ syncing[s] = from /\ syncing'[s] = to
           /\ \A t \in Syncs \ {s} : syncing'[t] = syncing[t]
BY DEF Proceeds, FleetTypeOK

LEMMA FleetTypeKept ==
    ASSUME FleetTypeOK, Fetched, [FleetNext]_fleetvars
    PROVE  FleetTypeOK'
<1> USE BundlesAssumption DEF FleetTypeOK
<1>1. ASSUME NEW s \in Syncs, FetchBundle(s) PROVE FleetTypeOK'
  BY <1>1 DEF FetchBundle, Proceeds
<1>2. ASSUME NEW s \in Syncs, VerifyBundle(s) PROVE FleetTypeOK'
  BY <1>2 DEF VerifyBundle, Proceeds
<1>3. ASSUME NEW s \in Syncs, ApplyBundle(s) PROVE FleetTypeOK'
  BY <1>3 DEF ApplyBundle, Proceeds, Fetched
<1>4. ASSUME NEW s \in Syncs, Remember(s) PROVE FleetTypeOK'
  BY <1>4 DEF Remember, Proceeds
<1>5. ASSUME NEW s \in Syncs, SaveBundle(s) PROVE FleetTypeOK'
  BY <1>5 DEF SaveBundle, Proceeds
<1>6. CASE NewFleetSync
  BY <1>6 DEF NewFleetSync, DeriveFleetID
<1>7. CASE KeyringChanges
  BY <1>7 DEF KeyringChanges
<1>8. CASE UNCHANGED fleetvars
  BY <1>8 DEF fleetvars
<1> QED
  BY <1>1, <1>2, <1>3, <1>4, <1>5, <1>6, <1>7, <1>8 DEF FleetNext, Sync

LEMMA FetchedKept ==
    ASSUME FleetTypeOK, Fetched, [FleetNext]_fleetvars
    PROVE  Fetched'
<1>1. ASSUME NEW s \in Syncs, FetchBundle(s) PROVE Fetched'
  BY <1>1, OthersDoNotProceed DEF FetchBundle, Fetched, FleetTypeOK
<1>2. ASSUME NEW s \in Syncs,
             \/ VerifyBundle(s) \/ ApplyBundle(s)
             \/ Remember(s) \/ SaveBundle(s)
      PROVE  Fetched'
  <2>1. syncing[s] # "idle" /\ bundle' = bundle
    BY <1>2 DEF VerifyBundle, ApplyBundle, Remember, SaveBundle, Proceeds
  <2>2. \A t \in Syncs \ {s} : syncing'[t] = syncing[t]
    BY <1>2, OthersDoNotProceed
       DEF VerifyBundle, ApplyBundle, Remember, SaveBundle
  <2> QED
    BY <2>1, <2>2 DEF Fetched
<1>3. CASE NewFleetSync
  BY <1>3 DEF NewFleetSync, Fetched
<1>4. CASE KeyringChanges \/ UNCHANGED fleetvars
  BY <1>4 DEF KeyringChanges, fleetvars, Fetched
<1> QED
  BY <1>1, <1>2, <1>3, <1>4 DEF FleetNext, Sync

LEMMA CheckedKept ==
    ASSUME FleetTypeOK, Checked, [FleetNext]_fleetvars
    PROVE  Checked'
<1>1. ASSUME NEW s \in Syncs, FetchBundle(s) PROVE Checked'
  <2>1. /\ syncing'[s] = "verify"
        /\ \A t \in Syncs \ {s} : syncing'[t] = syncing[t]
    BY <1>1, OthersDoNotProceed DEF FetchBundle
  <2>2. /\ \A t \in Syncs \ {s} : bundle'[t] = bundle[t]
        /\ skipped' = skipped
    BY <1>1 DEF FetchBundle, FleetTypeOK
  <2> QED
    BY <2>1, <2>2 DEF Checked
<1>2. ASSUME NEW s \in Syncs, VerifyBundle(s) PROVE Checked'
  <2>1. /\ \A t \in Syncs \ {s} : syncing'[t] = syncing[t]
        /\ syncing'[s] \in {"apply", "idle"}
        /\ syncing'[s] = "apply" =>
              IsOurs(bundle[s]) /\ (keyring => bundle[s].signed)
    BY <1>2, OthersDoNotProceed DEF VerifyBundle
  <2>2. bundle' = bundle /\ skipped' = (skipped \/ ~keyring)
    BY <1>2 DEF VerifyBundle
  <2> QED
    BY <2>1, <2>2 DEF Checked, IsOurs, FleetTypeOK
<1>3. ASSUME NEW s \in Syncs, ApplyBundle(s) \/ Remember(s) \/ SaveBundle(s)
      PROVE  Checked'
  <2>1. /\ syncing[s] \in {"apply", "remember", "save"}
        /\ \A t \in Syncs \ {s} : syncing'[t] = syncing[t]
    BY <1>3, OthersDoNotProceed DEF ApplyBundle, Remember, SaveBundle
  <2>2. UNCHANGED <<bundle, skipped>>
    BY <1>3 DEF ApplyBundle, Remember, SaveBundle
  <2> QED
    BY <2>1, <2>2 DEF Checked
<1>4. CASE NewFleetSync
  BY <1>4 DEF NewFleetSync, Checked
<1>5. CASE KeyringChanges \/ UNCHANGED fleetvars
  BY <1>5 DEF KeyringChanges, fleetvars, Checked
<1> QED
  BY <1>1, <1>2, <1>3, <1>4, <1>5 DEF FleetNext, Sync

LEMMA ExecutedKept ==
    ASSUME FleetTypeOK, Executed, [FleetNext]_fleetvars
    PROVE  Executed'
<1>1. ASSUME NEW s \in Syncs, FetchBundle(s) PROVE Executed'
  <2>1. /\ syncing'[s] = "verify"
        /\ \A t \in Syncs \ {s} : syncing'[t] = syncing[t]
    BY <1>1, OthersDoNotProceed DEF FetchBundle
  <2>2. /\ \A t \in Syncs \ {s} : bundle'[t] = bundle[t]
        /\ applied' = applied
    BY <1>1 DEF FetchBundle, FleetTypeOK
  <2> QED
    BY <2>1, <2>2 DEF Executed
<1>2. ASSUME NEW s \in Syncs,
             VerifyBundle(s) \/ ApplyBundle(s) \/ Remember(s) \/ SaveBundle(s)
      PROVE  Executed'
  <2>1. \/ syncing'[s] \in {"apply", "idle"}
        \/ bundle[s] \in applied'
        \/ syncing[s] \in {"remember", "save"}
    BY <1>2, OthersDoNotProceed
       DEF VerifyBundle, ApplyBundle, Remember, SaveBundle
  <2>2. /\ \A t \in Syncs \ {s} : syncing'[t] = syncing[t]
        /\ bundle' = bundle /\ applied \subseteq applied'
    BY <1>2, OthersDoNotProceed
       DEF VerifyBundle, ApplyBundle, Remember, SaveBundle
  <2> QED
    BY <2>1, <2>2 DEF Executed
<1>3. CASE NewFleetSync
  BY <1>3 DEF NewFleetSync, Executed
<1>4. CASE KeyringChanges \/ UNCHANGED fleetvars
  BY <1>4 DEF KeyringChanges, fleetvars, Executed
<1> QED
  BY <1>1, <1>2, <1>3, <1>4 DEF FleetNext, Sync

(* What was executed stays executed, and a check that was skipped skipped. *)
LEMMA AppliedStays ==
    ASSUME FleetTypeOK, [FleetNext]_fleetvars
    PROVE  applied \subseteq applied' /\ (skipped => skipped')
<1>1. ASSUME NEW s \in Syncs, FetchBundle(s) \/ VerifyBundle(s)
      PROVE  applied' = applied /\ (skipped => skipped')
  BY <1>1 DEF FetchBundle, VerifyBundle, FleetTypeOK
<1>2. ASSUME NEW s \in Syncs, ApplyBundle(s) \/ Remember(s) \/ SaveBundle(s)
      PROVE  applied \subseteq applied' /\ skipped' = skipped
  BY <1>2 DEF ApplyBundle, Remember, SaveBundle
<1>3. CASE NewFleetSync \/ KeyringChanges \/ UNCHANGED fleetvars
  BY <1>3 DEF NewFleetSync, KeyringChanges, fleetvars
<1> QED
  BY <1>1, <1>2, <1>3 DEF FleetNext, Sync

LEMMA FleetStarts ==
    FleetInit =>
        FleetTypeOK /\ Fetched /\ Checked /\ Executed /\ PolicyWasApplied
<1> SUFFICES ASSUME FleetInit
             PROVE  /\ FleetTypeOK
                    /\ Fetched /\ Checked /\ Executed /\ PolicyWasApplied
  OBVIOUS
<1>1. FleetTypeOK
  <2>1. /\ syncing \in
              [Syncs -> {"idle", "verify", "apply", "remember", "save"}]
        /\ bundle \in [Syncs -> {NoBundle} \cup Bundles]
    BY DEF FleetInit
  <2>2. {keyring, skipped} \subseteq BOOLEAN
    BY DEF FleetInit
  <2>3. fleetCrashes \in 0..MaxFleetCrashes
    BY BundlesAssumption DEF FleetInit
  <2> QED
    BY <2>1, <2>2, <2>3 DEF FleetInit, FleetTypeOK
<1>2. \A s \in Syncs : syncing[s] = "idle"
  BY DEF FleetInit
<1>3. PolicyWasApplied
  BY DEF FleetInit, PolicyWasApplied
<1> QED
  BY <1>1, <1>2, <1>3 DEF Fetched, Checked, Executed

(* The variables of Sync keep their types; a bundle is only executed once  *)
(* fetched, which the type of applied depends on.                          *)
THEOREM FleetTypeCorrect == FleetSpec => []FleetTypeOK
<1> DEFINE Kept == FleetTypeOK /\ Fetched
<1>1. FleetInit => Kept
  BY FleetStarts
<1>2. Kept /\ [FleetNext]_fleetvars => Kept'
  BY FleetTypeKept, FetchedKept
<1> QED
  BY <1>1, <1>2, PTL DEF FleetSpec

(* sync.go remembers and caches a bundle long after it was checked, with   *)
(* other syncs, a keyring that comes and goes and deaths of the daemon in  *)
(* between: it is still one that was executed, and no other fleet's.       *)
THEOREM RememberedPolicyWasApplied == FleetSpec => []PolicyWasApplied
<1> DEFINE Kept == Checked /\ Executed /\ PolicyWasApplied
<1>1. FleetInit => Kept
  BY FleetStarts
<1>2. FleetTypeOK /\ Kept /\ [FleetNext]_fleetvars => Kept'
  <2> SUFFICES ASSUME FleetTypeOK, Checked, Executed, PolicyWasApplied,
                      [FleetNext]_fleetvars
               PROVE  Kept'
    OBVIOUS
  <2>1. applied \subseteq applied' /\ (skipped => skipped')
    BY AppliedStays
  <2>2. ASSUME NEW s \in Syncs, Remember(s) \/ SaveBundle(s)
        PROVE  PolicyWasApplied'
    <3>1. syncing[s] \in {"remember", "save"}
      BY <2>2 DEF Remember, SaveBundle, Proceeds
    <3>2. {lastBundle, cached}' \subseteq {lastBundle, cached, bundle[s]}
      BY <2>2 DEF Remember, SaveBundle
    <3> QED
      BY <2>1, <3>1, <3>2 DEF PolicyWasApplied, Checked, Executed
  <2>3. ASSUME UNCHANGED <<lastBundle, cached>>
        PROVE  PolicyWasApplied'
    BY <2>1, <2>3 DEF PolicyWasApplied
  <2>4. ASSUME NewFleetSync
        PROVE  PolicyWasApplied'
    BY <2>1, <2>4 DEF NewFleetSync, PolicyWasApplied
  <2>5. PolicyWasApplied'
    BY <2>2, <2>3, <2>4
       DEF FleetNext, Sync, FetchBundle, VerifyBundle, ApplyBundle,
           KeyringChanges, fleetvars
  <2> QED
    BY <2>5, CheckedKept, ExecutedKept
<1> QED
  BY <1>1, <1>2, FleetTypeCorrect, PTL DEF FleetSpec

-----------------------------------------------------------------------------
(* The guard against real-time priorities.                                 *)

(* The guard's maps hold PIDs, and so does what it walks through.          *)
THEOREM RTTypeCorrect == RTSpec => []RTTypeOK
<1> USE DEF RTTypeOK
<1>1. RTInit => RTTypeOK
  BY DEF RTInit
<1>2. RTTypeOK /\ [RTNext]_rtvars => RTTypeOK'
  <2> SUFFICES ASSUME RTTypeOK, [RTNext]_rtvars PROVE RTTypeOK'
    OBVIOUS
  <2>1. CASE Scan
    BY <2>1 DEF Scan, EnforceRTBudget, StillDemoted
  <2>2. CASE ScanFails
    BY <2>2 DEF ScanFails, EnforceRTBudget
  <2>3. ASSUME NEW p \in PIDs, Demote(p) PROVE RTTypeOK'
    BY <2>3 DEF Demote
  <2>4. ASSUME NEW p \in PIDs, Raises(p) \/ Leaves(p) PROVE RTTypeOK'
    BY <2>4 DEF Raises, Leaves
  <2>5. ASSUME NEW p \in PIDs, ExitsAndReuses(p) PROVE RTTypeOK'
    BY <2>5 DEF ExitsAndReuses
  <2>6. CASE BudgetChanges \/ NewRTGuard
    BY <2>6 DEF BudgetChanges, NewRTGuard, EnforceRTBudget
  <2>7. CASE UNCHANGED rtvars
    BY <2>7 DEF rtvars
  <2> QED
    BY <2>1, <2>2, <2>3, <2>4, <2>5, <2>6, <2>7 DEF RTNext
<1> QED
  BY <1>1, <1>2, PTL DEF RTSpec

(* rt_guard.go's gcMaps walks the alerted only: whom it has demoted is     *)
(* among them, whatever came and went while it was demoting.               *)
THEOREM DemotionsAreForgotten == RTSpec => []DemotionIsForgotten
<1> USE DEF DemotionIsForgotten
<1>1. RTInit => DemotionIsForgotten
  BY DEF RTInit
<1>2. DemotionIsForgotten /\ [RTNext]_rtvars => DemotionIsForgotten'
  <2> SUFFICES ASSUME DemotionIsForgotten, [RTNext]_rtvars
               PROVE  DemotionIsForgotten'
    OBVIOUS
  <2>1. CASE Scan
    <3>1. PICK scan \in SUBSET rt :
            /\ alerted' = (alerted \cap scan) \cup (scan \ listed)
            /\ demoted' = StillDemoted(scan)
            /\ found' = scan \ (listed \cup demoted')
      BY <2>1 DEF Scan
    <3>2. demoted' \subseteq alerted \cap scan
      BY <3>1 DEF StillDemoted
    <3> QED
      BY <3>1, <3>2
  <2>2. ASSUME NEW p \in PIDs, Demote(p) PROVE DemotionIsForgotten'
    BY <2>2 DEF Demote
  <2>3. CASE NewRTGuard
    BY <2>3 DEF NewRTGuard
  <2>4. CASE UNCHANGED <<alerted, demoted, found>>
    BY <2>4
  <2>5. \/ Scan \/ NewRTGuard \/ \E p \in PIDs : Demote(p)
        \/ UNCHANGED <<alerted, demoted, found>>
    BY DEF RTNext, ScanFails, Raises, Leaves, ExitsAndReuses, BudgetChanges,
           rtvars
  <2> QED
    BY <2>1, <2>2, <2>3, <2>4, <2>5
<1> QED
  BY <1>1, <1>2, PTL DEF RTSpec

=============================================================================
