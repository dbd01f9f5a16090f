-------------------------- MODULE DashboardProofs ---------------------------
(***************************************************************************)
(* Proofs about the dashboard with all of its handlers together, for any   *)
(* number of requests, sessions, failed writes and crashes, and that they  *)
(* hold of what MCDashboard runs of it.                                    *)
(***************************************************************************)
EXTENDS MCDashboard, TLAPS

USE ControlPlaneAssumption, DashboardAssumption

-----------------------------------------------------------------------------
(* What the operations of the manager keep: the types, and the file being  *)
(* the cache unless the last write failed.                                 *)
CPInv == CPTypeOK /\ FileIsCurrent

LEMMA DefaultType == Default \in SystemStates
BY DEF Default, SystemStates, Modes, Postures, Facts

LEMMA LoadedType ==
    ASSUME CPTypeOK
    PROVE  /\ Loaded \in SystemStates
           /\ LoadedFile \in SystemStates \cup {NoFile}
BY DefaultType DEF CPTypeOK, Loaded, LoadedFile, Stored

LEMMA LoadFailsKeeps ==
    ASSUME CPInv, LoadFails
    PROVE  CPInv' /\ cached' = Default
BY DefaultType DEF CPInv, CPTypeOK, FileIsCurrent, LoadFails, WriteFails

LEMMA GetSnapshotKeeps ==
    ASSUME CPInv, NEW res \in Results, GetSnapshot(res)
    PROVE  CPInv' /\ cached' \in SystemStates
<1>1. CASE res = "ok"
  BY <1>1, LoadedType
     DEF GetSnapshot, CPInv, CPTypeOK, FileIsCurrent, Loaded, LoadedFile
<1>2. CASE res # "ok"
  BY <1>2, LoadFailsKeeps, DefaultType DEF GetSnapshot
<1> QED
  BY <1>1, <1>2

LEMMA UpdateKeeps ==
    ASSUME CPInv, NEW s \in SystemStates, NEW res \in Results, Update(s, res)
    PROVE  /\ CPInv'
           /\ cached' \in SystemStates
           /\ res = "ok" => cached' = s
           /\ cached # NotLoaded => cached' = s
<1>1. CASE LoadFails
  BY <1>1, LoadFailsKeeps, DefaultType DEF Update, LoadFails
<1>2. CASE ~LoadFails /\ res = "ok"
  BY <1>2 DEF Update, CPInv, CPTypeOK, FileIsCurrent
<1>3. CASE ~LoadFails /\ res # "ok"
  <2>1. cached' = s /\ file' = LoadedFile /\ WriteFails
    BY <1>3 DEF Update
  <2>2. LoadedFile \in SystemStates \cup {NoFile}
    BY LoadedType DEF CPInv
  <2> QED
    BY <1>3, <2>1, <2>2 DEF CPInv, CPTypeOK, FileIsCurrent, WriteFails
<1> QED
  BY <1>1, <1>2, <1>3

LEMMA TransitionModeKeeps ==
    ASSUME CPInv, NEW to \in Modes, NEW res \in Results,
           TransitionMode(to, res)
    PROVE  CPInv' /\ cached' \in SystemStates
<1> DEFINE s == [Loaded EXCEPT !.mode = to]
<1>1. s \in SystemStates
  BY LoadedType DEF CPInv, SystemStates
<1>2. CASE Update(s, res)
  BY <1>1, <1>2, UpdateKeeps
<1>3. CASE LoadFails
  BY <1>3, LoadFailsKeeps, DefaultType
<1>4. CASE cached' = Loaded /\ file' = LoadedFile /\ UNCHANGED <<stale, faults>>
  BY <1>4, LoadedType DEF CPInv, CPTypeOK, FileIsCurrent, Loaded, LoadedFile
<1> QED
  BY <1>2, <1>3, <1>4 DEF TransitionMode

LEMMA SetVaultMountedKeeps ==
    ASSUME CPInv, NEW mounted \in BOOLEAN, NEW res \in Results,
           SetVaultMounted(mounted, res)
    PROVE  CPInv' /\ cached' \in SystemStates
<1> DEFINE mode == ModeAfterVault(Loaded.mode, mounted)
           s == [Loaded EXCEPT !.vault = mounted, !.mode = mode]
<1>1. Loaded \in SystemStates
  BY LoadedType DEF CPInv
<1>2. mode \in Modes
  BY <1>1 DEF ModeAfterVault, SystemStates, Modes, Postures
<1>3. s \in SystemStates
  BY <1>1, <1>2 DEF SystemStates
<1> QED
  BY <1>3, UpdateKeeps DEF SetVaultMounted

LEMMA SetFactsKeeps ==
    ASSUME CPInv, NEW what \in Facts, NEW res \in Results, SetFacts(what, res)
    PROVE  CPInv' /\ cached' \in SystemStates
<1>1. [Loaded EXCEPT !.facts = what] \in SystemStates
  BY LoadedType DEF CPInv, SystemStates
<1> QED
  BY <1>1, UpdateKeeps DEF SetFacts

LEMMA UnchangedKeeps ==
    ASSUME CPInv, UNCHANGED cpvars
    PROVE  CPInv'
BY DEF CPInv, CPTypeOK, FileIsCurrent, cpvars

-----------------------------------------------------------------------------
(* What the pieces handlers are made of keep: types and current files.     *)
Locals  == [at : Steps, prev : Modes, sess : Sessions \cup {NoSession}]
ReqType == req \in [Requests -> Locals]
LabType ==
    /\ lock \in Sessions \cup {NoSession}
    /\ unit \in [Sessions -> UnitStates]
    /\ disturbed \in BOOLEAN

Inv == CPInv /\ ReqType /\ LabType /\ crashes \in 0..MaxCrashes

LEMMA InvIsTypesAndFile == Inv <=> TypeOK /\ FileIsCurrent
BY DEF Inv, CPInv, ReqType, LabType, Locals, TypeOK

LEMMA IdleType == Idle \in Locals
BY DEF Idle, Locals, Steps, Modes, Postures

LEMMA GotoType ==
    ASSUME ReqType, NEW r \in Requests, NEW step \in Steps, Goto(r, step)
    PROVE  ReqType'
<1>1. [req[r] EXCEPT !.at = step] \in Locals
  BY DEF ReqType, Locals
<1> QED
  BY <1>1, IdleType DEF Goto, ReqType

LEMMA LabUnchanged ==
    ASSUME LabType, UNCHANGED labvars
    PROVE  LabType'
BY DEF LabType, labvars

LEMMA CheckKeeps ==
    ASSUME Inv, NEW r \in Requests, NEW forbidden, NEW step \in Steps,
           Check(r, forbidden, step), LabType'
    PROVE  Inv'
<1>1. PICK res \in Results :
        /\ GetSnapshot(res)
        /\ req' = IF res = "ok" /\ Loaded.mode \notin forbidden
                  THEN [req EXCEPT ![r].at = step, ![r].prev = Loaded.mode]
                  ELSE req
  BY DEF Check
<1>2. CPInv'
  BY <1>1, GetSnapshotKeeps DEF Inv
<1>3. Loaded.mode \in Modes
  BY LoadedType DEF Inv, CPInv, SystemStates
<1>4. ReqType'
  BY <1>1, <1>3 DEF Inv, ReqType, Locals
<1> QED
  BY <1>2, <1>4 DEF Inv, Check

LEMMA SetKeeps ==
    ASSUME Inv, NEW r \in Requests, NEW from, NEW mode \in Modes,
           NEW ok \in Steps, NEW otherwise \in Steps,
           Set(r, from, mode, ok, otherwise)
    PROVE  Inv'
<1>1. CPInv'
  BY TransitionModeKeeps DEF Set, Inv
<1>2. ReqType'
  BY GotoType DEF Set, Moves, Inv
<1> QED
  BY <1>1, <1>2, LabUnchanged DEF Set, Inv

LEMMA NoteKeeps ==
    ASSUME Inv, NEW r \in Requests, NEW from, NEW what \in Facts,
           NEW step \in Steps, Note(r, from, what, step)
    PROVE  Inv'
BY SetFactsKeeps, GotoType, LabUnchanged DEF Note, Moves, Inv

LEMMA ScriptKeeps ==
    ASSUME Inv, NEW r \in Requests, NEW from, NEW outcomes \in SUBSET Steps,
           Script(r, from, outcomes)
    PROVE  Inv'
BY UnchangedKeeps, GotoType, LabUnchanged DEF Script, Moves, Inv

LEMMA PrevType ==
    ASSUME Inv, NEW r \in Requests
    PROVE  req[r].prev \in Modes /\ req[r].sess \in Sessions \cup {NoSession}
BY DEF Inv, ReqType, Locals

-----------------------------------------------------------------------------
(* The handlers, one group at a time.                                      *)

LEMMA PrepareKeeps ==
    ASSUME Inv, NEW r \in Requests, PrepareStep(r)
    PROVE  Inv'
<1> USE DEF Steps, Modes, Lifecycles
<1>1. CASE Prepare(r)
  BY <1>1, CheckKeeps, LabUnchanged DEF Prepare, Inv
<1>2. CASE PrepareBegin(r)
  BY <1>2, SetKeeps DEF PrepareBegin
<1>3. CASE PrepareScript(r)
  BY <1>3, ScriptKeeps DEF PrepareScript
<1>4. CASE PrepareFacts(r)
  BY <1>4, NoteKeeps DEF PrepareFacts, Facts
<1>5. CASE PreparePending(r)
  BY <1>5, SetKeeps DEF PreparePending
<1>6. CASE PrepareRevert(r)
  BY <1>6, SetKeeps, PrevType DEF PrepareRevert
<1> QED
  BY <1>1, <1>2, <1>3, <1>4, <1>5, <1>6 DEF PrepareStep

LEMMA ApplyKeeps ==
    ASSUME Inv, NEW r \in Requests, ApplyStep(r)
    PROVE  Inv'
<1> USE DEF Steps, Modes, Lifecycles
<1>1. CASE Apply(r)
  BY <1>1, CheckKeeps, LabUnchanged DEF Apply, Inv
<1>2. CASE ApplyScript(r)
  BY <1>2, ScriptKeeps DEF ApplyScript
<1>3. CASE ApplyFacts(r)
  BY <1>3, NoteKeeps DEF ApplyFacts, Facts
<1>4. CASE ApplyPending(r)
  BY <1>4, SetKeeps DEF ApplyPending
<1>5. CASE ApplyRevert(r)
  BY <1>5, SetKeeps, PrevType DEF ApplyRevert
<1> QED
  BY <1>1, <1>2, <1>3, <1>4, <1>5 DEF ApplyStep

LEMMA RollbackKeeps ==
    ASSUME Inv, NEW r \in Requests, RollbackStep(r)
    PROVE  Inv'
<1> USE DEF Steps, Modes, Lifecycles
<1>1. CASE Rollback(r)
  BY <1>1, CheckKeeps, LabUnchanged DEF Rollback, Inv
<1>2. CASE RollbackBegin(r)
  BY <1>2, SetKeeps DEF RollbackBegin
<1>3. CASE RollbackScript(r)
  BY <1>3, ScriptKeeps DEF RollbackScript
<1>4. CASE RollbackFacts(r)
  BY <1>4, NoteKeeps DEF RollbackFacts, Facts
<1>5. CASE RollbackRevert(r)
  BY <1>5, SetKeeps, PrevType DEF RollbackRevert
<1> QED
  BY <1>1, <1>2, <1>3, <1>4, <1>5 DEF RollbackStep

LEMMA ValidateKeeps ==
    ASSUME Inv, NEW r \in Requests, ValidateStep(r)
    PROVE  Inv'
<1> USE DEF Steps, Modes, Lifecycles, Postures
<1>1. CASE Validate(r)
  BY <1>1, ScriptKeeps DEF Validate
<1>2. CASE ValidateScript(r)
  <2>1. CASE Goto(r, "idle")
    BY <1>2, <2>1, GotoType, UnchangedKeeps, LabUnchanged
       DEF ValidateScript, Inv
  <2>2. ASSUME NEW verdict \in {"normal", "rollback-mode"},
               req' = [req EXCEPT ![r].at = "validate.kernel",
                                  ![r].prev = verdict]
        PROVE  Inv'
    <3>1. ReqType'
      <4>1. [req[r] EXCEPT !.at = "validate.kernel", !.prev = verdict] \in Locals
        BY ZenonT(40), <2>2 DEF Inv, ReqType, Locals
      <4>2. req' = [req EXCEPT ![r] = [req[r] EXCEPT !.at = "validate.kernel",
                                                     !.prev = verdict]]
        BY <2>2 DEF Inv, ReqType
      <4> QED
        BY <4>1, <4>2 DEF Inv, ReqType
    <3> QED
      BY <1>2, <3>1, UnchangedKeeps, LabUnchanged DEF ValidateScript, Inv
  <2> QED
    BY <1>2, <2>1, <2>2 DEF ValidateScript
<1>3. CASE ValidateKernel(r)
  BY <1>3, NoteKeeps DEF ValidateKernel, Facts
<1>4. CASE ValidateMode(r)
  BY <1>4, SetKeeps, PrevType DEF ValidateMode
<1> QED
  BY <1>1, <1>2, <1>3, <1>4 DEF ValidateStep

LEMMA SystemModeKeeps ==
    ASSUME Inv, NEW r \in Requests, SystemMode(r) \/ SystemModeSet(r)
    PROVE  Inv'
<1> USE DEF Steps, Modes, Lifecycles, Postures
<1>1. CASE SystemMode(r)
  BY <1>1, CheckKeeps, LabUnchanged DEF SystemMode, Inv
<1>2. CASE SystemModeSet(r)
  BY <1>2, SetKeeps DEF SystemModeSet
<1> QED
  BY <1>1, <1>2

LEMMA VaultKeeps ==
    ASSUME Inv, NEW r \in Requests, VaultStep(r)
    PROVE  Inv'
<1> USE DEF Steps
<1>1. CASE VaultMount(r)
  BY <1>1, CheckKeeps, LabUnchanged DEF VaultMount, Inv
<1>2. CASE VaultMountScript(r)
  BY <1>2, ScriptKeeps DEF VaultMountScript
<1>3. CASE VaultLock(r)
  BY <1>3, ScriptKeeps DEF VaultLock
<1>4. CASE VaultLockScript(r)
  BY <1>4, ScriptKeeps DEF VaultLockScript
<1>5. CASE VaultSet(r)
  <2>1. CPInv'
    BY <1>5, SetVaultMountedKeeps DEF VaultSet, Inv
  <2>2. ReqType'
    BY <1>5, GotoType DEF VaultSet, Moves, Inv
  <2> QED
    BY <1>5, <2>1, <2>2, LabUnchanged DEF VaultSet, Inv
<1> QED
  BY <1>1, <1>2, <1>3, <1>4, <1>5 DEF VaultStep

(* A step of the lab that leaves the manager alone, or asks it something.  *)
LEMMA LabStepKeeps ==
    ASSUME Inv, NEW r \in Requests, CPInv', LabType', UNCHANGED crashes,
           NEW step \in Steps, NEW s \in Sessions \cup {NoSession},
           \/ Goto(r, step)
           \/ req' = [req EXCEPT ![r].at = step, ![r].sess = s]
    PROVE  Inv'
<1>1. CASE Goto(r, step)
  BY <1>1, GotoType DEF Inv
<1>2. CASE req' = [req EXCEPT ![r].at = step, ![r].sess = s]
  BY <1>2 DEF Inv, ReqType, Locals
<1> QED
  BY <1>1, <1>2

LEMMA LabStartKeeps ==
    ASSUME Inv, NEW r \in Requests, LabStartStep(r)
    PROVE  Inv'
<1> USE DEF Steps, LabSteps
<1> DEFINE s == req[r].sess
<1>0. LabType /\ s \in Sessions \cup {NoSession}
  BY PrevType DEF Inv
<1>1. CASE LabStart(r)
  <2>1. LabType'
    BY <1>0, <1>1 DEF LabStart, Overlaps, LabBusy, LabType
  <2> QED
    BY <1>1, <2>1, CheckKeeps DEF LabStart
<1>2. CASE LabCheck(r)
  <2>1. CPInv' /\ UNCHANGED <<lock, crashes>>
    BY SMTT(30), <1>2, UnchangedKeeps DEF LabCheck, Inv
  <2>2. CASE Goto(r, "idle") /\ UNCHANGED <<unit, disturbed>>
    BY <1>0, <2>1, <2>2, LabStepKeeps DEF LabType
  <2>3. ASSUME NEW t \in Sessions, NamesSession(r, t), Disturbs(Active(lock))
        PROVE  Inv'
    <3>1. LabType'
      BY SMTT(30), <1>0, <2>1, <2>3
         DEF NamesSession, Disturbs, Active, LabType, UnitStates
    <3> QED
      BY <2>1, <2>3, <3>1, LabStepKeeps DEF NamesSession
  <2> QED
    BY <1>2, <2>2, <2>3 DEF LabCheck
<1>3. CASE LabWrite(r)
  <2>1. LabType'
    BY <1>0, <1>3 DEF LabWrite, LabType
  <2> QED
    BY <1>0, <1>3, <2>1, UnchangedKeeps, LabStepKeeps DEF LabWrite, Moves, Inv
<1>4. CASE LabMode(r)
  BY SMTT(30), <1>4, SetKeeps DEF LabMode, Modes, Postures
<1>5. CASE LabRun(r)
  <2>1. LabType'
    BY <1>0, <1>5 DEF LabRun, Disturbs, LabType, UnitStates
  <2> QED
    BY <1>0, <1>5, <2>1, UnchangedKeeps, LabStepKeeps DEF LabRun, Moves, Inv
<1>6. CASE RemoveLock(r)
  <2>1. LabType'
    BY <1>0, <1>6 DEF RemoveLock, LabType
  <2> QED
    BY <1>0, <1>6, <2>1, UnchangedKeeps, LabStepKeeps DEF RemoveLock, Moves, Inv
<1>7. CASE LabRevert(r)
  BY <1>7, SetKeeps, PrevType DEF LabRevert
<1> QED
  BY <1>1, <1>2, <1>3, <1>4, <1>5, <1>6, <1>7 DEF LabStartStep

LEMMA ReadLockKeeps ==
    ASSUME Inv, NEW r \in Requests, NEW step \in Steps, ReadLock(r, step)
    PROVE  Inv'
<1>1. LabType'
  BY DEF Inv, ReadLock, Overlaps, LabBusy, LabType
<1>2. lock \in Sessions \cup {NoSession}
  BY DEF Inv, LabType
<1> QED
  BY <1>1, <1>2, UnchangedKeeps, LabStepKeeps DEF ReadLock, Inv

LEMMA LabOtherKeeps ==
    ASSUME Inv, NEW r \in Requests, LabOtherStep(r)
    PROVE  Inv'
<1> USE DEF Steps, LabSteps
<1>0. LabType /\ req[r].sess \in Sessions \cup {NoSession}
  BY PrevType DEF Inv
<1>1. CASE LabStop(r) \/ LabStatus(r)
  BY SMTT(30), <1>1, ReadLockKeeps DEF LabStop, LabStatus
<1>2. CASE StopScript(r)
  <2>1. LabType'
    BY <1>0, <1>2 DEF StopScript, LabType, UnitStates
  <2> QED
    BY <1>0, <1>2, <2>1, UnchangedKeeps, LabStepKeeps DEF StopScript, Moves, Inv
<1>3. CASE StopWait(r)
  <2>1. LabType'
    BY <1>0, <1>3 DEF StopWait, Disturbs, LabType
  <2> QED
    BY <1>0, <1>3, <2>1, UnchangedKeeps, LabStepKeeps DEF StopWait, Moves, Inv
<1>4. CASE StopMode(r)
  <2>1. CPInv'
    BY <1>4, GetSnapshotKeeps DEF StopMode, Inv
  <2> QED
    BY <1>0, <1>4, <2>1, LabUnchanged, LabStepKeeps DEF StopMode, Moves
<1>5. CASE StopNormal(r)
  BY SMTT(30), <1>5, SetKeeps DEF StopNormal, Modes, Postures
<1>6. CASE StatusCheck(r)
  <2>1. LabType'
    BY <1>0, <1>6 DEF StatusCheck, Disturbs, Active, LabType
  <2> QED
    BY <1>0, <1>6, <2>1, UnchangedKeeps, LabStepKeeps DEF StatusCheck, Moves, Inv
<1>7. CASE LabProfile(r)
  BY <1>7, ScriptKeeps DEF LabProfile
<1>8. CASE LabProfileSet(r)
  BY <1>8, NoteKeeps DEF LabProfileSet, Facts
<1> QED
  BY <1>1, <1>2, <1>3, <1>4, <1>5, <1>6, <1>7, <1>8 DEF LabOtherStep

-----------------------------------------------------------------------------
(* Units, crashes and restarts.                                            *)

LEMMA UnitKeeps ==
    ASSUME Inv, NEW s \in Sessions, UnitStep(s)
    PROVE  Inv'
<1>1. LabType'
  BY DEF Inv, UnitStep, UnitEnds, UnitCleans, UnitLeaves, UnitKilled, UnitMoves, LabType,
         UnitStates
<1>2. UNCHANGED <<cpvars, req, crashes>>
  BY DEF UnitStep, UnitEnds, UnitCleans, UnitLeaves, UnitKilled
<1> QED
  BY <1>1, <1>2, UnchangedKeeps DEF Inv, ReqType

LEMMA EndKeeps ==
    ASSUME Inv, Crash \/ Restart
    PROVE  Inv' /\ cached' = NotLoaded /\ req' = [r \in Requests |-> Idle]
<1>1. CPInv' /\ cached' = NotLoaded
  BY DEF Inv, CPInv, CPTypeOK, FileIsCurrent, Crash, Restart, Forget
<1>2. req' = [r \in Requests |-> Idle] /\ ReqType'
  BY IdleType DEF Crash, Restart, ReqType
<1>3. LabType'
  BY DEF Inv, LabType, Crash, Restart, Disturbs, LabBusy, UnitStates
<1>4. crashes' \in 0..MaxCrashes
  BY DEF Inv, Crash, Restart
<1> QED
  BY <1>1, <1>2, <1>3, <1>4 DEF Inv

LEMMA RebootKeeps ==
    ASSUME Inv, NEW r \in Requests, SystemReboot(r) \/ Reboot(r)
    PROVE  Inv'
<1> USE DEF Steps
<1>1. CASE SystemReboot(r)
  BY <1>1, CheckKeeps, LabUnchanged DEF SystemReboot, Inv
<1>2. CASE Reboot(r)
  BY <1>2, ScriptKeeps, EndKeeps DEF Reboot
<1> QED
  BY <1>1, <1>2

-----------------------------------------------------------------------------
LEMMA InvHolds == Spec => []Inv
<1>1. ASSUME Init
      PROVE  Inv
  <2>1. CPInv
    <3>1. cached = NotLoaded /\ file = NoFile /\ faults = 0
      BY <1>1 DEF Init, CPInit
    <3>2. stale \in BOOLEAN
      BY <1>1 DEF Init, CPInit
    <3> QED
      BY <3>1, <3>2 DEF CPInv, CPTypeOK, FileIsCurrent
  <2>2. ReqType
    BY <1>1, IdleType DEF Init, ReqType
  <2>3. disturbed \in BOOLEAN
    BY <1>1 DEF Init
  <2>4. LabType /\ crashes \in 0..MaxCrashes
    BY <1>1, <2>3 DEF Init, LabType, UnitStates
  <2> QED
    BY <2>1, <2>2, <2>4 DEF Inv
<1>2. Inv /\ [Next]_vars => Inv'
  <2> SUFFICES ASSUME Inv, [Next]_vars
               PROVE  Inv'
    OBVIOUS
  <2>1. CASE UNCHANGED vars
    BY <2>1, UnchangedKeeps, LabUnchanged DEF vars, Inv, ReqType
  <2>2. CASE Next
    BY <2>2, PrepareKeeps, ApplyKeeps, RollbackKeeps, ValidateKeeps,
       SystemModeKeeps, VaultKeeps, LabStartKeeps, LabOtherKeeps, UnitKeeps,
       EndKeeps, RebootKeeps
       DEF Next
  <2> QED
    BY <2>1, <2>2
<1> QED
  BY <1>1, <1>2, PTL DEF Spec

(* No variable leaves its type.                                            *)
THEOREM DashboardTypeCorrect == Spec => []TypeOK
<1>1. Inv => TypeOK
  BY InvIsTypesAndFile
<1> QED
  BY <1>1, InvHolds, PTL

(* Whatever handlers run at the same time, fail to write or are cut short  *)
(* by a crash: unless the last write failed, the file holds what the       *)
(* dashboard shows (persistLocked).                                        *)
THEOREM FileFollowsCache == Spec => []FileIsCurrent
<1>1. Inv => FileIsCurrent
  BY InvIsTypesAndFile
<1> QED
  BY <1>1, InvHolds, PTL

-----------------------------------------------------------------------------
(* Who moves a request: its own handler, or the end of the process.        *)
Own(r) == \A q \in Requests \ {r} : req'[q] = req[q]

HandlerStep(r) ==
    \/ PrepareStep(r) \/ ApplyStep(r) \/ RollbackStep(r) \/ ValidateStep(r)
    \/ SystemMode(r) \/ SystemModeSet(r) \/ VaultStep(r)
    \/ LabStartStep(r) \/ LabOtherStep(r)
    \/ SystemReboot(r) \/ Script(r, "reboot", {"idle"})

LEMMA GotoOwn ==
    ASSUME ReqType, NEW r \in Requests, NEW step, Goto(r, step)
    PROVE  Own(r)
BY DEF ReqType, Goto, Own

LEMMA PiecesOwn ==
    ASSUME ReqType, NEW r \in Requests
    PROVE  /\ \A f, s : Check(r, f, s) => Own(r) /\ At(r, "idle")
           /\ \A f, m, s, t : Set(r, f, m, s, t) => Own(r) /\ At(r, f)
           /\ \A f, w, s : Note(r, f, w, s) => Own(r) /\ At(r, f)
           /\ \A f, o : Script(r, f, o) => Own(r) /\ At(r, f)
           /\ \A f, s : Moves(r, f, s) => Own(r) /\ At(r, f)
           /\ \A s : ReadLock(r, s) => Own(r) /\ At(r, "idle")
<1>1. \A f, s : Moves(r, f, s) => Own(r) /\ At(r, f)
  BY GotoOwn DEF Moves
<1>2. \A f, s : Check(r, f, s) => Own(r) /\ At(r, "idle")
  BY DEF Check, ReqType, Own
<1>3. \A f, m, s, t : Set(r, f, m, s, t) => Own(r) /\ At(r, f)
  BY <1>1 DEF Set
<1>4. \A f, w, s : Note(r, f, w, s) => Own(r) /\ At(r, f)
  BY <1>1 DEF Note
<1>5. \A f, o : Script(r, f, o) => Own(r) /\ At(r, f)
  BY <1>1 DEF Script
<1>6. \A s : ReadLock(r, s) => Own(r) /\ At(r, "idle")
  BY DEF ReadLock, ReqType, Own
<1> QED
  BY <1>1, <1>2, <1>3, <1>4, <1>5, <1>6

(* A handler's step moves no other request, and at the points the guards   *)
(* of the next theorems are about it is the step of that point.            *)
LEMMA HandlerMoves ==
    ASSUME ReqType, NEW r \in Requests, HandlerStep(r)
    PROVE  /\ Own(r)
           /\ At(r, "prepare.begin") => PrepareBegin(r)
           /\ At(r, "lab.mode") => LabMode(r)
           /\ At(r, "validate.kernel") => ValidateKernel(r)
           /\ At(r, "validate.mode") => ValidateMode(r)
<1>1. CASE PrepareStep(r)
  BY <1>1, PiecesOwn DEF PrepareStep, Prepare, PrepareBegin, PrepareScript,
     PrepareFacts, PreparePending, PrepareRevert, At
<1>2. CASE ApplyStep(r)
  BY <1>2, PiecesOwn DEF ApplyStep, Apply, ApplyScript, ApplyFacts,
     ApplyPending, ApplyRevert, At
<1>3. CASE RollbackStep(r)
  BY <1>3, PiecesOwn DEF RollbackStep, Rollback, RollbackBegin,
     RollbackScript, RollbackFacts, RollbackRevert, At
<1>4. CASE ValidateStep(r)
  <2>1. CASE ValidateScript(r)
    BY <2>1, GotoOwn DEF ValidateScript, ReqType, Own, At
  <2> QED
    BY <1>4, <2>1, PiecesOwn
       DEF ValidateStep, Validate, ValidateKernel, ValidateMode, At
<1>5. CASE SystemMode(r) \/ SystemModeSet(r)
  BY <1>5, PiecesOwn DEF SystemMode, SystemModeSet, At
<1>6. CASE VaultStep(r)
  <2>1. CASE VaultSet(r)
    <3>1. Moves(r, "mount.set", "idle") \/ Moves(r, "lock.set", "idle")
      BY <2>1 DEF VaultSet
    <3> QED
      BY <3>1, PiecesOwn DEF At
  <2> QED
    BY <1>6, <2>1, PiecesOwn
       DEF VaultStep, VaultMount, VaultMountScript, VaultLock, VaultLockScript, At
<1>7. CASE LabStartStep(r)
  <2>1. CASE LabCheck(r)
    BY <2>1, GotoOwn DEF LabCheck, NamesSession, ReqType, Own, At
  <2> QED
    BY <1>7, <2>1, PiecesOwn DEF LabStartStep, LabStart, LabWrite, LabMode,
       LabRun, RemoveLock, LabRevert, At
<1>8. CASE LabOtherStep(r)
  BY <1>8, PiecesOwn DEF LabOtherStep, LabStop, StopScript, StopWait,
     StopMode, StopNormal, LabStatus, StatusCheck, LabProfile, LabProfileSet, At
<1>9. CASE SystemReboot(r) \/ Script(r, "reboot", {"idle"})
  BY <1>9, PiecesOwn DEF SystemReboot, At
<1> QED
  BY <1>1, <1>2, <1>3, <1>4, <1>5, <1>6, <1>7, <1>8, <1>9 DEF HandlerStep

LEMMA NextMoves ==
    ASSUME Inv, [Next]_vars
    PROVE  \/ UNCHANGED <<cpvars, req>>
           \/ \E r \in Requests : HandlerStep(r)
           \/ cached' = NotLoaded /\ req' = [r \in Requests |-> Idle]
<1>1. CASE Crash \/ Restart
  BY <1>1, EndKeeps
<1>2. ASSUME NEW s \in Sessions, UnitStep(s)
      PROVE  UNCHANGED <<cpvars, req>>
  BY <1>2 DEF UnitStep, UnitEnds, UnitCleans, UnitLeaves, UnitKilled
<1>3. ASSUME NEW r \in Requests, Reboot(r)
      PROVE  Restart \/ HandlerStep(r)
  BY <1>3 DEF Reboot, HandlerStep
<1>4. CASE UNCHANGED vars
  BY <1>4 DEF vars
<1> QED
  BY <1>1, <1>2, <1>3, <1>4 DEF Next, HandlerStep

LEMMA SetReaches ==
    ASSUME ReqType, NEW r \in Requests, NEW from, NEW mode, NEW ok,
           NEW otherwise, ok # otherwise, Set(r, from, mode, ok, otherwise),
           At(r, ok)'
    PROVE  TransitionMode(mode, "ok")
<1>1. PICK res \in Results :
        /\ TransitionMode(mode, res)
        /\ Goto(r, IF res = "ok" THEN ok ELSE otherwise)
  BY DEF Set, Moves
<1>2. res = "ok"
  BY <1>1 DEF Goto, At, ReqType, Locals, Idle
<1> QED
  BY <1>1, <1>2

(* However many prepares, rollbacks and validations pass their guards      *)
(* together: no update is prepared over a rollback or one that waits for   *)
(* its reboot, and no lab starts in rollback-mode (allowedTransitions).    *)
THEOREM GuardsHoldWhenSet == Spec => StaleGuardIsCaught
<1>1. ASSUME Inv, [Next]_vars, NEW r \in Requests
      PROVE  /\ At(r, "prepare.begin") /\ At(r, "prepare.script")' =>
                   Loaded.mode \notin {"rollback-mode", "update-pending-reboot"}
             /\ At(r, "lab.mode") /\ At(r, "lab.run")' =>
                   Loaded.mode # "rollback-mode"
  <2>0. ReqType
    BY <1>1 DEF Inv
  <2>1. ASSUME At(r, "prepare.begin"), At(r, "prepare.script")'
        PROVE  Loaded.mode \notin {"rollback-mode", "update-pending-reboot"}
    <3>1. HandlerStep(r)
      BY <1>1, <2>0, <2>1, NextMoves, HandlerMoves DEF Own, At, Idle
    <3>2. Set(r, "prepare.begin", "update-preparing", "prepare.script", "idle")
      BY <2>0, <2>1, <3>1, HandlerMoves DEF PrepareBegin
    <3>3. TransitionMode("update-preparing", "ok")
      BY <2>0, <2>1, <3>2, SetReaches
    <3> QED
      BY <3>3 DEF TransitionMode, allowedTransitions, Postures
  <2>2. ASSUME At(r, "lab.mode"), At(r, "lab.run")'
        PROVE  Loaded.mode # "rollback-mode"
    <3>1. HandlerStep(r)
      BY <1>1, <2>0, <2>2, NextMoves, HandlerMoves DEF Own, At, Idle
    <3>2. Set(r, "lab.mode", "lab-active", "lab.run", "lab.drop")
      BY <2>0, <2>2, <3>1, HandlerMoves DEF LabMode
    <3>3. TransitionMode("lab-active", "ok")
      BY <2>0, <2>2, <3>2, SetReaches
    <3> QED
      BY <3>3 DEF TransitionMode, allowedTransitions, Postures
  <2> QED
    BY <2>1, <2>2
<1>2. Inv /\ [Next]_vars =>
        [\A r \in Requests :
           /\ At(r, "prepare.begin") /\ At(r, "prepare.script")' =>
                 Loaded.mode \notin {"rollback-mode", "update-pending-reboot"}
           /\ At(r, "lab.mode") /\ At(r, "lab.run")' =>
                 Loaded.mode # "rollback-mode"]_vars
  BY <1>1
<1> QED
  BY <1>2, InvHolds, PTL DEF Spec, StaleGuardIsCaught

-----------------------------------------------------------------------------
(* Where a step takes a request, and that no handler unloads the state.    *)
Loads == cached' = cached \/ cached' \in SystemStates

LEMMA PiecesReach ==
    ASSUME Inv, NEW r \in Requests
    PROVE  /\ \A f, s : Check(r, f, s) => Loads /\ req'[r].at \in {"idle", s}
           /\ \A f, s, t : \A m \in Modes :
                 Set(r, f, m, s, t) => Loads /\ req'[r].at \in {s, t}
           /\ \A f, s : \A w \in Facts :
                 Note(r, f, w, s) => Loads /\ req'[r].at = s
           /\ \A f, o : Script(r, f, o) => Loads /\ req'[r].at \in o
           /\ \A f, s : Moves(r, f, s) => req'[r].at = s
           /\ \A s : ReadLock(r, s) => Loads /\ req'[r].at = s
<1>0. ReqType /\ CPInv
  BY DEF Inv
<1>1. \A f, s : Moves(r, f, s) => req'[r].at = s
  BY <1>0 DEF Moves, Goto, ReqType, Locals, Idle
<1>2. \A f, s : Check(r, f, s) => Loads /\ req'[r].at \in {"idle", s}
  BY <1>0, GetSnapshotKeeps DEF Check, At, ReqType, Locals, Loads
<1>3. \A f, s, t : \A m \in Modes :
        Set(r, f, m, s, t) => Loads /\ req'[r].at \in {s, t}
  BY <1>0, <1>1, TransitionModeKeeps DEF Set, Loads
<1>4. \A f, s : \A w \in Facts : Note(r, f, w, s) => Loads /\ req'[r].at = s
  BY <1>0, <1>1, SetFactsKeeps DEF Note, Loads
<1>5. \A f, o : Script(r, f, o) => Loads /\ req'[r].at \in o
  BY <1>1 DEF Script, Loads, cpvars
<1>6. \A s : ReadLock(r, s) => Loads /\ req'[r].at = s
  BY <1>0 DEF ReadLock, ReqType, Locals, Loads, cpvars
<1> QED
  BY <1>1, <1>2, <1>3, <1>4, <1>5, <1>6

LEMMA HandlerReaches ==
    ASSUME Inv, NEW r \in Requests, HandlerStep(r)
    PROVE  /\ Loads
           /\ At(r, "validate.kernel")' => ValidateScript(r)
           /\ At(r, "validate.mode")' => ValidateKernel(r)
<1> DEFINE Reaches == /\ Loads
                      /\ At(r, "validate.kernel")' => ValidateScript(r)
                      /\ At(r, "validate.mode")' => ValidateKernel(r)
<1>0. req[r].prev \in Modes
  BY PrevType
<1> USE DEF At, Modes, Postures, Lifecycles, Facts
<1>1. CASE PrepareStep(r)
  BY <1>0, <1>1, PiecesReach DEF PrepareStep, Prepare, PrepareBegin,
     PrepareScript, PrepareFacts, PreparePending, PrepareRevert
<1>2. CASE ApplyStep(r)
  BY <1>0, <1>2, PiecesReach DEF ApplyStep, Apply, ApplyScript, ApplyFacts,
     ApplyPending, ApplyRevert
<1>3. CASE RollbackStep(r)
  BY <1>0, <1>3, PiecesReach DEF RollbackStep, Rollback, RollbackBegin,
     RollbackScript, RollbackFacts, RollbackRevert
<1>4. CASE ValidateStep(r)
  <2>1. CASE ValidateScript(r)
    BY <2>1 DEF ValidateScript, Goto, Idle, Inv, ReqType, Locals, Loads, cpvars
  <2> QED
    BY <1>0, <1>4, <2>1, PiecesReach
       DEF ValidateStep, Validate, ValidateKernel, ValidateMode
<1>5. CASE SystemMode(r) \/ SystemModeSet(r)
  BY <1>5, PiecesReach DEF SystemMode, SystemModeSet
<1>6. CASE VaultStep(r)
  <2>1. CASE VaultSet(r)
    <3>1. Loads
      BY <2>1, SetVaultMountedKeeps DEF VaultSet, Inv, Loads
    <3>2. Moves(r, "mount.set", "idle") \/ Moves(r, "lock.set", "idle")
      BY <2>1 DEF VaultSet
    <3> QED
      BY <3>1, <3>2, PiecesReach
  <2> QED
    BY <1>6, <2>1, PiecesReach
       DEF VaultStep, VaultMount, VaultMountScript, VaultLock, VaultLockScript
<1>7. CASE LabStartStep(r)
  <2>1. CASE LabCheck(r)
    BY <2>1 DEF LabCheck, NamesSession, Goto, Idle, Inv, ReqType, Locals, Loads,
       cpvars
  <2>2. CASE LabWrite(r) \/ LabRun(r) \/ RemoveLock(r)
    <3>1. Loads
      BY <2>2 DEF LabWrite, LabRun, RemoveLock, Loads, cpvars
    <3> QED
      BY <2>2, <3>1, PiecesReach DEF LabWrite, LabRun, RemoveLock
  <2> QED
    BY <1>0, <1>7, <2>1, <2>2, PiecesReach
       DEF LabStartStep, LabStart, LabMode, LabRevert
<1>8. CASE LabOtherStep(r)
  <2>1. CASE StopScript(r) \/ StopWait(r) \/ StatusCheck(r)
    <3>1. Loads
      BY <2>1 DEF StopScript, StopWait, StatusCheck, Loads, cpvars
    <3> QED
      BY <2>1, <3>1, PiecesReach DEF StopScript, StopWait, StatusCheck
  <2>2. CASE StopMode(r)
    BY <2>2, GetSnapshotKeeps, PiecesReach DEF StopMode, Inv, Loads
  <2> QED
    BY <1>8, <2>1, <2>2, PiecesReach
       DEF LabOtherStep, LabStop, StopNormal, LabStatus, LabProfile, LabProfileSet
<1>9. CASE SystemReboot(r) \/ Script(r, "reboot", {"idle"})
  BY <1>9, PiecesReach DEF SystemReboot
<1> QED
  BY <1>1, <1>2, <1>3, <1>4, <1>5, <1>6, <1>7, <1>8, <1>9 DEF HandlerStep

(* A validation about to set its verdict has one the table of transitions  *)
(* lets through from any mode, and a state to set it in.                   *)
Validating ==
    \A r \in Requests :
        /\ At(r, "validate.kernel") \/ At(r, "validate.mode") =>
              req[r].prev \in {"normal", "rollback-mode"}
        /\ At(r, "validate.mode") => cached # NotLoaded

LEMMA ValidatingHolds == Spec => []Validating
<1>1. Init => Validating
  BY DEF Init, Validating, At, Idle
<1>2. ASSUME Inv, Validating, [Next]_vars, NEW r \in Requests
      PROVE  /\ (At(r, "validate.kernel") \/ At(r, "validate.mode"))' =>
                   req'[r].prev \in {"normal", "rollback-mode"}
             /\ At(r, "validate.mode")' => cached' # NotLoaded
  <2>0. ReqType
    BY <1>2 DEF Inv
  <2>1. CASE UNCHANGED <<cpvars, req>>
    BY <1>2, <2>1 DEF Validating, At, cpvars
  <2>2. CASE req' = [q \in Requests |-> Idle]
    BY <2>2 DEF At, Idle
  <2>3. ASSUME NEW q \in Requests \ {r}, HandlerStep(q)
        PROVE  /\ (At(r, "validate.kernel") \/ At(r, "validate.mode"))' =>
                     req'[r].prev \in {"normal", "rollback-mode"}
               /\ At(r, "validate.mode")' => cached' # NotLoaded
    <3>1. req'[r] = req[r]
      BY <2>0, <2>3, HandlerMoves DEF Own
    <3>2. Loads
      BY <1>2, <2>3, HandlerReaches
    <3> QED
      BY <1>2, <3>1, <3>2 DEF Validating, At, Loads
  <2>4. CASE HandlerStep(r)
    <3>1. ASSUME At(r, "validate.kernel")'
          PROVE  req'[r].prev \in {"normal", "rollback-mode"}
      <4>1. ValidateScript(r)
        BY <1>2, <2>4, <3>1, HandlerReaches
      <4> QED
        BY <2>0, <3>1, <4>1
           DEF ValidateScript, Goto, At, Idle, ReqType, Locals
    <3>2. ASSUME At(r, "validate.mode")'
          PROVE  /\ req'[r].prev \in {"normal", "rollback-mode"}
                 /\ cached' # NotLoaded
      <4>1. ValidateKernel(r)
        BY <1>2, <2>4, <3>2, HandlerReaches
      <4>2. At(r, "validate.kernel") /\ Goto(r, "validate.mode")
        BY <4>1 DEF ValidateKernel, Note, Moves
      <4>3. req'[r].prev = req[r].prev
        BY <2>0, <4>2 DEF Goto, ReqType, Locals
      <4>4. PICK res \in Results : SetFacts("kernel", res)
        BY <4>1 DEF ValidateKernel, Note
      <4>5. cached' \in SystemStates
        BY <1>2, <4>4, SetFactsKeeps DEF Inv, Facts
      <4> QED
        BY <1>2, <4>2, <4>3, <4>5 DEF Validating
    <3> QED
      BY <3>1, <3>2 DEF At
  <2> QED
    BY <1>2, <2>1, <2>2, <2>3, <2>4, NextMoves
<1>3. Inv /\ Validating /\ [Next]_vars => Validating'
  BY <1>2 DEF Validating, At
<1> QED
  BY <1>1, <1>3, InvHolds, PTL DEF Spec

(* The verdict of a validation becomes the mode, from whatever mode other  *)
(* handlers, failed writes and crashes have left (UpdateValidate).         *)
THEOREM VerdictBecomesMode == Spec => ValidationDecides
<1>1. ASSUME Inv, Validating, [Next]_vars, NEW r \in Requests,
             At(r, "validate.mode"), At(r, "idle")', cached' # NotLoaded
      PROVE  cached'.mode = req[r].prev
  <2> DEFINE m == req[r].prev
             s == [Loaded EXCEPT !.mode = m]
  <2>0. ReqType /\ CPInv
    BY <1>1 DEF Inv
  <2>1. HandlerStep(r)
    BY <1>1, <2>0, NextMoves, HandlerMoves DEF Own, At
  <2>2. Set(r, "validate.mode", m, "idle", "idle")
    BY <1>1, <2>0, <2>1, HandlerMoves DEF ValidateMode
  <2>3. PICK res \in Results : TransitionMode(m, res)
    BY <2>2 DEF Set
  <2>4. m \in {"normal", "rollback-mode"} /\ cached # NotLoaded
    BY <1>1 DEF Validating
  <2>5. Loaded \in SystemStates
    BY <2>0, LoadedType DEF CPInv
  <2>6. m \in allowedTransitions(Loaded.mode) \cup {Loaded.mode}
    BY <2>4, <2>5
       DEF allowedTransitions, SystemStates, Modes, Postures, Lifecycles
  <2>7. s \in SystemStates
    BY <2>4, <2>5 DEF SystemStates, Modes, Postures, Lifecycles
  <2>8. cached' = s
    BY <2>0, <2>3, <2>4, <2>6, <2>7, UpdateKeeps DEF TransitionMode
  <2> QED
    BY <2>5, <2>8 DEF SystemStates
<1>2. Inv /\ Validating /\ [Next]_vars =>
        [\A r \in Requests :
           At(r, "validate.mode") /\ At(r, "idle")' /\ cached' # NotLoaded =>
              cached'.mode = req[r].prev]_vars
  BY <1>1
<1> QED
  BY <1>2, InvHolds, ValidatingHolds, PTL DEF Spec, ValidationDecides

-----------------------------------------------------------------------------
(* The lab.  As long as nothing has disturbed it, either no request works  *)
(* on it, or one does, alone, and has seen to it that no unit is active    *)
(* while it may remove the lock file.                                      *)
QuietSteps == {"lab.write", "lab.mode", "lab.run", "lab.drop", "lab.remove",
               "stop.wait", "stop.remove", "status.remove"}

Tracked == \A s \in Sessions : Runs(s) => lock = s

Stopping(s) == unit[s] \in {"stopping", "again"}

Alone(r) == \A q \in Requests \ {r} : req[q].at \notin LabSteps

(* What the one request at work knows.                                     *)
Local(r) ==
    /\ Tracked
    /\ \A s \in Sessions : Stopping(s) => At(r, "stop.wait") /\ req[r].sess = s
    /\ req[r].at \in QuietSteps => \A s \in Sessions : ~Runs(s)
    /\ req[r].at \in {"lab.write", "lab.mode", "lab.run"} =>
          req[r].sess \in Sessions
    /\ req[r].at \in {"lab.mode", "lab.run"} => lock = req[r].sess
    /\ req[r].at \in {"stop.script", "stop.wait", "status.check"} =>
          lock \in {req[r].sess, NoSession}

Calm == Tracked /\ \A s \in Sessions : ~Stopping(s)

LabInv ==
    ~disturbed =>
        \/ ~LabBusy /\ Calm
        \/ \E r \in Requests : req[r].at \in LabSteps /\ Alone(r) /\ Local(r)

LEMMA AtWork ==
    ASSUME LabInv, ~disturbed, NEW r \in Requests, req[r].at \in LabSteps
    PROVE  Alone(r) /\ Local(r)
<1>1. LabBusy
  BY DEF LabBusy
<1>2. PICK q \in Requests : Alone(q) /\ Local(q)
  BY <1>1 DEF LabInv
<1>3. q = r
  BY <1>2 DEF Alone
<1> QED
  BY <1>2, <1>3

LEMMA Settle ==
    ASSUME NEW r \in Requests, Own(r), Alone(r), Local(r)'
    PROVE  LabInv'
<1>1. Alone(r)'
  BY DEF Own, Alone
<1>2. CASE req'[r].at \in LabSteps
  BY <1>1, <1>2 DEF LabInv
<1>3. CASE req'[r].at \notin LabSteps
  <2>1. ~LabBusy'
    BY <1>1, <1>3 DEF Alone, LabBusy
  <2>2. \A s \in Sessions : ~Stopping(s)'
    BY <1>3 DEF Local, At, LabSteps
  <2> QED
    BY <2>1, <2>2 DEF LabInv, Calm, Local
<1> QED
  BY <1>2, <1>3

(* A request that is not the lab's changes nothing of it.                  *)
LEMMA OtherHandler ==
    ASSUME LabInv, NEW r \in Requests, Own(r), UNCHANGED labvars,
           req[r].at \notin LabSteps, req'[r].at \notin LabSteps
    PROVE  LabInv'
<1> SUFFICES ASSUME ~disturbed'
             PROVE  LabInv'
  BY DEF LabInv
<1>1. CASE ~LabBusy /\ Calm
  <2>1. ~LabBusy'
    BY <1>1 DEF LabBusy, Own
  <2>2. Calm'
    BY <1>1 DEF Calm, Tracked, Active, Runs, Stopping, labvars
  <2> QED
    BY <2>1, <2>2 DEF LabInv
<1>2. ASSUME NEW q \in Requests, req[q].at \in LabSteps, Alone(q), Local(q)
      PROVE  LabInv'
  <2>1. req'[q] = req[q]
    BY <1>2 DEF Own
  <2>2. Alone(q)'
    BY <1>2 DEF Own, Alone
  <2>3. Local(q)'
    BY <1>2, <2>1 DEF Local, Tracked, Active, Runs, Stopping, At, labvars
  <2> QED
    BY <1>2, <2>1, <2>2, <2>3 DEF LabInv
<1> QED
  BY <1>1, <1>2 DEF LabInv, labvars

LEMMA LabStartTracks ==
    ASSUME Inv, LabInv, NEW r \in Requests, LabStartStep(r)
    PROVE  LabInv'
<1> SUFFICES ASSUME ~disturbed'
             PROVE  LabInv'
  BY DEF LabInv
<1> USE DEF At, Active, Runs, Stopping, Tracked, QuietSteps, LabSteps
<1>0. ReqType /\ LabType
  BY DEF Inv
<1>1. Own(r)
  BY <1>0, HandlerMoves DEF HandlerStep
<1>2. ~disturbed
  BY DEF LabStartStep, LabStart, LabCheck, LabWrite, LabMode, LabRun,
     RemoveLock, LabRevert, Set, labvars, Overlaps, Disturbs
<1>3. req[r].at \in LabSteps => Alone(r) /\ Local(r)
  BY <1>2, AtWork
<1>4. CASE LabStart(r)
  <2>1. CASE req' = req
    <3>1. req[r].at = "idle" /\ UNCHANGED labvars
      BY <1>4, <2>1 DEF LabStart, Check, labvars
    <3> QED
      BY <1>1, <2>1, <3>1, OtherHandler
  <2>2. CASE req' # req
    <3>1. ~LabBusy /\ UNCHANGED <<lock, unit>> /\ req'[r].at = "lab.check"
      BY <1>0, <1>4, <2>2 DEF LabStart, Check, Overlaps, ReqType, Locals
    <3>2. Calm
      BY <1>2, <3>1 DEF LabInv, LabBusy
    <3>3. Alone(r)
      BY <3>1 DEF Alone, LabBusy
    <3>4. Local(r)'
      BY <3>1, <3>2 DEF Calm, Local
    <3> QED
      BY <1>1, <3>3, <3>4, Settle
  <2> QED
    BY <2>1, <2>2
<1>5. CASE LabCheck(r)
  <2>1. Alone(r) /\ Local(r) /\ req[r].at = "lab.check"
    BY <1>3, <1>5 DEF LabCheck
  <2>2. CASE Goto(r, "idle") /\ UNCHANGED <<unit, disturbed>>
    <3>1. Local(r)'
      BY <1>0, <1>5, <2>1, <2>2 DEF LabCheck, Goto, Idle, ReqType, Locals, Local
    <3> QED
      BY <1>1, <2>1, <3>1, Settle
  <2>3. ASSUME NEW s \in Sessions, NamesSession(r, s), Disturbs(Active(lock))
        PROVE  LabInv'
    <3>1. \A x \in Sessions : ~Runs(x)
      BY <2>1, <2>3 DEF Disturbs, Local
    <3>2. /\ req'[r].at = "lab.write" /\ req'[r].sess = s
          /\ unit' = [unit EXCEPT ![s] = "named"] /\ lock' = lock
      <4>1. req'[r] = [req[r] EXCEPT !.at = "lab.write", !.sess = s]
        BY <1>0, <2>3 DEF NamesSession, ReqType
      <4>2. req[r] \in Locals
        BY <1>0 DEF ReqType
      <4>3. req'[r].at = "lab.write" /\ req'[r].sess = s
        BY <4>1, <4>2 DEF Locals
      <4> QED
        BY <1>5, <2>3, <4>3 DEF LabCheck, NamesSession
    <3>3. \A x \in Sessions : ~Runs(x)' /\ ~Stopping(x)'
      BY <1>0, <2>1, <3>1, <3>2 DEF Local, LabType
    <3>4. Local(r)'
      BY <3>2, <3>3 DEF Local
    <3> QED
      BY <1>1, <2>1, <3>4, Settle
  <2> QED
    BY <1>5, <2>2, <2>3 DEF LabCheck
<1>6. CASE LabWrite(r)
  <2>1. Alone(r) /\ Local(r) /\ req[r].at = "lab.write"
    BY <1>3, <1>6 DEF LabWrite, Moves
  <2>2. Local(r)'
    BY <1>0, <1>6, <2>1
       DEF LabWrite, Moves, Goto, Idle, ReqType, Locals, Local
  <2> QED
    BY <1>1, <2>1, <2>2, Settle
<1>7. CASE LabMode(r)
  <2>1. Alone(r) /\ Local(r) /\ req[r].at = "lab.mode"
    BY <1>3, <1>7 DEF LabMode, Set, Moves
  <2>2. UNCHANGED <<lock, unit>> /\ req'[r].sess = req[r].sess
        /\ req'[r].at \in {"lab.run", "lab.drop"}
    BY <1>0, <1>7 DEF LabMode, Set, labvars, Moves, Goto, ReqType, Locals
  <2>3. Local(r)'
    BY <2>1, <2>2 DEF Local
  <2> QED
    BY <1>1, <2>1, <2>3, Settle
<1>8. CASE LabRun(r)
  <2>1. Alone(r) /\ Local(r) /\ req[r].at = "lab.run"
    BY <1>3, <1>8 DEF LabRun, Moves
  <2> DEFINE s == req[r].sess
  <2>2. s \in Sessions /\ lock = s /\ lock' = lock
    BY <1>8, <2>1 DEF LabRun, Local
  <2>3. CASE Moves(r, "lab.run", "idle") /\ unit' = [unit EXCEPT ![s] = "active"]
    <3>1. Local(r)'
      BY <1>0, <2>1, <2>2, <2>3
         DEF Moves, Goto, Idle, ReqType, Locals, Local, LabType
    <3> QED
      BY <1>1, <2>1, <3>1, Settle
  <2>4. CASE Moves(r, "lab.run", "lab.remove") /\ unit' = [unit EXCEPT ![s] = "gone"]
    <3>1. Local(r)'
      BY <1>0, <2>1, <2>2, <2>4
         DEF Moves, Goto, Idle, ReqType, Locals, Local, LabType
    <3> QED
      BY <1>1, <2>1, <3>1, Settle
  <2> QED
    BY <1>8, <2>3, <2>4 DEF LabRun, Disturbs
<1>9. CASE RemoveLock(r)
  <2>1. Alone(r) /\ Local(r)
        /\ req[r].at \in {"lab.drop", "lab.remove", "stop.remove", "status.remove"}
    BY <1>3, <1>9 DEF RemoveLock, Moves
  <2>2. lock' = NoSession /\ unit' = unit
        /\ req'[r].at \in {"idle", "lab.revert", "stop.mode"}
    BY <1>0, <1>9 DEF RemoveLock, Moves, Goto, Idle, ReqType, Locals
  <2>3. Local(r)'
    BY <2>1, <2>2 DEF Local
  <2> QED
    BY <1>1, <2>1, <2>3, Settle
<1>10. CASE LabRevert(r)
  <2>1. Alone(r) /\ Local(r) /\ req[r].at = "lab.revert"
    BY <1>3, <1>10 DEF LabRevert, Set, Moves
  <2>2. UNCHANGED <<lock, unit>> /\ req'[r].at = "idle"
    BY <1>0, <1>10 DEF LabRevert, Set, labvars, Moves, Goto, Idle, ReqType
  <2>3. Local(r)'
    BY <2>1, <2>2 DEF Local
  <2> QED
    BY <1>1, <2>1, <2>3, Settle
<1> QED
  BY <1>4, <1>5, <1>6, <1>7, <1>8, <1>9, <1>10 DEF LabStartStep

LEMMA LabOtherTracks ==
    ASSUME Inv, LabInv, NEW r \in Requests, LabOtherStep(r)
    PROVE  LabInv'
<1> SUFFICES ASSUME ~disturbed'
             PROVE  LabInv'
  BY DEF LabInv
<1> USE DEF At, Active, Runs, Stopping, Tracked, QuietSteps, LabSteps
<1>0. ReqType /\ LabType
  BY DEF Inv
<1>1. Own(r)
  BY <1>0, HandlerMoves DEF HandlerStep
<1>2. ~disturbed
  BY DEF LabOtherStep, LabStop, StopScript, StopWait, StopMode, StopNormal,
     LabStatus, StatusCheck, LabProfile, LabProfileSet, ReadLock, Set, Script,
     Note, labvars, Overlaps, Disturbs
<1>3. req[r].at \in LabSteps => Alone(r) /\ Local(r)
  BY <1>2, AtWork
<1>4. CASE LabStop(r) \/ LabStatus(r)
  <2>1. PICK step \in {"stop.script", "status.check"} : ReadLock(r, step)
    BY <1>4 DEF LabStop, LabStatus
  <2>2. ~LabBusy /\ UNCHANGED <<lock, unit>>
    BY <2>1 DEF ReadLock, Overlaps
  <2>3. req'[r].at = step /\ req'[r].sess = lock
    <3>1. req'[r] = [req[r] EXCEPT !.at = step, !.sess = lock]
      BY <1>0, <2>1 DEF ReadLock, ReqType
    <3>2. req[r] \in Locals
      BY <1>0 DEF ReqType
    <3> QED
      BY <3>1, <3>2 DEF Locals
  <2>4. Calm /\ Alone(r)
    BY <1>2, <2>2 DEF LabInv, LabBusy, Alone
  <2>5. Local(r)'
    BY <2>2, <2>3, <2>4 DEF Calm, Local
  <2> QED
    BY <1>1, <2>4, <2>5, Settle
<1>5. CASE StopScript(r)
  <2> DEFINE s == req[r].sess
  <2>1. Alone(r) /\ Local(r) /\ req[r].at = "stop.script"
    BY <1>3, <1>5 DEF StopScript, Moves
  <2>2. req'[r].sess = s
    BY <1>0, <1>5 DEF StopScript, Moves, Goto, ReqType, Locals
  <2>3. CASE Active(s)
    <3>1. /\ unit' = [unit EXCEPT ![s] = "stopping"] /\ lock' = lock
          /\ req'[r].at = "stop.wait"
      BY <1>0, <1>5, <2>3 DEF StopScript, Moves, Goto, ReqType, Locals
    <3>2. Local(r)'
      BY <1>0, <2>1, <2>2, <3>1 DEF Local, LabType
    <3> QED
      BY <1>1, <2>1, <3>2, Settle
  <2>4. CASE ~Active(s)
    <3>1. /\ unit' = unit /\ lock' \in {lock, NoSession}
          /\ req'[r].at = "stop.remove"
      BY <1>0, <1>5, <2>4 DEF StopScript, Moves, Goto, ReqType, Locals
    <3>2. Local(r)'
      BY <1>0, <2>1, <2>2, <2>4, <3>1 DEF Local
    <3> QED
      BY <1>1, <2>1, <3>2, Settle
  <2> QED
    BY <2>3, <2>4
<1>6. CASE StopWait(r)
  <2>1. Alone(r) /\ Local(r) /\ req[r].at = "stop.wait"
    BY <1>3, <1>6 DEF StopWait, Moves
  <2>2. /\ unit' = unit /\ lock' \in {lock, NoSession}
        /\ unit[req[r].sess] = "gone" /\ req'[r].at = "stop.remove"
    BY <1>0, <1>6 DEF StopWait, Disturbs, Moves, Goto, ReqType, Locals
  <2>3. Local(r)'
    BY <1>0, <2>1, <2>2 DEF Local
  <2> QED
    BY <1>1, <2>1, <2>3, Settle
<1>7. CASE StopMode(r) \/ StopNormal(r)
  <2>1. Alone(r) /\ Local(r) /\ req[r].at \in {"stop.mode", "stop.normal"}
    BY <1>3, <1>7 DEF StopMode, StopNormal, Set, Moves
  <2>2. UNCHANGED <<lock, unit>> /\ req'[r].at \in {"stop.normal", "idle"}
    BY <1>0, <1>7 DEF StopMode, StopNormal, Set, labvars, Moves, Goto, Idle,
       ReqType, Locals
  <2>3. Local(r)'
    BY <2>1, <2>2 DEF Local
  <2> QED
    BY <1>1, <2>1, <2>3, Settle
<1>8. CASE StatusCheck(r)
  <2>1. Alone(r) /\ Local(r) /\ req[r].at = "status.check"
    BY <1>3, <1>8 DEF StatusCheck, Moves
  <2>2. /\ UNCHANGED <<lock, unit>>
        /\ \/ req'[r].at = "idle"
           \/ req'[r].at = "status.remove" /\ ~Active(req[r].sess)
    <3>1. \/ Goto(r, "idle")
          \/ Goto(r, "status.remove") /\ ~Active(req[r].sess)
      BY <1>8 DEF StatusCheck, Disturbs, Moves
    <3>2. /\ Goto(r, "idle") => req'[r].at = "idle"
          /\ Goto(r, "status.remove") => req'[r].at = "status.remove"
      BY <1>0 DEF Goto, Idle, ReqType, Locals
    <3> QED
      BY <1>8, <3>1, <3>2 DEF StatusCheck
  <2>3. Local(r)'
    BY <1>0, <2>1, <2>2 DEF Local
  <2> QED
    BY <1>1, <2>1, <2>3, Settle
<1>9. CASE LabProfile(r) \/ LabProfileSet(r)
  <2>1. /\ UNCHANGED labvars /\ req[r].at \in {"idle", "profile.set"}
        /\ req'[r].at \in {"idle", "profile.set"}
    BY <1>0, <1>9 DEF LabProfile, LabProfileSet, Script, Note, Moves, Goto,
       Idle, ReqType, Locals
  <2> QED
    BY <1>1, <2>1, OtherHandler
<1> QED
  BY <1>4, <1>5, <1>6, <1>7, <1>8, <1>9 DEF LabOtherStep

LEMMA OthersTrack ==
    ASSUME Inv, LabInv, NEW r \in Requests, HandlerStep(r),
           ~LabStartStep(r), ~LabOtherStep(r)
    PROVE  LabInv'
<1> USE DEF At, LabSteps
<1>0. ReqType /\ req[r].prev \in Modes
  BY PrevType DEF Inv
<1>1. Own(r)
  BY <1>0, HandlerMoves
<1> DEFINE Apart == /\ UNCHANGED labvars
                    /\ req[r].at \notin LabSteps /\ req'[r].at \notin LabSteps
<1>2. ASSUME Apart
      PROVE  LabInv'
  BY <1>1, <1>2, OtherHandler
<1> USE DEF Modes, Postures, Lifecycles, Facts
<1>3. CASE PrepareStep(r)
  BY <1>0, <1>2, <1>3, PiecesOwn, PiecesReach DEF PrepareStep, Prepare,
     PrepareBegin, PrepareScript, PrepareFacts, PreparePending, PrepareRevert,
     Set, Note, Script, labvars
<1>4. CASE ApplyStep(r)
  BY <1>0, <1>2, <1>4, PiecesOwn, PiecesReach DEF ApplyStep, Apply, ApplyScript,
     ApplyFacts, ApplyPending, ApplyRevert, Set, Note, Script, labvars
<1>5. CASE RollbackStep(r)
  BY <1>0, <1>2, <1>5, PiecesOwn, PiecesReach DEF RollbackStep, Rollback,
     RollbackBegin, RollbackScript, RollbackFacts, RollbackRevert,
     Set, Note, Script, labvars
<1>6. CASE ValidateStep(r)
  <2>1. CASE ValidateScript(r)
    <3>1. UNCHANGED labvars /\ req[r].at = "validate.script"
      BY <2>1 DEF ValidateScript
    <3>2. req'[r].at \in {"validate.kernel", "idle"}
      BY <1>0, <2>1 DEF ValidateScript, Goto, Idle, ReqType, Locals
    <3> QED
      BY <1>2, <3>1, <3>2
  <2> QED
    BY <1>0, <1>2, <1>6, <2>1, PiecesOwn, PiecesReach DEF ValidateStep,
       Validate, ValidateKernel, ValidateMode, Set, Note, Script, labvars
<1>7. CASE SystemMode(r) \/ SystemModeSet(r)
  BY <1>0, <1>2, <1>7, PiecesOwn, PiecesReach DEF SystemMode, SystemModeSet,
     Set, labvars
<1>8. CASE VaultStep(r)
  <2>1. CASE VaultSet(r)
    <3>1. Moves(r, "mount.set", "idle") \/ Moves(r, "lock.set", "idle")
      BY <2>1 DEF VaultSet
    <3>2. req[r].at \in {"mount.set", "lock.set"} /\ req'[r].at = "idle"
      BY <1>0, <3>1, PiecesOwn, PiecesReach
    <3>3. UNCHANGED labvars
      BY <2>1 DEF VaultSet
    <3> QED
      BY <1>2, <3>2, <3>3
  <2> QED
    BY <1>0, <1>2, <1>8, <2>1, PiecesOwn, PiecesReach DEF VaultStep, VaultMount,
       VaultMountScript, VaultLock, VaultLockScript, Script, labvars
<1>9. CASE SystemReboot(r) \/ Script(r, "reboot", {"idle"})
  BY <1>0, <1>2, <1>9, PiecesOwn, PiecesReach DEF SystemReboot, Script, labvars
<1> QED
  BY <1>3, <1>4, <1>5, <1>6, <1>7, <1>8, <1>9 DEF HandlerStep

LEMMA UnitTracks ==
    ASSUME Inv, LabInv, NEW x \in Sessions, UnitStep(x)
    PROVE  LabInv'
<1> SUFFICES ASSUME ~disturbed'
             PROVE  LabInv'
  BY DEF LabInv
<1> USE DEF Runs, Stopping, Tracked
<1>0. LabType /\ ~disturbed /\ req' = req
  BY DEF Inv, UnitStep, UnitEnds, UnitCleans, UnitLeaves, UnitKilled
<1>1. CASE UnitEnds(x) \/ UnitLeaves(x) \/ UnitKilled(x)
  <2>1. lock' = lock
    BY <1>1 DEF UnitEnds, UnitLeaves, UnitKilled
  <2>2. \A s \in Sessions : /\ Runs(s)' => Runs(s)
                            /\ Stopping(s)' => Stopping(s)
    BY <1>0, <1>1 DEF UnitEnds, UnitLeaves, UnitKilled, UnitMoves, LabType
  <2>3. Calm => Calm'
    BY <2>1, <2>2 DEF Calm
  <2>4. \A r \in Requests : Local(r) => Local(r)'
    BY <1>0, <2>1, <2>2 DEF Local, At
  <2> QED
    BY <1>0, <2>3, <2>4 DEF LabInv, LabBusy, Alone
<1>2. CASE UnitCleans(x)
  <2>1. lock' = NoSession
    BY <1>2 DEF UnitCleans
  <2>2. \A s \in Sessions : Stopping(s)' => Stopping(s)
    BY <1>0, <1>2 DEF UnitCleans, UnitMoves, LabType
  <2>3. \A s \in Sessions : Runs(s)' => Runs(s) /\ s # x
    BY <1>0, <1>2 DEF UnitCleans, UnitMoves, LabType
  <2>4. unit[x] = "exiting" \/ Stopping(x)
    BY <1>2 DEF UnitCleans, UnitMoves
  <2>5. CASE ~LabBusy /\ Calm
    <3>1. Calm'
      BY <2>2, <2>3, <2>4, <2>5 DEF Calm
    <3> QED
      BY <1>0, <2>5, <3>1 DEF LabInv, LabBusy
  <2>6. ASSUME NEW r \in Requests, req[r].at \in LabSteps, Alone(r), Local(r)
        PROVE  LabInv'
    <3>1. \A s \in Sessions : ~Runs(s)'
      BY <2>3, <2>4, <2>6 DEF Local, At, QuietSteps
    <3>2. req[r].at \notin {"lab.mode", "lab.run"}
      BY <2>4, <2>6 DEF Local, At, QuietSteps
    <3>3. Local(r)'
      BY <1>0, <2>1, <2>2, <2>6, <3>1, <3>2 DEF Local, At
    <3> QED
      BY <1>0, <2>6, <3>3 DEF LabInv, Alone
  <2> QED
    BY <1>0, <2>5, <2>6 DEF LabInv
<1> QED
  BY <1>1, <1>2 DEF UnitStep

LEMMA EndTracks ==
    ASSUME Inv, LabInv, Crash \/ Restart
    PROVE  LabInv'
<1> SUFFICES ASSUME ~disturbed'
             PROVE  LabInv'
  BY DEF LabInv
<1>1. ~LabBusy'
  <2>1. req' = [r \in Requests |-> Idle]
    BY EndKeeps
  <2>2. \A r \in Requests : req'[r].at = "idle"
    BY <2>1 DEF Idle
  <2> QED
    BY <2>2 DEF LabBusy, LabSteps
<1>2. CASE Crash
  <2>1. ~LabBusy /\ ~disturbed /\ UNCHANGED <<lock, unit>>
    BY <1>2 DEF Crash, Disturbs
  <2>2. Calm
    BY <2>1 DEF LabInv, LabBusy
  <2> QED
    BY <1>1, <2>1, <2>2 DEF LabInv, Calm, Tracked, Active, Runs, Stopping
<1>3. CASE Restart
  <2>1. \A s \in Sessions : unit'[s] \in {"unused", "gone"}
    BY <1>3 DEF Restart
  <2> QED
    BY <1>1, <2>1 DEF LabInv, Calm, Tracked, Active, Runs, Stopping
<1> QED
  BY <1>2, <1>3

LEMMA LabInvHolds == Spec => []LabInv
<1>1. Init => LabInv
  BY DEF Init, LabInv, LabBusy, Idle, LabSteps, Calm, Tracked, Active, Runs, Stopping
<1>2. Inv /\ LabInv /\ [Next]_vars => LabInv'
  <2> SUFFICES ASSUME Inv, LabInv, [Next]_vars
               PROVE  LabInv'
    OBVIOUS
  <2>1. CASE UNCHANGED vars
    BY <2>1 DEF vars, labvars, LabInv, LabBusy, Calm, Alone, Local, Tracked,
       Active, Runs, Stopping, At
  <2>2. ASSUME NEW r \in Requests, HandlerStep(r)
        PROVE  LabInv'
    BY <2>2, LabStartTracks, LabOtherTracks, OthersTrack
  <2>3. ASSUME NEW r \in Requests, Reboot(r)
        PROVE  Restart \/ HandlerStep(r)
    BY <2>3 DEF Reboot, HandlerStep
  <2> QED
    BY <2>1, <2>2, <2>3, UnitTracks, EndTracks DEF Next, HandlerStep
<1> QED
  BY <1>1, <1>2, InvHolds, PTL DEF Spec

(* For any number of requests and sessions: as long as requests of the lab *)
(* do not overlap and systemctl answers, the lock file names every lab     *)
(* that runs, and so there is one at most.                                 *)
THEOREM LabsAreTracked == Spec => []SerialLabIsTracked
<1>1. LabInv => SerialLabIsTracked
  BY DEF LabInv, Calm, Local, Tracked, SerialLabIsTracked
<1> QED
  BY <1>1, LabInvHolds, PTL

-----------------------------------------------------------------------------
(* What TLC runs, a part of the handlers at a time, is a behaviour of the  *)
(* dashboard.                                                              *)
LEMMA MCStepsAreSteps == ASSUME [MCNext]_<<vars, part>> PROVE [Next]_vars
BY DEF MCNext, Next, Parts, Updates, Vaults, Labs, Every

LEMMA PartsOfDashboard == MCSpec => Spec
<1>1. MCInit => Init
  BY DEF MCInit
<1> QED
  BY <1>1, MCStepsAreSteps, PTL DEF MCSpec, Spec

(* So every property of the run holds of every instance of it: the types,  *)
(* the file, the guards, the validations and the labs.                     *)
THEOREM DashboardRunIsSafe ==
    MCSpec => /\ []TypeOK /\ []FileIsCurrent /\ []SerialLabIsTracked
              /\ StaleGuardIsCaught /\ ValidationDecides
BY PartsOfDashboard, DashboardTypeCorrect, FileFollowsCache, LabsAreTracked,
   GuardsHoldWhenSet, VerdictBecomesMode, PTL

=============================================================================
