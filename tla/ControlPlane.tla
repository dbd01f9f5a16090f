---------------------------- MODULE ControlPlane ----------------------------
(***************************************************************************)
(* The state manager of the dashboard backend                              *)
(* (dashboard/backend/state/control_plane.go): the mode the workstation is *)
(* in, facts kept beside it, and the file that outlives the process.       *)
(*                                                                         *)
(* Every operation holds the manager's mutex from its first line to its    *)
(* last and the file is replaced by a rename, so each is one step here; a  *)
(* crash in the middle of one leaves what a crash before or after it does. *)
(* An operation ends with res: "ok", "refused" (a GuardError) or "failed"  *)
(* (the file could not be written).                                        *)
(***************************************************************************)
EXTENDS Naturals

CONSTANTS
    NoFile,     \* model value: no state file, or one that is not JSON
    NotLoaded,  \* model value: cacheValid is false
    MaxFaults   \* bound: writes that fail

VARIABLES
    cached,     \* Manager.cached, or NotLoaded
    file,       \* control-plane-state.json
    stale,      \* history: the last write since the process started failed
    faults      \* how many writes have failed

cpvars == <<cached, file, stale, faults>>

Postures   == {"normal", "vault-mounted", "gaming", "lab-active"}
Lifecycles == {"update-preparing", "update-pending-reboot", "rollback-mode"}
Modes      == Postures \cup Lifecycles

Results == {"ok", "refused", "failed"}

(* UpdateFacts, KernelValidation and LabFacts are values nothing here      *)
(* looks into: facts is which of them was set last.                        *)
Facts == {"none", "update", "kernel", "lab"}

SystemStates == [mode : Modes, vault : BOOLEAN, facts : Facts]

ASSUME ControlPlaneAssumption ==
    /\ MaxFaults \in Nat
    /\ NotLoaded \notin SystemStates

(* Variant: Go's zero value, whose mode is none.                           *)
DefaultZero == [mode |-> "", vault |-> FALSE, facts |-> "none"]

Default == [mode |-> "normal", vault |-> FALSE, facts |-> "none"]

(* Variant: a rollback may be prepared over.                               *)
allowedOverRollback(from) ==
    CASE from \in Postures \cup {"update-preparing"} -> Modes \ {from}
      [] from = "update-pending-reboot" -> Postures \cup {"rollback-mode"}
      [] from = "rollback-mode" -> {"normal", "vault-mounted", "update-preparing"}

(* Variant: a pending update ends in a reboot or a rollback only.          *)
allowedUnvalidated(from) ==
    CASE from \in Postures \cup {"update-preparing"} -> Modes \ {from}
      [] from = "update-pending-reboot" -> {"rollback-mode"}
      [] from = "rollback-mode" -> {"normal", "vault-mounted"}

allowedTransitions(from) ==
    CASE from \in Postures \cup {"update-preparing"} -> Modes \ {from}
      [] from = "update-pending-reboot" -> Postures \cup {"rollback-mode"}
      [] from = "rollback-mode" -> {"normal", "vault-mounted"}

-----------------------------------------------------------------------------
(* ensureLoadedLocked reads the file once; without one it writes Default.  *)

Stored == IF file = NoFile THEN Default ELSE file
Loaded == IF cached = NotLoaded THEN Stored ELSE cached

(* The file once the state is loaded.                                      *)
LoadedFile == IF cached = NotLoaded THEN Stored ELSE file

(* persistLocked fails.  The cache has been changed already.               *)
WriteFails ==
    /\ faults < MaxFaults
    /\ faults' = faults + 1
    /\ stale' = TRUE

(* The default could not be written: the caller gets an error, and the     *)
(* next one finds the default in the cache.                                *)
LoadFails ==
    /\ cached = NotLoaded /\ file = NoFile
    /\ cached' = Default
    /\ UNCHANGED file
    /\ WriteFails

GetSnapshot(res) ==
    \/ /\ res = "ok"
       /\ cached' = Loaded
       /\ file' = LoadedFile
       /\ UNCHANGED <<stale, faults>>
    \/ res = "failed" /\ LoadFails

(* What every setter does: change the cache, then write all of it.         *)
Update(s, res) ==
    \/ /\ res = "ok"
       /\ cached' = s
       /\ file' = s
       /\ stale' = FALSE
       /\ UNCHANGED faults
    \/ /\ res = "failed"
       /\ cached' = s
       /\ file' = LoadedFile
       /\ WriteFails
    \/ res = "failed" /\ LoadFails

(* A transition to the mode the system is in writes the state once more.   *)
TransitionMode(to, res) ==
    IF to \in allowedTransitions(Loaded.mode) \cup {Loaded.mode}
    THEN Update([Loaded EXCEPT !.mode = to], res)
    ELSE \/ /\ res = "refused"
            /\ cached' = Loaded
            /\ file' = LoadedFile
            /\ UNCHANGED <<stale, faults>>
         \/ res = "failed" /\ LoadFails

(* The vault takes the mode along between normal and vault-mounted only.   *)
ModeAfterVault(mode, mounted) ==
    CASE mode = "normal" /\ mounted         -> "vault-mounted"
      [] mode = "vault-mounted" /\ ~mounted -> "normal"
      [] OTHER                              -> mode

(* Variant: the mode is written before the flag is in the cache.           *)
SetVaultMountedInTwo(mounted, res) ==
    LET mode == ModeAfterVault(Loaded.mode, mounted)
    IN  IF res = "ok"
        THEN /\ cached' = [Loaded EXCEPT !.vault = mounted, !.mode = mode]
             /\ file' = [Loaded EXCEPT !.mode = mode]
             /\ stale' = FALSE
             /\ UNCHANGED faults
        ELSE Update([Loaded EXCEPT !.vault = mounted, !.mode = mode], res)

SetVaultMounted(mounted, res) ==
    Update([Loaded EXCEPT !.vault = mounted,
                          !.mode = ModeAfterVault(Loaded.mode, mounted)], res)

(* SetUpdateFacts, SetKernelValidation, SetLabFacts.                       *)
SetFacts(what, res) == Update([Loaded EXCEPT !.facts = what], res)

(* The process ends: what was only cached is gone.                         *)
Forget ==
    /\ cached' = NotLoaded
    /\ stale' = FALSE
    /\ UNCHANGED <<file, faults>>

CPInit ==
    /\ cached = NotLoaded
    /\ file = NoFile
    /\ stale = FALSE
    /\ faults = 0

CPTypeOK ==
    /\ cached \in SystemStates \cup {NotLoaded}
    /\ file \in SystemStates \cup {NoFile}
    /\ stale \in BOOLEAN
    /\ faults \in 0..MaxFaults

=============================================================================
