------------------------------- MODULE Policy -------------------------------
(***************************************************************************)
(* The pure policy engine of hisnosd (core/policy/policy.go) and the mode  *)
(* guard of its IPC server.  Everything here is a function of a snapshot   *)
(* of the authoritative SystemState, taken by state.Manager.Get.           *)
(*                                                                         *)
(* A snapshot is a record with the fields the rules read:                  *)
(*   mode, risk, mounted (vault), lab, fw (Firewall.Active),               *)
(*   alive (SubsystemState, a function from services).                     *)
(* The risk score 0..100 is kept in tens, 0..10: the only thresholds the   *)
(* code compares it with, and the only increment it adds, are multiples    *)
(* of ten.                                                                 *)
(***************************************************************************)
EXTENDS Naturals

Modes == {"normal", "gaming", "lab-active", "update-preparing",
          "update-pending-reboot", "rollback-mode", "safe-mode"}

Critical == 8    \* Risk.Score >= 80
MaxRisk  == 10   \* Risk.Score is capped at 100

(***************************************************************************)
(* Evaluate returns a slice; dispatch walks it in order.  Every action of  *)
(* the slice is named by its position in the evaluation order, so that a   *)
(* set of actions walked from the smallest is the slice.                   *)
(***************************************************************************)
ForceVaultLock   == 1   \* P1, vault mounted
FirewallStrict   == 2   \* P1
RejectOnUpdate   == 3   \* P2 (both Reject actions)
IncreaseRisk     == 4   \* P3
EnterOnFirewall  == 5   \* P4
EnterOnAudit     == 6   \* P5
RejectOnSafeMode == 7   \* P6 (both Reject actions)
ExitSafeMode     == 8   \* P7
RestartThreatd   == 9   \* P8

EnterSafeMode == {EnterOnFirewall, EnterOnAudit}

PolicyActions == 1..9

Recommends(a, s) ==
    \/ a = ForceVaultLock /\ s.risk >= Critical /\ s.mode # "safe-mode"
                          /\ s.mounted
    \/ a = FirewallStrict /\ s.risk >= Critical /\ s.mode # "safe-mode"
    \/ a = RejectOnUpdate /\ s.mode = "update-preparing"
    \/ a = IncreaseRisk /\ s.lab # "none" /\ s.mounted
    \/ a = EnterOnFirewall /\ ~s.fw /\ s.mode # "safe-mode"
    \/ a = EnterOnAudit /\ ~s.alive["logd"] /\ s.mode # "safe-mode"
    \/ a = RejectOnSafeMode /\ s.mode = "safe-mode"
    \/ a = ExitSafeMode /\ s.mode = "safe-mode" /\ s.fw /\ s.alive["logd"]
                        /\ s.risk < Critical
    \/ a = RestartThreatd /\ ~s.alive["threatd"]

(* Variant: the first rule that applies hides the others.                  *)
EvaluateFirstOnly(s) ==
    {a \in PolicyActions : /\ Recommends(a, s)
                           /\ \A b \in 1..(a - 1) : ~Recommends(b, s)}

(* Variant: the rules do not look whether safe mode is already entered.    *)
EvaluateIgnoringMode(s) ==
    {a \in PolicyActions : \/ Recommends(a, s)
                           \/ Recommends(a, [s EXCEPT !.mode = "normal"])}

(* Rules are evaluated independently, none short-circuits another.         *)
Evaluate(s) == {a \in PolicyActions : Recommends(a, s)}

-----------------------------------------------------------------------------
(* Admission guards the IPC handlers call before they act.                 *)

CanStartLab(s) ==
    /\ s.mode \notin {"update-preparing", "safe-mode"}
    /\ s.lab = "none"
    /\ s.risk < Critical

CanStartGaming(s) ==
    /\ s.mode \notin {"update-preparing", "safe-mode"}
    /\ s.risk < Critical

CanReloadFirewall(s) ==
    s.mode \notin {"update-preparing", "update-pending-reboot"}

(* guardModeTransition of the IPC server: a manual mode change may not     *)
(* leave an update or a rollback for an unrelated mode.                    *)
ModeTransitionAllowed(from, to) ==
    /\ from = "update-preparing" =>
           to \in {"normal", "update-pending-reboot", "safe-mode"}
    /\ from = "rollback-mode" => to \in {"normal", "safe-mode"}

=============================================================================
