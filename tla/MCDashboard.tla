---------------------------- MODULE MCDashboard -----------------------------
(***************************************************************************)
(* The dashboard backend for TLC.  Any handlers may run together; to keep  *)
(* each instance small a behaviour uses the handlers of one part, and the  *)
(* parts overlap where handlers meet: update runs with the operator's      *)
(* modes and reboots, update runs with the vault, labs with update runs.   *)
(***************************************************************************)
EXTENDS Dashboard, TLC

VARIABLE part       \* the part whose handlers are called

Parts(names) == part \in names /\ UNCHANGED part

Updates == Parts({"updates"})
Vaults  == Parts({"vault"})
Labs    == Parts({"labs"})
Every   == UNCHANGED part

MCInit == Init /\ part \in {"updates", "vault", "labs"}

MCNext ==
    \/ \E r \in Requests :
          \/ Parts({"updates", "vault"}) /\ PrepareStep(r)
          \/ Updates /\ ApplyStep(r)
          \/ Updates /\ RollbackStep(r)
          \/ Every /\ ValidateStep(r)
          \/ Updates /\ SystemMode(r)
          \/ Updates /\ SystemModeSet(r)
          \/ Updates /\ SystemReboot(r)
          \/ Updates /\ Reboot(r)
          \/ Vaults /\ VaultStep(r)
          \/ Labs /\ LabStartStep(r)
          \/ Labs /\ LabOtherStep(r)
    \/ \E s \in Sessions : Labs /\ UnitStep(s)
    \/ Every /\ Crash
    \/ Every /\ Restart

MCSpec == MCInit /\ [][MCNext]_<<vars, part>>

(* Bound: in a behaviour of the labs one write fails or one crash happens. *)
OneFailure == part = "labs" => faults + crashes <= 1

Symmetry == Permutations(Requests) \cup Permutations(Sessions)

=============================================================================
