----------------------------- MODULE MCMachine ------------------------------
(***************************************************************************)
(* hispowerd for TLC.  To keep the instance small a behaviour has either   *)
(* kills and panics, in a machine where every write succeeds, or writes    *)
(* that fail and no kill; part says which.                                 *)
(***************************************************************************)
EXTENDS Hispowerd

VARIABLE part

Succeeds == part = "kills" => faults' = faults

Either == UNCHANGED part
Killed == part = "kills" /\ UNCHANGED part

MCInit == Init /\ part \in {"kills", "faults"}

MCWorks == Either /\ Works /\ Succeeds

MCNext ==
    \/ \E p \in Phases : Either /\ ApplyPhase(p) /\ Succeeds
    \/ \E p \in Phases : Either /\ StopPhase(p) /\ Succeeds
    \/ \E p \in Phases : Killed /\ NetPhase(p) /\ Succeeds
    \/ Either /\ StartMode /\ Succeeds
    \/ Either /\ StartRecord /\ Succeeds
    \/ Either /\ BackMode /\ Succeeds
    \/ Either /\ BackRecord /\ Succeeds
    \/ Either /\ Cycle
    \/ Either /\ Leave
    \/ Either /\ Quit
    \/ Either /\ Start
    \/ Killed /\ Kill
    \/ Killed /\ Panic
    \/ Killed /\ PanicOutside
    \/ Either /\ GameFlips
    \/ Either /\ CorePersists
    \/ Either /\ CoreStops
    \/ Either /\ CoreStarts

(* The fairness of Hispowerd: a write that can fail can also succeed.      *)
MCFairness ==
    /\ WF_<<vars, part>>(MCWorks)
    /\ WF_<<vars, part>>(Start /\ restarts /\ UNCHANGED part)

MCSpec == MCInit /\ [][MCNext]_<<vars, part>> /\ MCFairness

=============================================================================
