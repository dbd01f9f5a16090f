------------------------------ MODULE RTGuard ------------------------------
(***************************************************************************)
(* The guard against real-time priorities (core/performance/rt_guard.go).  *)
(* A tick reads the scheduling policy of every process and then demotes    *)
(* those it does not allow, one chrt at a time, while processes raise      *)
(* their priority, exit and leave their PID to others.                     *)
(***************************************************************************)
EXTENDS FiniteSets

CONSTANTS
    PIDs        \* the PIDs a process may have

VARIABLES
    listed,     \* PIDs whose process has a name of rtWhitelist
    rt,         \* PIDs whose process has SCHED_FIFO or SCHED_RR
    alerted, demoted,   \* RTGuard.alerted, .demoted
    found,      \* the processes of this scan still to be looked at
    budget,     \* sched_rt_runtime_us is the 95 % of the guard
    budgetOK    \* RTGuard.budgetOK

rtvars == <<listed, rt, alerted, demoted, found, budget, budgetOK>>

-----------------------------------------------------------------------------
(* Tick.                                                                   *)

(* enforceRTBudget, which NewRTGuard calls too.                            *)
EnforceRTBudget ==
    /\ budgetOK' \in BOOLEAN
    /\ budget' = (budgetOK' \/ budget)

(* Variant: only the alerts are forgotten.                                 *)
StillDemotedForgetful(scan) == demoted

(* gcMaps forgets whom the scan has not found, and looks for them among    *)
(* the alerted.                                                            *)
StillDemoted(scan) == {p \in demoted : p \in alerted => p \in scan}

(* scanRTProcesses walks /proc: who comes or goes meanwhile may be missed. *)
(* Names are read with policies, so the allowed ones are dropped here, and *)
(* nobody waits between gcMaps and the alerts.                             *)
Scan ==
    /\ found = {}
    /\ EnforceRTBudget
    /\ \E scan \in SUBSET rt :
          /\ alerted' = (alerted \cap scan) \cup (scan \ listed)
          /\ demoted' = StillDemoted(scan)
          /\ found' = scan \ (listed \cup demoted')
    /\ UNCHANGED <<listed, rt>>

(* /proc cannot be read.                                                   *)
ScanFails ==
    /\ found = {}
    /\ EnforceRTBudget
    /\ UNCHANGED <<listed, rt, alerted, demoted, found>>

(* demoteToNormal names a PID: what runs under it now is demoted.          *)
Demote(p) ==
    /\ p \in found
    /\ found' = found \ {p}
    /\ \/ /\ demoted' = demoted \cup {p}
          /\ rt' = rt \ {p}
       \/ UNCHANGED <<demoted, rt>>
    /\ UNCHANGED <<listed, alerted, budget, budgetOK>>

-----------------------------------------------------------------------------
(* The processes of the machine.                                           *)

Raises(p) ==
    /\ p \notin rt
    /\ rt' = rt \cup {p}
    /\ UNCHANGED <<listed, alerted, demoted, found, budget, budgetOK>>

Leaves(p) ==
    /\ p \in rt
    /\ rt' = rt \ {p}
    /\ UNCHANGED <<listed, alerted, demoted, found, budget, budgetOK>>

(* A process exits, and one of another name gets its PID.                  *)
ExitsAndReuses(p) ==
    /\ rt' = rt \ {p}
    /\ listed' = IF p \in listed THEN listed \ {p} ELSE listed \cup {p}
    /\ UNCHANGED <<alerted, demoted, found, budget, budgetOK>>

BudgetChanges ==
    /\ budget' = FALSE
    /\ UNCHANGED <<listed, rt, alerted, demoted, found, budgetOK>>

(* hisnosd starts again: NewRTGuard.                                       *)
NewRTGuard ==
    /\ EnforceRTBudget
    /\ alerted' = {} /\ demoted' = {} /\ found' = {}
    /\ UNCHANGED <<listed, rt>>

RTInit ==
    /\ listed \in SUBSET PIDs
    /\ rt \in SUBSET PIDs
    /\ alerted = {} /\ demoted = {} /\ found = {}
    /\ budgetOK \in BOOLEAN /\ budget \in BOOLEAN
    /\ budgetOK => budget

RTNext ==
    \/ Scan \/ ScanFails
    \/ \E p \in PIDs : Demote(p) \/ Raises(p) \/ Leaves(p) \/ ExitsAndReuses(p)
    \/ BudgetChanges
    \/ NewRTGuard

RTSpec == RTInit /\ [][RTNext]_rtvars

RTTypeOK ==
    /\ {listed, rt, alerted, demoted, found} \subseteq SUBSET PIDs
    /\ {budget, budgetOK} \subseteq BOOLEAN

-----------------------------------------------------------------------------
(* A demotion is remembered no longer than the alert: gcMaps walks only    *)
(* the alerted, so that one left over would never be forgotten, and        *)
(* whoever gets that PID later would never be demoted.                     *)
DemotionIsForgotten == demoted \cup found \subseteq alerted

=============================================================================
