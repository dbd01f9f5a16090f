----------------------------- MODULE MCRuntime ------------------------------
(***************************************************************************)
(* The parts of hisnosd that share no state with each other, for TLC: the  *)
(* watchdog, the self-healer and the policy enforcer.  A behaviour runs    *)
(* one of them, named by part, and leaves the others in an initial state   *)
(* with every service up: interleaving parts that share nothing would add  *)
(* states and no behaviour of any part.                                    *)
(***************************************************************************)
EXTENDS Watchdog, SelfHealer, PolicyEnforcer

VARIABLE part       \* the part that runs

allvars == <<vars, healervars, enforcervars, part>>

Watchdogs == part = "watchdog" /\ UNCHANGED <<healervars, enforcervars, part>>
Healers   == part = "healer"   /\ UNCHANGED <<vars, enforcervars, part>>
Enforcers == part = "enforcer" /\ UNCHANGED <<vars, healervars, part>>

MCInit ==
    /\ part \in {"watchdog", "healer", "enforcer"}
    /\ Init /\ HealerInit /\ EnforcerInit
    /\ part # "watchdog" => alive
    /\ part # "healer" => /\ \A s \in Services : up[s]
                          /\ failing = CHOOSE s \in Services : TRUE

MCNext ==
    \/ Watchdogs /\ Tick
    \/ Watchdogs /\ HeartbeatRound
    \/ Watchdogs /\ RestartRuns
    \/ Watchdogs /\ AliveChanges
    \/ Healers /\ ProbeStart
    \/ Healers /\ ProbeOne
    \/ Healers /\ ProbeEnd
    \/ Healers /\ Notify
    \/ Healers /\ Disable
    \/ Healers /\ Escalate
    \/ \E s \in Services : Healers /\ RestartWake(s)
    \/ \E s \in Services : Healers /\ RestartReturns(s)
    \/ \E s \in Services : Healers /\ RestartResets(s)
    \/ \E s \in Services : Healers /\ ServiceFlips(s)
    \/ \E a \in Actions : Enforcers /\ SubmitStamp(a)
    \/ \E a \in Actions : Enforcers /\ SubmitPush(a)
    \/ \E a \in Actions : Enforcers /\ SubmitUp(a)
    \/ \E a \in Actions : Enforcers /\ SubmitPoke(a)
    \/ Enforcers /\ WorkerWake
    \/ Enforcers /\ WorkerStop
    \/ Enforcers /\ WorkerEmpty
    \/ Enforcers /\ WorkerPop
    \/ Enforcers /\ WorkerDown
    \/ Enforcers /\ WorkerTake
    \/ Enforcers /\ WorkerExec
    \/ Enforcers /\ SubprocessHangs
    \/ Enforcers /\ Cancel

(* The fairness of each part, as its module states it, of the steps it can *)
(* take here.                                                              *)
MCFairness ==
    /\ WF_allvars(Watchdogs /\ Tick)
    /\ WF_allvars(Watchdogs /\ HeartbeatRound)
    /\ WF_allvars(Watchdogs /\ RestartRuns)
    /\ WF_allvars(Healers /\ ProbeStep)
    /\ \A s \in Services : WF_allvars(Healers /\ RestartStep(s))
    /\ WF_allvars(Enforcers /\ Worker)
    /\ \A a \in Actions : WF_allvars(Enforcers /\ Submits(a))

MCSpec == MCInit /\ [][MCNext]_allvars /\ MCFairness

-----------------------------------------------------------------------------
(* The type invariants of the three parts.                                 *)
PartsTypeOK == TypeOK /\ HealerTypeOK /\ EnforcerTypeOK

=============================================================================
