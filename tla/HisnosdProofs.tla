--------------------------- MODULE HisnosdProofs ----------------------------
(***************************************************************************)
(* Proofs about Hisnosd for any clients, commands, services that may die,  *)
(* buffer size and bounds.                                                 *)
(***************************************************************************)
EXTENDS Hisnosd, TLAPS

USE InstanceAssumption

-----------------------------------------------------------------------------
(* Lemmas about the operators the actions are built from.                  *)

(* What a handler does to a state yields a state.                          *)
LEMMA EffectType ==
    ASSUME NEW r \in Requests, NEW s \in States, NEW c \in Clients
    PROVE  Effect(r, s, c) \in States
<1>1. r.mode \in Modes
  BY DEF Requests, Modes
<1> QED
  BY <1>1 DEF Effect, States, Modes

(* An update to a state leaves two states behind.                          *)
LEMMA UpdateType ==
    ASSUME NEW s \in States, NEW ok, Update(s, ok), disk \in States
    PROVE  st' \in States /\ disk' \in States
BY DEF Update

(* Emitting keeps the channel within its capacity and never leaves it      *)
(* empty: a dropped event finds the channel full.                          *)
LEMMA EmitFills ==
    ASSUME NEW n \in Nat \ {0}, pending \in 0..BufSize, Emit(n)
    PROVE  pending' \in 1..BufSize
BY DEF Emit

LEMMA DefaultStateType == DefaultState \in States
BY DEF DefaultState, States, Modes, MaxRisk, Services

LEMMA SupIdleType == SupIdle \in SupStates
BY DEF SupIdle, SupStates, SupPcs, Services, MaxRisk

(* Going on to the next service, or to the vault, keeps the record's shape.*)
LEMMA NextServiceType ==
    ASSUME sup \in SupStates, NEW s \in Services, NextService(s)
    PROVE  sup' \in SupStates
<1>1. AfterService(s) \in [pc : {"probe", "vault"}, svc : Services]
  BY DEF AfterService, Services
<1> QED
  BY <1>1 DEF NextService, SupStates, SupPcs

(* So does going to any other point of the goroutine.                      *)
LEMMA SupPcType ==
    ASSUME NEW s \in SupStates, NEW p \in SupPcs, NEW b \in BOOLEAN
    PROVE  /\ [s EXCEPT !.pc = p] \in SupStates
           /\ [s EXCEPT !.pc = p, !.prev = b] \in SupStates
BY DEF SupStates

-----------------------------------------------------------------------------
(* Type correctness: one step per action, each against the conjuncts the   *)
(* action can disturb.                                                     *)

(* Each action keeps each variable in its type.                            *)
LEMMA TypeStep ==
    ASSUME TypeOK, [Next]_vars
    PROVE  TypeOK'
<1> USE DEF TypeOK, core, cli, loop, rst, safe, world
<1>1. CASE PolicyReceive
  BY <1>1 DEF PolicyReceive
<1>2. CASE PolicyEvaluate
  BY <1>2 DEF PolicyEvaluate, Evaluate, Recommends
<1>3. CASE PolicyLockVault
  BY <1>3 DEF PolicyLockVault, Done, FirstOf
<1>4. CASE PolicyStrictFirewall
  <2>1. up' \in [Services -> BOOLEAN] /\ ruleset' \in {"default", "strict"}
    BY ZenonT(40), <1>4 DEF PolicyStrictFirewall, ReloadNftables
  <2>2. /\ todo' \subseteq Dispatched
        /\ ppc' \in {"idle", "dispatch"}
        /\ (todo' = {}) <=> (ppc' = "idle")
    BY <1>4 DEF PolicyStrictFirewall, Done
  <2> QED
    BY <1>4, <2>1, <2>2 DEF PolicyStrictFirewall
<1>5. CASE PolicyRaiseRisk
  BY <1>5 DEF PolicyRaiseRisk, Done, Update, States, MaxRisk
<1>6. CASE PolicyUpdate
  <2>1. PICK ok \in PersistOutcomes, s \in States : Update(s, ok)
    BY <1>6 DEF PolicyUpdate, States, Modes
  <2>2. todo # {}
    BY <1>6 DEF PolicyUpdate, FirstOf
  <2> QED
    BY <1>6, <2>1, <2>2, UpdateType DEF PolicyUpdate
<1>7. CASE PolicyEmit
  BY <1>7, EmitFills DEF PolicyEmit, Done
<1>8. CASE SupCheck
  <2>1. st.mounted \in BOOLEAN /\ "probe" \in SupPcs
    BY DEF States, SupPcs
  <2> QED
    BY <1>8, <2>1, SupIdleType, SupPcType DEF SupCheck, PrevState
<1>9. CASE SupProbe
  BY <1>9 DEF SupProbe, SupStates, SupPcs
<1>10. CASE SupUpdate
  <2>1. PICK ok \in PersistOutcomes, s \in States : Update(s, ok)
    BY <1>10 DEF SupUpdate, States, SupStates
  <2>2. sup.svc \in Services
    BY DEF SupStates
  <2>3. sup' \in SupStates
    <3>1. CASE NextService(sup.svc)
      BY <3>1, <2>2, NextServiceType
    <3>2. CASE sup' \in {[sup EXCEPT !.pc = "crashed"],
                         [sup EXCEPT !.pc = "restored"]}
      BY <3>2 DEF SupStates, SupPcs
    <3> QED
      BY <1>10, <3>1, <3>2 DEF SupUpdate
  <2> QED
    BY <1>10, <2>1, <2>3, UpdateType DEF SupUpdate
<1>11. CASE SupCrashed
  <2>1. sup.svc \in Services
    BY DEF SupStates
  <2>2. sup' \in SupStates
    BY <1>11, <2>1, NextServiceType DEF SupCrashed
  <2>3. CrashEvents(sup.svc) \in Nat \ {0}
    BY DEF CrashEvents
  <2>4. pending' \in 0..BufSize
    BY <1>11, <2>3, EmitFills DEF SupCrashed
  <2>5. spawned' \in [Services -> Nat]
    <3>1. CASE sup.svc \in Restartable
      <4>1. spawned' = [spawned EXCEPT ![sup.svc] = @ + 1]
        BY <1>11, <3>1 DEF SupCrashed
      <4> QED
        BY <2>1, <4>1
    <3>2. CASE sup.svc \notin Restartable
      <4>1. spawned' = [spawned EXCEPT ![sup.svc] = @]
        BY <1>11, <3>2 DEF SupCrashed
      <4> QED
        BY <4>1
    <3> QED
      BY <3>1, <3>2
  <2> QED
    BY <1>11, <2>2, <2>4, <2>5 DEF SupCrashed
<1>12. CASE SupRestored
  <2>1. sup.svc \in Services
    BY DEF SupStates
  <2>2. sup' \in SupStates
    BY <1>12, <2>1, NextServiceType DEF SupRestored
  <2> QED
    BY <1>12, <2>2, EmitFills DEF SupRestored
<1>13. CASE SupVaultRead
  BY <1>13, SupIdleType DEF SupVaultRead, SupStates, SupPcs
<1>14. CASE SupVaultUpdate
  <2>1. PICK ok \in PersistOutcomes, s \in States : Update(s, ok)
    BY <1>14 DEF SupVaultUpdate, States, SupStates
  <2> QED
    BY <1>14, <2>1, UpdateType, EmitFills, SupIdleType DEF SupVaultUpdate
<1>15. CASE SupRisk
  BY <1>15 DEF SupRisk, SupIdle, SupStates, SupPcs, Services
<1>16. CASE SupRiskUpdate
  <2>1. PICK ok \in PersistOutcomes, s \in States : Update(s, ok)
    BY <1>16 DEF SupRiskUpdate, States, SupStates
  <2>2. sup' \in SupStates
    BY <1>16, SupIdleType, SupPcType DEF SupRiskUpdate, SupPcs
  <2> QED
    BY <1>16, <2>1, <2>2, UpdateType DEF SupRiskUpdate
<1>17. CASE SupRiskEmit
  BY <1>17, EmitFills, SupIdleType DEF SupRiskEmit
<1>18. ASSUME NEW t \in Mortal, ServiceFlips(t) PROVE TypeOK'
  BY <1>18 DEF ServiceFlips
<1>19. CASE VaultFlips
  BY <1>19 DEF VaultFlips
<1>20. CASE ThreatScore
  BY <1>20 DEF ThreatScore
<1>21. CASE CrashRestart
  <2>1. /\ spawned' \in [Services -> Nat] /\ sleeping' \in [Services -> Nat]
        /\ crashes' \in [Services -> Nat]
        /\ esc' \in [Escalators ->
                      {"idle", "enter", "persist", "apply", "update"}]
    BY <1>21 DEF CrashRestart
  <2>2. /\ cpc' \in [Clients -> {"idle", "exec", "update", "emit"}]
        /\ creq' \in [Clients -> Requests \cup {NoRequest}]
        /\ \A c \in Clients : cpc'[c] # "idle" => creq'[c] \in Requests
    BY <1>21 DEF CrashRestart
  <2>3. pending' \in 0..BufSize /\ left' \in [env : Nat, req : Nat, crash : Nat]
    BY <1>21 DEF CrashRestart, StartupEvents
  <2> QED
    BY <1>21, <2>1, <2>2, <2>3, SupIdleType DEF CrashRestart
<1>22. ASSUME NEW c \in Clients, Admit(c) PROVE TypeOK'
  BY <1>22 DEF Admit
<1>23. ASSUME NEW c \in Clients, CmdExec(c) PROVE TypeOK'
  BY ZenonT(40), <1>23 DEF CmdExec, ReloadNftables
<1>24. ASSUME NEW c \in Clients, CmdUpdate(c) PROVE TypeOK'
  <2>1. PICK ok \in PersistOutcomes : Update(Effect(creq[c], st, c), ok)
    BY <1>24 DEF CmdUpdate
  <2>2. st' \in States /\ disk' \in States
    BY <1>24, <2>1, EffectType, UpdateType DEF CmdUpdate
  <2> QED
    BY <1>24, <2>2 DEF CmdUpdate
<1>25. ASSUME NEW c \in Clients, CmdEmit(c) PROVE TypeOK'
  BY <1>25, EmitFills DEF CmdEmit
<1>26. ASSUME NEW t \in Services, RestartRecord(t) PROVE TypeOK'
  BY <1>26, EmitFills DEF RestartRecord
<1>27. ASSUME NEW t \in Services, RestartRun(t) PROVE TypeOK'
  <2>1. sleeping' \in [Services -> Nat]
    BY <1>27 DEF RestartRun
  <2>2. up' \in [Services -> BOOLEAN] /\ ruleset' \in {"default", "strict"}
    BY <1>27 DEF RestartRun
  <2> QED
    BY <1>27, <2>1, <2>2 DEF RestartRun
<1>28. ASSUME NEW t \in Services, CrashesAge(t) PROVE TypeOK'
  BY <1>28 DEF CrashesAge
<1>29. ASSUME NEW e \in Escalators, EscTrip(e) PROVE TypeOK'
  BY <1>29 DEF EscTrip
<1>30. ASSUME NEW e \in Escalators, EscEnter(e) PROVE TypeOK'
  BY <1>30 DEF EscEnter, EnterReturns
<1>31. ASSUME NEW e \in Escalators, EscPersist(e) PROVE TypeOK'
  BY <1>31 DEF EscPersist
<1>32. ASSUME NEW e \in Escalators, EscApply(e) PROVE TypeOK'
  BY <1>32 DEF EscApply, EnterReturns
<1>33. ASSUME NEW e \in Escalators, EscUpdate(e) PROVE TypeOK'
  <2>1. PICK ok \in PersistOutcomes, s \in States : Update(s, ok)
    BY <1>33 DEF EscUpdate, States, Modes
  <2> QED
    BY <1>33, <2>1, UpdateType DEF EscUpdate
<1>34. CASE UNCHANGED vars
  BY <1>34 DEF vars
<1> QED
  BY <1>1, <1>2, <1>3, <1>4, <1>5, <1>6, <1>7, <1>8, <1>9, <1>10,
     <1>11, <1>12, <1>13, <1>14, <1>15, <1>16, <1>17, <1>18,
     <1>19, <1>20, <1>21, <1>22, <1>23, <1>24, <1>25, <1>26,
     <1>27, <1>28, <1>29, <1>30, <1>31, <1>32, <1>33, <1>34
     DEF Next, PolicyStep, SupStep, Environment, ClientStep, RestartStep,
         EscHandler

(* Every variable of the daemon keeps the shape its code gives it, through *)
(* every step of every goroutine and every restart.                        *)
THEOREM TypeCorrect == Spec => []TypeOK
<1>1. Init => TypeOK
  <2> SUFFICES ASSUME Init PROVE TypeOK
    OBVIOUS
  <2>1. st \in States /\ disk \in States /\ sup \in SupStates
    BY DefaultStateType, SupIdleType DEF Init
  <2>2. threat \in 0..MaxRisk /\ left \in [env : Nat, req : Nat, crash : Nat]
    BY DEF Init
  <2>3. up \in [Services -> BOOLEAN]
    BY DEF Init
  <2>4. /\ cpc \in [Clients -> {"idle", "exec", "update", "emit"}]
        /\ creq \in [Clients -> Requests \cup {NoRequest}]
        /\ \A c \in Clients : cpc[c] # "idle" => creq[c] \in Requests
    BY DEF Init
  <2>5. /\ spawned \in [Services -> Nat] /\ sleeping \in [Services -> Nat]
        /\ crashes \in [Services -> Nat]
        /\ esc \in [Escalators -> {"idle", "enter", "persist", "apply", "update"}]
    BY DEF Init
  <2>6. pending \in 0..BufSize
    BY DEF Init, StartupEvents
  <2> QED
    BY <2>1, <2>2, <2>3, <2>4, <2>5, <2>6 DEF Init, TypeOK
<1> QED
  BY <1>1, TypeStep, PTL DEF Spec

-----------------------------------------------------------------------------
(* Why the policy loop always looks again.  Three facts about a single     *)
(* step carry every result below.                                          *)

ModeActions == EnterSafeMode \cup {ExitSafeMode}

(* Only an evaluation ends the notice: whatever else runs, an event in the *)
(* channel or on its way stays until the loop has read the state.          *)
LEMMA NoticedPersists ==
    ASSUME TypeOK, [Next]_vars, Noticed
    PROVE  PolicyEvaluate \/ Noticed'
<1> USE DEF TypeOK, Noticed, core, cli, loop, rst, safe, world
<1>1. CASE PolicyReceive
  BY <1>1 DEF PolicyReceive
<1>2. CASE PolicyLockVault
  BY <1>2 DEF PolicyLockVault, Done, ForceVaultLock, EnterSafeMode,
              EnterOnFirewall, EnterOnAudit, ExitSafeMode
<1>3. CASE PolicyStrictFirewall
  BY <1>3 DEF PolicyStrictFirewall, Done, FirewallStrict, EnterSafeMode,
              EnterOnFirewall, EnterOnAudit, ExitSafeMode
<1>4. CASE PolicyRaiseRisk
  BY <1>4 DEF PolicyRaiseRisk, Done, IncreaseRisk, EnterSafeMode,
              EnterOnFirewall, EnterOnAudit, ExitSafeMode
<1>5. CASE PolicyUpdate
  BY <1>5 DEF PolicyUpdate
<1>6. CASE PolicyEmit
  BY <1>6, EmitFills DEF PolicyEmit
<1>7. CASE SupCheck \/ SupProbe \/ SupUpdate \/ SupVaultRead \/ SupRisk
           \/ SupRiskUpdate
  BY <1>7 DEF SupCheck, SupProbe, SupUpdate, SupVaultRead, SupRisk,
              SupRiskUpdate
<1>8. CASE SupCrashed
  BY <1>8, EmitFills DEF SupCrashed, CrashEvents
<1>9. CASE SupRestored \/ SupVaultUpdate \/ SupRiskEmit
  BY <1>9, EmitFills DEF SupRestored, SupVaultUpdate, SupRiskEmit
<1>10. CASE CrashRestart
  BY <1>10 DEF CrashRestart, StartupEvents
<1>11. CASE \/ \E s \in Mortal : ServiceFlips(s)
            \/ VaultFlips \/ ThreatScore
            \/ \E s \in Services : RestartRun(s) \/ CrashesAge(s)
            \/ \E e \in Escalators : EscTrip(e) \/ EscHandler(e)
            \/ UNCHANGED vars
  BY <1>11 DEF ServiceFlips, VaultFlips, ThreatScore, RestartRun, CrashesAge,
               EscTrip, EscHandler, EscEnter, EscPersist, EscApply, EscUpdate,
               vars
<1>12. ASSUME NEW s \in Services, RestartRecord(s) PROVE Noticed'
  BY <1>12, EmitFills DEF RestartRecord
<1>13. ASSUME NEW c \in Clients, Admit(c) \/ CmdExec(c) \/ CmdUpdate(c)
       PROVE  Noticed'
  BY <1>13 DEF Admit, CmdExec, CmdUpdate
<1>14. ASSUME NEW c \in Clients, CmdEmit(c) PROVE Noticed'
  BY <1>14, EmitFills DEF CmdEmit
<1> QED
  BY <1>1, <1>2, <1>3, <1>4, <1>5, <1>6, <1>7, <1>8, <1>9, <1>10, <1>11, <1>12,
     <1>13, <1>14
     DEF Next, PolicyStep, SupStep, Environment, ClientStep, RestartStep

(* What P4, P5 and P7 ask of a state.                                      *)
LEMMA ModeRules ==
    ASSUME NEW s \in States
    PROVE  /\ EnterOnFirewall \in Evaluate(s)
                <=> ~s.fw /\ s.mode # "safe-mode"
           /\ EnterOnAudit \in Evaluate(s)
                <=> ~s.alive["logd"] /\ s.mode # "safe-mode"
           /\ ExitSafeMode \in Evaluate(s)
                <=> /\ s.mode = "safe-mode" /\ s.fw /\ s.alive["logd"]
                    /\ s.risk < Critical
BY DEF Evaluate, Recommends, PolicyActions, ForceVaultLock, FirewallStrict,
       RejectOnUpdate, IncreaseRisk, EnterOnFirewall, EnterOnAudit,
       RejectOnSafeMode, ExitSafeMode, RestartThreatd

(* An evaluation that leaves nothing on the way found no mode change due.  *)
LEMMA EvaluationSettles ==
    ASSUME TypeOK, PolicyEvaluate, ~Noticed'
    PROVE  st' = st /\ Evaluate(st) \cap ModeActions = {}
BY DEF TypeOK, Noticed, PolicyEvaluate, Dispatched, ModeActions, core

(* A step after which nothing is on the way has changed nothing that the   *)
(* rules look at but these: the risk may have risen, Firewall.Active may   *)
(* have been set to what is recorded of nftables, and the watchdog may     *)
(* have entered safe mode.                                                 *)
LEMMA QuietStep ==
    ASSUME TypeOK, [Next]_vars, ~Noticed', PersistMayFail = FALSE
    PROVE  /\ st'.alive = st.alive
           /\ st'.risk >= st.risk
           /\ st'.fw \in {st.fw, st.alive["nft"]}
           /\ \/ st'.mode = st.mode
              \/ "watchdog" \in Escalators /\ st'.mode = "safe-mode"
<1> USE DEF TypeOK, Noticed, States, core, cli, loop, rst, safe, world, MaxRisk
<1>1. CASE st' = st
  BY <1>1
<1>2. CASE PolicyRaiseRisk
  BY <1>2 DEF PolicyRaiseRisk, Update
<1>3. CASE PolicyUpdate
  BY <1>3 DEF PolicyUpdate
<1>4. CASE SupUpdate
  BY <1>4 DEF SupUpdate, Update, SupStates, Services
<1>5. CASE SupVaultUpdate
  BY <1>5, EmitFills DEF SupVaultUpdate
<1>6. CASE SupRiskUpdate
  BY <1>6 DEF SupRiskUpdate, SupIdle
<1>7. CASE CrashRestart
  BY <1>7 DEF CrashRestart, StartupEvents
<1>8. ASSUME NEW c \in Clients, CmdUpdate(c) PROVE FALSE
  BY <1>8 DEF CmdUpdate, PersistOutcomes
<1>9. ASSUME NEW e \in Escalators, EscUpdate(e)
      PROVE  /\ st'.mode = "safe-mode" /\ st'.alive = st.alive
             /\ st'.risk = st.risk /\ st'.fw = st.fw
  BY <1>9 DEF EscUpdate, Update
<1>10. CASE \/ PolicyReceive \/ PolicyEvaluate \/ PolicyLockVault
            \/ PolicyStrictFirewall \/ PolicyEmit \/ SupCheck \/ SupProbe
            \/ SupCrashed \/ SupRestored \/ SupVaultRead \/ SupRisk
            \/ SupRiskEmit
  BY <1>1, <1>10 DEF PolicyReceive, PolicyEvaluate, PolicyLockVault,
       PolicyStrictFirewall, PolicyEmit, SupCheck, SupProbe, SupCrashed,
       SupRestored, SupVaultRead, SupRisk, SupRiskEmit
<1>11. CASE \/ \E s \in Mortal : ServiceFlips(s)
            \/ VaultFlips \/ ThreatScore
            \/ \E s \in Services : RestartStep(s) \/ CrashesAge(s)
            \/ \E e \in Escalators : EscTrip(e) \/ EscEnter(e)
                                     \/ EscPersist(e) \/ EscApply(e)
            \/ \E c \in Clients : Admit(c) \/ CmdExec(c) \/ CmdEmit(c)
            \/ UNCHANGED vars
  BY <1>1, <1>11 DEF ServiceFlips, VaultFlips, ThreatScore, RestartStep,
       RestartRecord, RestartRun, CrashesAge, EscTrip, EscEnter, EscPersist,
       EscApply, Admit, CmdExec, CmdEmit, vars
<1> QED
  <2>1. ASSUME NEW e \in Escalators, EscUpdate(e)
        PROVE  "watchdog" \in Escalators
    BY <2>1 DEF EscUpdate
  <2> QED
    BY <1>2, <1>3, <1>4, <1>5, <1>6, <1>7, <1>8, <1>9, <1>10, <1>11, <2>1
       DEF Next, PolicyStep, SupStep, Environment, ClientStep, EscHandler

-----------------------------------------------------------------------------
(* The three theorems.                                                     *)

(* P5: with a disk that takes its writes, a dead audit pipeline outside    *)
(* safe mode is always on its way to the policy loop.                      *)
THEOREM AuditLossIsNoticed ==
    ASSUME PersistMayFail = FALSE
    PROVE  Spec => []AuditLossNoticed
<1>1. Init => AuditLossNoticed
  BY DEF Init, AuditLossNoticed, Noticed, StartupEvents
<1>2. TypeOK /\ AuditLossNoticed /\ [Next]_vars => AuditLossNoticed'
  <2> SUFFICES ASSUME TypeOK, AuditLossNoticed, [Next]_vars, ~Noticed',
                      ~st'.alive["logd"]
               PROVE  st'.mode = "safe-mode"
    BY DEF AuditLossNoticed
  <2>1. CASE PolicyEvaluate
    BY <2>1, EvaluationSettles, ModeRules
       DEF ModeActions, EnterSafeMode, TypeOK
  <2>2. CASE ~PolicyEvaluate
    BY <2>2, NoticedPersists, QuietStep DEF AuditLossNoticed
  <2> QED
    BY <2>1, <2>2
<1> QED
  BY <1>1, <1>2, TypeCorrect, PTL DEF Spec

(* Firewall.Active is what is recorded of nftables.service: only a         *)
(* reload_firewall lets the two part.                                      *)
THEOREM FirewallRecorded ==
    ASSUME "reload_firewall" \notin Commands
    PROVE  Spec => []FirewallAgrees
<1>1. Init => FirewallAgrees
  BY DEF Init, FirewallAgrees, Agrees, DefaultState, Services
<1>2. TypeOK /\ FirewallAgrees /\ [Next]_vars => FirewallAgrees'
  <2> SUFFICES ASSUME TypeOK, FirewallAgrees, [Next]_vars
               PROVE  FirewallAgrees'
    OBVIOUS
  <2> USE DEF TypeOK, FirewallAgrees, Agrees, States, core, cli, loop, rst,
              safe, world
  <2>1. CASE UNCHANGED <<st, disk>>
    BY <2>1
  <2>2. ASSUME NEW s \in States, NEW ok, Agrees(s), Update(s, ok)
        PROVE  FirewallAgrees'
    BY <2>2 DEF Update
  <2>3. CASE PolicyRaiseRisk
    BY <2>3 DEF PolicyRaiseRisk, Update, MaxRisk
  <2>4. CASE PolicyUpdate
    BY <2>4 DEF PolicyUpdate, Update
  <2>5. CASE SupUpdate
    BY <2>5 DEF SupUpdate, Update, SupStates, Services
  <2>6. CASE SupVaultUpdate
    BY <2>6 DEF SupVaultUpdate, Update
  <2>7. CASE SupRiskUpdate
    BY <2>7 DEF SupRiskUpdate, Update
  <2>8. CASE CrashRestart
    BY <2>8 DEF CrashRestart
  <2>9. ASSUME NEW c \in Clients, CmdUpdate(c) PROVE FirewallAgrees'
    <3>1. creq[c] \in Requests /\ creq[c].cmd # "reload_firewall"
      BY <2>9 DEF CmdUpdate, Requests
    <3>2. PICK ok \in PersistOutcomes : Update(Effect(creq[c], st, c), ok)
      BY <2>9 DEF CmdUpdate
    <3>3. Effect(creq[c], st, c) \in States
      BY <3>1, EffectType
    <3>4. Agrees(Effect(creq[c], st, c))
      BY <3>1 DEF Effect
    <3> QED
      BY <2>2, <3>2, <3>3, <3>4
  <2>10. ASSUME NEW e \in Escalators, EscUpdate(e) PROVE FirewallAgrees'
    BY <2>10 DEF EscUpdate, Update
  <2>11. CASE \/ PolicyReceive \/ PolicyEvaluate \/ PolicyLockVault
              \/ PolicyStrictFirewall \/ PolicyEmit \/ SupCheck \/ SupProbe
              \/ SupCrashed \/ SupRestored \/ SupVaultRead \/ SupRisk
              \/ SupRiskEmit
    BY <2>1, <2>11 DEF PolicyReceive, PolicyEvaluate, PolicyLockVault,
         PolicyStrictFirewall, PolicyEmit, SupCheck, SupProbe, SupCrashed,
         SupRestored, SupVaultRead, SupRisk, SupRiskEmit
  <2>12. CASE \/ \E s \in Mortal : ServiceFlips(s)
              \/ VaultFlips \/ ThreatScore
              \/ \E s \in Services : RestartStep(s) \/ CrashesAge(s)
              \/ \E e \in Escalators : EscTrip(e) \/ EscEnter(e)
                                       \/ EscPersist(e) \/ EscApply(e)
              \/ \E c \in Clients : Admit(c) \/ CmdExec(c) \/ CmdEmit(c)
              \/ UNCHANGED vars
    BY <2>1, <2>12 DEF ServiceFlips, VaultFlips, ThreatScore, RestartStep,
         RestartRecord, RestartRun, CrashesAge, EscTrip, EscEnter, EscPersist,
         EscApply, Admit, CmdExec, CmdEmit, vars
  <2> QED
    BY <2>3, <2>4, <2>5, <2>6, <2>7, <2>8, <2>9, <2>10, <2>11, <2>12
       DEF Next, PolicyStep, SupStep, Environment, ClientStep, EscHandler
<1> QED
  BY <1>1, <1>2, TypeCorrect, PTL DEF Spec

(* P4: the same for the firewall, as long as nobody reloads it by hand.    *)
THEOREM FirewallLossIsNoticed ==
    ASSUME PersistMayFail = FALSE, "reload_firewall" \notin Commands
    PROVE  Spec => []FirewallLossNoticed
<1>1. Init => FirewallLossNoticed
  BY DEF Init, FirewallLossNoticed, Noticed, StartupEvents
<1>2. TypeOK /\ FirewallAgrees /\ FirewallLossNoticed /\ [Next]_vars
        => FirewallLossNoticed'
  <2> SUFFICES ASSUME TypeOK, FirewallAgrees, FirewallLossNoticed,
                      [Next]_vars, ~Noticed', ~st'.fw
               PROVE  st'.mode = "safe-mode"
    BY DEF FirewallLossNoticed
  <2>1. CASE PolicyEvaluate
    BY <2>1, EvaluationSettles, ModeRules
       DEF ModeActions, EnterSafeMode, TypeOK
  <2>2. CASE ~PolicyEvaluate
    BY <2>2, NoticedPersists, QuietStep
       DEF FirewallLossNoticed, FirewallAgrees, Agrees
  <2> QED
    BY <2>1, <2>2
<1> QED
  BY <1>1, <1>2, TypeCorrect, FirewallRecorded, PTL DEF Spec

(* The whole mode protocol: without manual reloads and without a watchdog  *)
(* that sets the mode silently, a daemon at rest is in the mode its rules  *)
(* ask for.                                                                *)
THEOREM ModeIsSettled ==
    ASSUME PersistMayFail = FALSE, "reload_firewall" \notin Commands,
           "watchdog" \notin Escalators
    PROVE  Spec => []ModeSettled
<1>1. Init => ModeSettled
  BY DEF Init, ModeSettled, Noticed, StartupEvents
<1>2. TypeOK /\ FirewallAgrees /\ ModeSettled /\ [Next]_vars => ModeSettled'
  <2> SUFFICES ASSUME TypeOK, FirewallAgrees, ModeSettled, [Next]_vars,
                      TypeOK', ~Noticed'
               PROVE  Evaluate(st') \cap ModeActions = {}
    BY TypeStep DEF ModeSettled, ModeActions
  <2>1. CASE PolicyEvaluate
    BY <2>1, EvaluationSettles
  <2>2. CASE ~PolicyEvaluate
    <3>1. Evaluate(st) \cap ModeActions = {}
      BY <2>2, NoticedPersists DEF ModeSettled, ModeActions
    <3>2. /\ st'.alive = st.alive /\ st'.risk >= st.risk
          /\ st'.fw = st.fw /\ st'.mode = st.mode
      BY <2>2, QuietStep DEF FirewallAgrees, Agrees
    <3>3. st \in States /\ st' \in States
      BY DEF TypeOK
    <3>4. st.risk \in Nat /\ st'.risk \in Nat
      BY <3>3 DEF States
    <3> QED
      BY <3>1, <3>2, <3>3, <3>4, ModeRules
         DEF ModeActions, EnterSafeMode, Critical
  <2> QED
    BY <2>1, <2>2
<1> QED
  BY <1>1, <1>2, TypeCorrect, FirewallRecorded, PTL DEF Spec

-----------------------------------------------------------------------------
(* The enforcer.                                                           *)

(* Between the assignment and the write only the lock's holder can see an  *)
(* active safe mode that is not on disk.                                   *)
DurableOrPersisting ==
    smActive => smDisk \/ \E e \in Escalators : esc[e] = "persist"

(* An active safe mode that anyone can observe survives a crash.           *)
THEOREM SafeModeIsDurable ==
    ASSUME PersistMayFail = FALSE
    PROVE  Spec => []ObservedSafeModeIsDurable
<1>1. Init => DurableOrPersisting
  BY DEF Init, DurableOrPersisting
<1>2. TypeOK /\ DurableOrPersisting /\ [Next]_vars => DurableOrPersisting'
  <2> SUFFICES ASSUME TypeOK, DurableOrPersisting, [Next]_vars
               PROVE  DurableOrPersisting'
    OBVIOUS
  <2> USE DEF TypeOK, DurableOrPersisting, core, cli, loop, rst, safe, world
  <2>1. CASE UNCHANGED safe
    BY <2>1
  <2>2. ASSUME NEW e \in Escalators, EscTrip(e) PROVE DurableOrPersisting'
    BY <2>2 DEF EscTrip
  <2>3. ASSUME NEW e \in Escalators, EscEnter(e) PROVE DurableOrPersisting'
    BY <2>3 DEF EscEnter, EnterReturns, EnforcerLocked
  <2>4. ASSUME NEW e \in Escalators, EscPersist(e) PROVE smDisk'
    BY <2>4 DEF EscPersist, PersistOutcomes
  <2>5. ASSUME NEW e \in Escalators, EscApply(e) \/ EscUpdate(e)
        PROVE  DurableOrPersisting'
    BY <2>5 DEF EscApply, EscUpdate, EnterReturns
  <2>6. CASE CrashRestart
    BY <2>6 DEF CrashRestart
  <2>7. CASE PolicyStep \/ SupStep
    BY <2>1, <2>7 DEF PolicyStep, PolicyReceive, PolicyEvaluate,
         PolicyLockVault, PolicyStrictFirewall, PolicyRaiseRisk, PolicyUpdate,
         PolicyEmit, SupStep, SupCheck, SupProbe, SupUpdate, SupCrashed,
         SupRestored, SupVaultRead, SupVaultUpdate, SupRisk, SupRiskUpdate,
         SupRiskEmit
  <2>8. CASE \/ \E s \in Mortal : ServiceFlips(s)
             \/ VaultFlips \/ ThreatScore
             \/ \E s \in Services : RestartStep(s) \/ CrashesAge(s)
             \/ \E c \in Clients : ClientStep(c)
             \/ UNCHANGED vars
    BY <2>1, <2>8 DEF ServiceFlips, VaultFlips, ThreatScore, RestartStep,
         RestartRecord, RestartRun, CrashesAge, ClientStep, Admit, CmdExec,
         CmdUpdate, CmdEmit, vars
  <2> QED
    BY <2>2, <2>3, <2>4, <2>5, <2>6, <2>7, <2>8
       DEF Next, Environment, EscHandler
<1>3. DurableOrPersisting => ObservedSafeModeIsDurable
  BY DEF DurableOrPersisting, ObservedSafeModeIsDurable, EnforcerLocked
<1> QED
  BY <1>1, <1>2, <1>3, TypeCorrect, PTL DEF Spec

=============================================================================
