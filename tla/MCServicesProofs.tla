-------------------------- MODULE MCServicesProofs --------------------------
(***************************************************************************)
(* Proofs about the composition that TLC checks: the types of the engine   *)
(* that answers threats, which is an instance there; that a behaviour of   *)
(* the composition is one of each of its parts; and so that whatever is    *)
(* proved of the parts holds of the composition.                           *)
(***************************************************************************)
EXTENDS MCServices, TuningProofs, StartupProofs, ServicesProofs

-----------------------------------------------------------------------------
(* The decision engine, without its fairness.                              *)
DecisionSteps == D!Init /\ [][D!Next]_(D!vars)

LEMMA EvaluateKeepsTypes ==
    ASSUME D!TypeOK, D!Evaluates
    PROVE  D!TypeOK'
<1> USE EngineAssumption DEF D!TypeOK, D!DecisionAssumption, D!learned
<1>1. CASE D!Tick
  BY <1>1 DEF D!Tick, D!Goes
<1>2. CASE D!Predict
  BY <1>2 DEF D!Predict, D!Goes
<1>3. CASE D!AskOverride
  BY <1>3 DEF D!AskOverride, D!Goes
<1>4. CASE D!AskSafeMode
  BY <1>4 DEF D!AskSafeMode, D!Goes
<1>5. CASE D!Dispatch
  <2>1. D!Best(cluster) \subseteq DOMAIN D!rules
    BY DEF D!Best
  <2>2. cooling' \subseteq DOMAIN D!rules
    BY <1>5, <2>1 DEF D!Dispatch
  <2>3. engine' \in {"idle", "record"}
    BY <1>5 DEF D!Dispatch, D!Goes
  <2> QED
    BY <1>5, <2>2, <2>3 DEF D!Dispatch
<1>6. CASE D!RecordIncident
  <2>1. incidents' =
          IF incidents < MaxIncidents THEN incidents + 1 ELSE incidents
    BY <1>6 DEF D!RecordIncident
  <2>2. incidents \in 0..MaxIncidents /\ MaxIncidents \in Nat
    OBVIOUS
  <2>3. incidents' \in 0..MaxIncidents
    BY ONLY <2>1, <2>2
  <2>4. engine' = "save" /\ mu' = "engine"
    BY <1>6 DEF D!RecordIncident, D!Goes
  <2> QED
    BY <1>6, <2>3, <2>4 DEF D!RecordIncident
<1> QED
  BY <1>1, <1>2, <1>3, <1>4, <1>5, <1>6 DEF D!Evaluates

LEMMA AdjustedStaysInBounds ==
    ASSUME NEW n \in Int
    PROVE  D!Adjusted(n) \in D!MinThreshold..D!MaxThreshold
BY DEF D!Adjusted, D!MinThreshold, D!MaxThreshold

LEMMA OverrideKeepsTypes ==
    ASSUME D!TypeOK, NEW o \in Operators, D!Suppress(o) \/ D!Mark(o)
    PROVE  D!TypeOK'
<1> USE DEF D!TypeOK
<1>1. D!Override(o)
  BY DEF D!Suppress, D!Mark
<1>2. /\ mu' = o /\ serving' \in [Operators -> {"idle", "save"}]
      /\ UNCHANGED <<incidents, cooling, safeMode, engine, dcrashes>>
  BY <1>1 DEF D!Override
<1>3. CASE D!Suppress(o)
  BY <1>2, <1>3 DEF D!Suppress
<1>4. CASE D!Mark(o)
  <2>1. /\ threshold + D!thresholdStep \in Int
        /\ threshold - D!confirmStep \in Int
    <3>1. threshold \in Int
      <4>1. threshold \in D!MinThreshold..D!MaxThreshold
        OBVIOUS
      <4>2. D!MinThreshold = 100 /\ D!MaxThreshold = 170
        BY DEF D!MinThreshold, D!MaxThreshold
      <4> QED
        BY ONLY <4>1, <4>2
    <3>2. D!thresholdStep = 5 /\ D!confirmStep = 2
      BY DEF D!thresholdStep, D!confirmStep
    <3> QED
      BY ONLY <3>1, <3>2
  <2>2. threshold' \in D!MinThreshold..D!MaxThreshold
    BY <1>4, <2>1, AdjustedStaysInBounds DEF D!Mark
  <2>3. adjusted' \in BOOLEAN /\ suppressed' \in BOOLEAN
    BY <1>4 DEF D!Mark
  <2> QED
    BY <1>2, <2>2, <2>3
<1> QED
  BY <1>3, <1>4

LEMMA DecisionKeepsTypes == DecisionSteps => []D!TypeOK
<1>1. D!Init => D!TypeOK
  <2> SUFFICES ASSUME D!Init PROVE D!TypeOK
    OBVIOUS
  <2>1. threshold \in D!MinThreshold..D!MaxThreshold
    BY DEF D!Init, D!DefaultThreshold, D!MinThreshold, D!MaxThreshold
  <2>2. incidents \in 0..MaxIncidents /\ dcrashes \in 0..MaxCrashes
    <3>1. incidents = 0 /\ dcrashes = 0
      BY DEF D!Init
    <3> QED
      BY <3>1, EngineAssumption DEF D!DecisionAssumption
  <2>3. {adjusted, suppressed, safeMode} \subseteq BOOLEAN
    BY DEF D!Init
  <2> QED
    BY <2>1, <2>2, <2>3 DEF D!Init, D!TypeOK
<1>2. D!TypeOK /\ [D!Next]_(D!vars) => D!TypeOK'
  <2> SUFFICES ASSUME D!TypeOK, [D!Next]_(D!vars) PROVE D!TypeOK'
    OBVIOUS
  <2>1. CASE D!TimePasses
    BY <2>1 DEF D!TimePasses, D!TypeOK
  <2>2. CASE D!SafeModeEntered
    BY <2>2 DEF D!SafeModeEntered, D!learned, D!TypeOK
  <2>3. CASE D!NewLearningState
    <3>1. threshold' \in D!MinThreshold..D!MaxThreshold
      BY <2>3 DEF D!NewLearningState, D!DefaultThreshold, D!MinThreshold,
                  D!MaxThreshold
    <3>2. incidents' \in 0..MaxIncidents /\ dcrashes' \in 0..MaxCrashes
      <4>1. incidents' = 0 /\ dcrashes < MaxCrashes /\ dcrashes' = dcrashes + 1
        BY <2>3 DEF D!NewLearningState
      <4>2. dcrashes \in 0..MaxCrashes /\ MaxCrashes \in Nat /\ MaxIncidents \in Nat
        BY EngineAssumption DEF D!DecisionAssumption, D!TypeOK
      <4> QED
        BY ONLY <4>1, <4>2
    <3>3. {adjusted', suppressed', safeMode'} \subseteq BOOLEAN
      BY <2>3 DEF D!NewLearningState, D!TypeOK
    <3> QED
      BY <2>3, <3>1, <3>2, <3>3 DEF D!NewLearningState, D!TypeOK
  <2>4. CASE UNCHANGED D!vars
    BY <2>4 DEF D!vars, D!learned, D!TypeOK
  <2> QED
    BY <2>1, <2>2, <2>3, <2>4, EvaluateKeepsTypes, OverrideKeepsTypes
       DEF D!Next
<1> QED
  BY <1>1, <1>2, PTL DEF DecisionSteps

-----------------------------------------------------------------------------
(* The composition.  A step of it is a step of one part, or none.          *)
LEMMA OnePartMoves ==
    ASSUME [MCNext]_allvars
    PROVE  \/ GuardNext /\ OnlyLeads
           \/ JournalNext /\ OnlyJournals
           \/ D!Next /\ OnlyDecides
           \/ Next /\ OnlyTunes
           \/ RTNext /\ OnlyPolices
           \/ RegistryNext /\ OnlyPlugs
           \/ FleetNext /\ OnlyFollows
           \/ WizardNext /\ OnlyWelcomes
           \/ UNCHANGED allvars
<1>1. \A n \in {"vault", "firewall", "threat", "gaming"} :
        n \in StepNames \ {"welcome", "verify"}
  BY TheSteps
<1>2. \A n \in {"vault", "verify"} : n \in StepNames
  BY TheSteps
<1> QED
  BY <1>1, <1>2
     DEF MCNext, GuardNext, JournalNext, D!Next, D!Evaluates, Next, RTNext,
         RegistryNext, OperatorStep, FleetNext, Sync, WizardNext, Handles

(* What does not move stands still, and does not see that others move: a   *)
(* behaviour of the composition is one of every part.                      *)
LEMMA PartsStepAlone ==
    ASSUME [MCNext]_allvars
    PROVE  /\ [GuardNext]_guardvars /\ [JournalNext]_journalvars
           /\ [D!Next]_(D!vars) /\ [Next]_vars /\ [RTNext]_rtvars
           /\ [RegistryNext]_pluginvars /\ [FleetNext]_fleetvars
           /\ [WizardNext]_wizardvars
<1>1. UNCHANGED dvars => UNCHANGED D!vars
  BY DEF dvars, D!vars, D!learned
<1> QED
  BY <1>1, OnePartMoves
     DEF OnlyLeads, OnlyJournals, OnlyDecides, OnlyTunes, OnlyPolices,
         OnlyPlugs, OnlyFollows, OnlyWelcomes, allvars

LEMMA PartsRunAlone ==
    MCSpec => /\ GuardSpec /\ JournalSpec /\ DecisionSteps /\ Spec /\ RTSpec
              /\ RegistrySpec /\ FleetSpec /\ WizardSpec
<1>1. MCInit => /\ GuardInit /\ JournalInit /\ D!Init /\ Init /\ RTInit
                /\ RegistryInit /\ FleetInit /\ WizardInit
  BY DEF MCInit
<1> QED
  BY <1>1, PartsStepAlone, PTL
     DEF MCSpec, GuardSpec, JournalSpec, DecisionSteps, Spec, RTSpec,
         RegistrySpec, FleetSpec, WizardSpec

-----------------------------------------------------------------------------
(* The theorems.                                                           *)

(* No variable of any part leaves its type, in every behaviour there can   *)
(* be of the composition.                                                  *)
THEOREM AllPartsTypeCorrect == MCSpec => []PartsTypeOK
<1>1. ASSUME GuardTypeOK, JournalTypeOK, TypeOK, D!TypeOK, RTTypeOK,
             RegistryTypeOK, FleetTypeOK, WizardTypeOK
      PROVE  PartsTypeOK
  BY <1>1 DEF PartsTypeOK
<1> QED
  BY <1>1, PartsRunAlone, GuardTypeCorrect, JournalTypeCorrect,
     TuningTypeCorrect, DecisionKeepsTypes, RTTypeCorrect,
     RegistryTypeCorrect, FleetTypeCorrect, WizardTypeCorrect, PTL

(* Every other safety property of the run, of every behaviour there can be *)
(* of the composition.                                                     *)
THEOREM AllPartsAreSafe ==
    MCSpec => /\ []OneLeaderAtATime /\ []SocketIsLeaders /\ RefusedByTheLiving
              /\ []CommittedTookEffect
              /\ []DemotionIsForgotten
              /\ []FileIsIndex /\ []InstalledIsThere
              /\ []PolicyWasApplied
              /\ []CompletionLasts /\ []UnswappedVaultIsTrue
              /\ SwitchesAtomically
BY PartsRunAlone, LeadersDoNotMeet, SocketFollowsTheLeader,
   NoStartIsRefusedInVain, CommittedIsInTheFile, DemotionsAreForgotten,
   FileIsTheIndex, InstalledPluginsAreThere, RememberedPolicyWasApplied,
   WizardStaysDone, UnswappedVaultIsMade, TuningSwitchesAtomically, PTL

=============================================================================
