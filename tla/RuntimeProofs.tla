---------------------------- MODULE RuntimeProofs ---------------------------
(***************************************************************************)
(* The watchdog, the self-healer and the policy enforcer, for every choice *)
(* of their periods and limits, any services and any actions.              *)
(***************************************************************************)
EXTENDS MCRuntime, FiniteSetTheorems, SequenceTheorems, WellFoundedInduction,
        TLAPS

(* The three specifications without their fairness, which no safety        *)
(* property needs: the lemmas are about these, the theorems at the end     *)
(* about each specification and about the one TLC runs.                    *)
WatchdogSteps == Init /\ [][Next]_vars
HealerSteps   == HealerInit /\ [][HealerNext]_healervars
EnforcerSteps == EnforcerInit /\ [][EnforcerNext]_enforcervars

(* Only so many ticks lie inside the window.                               *)
LEMMA WindowIsFinite == IsFiniteSet(0..(Window - 1))
<1>1. 0 \in Int /\ Window - 1 \in Int
  BY WatchdogAssumption
<1> QED
  BY <1>1, FS_Interval

(* Timestamps grow older one by one: the window holds no more of them      *)
(* afterwards than before.                                                 *)
LEMMA OlderIsNoLarger ==
    ASSUME NEW ages \in SUBSET (0..(Window - 1))
    PROVE  /\ Older(ages) \in SUBSET (0..(Window - 1))
           /\ IsFiniteSet(Older(ages))
           /\ Cardinality(Older(ages)) <= Cardinality(ages)
           /\ 0 \notin Older(ages)
<1> DEFINE Moved == {a + 1 : a \in ages}
<1>1. Window \in Nat
  BY WatchdogAssumption
<1>2. IsFiniteSet(ages)
  BY WindowIsFinite, FS_Subset
<1>3. IsFiniteSet(Moved) /\ Cardinality(Moved) <= Cardinality(ages)
  <2> DEFINE f == [a \in ages |-> a + 1]
  <2>1. f \in Surjection(ages, Moved)
    BY DEF Surjection
  <2> QED
    BY <1>2, <2>1, FS_Surjection
<1>4. Older(ages) \subseteq Moved
  BY DEF Older
<1>5. IsFiniteSet(Older(ages)) /\ Cardinality(Older(ages)) <= Cardinality(Moved)
  BY <1>3, <1>4, FS_Subset
<1>6. Cardinality(Older(ages)) \in Nat /\ Cardinality(Moved) \in Nat
      /\ Cardinality(ages) \in Nat
  BY <1>2, <1>3, <1>5, FS_CardinalityType
<1>7. Older(ages) \in SUBSET (0..(Window - 1))
  BY DEF Older
<1>8. 0 \notin Older(ages)
  <2>1. \A a \in ages : a \in Nat
    BY <1>1
  <2> QED
    BY <2>1 DEF Older
<1> QED
  BY <1>3, <1>5, <1>6, <1>7, <1>8

(* What the four outcomes of a tick have in common.                        *)
LEMMA TickType ==
    ASSUME TypeOK, Tick
    PROVE  TypeOK'
<1> USE WatchdogAssumption
<1>1. AgeNow \in 0..(SLA + 1)
  BY DEF AgeNow, Least, TypeOK
<1>2. MissedNow \in 0..2
  BY DEF MissedNow, TypeOK
<1>3. RestartsNow \in SUBSET (0..(Window - 1))
  BY OlderIsNoLarger DEF RestartsNow, TypeOK
<1>4. OpenNow \in BOOLEAN
  BY DEF OpenNow, TypeOK
<1>5. Least(openAge + 1, Cooldown) \in 0..Cooldown
  BY DEF Least, TypeOK
<1>6. missed' \in 0..2
  BY <1>2 DEF Tick, Healthy, OnlyCounts, OpensCircuit, SchedulesRestart, Least
<1>7. backoff' \in FirstBackoff..MaxBackoff
  BY DEF Tick, Healthy, OnlyCounts, OpensCircuit, SchedulesRestart, Least,
     TypeOK
<1>8. restarts' \in SUBSET (0..(Window - 1))
  <2>1. restarts' = RestartsNow \/ restarts' = RestartsNow \cup {0}
    BY DEF Tick, Healthy, OnlyCounts, OpensCircuit, SchedulesRestart
  <2>2. 0 \in 0..(Window - 1)
    OBVIOUS
  <2> QED
    BY <1>3, <2>1, <2>2
<1>9. circuit' \in BOOLEAN /\ openAge' \in 0..Cooldown
  <2>1. circuit' = OpenNow \/ circuit' = TRUE
    BY DEF Tick, Healthy, OnlyCounts, OpensCircuit, SchedulesRestart
  <2>2. openAge' = Least(openAge + 1, Cooldown) \/ openAge' = 0
    BY DEF Tick, Healthy, OnlyCounts, OpensCircuit, SchedulesRestart
  <2>3. 0 \in 0..Cooldown
    OBVIOUS
  <2> QED
    BY <1>4, <1>5, <2>1, <2>2, <2>3
<1>10. wake' \in [0..MaxBackoff -> Nat]
  <2>1. ASSUME NEW b
        PROVE  Sleepers(b) \in [0..MaxBackoff -> Nat]
    BY DEF Sleepers, TypeOK
  <2> QED
    BY <2>1 DEF Tick
<1>11. due' \in 0..(BeatPeriod + 1) /\ ch' \in 0..ChanCap
  BY DEF Tick, TypeOK
<1>12. steady' \in 0..(SLA + 3) /\ age' \in 0..(SLA + 1) /\ alive' \in BOOLEAN
  BY <1>1 DEF Tick, Least, TypeOK
<1>13. started' \in SUBSET (0..(Window - 1))
  <2>1. started' = Older(started) \/ started' = Older(started) \cup {0}
    BY DEF Tick
  <2>2. Older(started) \in SUBSET (0..(Window - 1)) /\ 0 \in 0..(Window - 1)
    BY OlderIsNoLarger DEF TypeOK
  <2> QED
    BY <2>1, <2>2
<1> QED
  BY <1>6, <1>7, <1>8, <1>9, <1>10, <1>11, <1>12, <1>13 DEF TypeOK

LEMMA WatchdogKeepsTypes == WatchdogSteps => []TypeOK
<1> USE WatchdogAssumption
<1>1. Init => TypeOK
  <2> SUFFICES ASSUME Init
               PROVE  TypeOK
    OBVIOUS
  <2>1. /\ wake \in [0..MaxBackoff -> Nat]
        /\ restarts \in SUBSET (0..(Window - 1))
        /\ started \in SUBSET (0..(Window - 1))
    BY DEF Init
  <2>2. backoff \in FirstBackoff..MaxBackoff /\ due \in 0..(BeatPeriod + 1)
    BY DEF Init
  <2>3. alive \in BOOLEAN /\ circuit \in BOOLEAN
    BY DEF Init
  <2>4. /\ steady \in 0..(SLA + 3) /\ ch \in 0..ChanCap
        /\ age \in 0..(SLA + 1) /\ missed \in 0..2 /\ openAge \in 0..Cooldown
    BY DEF Init
  <2> QED
    BY <2>1, <2>2, <2>3, <2>4 DEF TypeOK
<1>2. TypeOK /\ [Next]_vars => TypeOK'
  <2> SUFFICES ASSUME TypeOK, [Next]_vars
               PROVE  TypeOK'
    OBVIOUS
  <2>1. CASE Tick
    BY <2>1, TickType
  <2>2. CASE HeartbeatRound
    BY <2>2 DEF HeartbeatRound, Least, TypeOK
  <2>3. CASE RestartRuns
    BY <2>3 DEF RestartRuns, TypeOK
  <2>4. CASE AliveChanges
    BY <2>4 DEF AliveChanges, TypeOK
  <2>5. CASE UNCHANGED vars
    BY <2>5 DEF vars, TypeOK
  <2> QED
    BY <2>1, <2>2, <2>3, <2>4, <2>5 DEF Next
<1> QED
  BY <1>1, <1>2, PTL DEF WatchdogSteps

-----------------------------------------------------------------------------
(* Why the breaker may forget what it has counted when it closes: until    *)
(* then every restart in the window is among those it has counted, and     *)
(* while it is open they are older than its opening; the cooldown is no    *)
(* shorter than the window.                                                *)
NoneForgotten ==
    /\ started = restarts
    /\ circuit => \A a \in restarts : a > openAge

(* What a tick has left to count is all there is in the window.            *)
LEMMA CountIsComplete ==
    ASSUME TypeOK, NoneForgotten
    PROVE  /\ RestartsNow = Older(started)
           /\ OpenNow => \A a \in RestartsNow : a > openAge + 1
<1> USE WatchdogAssumption
<1>1. /\ \A a \in restarts : a \in Nat
      /\ openAge \in Nat
  BY DEF TypeOK
<1>2. CASE CooledDown
  <2>1. \A a \in restarts : a + 1 > Window - 1
    BY <1>1, <1>2 DEF NoneForgotten, CooledDown
  <2>2. Older(restarts) = {}
    BY <1>1, <2>1 DEF Older
  <2> QED
    BY <1>2, <2>2 DEF RestartsNow, OpenNow, NoneForgotten
<1>3. CASE ~CooledDown
  <2>1. RestartsNow = Older(restarts)
    BY <1>3 DEF RestartsNow
  <2>2. circuit => \A a \in Older(restarts) : a > openAge + 1
    BY <1>1 DEF NoneForgotten, Older
  <2> QED
    BY <2>1, <2>2 DEF OpenNow, NoneForgotten
<1> QED
  BY <1>2, <1>3

LEMMA NoneIsForgotten == WatchdogSteps => []NoneForgotten
<1> USE WatchdogAssumption
<1>1. Init => NoneForgotten
  BY DEF Init, NoneForgotten
<1>2. TypeOK /\ NoneForgotten /\ [Next]_vars => NoneForgotten'
  <2> SUFFICES ASSUME TypeOK, NoneForgotten, [Next]_vars
               PROVE  NoneForgotten'
    OBVIOUS
  <2>1. CASE Tick /\ (Healthy \/ OnlyCounts) /\ started' = Older(started)
    <3>1. /\ started' = Older(started) /\ restarts' = RestartsNow
          /\ circuit' = OpenNow /\ openAge' = Least(openAge + 1, Cooldown)
      BY <2>1 DEF Healthy, OnlyCounts
    <3>2. openAge' \in Nat /\ openAge' <= openAge + 1
      BY <3>1 DEF Least, TypeOK
    <3>3. \A a \in RestartsNow : a \in Nat
      BY CountIsComplete, OlderIsNoLarger DEF TypeOK
    <3>4. ASSUME OpenNow, NEW a \in RestartsNow
          PROVE  a > openAge'
      <4>1. a > openAge + 1 /\ a \in Nat /\ openAge \in Nat
        BY <3>3, <3>4, CountIsComplete DEF TypeOK
      <4> QED
        BY <3>2, <4>1
    <3> QED
      BY <3>1, <3>4, CountIsComplete DEF NoneForgotten
  <2>2. CASE Tick /\ OpensCircuit /\ started' = Older(started)
    <3>1. restarts' = RestartsNow /\ openAge' = 0
      BY <2>2 DEF OpensCircuit
    <3>2. /\ 0 \notin Older(started)
          /\ Older(started) \in SUBSET (0..(Window - 1))
      BY OlderIsNoLarger DEF TypeOK
    <3>3. \A a \in Older(started) : a > 0
      BY <3>2
    <3> QED
      BY <2>2, <3>1, <3>3, CountIsComplete DEF NoneForgotten
  <2>3. CASE Tick /\ SchedulesRestart /\ started' = Older(started) \cup {0}
    <3>1. restarts' = RestartsNow \cup {0} /\ ~circuit'
      BY <2>3 DEF SchedulesRestart
    <3> QED
      BY <2>3, <3>1, CountIsComplete DEF NoneForgotten
  <2>4. CASE UNCHANGED <<started, restarts, circuit, openAge>>
    BY <2>4 DEF NoneForgotten
  <2> QED
    BY <2>1, <2>2, <2>3, <2>4
    DEF Next, Tick, HeartbeatRound, RestartRuns, AliveChanges, vars
<1> QED
  BY <1>1, <1>2, WatchdogKeepsTypes, PTL DEF WatchdogSteps

LEMMA RestartsKeepRate == WatchdogSteps => []RestartRate
<1> USE WatchdogAssumption
<1>1. Init => RestartRate
  BY FS_EmptySet DEF Init, RestartRate
<1>2. TypeOK /\ NoneForgotten /\ RestartRate /\ [Next]_vars => RestartRate'
  <2> SUFFICES ASSUME TypeOK, NoneForgotten, RestartRate, [Next]_vars
               PROVE  RestartRate'
    OBVIOUS
  <2>1. /\ IsFiniteSet(Older(started))
        /\ Cardinality(Older(started)) \in Nat
        /\ Cardinality(Older(started)) <= Thresh
        /\ 0 \notin Older(started)
    <3>1. started \in SUBSET (0..(Window - 1)) /\ IsFiniteSet(started)
      BY WindowIsFinite, FS_Subset DEF TypeOK
    <3>2. Cardinality(started) \in Nat
      BY <3>1, FS_CardinalityType
    <3>3. Cardinality(Older(started)) \in Nat
      BY <3>1, OlderIsNoLarger, FS_CardinalityType
    <3> QED
      BY <3>1, <3>2, <3>3, OlderIsNoLarger DEF RestartRate
  <2>2. CASE Tick /\ started' = Older(started)
    BY <2>1, <2>2 DEF RestartRate
  <2>3. CASE Tick /\ SchedulesRestart /\ started' = Older(started) \cup {0}
    <3>1. Cardinality(started') = Cardinality(Older(started)) + 1
      BY <2>1, <2>3, FS_AddElement
    <3>2. Cardinality(Older(started)) < Thresh
      BY <2>1, <2>3, CountIsComplete DEF SchedulesRestart, Tripped
    <3> QED
      BY <2>1, <3>1, <3>2 DEF RestartRate
  <2>4. CASE UNCHANGED started
    BY <2>4 DEF RestartRate
  <2> QED
    BY <2>2, <2>3, <2>4
    DEF Next, Tick, HeartbeatRound, RestartRuns, AliveChanges, vars
<1> QED
  BY <1>1, <1>2, WatchdogKeepsTypes, NoneIsForgotten, PTL DEF WatchdogSteps

-----------------------------------------------------------------------------
(* How a subsystem that stays alive is kept below its SLA: either the age  *)
(* of its last heartbeat and the time to the next one add up to a period,  *)
(* or it has not been alive long enough for the first.                     *)
BeatsInTime ==
    alive /\ ch = 0 => age + due <= BeatPeriod \/ steady + due <= BeatPeriod + 1

LEMMA BeatsAreInTime == WatchdogSteps => []BeatsInTime
<1> USE WatchdogAssumption
<1>1. Init => BeatsInTime
  BY DEF Init, BeatsInTime
<1>2. TypeOK /\ BeatsInTime /\ [Next]_vars => BeatsInTime'
  <2> SUFFICES ASSUME TypeOK, BeatsInTime, [Next]_vars
               PROVE  BeatsInTime'
    OBVIOUS
  <2>1. CASE Tick
    BY <2>1 DEF Tick, AgeNow, Least, BeatsInTime, TypeOK
  <2>2. CASE HeartbeatRound
    BY <2>2 DEF HeartbeatRound, Least, BeatsInTime, TypeOK
  <2>3. CASE RestartRuns
    BY <2>3 DEF RestartRuns, BeatsInTime
  <2>4. CASE AliveChanges
    BY <2>4 DEF AliveChanges, BeatsInTime, TypeOK
  <2>5. CASE UNCHANGED vars
    BY <2>5 DEF vars, BeatsInTime
  <2> QED
    BY <2>1, <2>2, <2>3, <2>4, <2>5 DEF Next
<1> QED
  BY <1>1, <1>2, WatchdogKeepsTypes, PTL DEF WatchdogSteps

LEMMA SteadyStaysHealthy == WatchdogSteps => []SteadyIsHealthy
<1> USE WatchdogAssumption
<1>1. Init => SteadyIsHealthy
  BY DEF Init, SteadyIsHealthy
<1>2. TypeOK /\ BeatsInTime /\ SteadyIsHealthy /\ [Next]_vars
        => SteadyIsHealthy'
  <2> SUFFICES ASSUME TypeOK, BeatsInTime, SteadyIsHealthy, [Next]_vars
               PROVE  SteadyIsHealthy'
    OBVIOUS
  <2>1. CASE Tick
    <3> SUFFICES ASSUME alive, steady' > BeatPeriod + 1
                 PROVE  missed' = 0
      BY <2>1 DEF Tick, SteadyIsHealthy
    <3>1. steady >= BeatPeriod + 1 /\ due >= 1
      BY <2>1 DEF Tick, Least, TypeOK
    <3>2. AgeNow <= SLA
      BY <3>1 DEF AgeNow, Least, BeatsInTime, TypeOK
    <3>3. AgeNow \in Nat
      BY DEF AgeNow, Least, TypeOK
    <3> QED
      BY <2>1, <3>2, <3>3
      DEF Tick, Healthy, OnlyCounts, OpensCircuit, SchedulesRestart
  <2>2. CASE UNCHANGED <<alive, steady, missed>>
    BY <2>2 DEF SteadyIsHealthy
  <2>3. CASE AliveChanges
    BY <2>3 DEF AliveChanges, SteadyIsHealthy
  <2> QED
    BY <2>1, <2>2, <2>3 DEF Next, HeartbeatRound, RestartRuns, vars
<1> QED
  BY <1>1, <1>2, WatchdogKeepsTypes, BeatsAreInTime, PTL DEF WatchdogSteps

(* What a silent subsystem leaves behind: a channel that is drained at the *)
(* first tick, an age that grows with the silence, and a miss that is      *)
(* counted as soon as the age is past the SLA.                             *)
SilenceCounts ==
    ~alive => /\ steady >= 1 => ch = 0
              /\ age + 1 >= steady \/ age = SLA + 1
              /\ steady >= SLA + 2 => missed >= 1

LEMMA SilenceIsCounted == WatchdogSteps => []SilenceCounts
<1> USE WatchdogAssumption
<1>1. Init => SilenceCounts
  BY DEF Init, SilenceCounts
<1>2. TypeOK /\ SilenceCounts /\ [Next]_vars => SilenceCounts'
  <2> SUFFICES ASSUME TypeOK, SilenceCounts, [Next]_vars
               PROVE  SilenceCounts'
    OBVIOUS
  <2>1. CASE Tick
    <3> SUFFICES ASSUME ~alive
                 PROVE  /\ age' + 1 >= steady' \/ age' = SLA + 1
                        /\ steady' >= SLA + 2 => missed' >= 1
      BY <2>1 DEF Tick, SilenceCounts
    <3>1. age' = AgeNow /\ steady' = Least(steady + 1, SLA + 3)
      BY <2>1 DEF Tick
    <3>2. age' + 1 >= steady' \/ age' = SLA + 1
      BY <3>1 DEF AgeNow, Least, SilenceCounts, TypeOK
    <3>3. ASSUME steady' >= SLA + 2
          PROVE  missed' >= 1
      <4>1. AgeNow \in Nat /\ steady' \in Nat
        BY <3>1 DEF AgeNow, Least, TypeOK
      <4>2. AgeNow > SLA
        BY <3>1, <3>2, <3>3, <4>1
      <4>3. MissedNow \in Nat
        BY DEF MissedNow, TypeOK
      <4> QED
        BY <2>1, <4>1, <4>2, <4>3
        DEF Tick, Healthy, OnlyCounts, OpensCircuit, SchedulesRestart, Least
    <3> QED
      BY <3>2, <3>3
  <2>2. CASE HeartbeatRound
    BY <2>2 DEF HeartbeatRound, SilenceCounts
  <2>3. CASE RestartRuns
    BY <2>3 DEF RestartRuns, SilenceCounts
  <2>4. CASE AliveChanges
    BY <2>4 DEF AliveChanges, SilenceCounts, TypeOK
  <2>5. CASE UNCHANGED vars
    BY <2>5 DEF vars, SilenceCounts
  <2> QED
    BY <2>1, <2>2, <2>3, <2>4, <2>5 DEF Next
<1> QED
  BY <1>1, <1>2, WatchdogKeepsTypes, PTL DEF WatchdogSteps

LEMMA SilenceGetsNoticed == WatchdogSteps => []SilenceIsNoticed
<1> USE WatchdogAssumption
<1>1. Init => SilenceIsNoticed
  BY DEF Init, SilenceIsNoticed
<1>2. TypeOK /\ SilenceCounts /\ SilenceIsNoticed /\ [Next]_vars
        => SilenceIsNoticed'
  <2> SUFFICES ASSUME TypeOK, SilenceCounts, SilenceIsNoticed, [Next]_vars
               PROVE  SilenceIsNoticed'
    OBVIOUS
  <2>1. CASE Tick
    <3> SUFFICES ASSUME ~alive, steady' > SLA + 2
                 PROVE  \/ restarts' # {} \/ circuit'
                        \/ missed' = 1 /\ openAge' = Cooldown
      BY <2>1 DEF Tick, SilenceIsNoticed
    <3>1. steady >= SLA + 2
      BY <2>1 DEF Tick, Least, TypeOK
    <3>2. AgeNow > SLA
      BY <3>1 DEF AgeNow, Least, SilenceCounts, TypeOK
    <3>3. missed >= 1
      BY <3>1 DEF SilenceCounts
    <3>4. CASE OnlyCounts /\ OpenNow
      BY <3>4 DEF OnlyCounts
    <3>5. CASE OnlyCounts /\ ~OpenNow
      <4>1. CooledDown
        BY <3>3, <3>5 DEF OnlyCounts, MissedNow
      <4> QED
        BY <3>5, <4>1
        DEF OnlyCounts, MissedNow, CooledDown, Least, TypeOK
    <3>6. CASE OpensCircuit
      BY <3>6 DEF OpensCircuit
    <3>7. CASE SchedulesRestart
      BY <3>7 DEF SchedulesRestart
    <3>8. ~Healthy
      BY <3>2 DEF Healthy, AgeNow, Least, TypeOK
    <3> QED
      BY <2>1, <3>4, <3>5, <3>6, <3>7, <3>8 DEF Tick
  <2>2. CASE UNCHANGED <<alive, steady, missed, restarts, circuit, openAge>>
    BY <2>2 DEF SilenceIsNoticed
  <2>3. CASE AliveChanges
    BY <2>3 DEF AliveChanges, SilenceIsNoticed
  <2> QED
    BY <2>1, <2>2, <2>3 DEF Next, HeartbeatRound, RestartRuns, vars
<1> QED
  BY <1>1, <1>2, WatchdogKeepsTypes, SilenceIsCounted, PTL DEF WatchdogSteps

-----------------------------------------------------------------------------
(* The self-healer.  Why the ring counts no more failures of a round than  *)
(* there are services, and the attempts of none exceed their limit by more *)
(* than one: a service leaves the queue before it fails, and one that is   *)
(* past the limit is disabled, or about to be.                             *)
RoundCounts ==
    ring[0] + Cardinality(queue) + (IF ppc = "notify" THEN 1 ELSE 0)
      <= Cardinality(Services)

LimitDisables ==
    \A s \in Services :
        attempts[s] > MaxAttempts =>
            disabled[s] \/ (ppc = "disable" /\ failing = s)

HealerInv == HealerTypeOK /\ RoundCounts /\ LimitDisables

(* A queue has as many places as it loses, and no more than services.      *)
LEMMA QueueIsFinite ==
    ASSUME NEW q \in SUBSET Services
    PROVE  /\ IsFiniteSet(q)
           /\ Cardinality(q) \in Nat /\ Cardinality(Services) \in Nat
           /\ Cardinality(q) <= Cardinality(Services)
           /\ \A s \in q : Cardinality(q \ {s}) = Cardinality(q) - 1
<1>1. IsFiniteSet(q) /\ Cardinality(q) <= Cardinality(Services)
  BY HealerAssumption, FS_Subset
<1>2. Cardinality(q) \in Nat /\ Cardinality(Services) \in Nat
  BY <1>1, HealerAssumption, FS_CardinalityType
<1>3. \A s \in q : Cardinality(q \ {s}) = Cardinality(q) - 1
  BY <1>1, FS_RemoveElement
<1> QED
  BY <1>1, <1>2, <1>3

LEMMA ProbeKeepsHealer ==
    ASSUME HealerInv, ProbeStep
    PROVE  HealerInv'
<1> USE HealerAssumption DEF HealerInv
<1>1. Cardinality(queue) \in Nat /\ Cardinality(Services) \in Nat
  BY QueueIsFinite DEF HealerTypeOK
<1>2. CASE ProbeStart
  <2>1. ring' \in [0..WindowRounds -> 0..Cardinality(Services)] /\ ring'[0] = 0
    BY <1>1, <1>2 DEF ProbeStart, RingAged, HealerTypeOK, WindowRounds
  <2>2. queue' \in SUBSET Services
    BY <1>2 DEF ProbeStart
  <2>3. /\ Cardinality(queue') \in Nat
        /\ Cardinality(queue') <= Cardinality(Services)
    BY <2>2, QueueIsFinite
  <2>4. HealerTypeOK'
    BY <1>2, <2>1, <2>2
    DEF ProbeStart, HealerTypeOK, flight, InFlight
  <2>5. LimitDisables' /\ RoundCounts'
    BY <1>1, <1>2, <2>1, <2>3
    DEF ProbeStart, LimitDisables, RoundCounts, flight, HealerTypeOK
  <2> QED
    BY <2>4, <2>5
<1>3. CASE ProbeOne
  <2>1. PICK s \in queue : /\ queue' = queue \ {s}
                           /\ IF up[s] THEN UNCHANGED <<ppc, failing>>
                              ELSE ppc' = "notify" /\ failing' = s
    BY <1>3 DEF ProbeOne
  <2>2. Cardinality(queue') = Cardinality(queue) - 1
    BY <2>1, QueueIsFinite DEF HealerTypeOK
  <2>3. HealerTypeOK'
    BY <1>3, <2>1 DEF ProbeOne, HealerTypeOK, flight, record, InFlight
  <2>4. RoundCounts'
    BY <1>1, <1>3, <2>1, <2>2
    DEF ProbeOne, RoundCounts, record, HealerTypeOK, WindowRounds
  <2>5. LimitDisables'
    BY <1>3, <2>1 DEF ProbeOne, LimitDisables, record
  <2> QED
    BY <2>3, <2>4, <2>5
<1>4. CASE ProbeEnd
  BY <1>4 DEF ProbeEnd, HealerTypeOK, RoundCounts, LimitDisables, flight,
     record, InFlight
<1>5. CASE Notify
  <2>1. /\ ppc = "notify" /\ ~disabled[failing]
        /\ attempts' = [attempts EXCEPT ![failing] = NextAttempt(failing)]
        /\ ring' = [ring EXCEPT ![0] = @ + 1]
        /\ UNCHANGED <<up, disabled, queue, failing, running, resetting, safe>>
    BY <1>5 DEF Notify
  <2>2. attempts[failing] <= MaxAttempts
    BY <2>1 DEF LimitDisables, HealerTypeOK
  <2>3. attempts' \in [Services -> 0..(MaxAttempts + 1)]
    BY <2>1, <2>2 DEF NextAttempt, HealerTypeOK
  <2>4. /\ ring' \in [0..WindowRounds -> 0..Cardinality(Services)]
        /\ ring'[0] = ring[0] + 1
    BY <1>1, <2>1 DEF HealerTypeOK, RoundCounts, WindowRounds
  <2>5. /\ ppc' \in {"disable", "escalate", "probe"}
        /\ sleeping' \in [Services -> Nat]
        /\ \A s \in Services : InFlight(s)' <= MaxInFlight
    <3>1. CASE UNCHANGED sleeping /\ ppc' \in {"disable", "escalate"}
      BY <2>1, <3>1 DEF HealerTypeOK, InFlight
    <3>2. CASE /\ InFlight(failing) < MaxInFlight
               /\ sleeping' = [sleeping EXCEPT ![failing] = @ + 1]
               /\ ppc' = "probe"
      <4>1. sleeping' \in [Services -> Nat]
        BY <3>2 DEF HealerTypeOK
      <4>2. ASSUME NEW s \in Services
            PROVE  InFlight(s)' <= MaxInFlight
        <5>1. sleeping'[s] = IF s = failing THEN sleeping[s] + 1
                             ELSE sleeping[s]
          BY <3>2 DEF HealerTypeOK
        <5> QED
          BY <2>1, <3>2, <5>1 DEF HealerTypeOK, InFlight
      <4> QED
        BY <3>2, <4>1, <4>2
    <3> QED
      BY <1>5, <3>1, <3>2 DEF Notify
  <2>6. HealerTypeOK'
    BY <2>1, <2>3, <2>4, <2>5 DEF HealerTypeOK
  <2>7. RoundCounts'
    BY <1>1, <2>1, <2>4, <2>5 DEF RoundCounts, HealerTypeOK, WindowRounds
  <2>8. LimitDisables'
    <3>1. ppc' = "disable" \/ NextAttempt(failing) <= MaxAttempts
      BY <1>5 DEF Notify, Exceeded, NextAttempt, HealerTypeOK
    <3>2. ASSUME NEW s \in Services, attempts'[s] > MaxAttempts
          PROVE  disabled'[s] \/ (ppc' = "disable" /\ failing' = s)
      <4>1. CASE s = failing
        BY <2>1, <3>1, <3>2, <4>1 DEF NextAttempt, HealerTypeOK
      <4>2. CASE s # failing
        BY <2>1, <3>2, <4>2 DEF LimitDisables, HealerTypeOK
      <4> QED
        BY <4>1, <4>2
    <3> QED
      BY <3>2 DEF LimitDisables
  <2> QED
    BY <2>6, <2>7, <2>8
<1>6. CASE Disable
  BY <1>1, <1>6 DEF Disable, AfterDisable, HealerTypeOK, RoundCounts,
     LimitDisables, flight, InFlight, WindowRounds
<1>7. CASE Escalate
  BY <1>1, <1>7 DEF Escalate, HealerTypeOK, RoundCounts, LimitDisables, flight,
     record, InFlight, WindowRounds
<1> QED
  BY <1>2, <1>3, <1>4, <1>5, <1>6, <1>7 DEF ProbeStep

LEMMA RestartKeepsHealer ==
    ASSUME HealerInv, NEW s \in Services, RestartStep(s) \/ ServiceFlips(s)
    PROVE  HealerInv'
<1> USE HealerAssumption DEF HealerInv
<1>1. /\ ring' = ring /\ ppc' = ppc /\ queue' = queue /\ failing' = failing
      /\ safe' = safe
  BY DEF RestartStep, RestartWake, RestartReturns, RestartResets, ServiceFlips,
     record, probe
<1>2. RoundCounts'
  BY <1>1 DEF RoundCounts
<1>3. /\ up' \in [Services -> BOOLEAN] /\ disabled' \in [Services -> BOOLEAN]
      /\ attempts' \in [Services -> 0..(MaxAttempts + 1)]
      /\ LimitDisables'
  <2>1. CASE RestartWake(s) \/ RestartReturns(s) \/ ServiceFlips(s)
    <3>1. attempts' = attempts /\ disabled' = disabled
      BY <2>1 DEF RestartWake, RestartReturns, ServiceFlips, record
    <3>2. up' \in [Services -> BOOLEAN]
      BY <2>1 DEF RestartWake, RestartReturns, ServiceFlips, HealerTypeOK
    <3> QED
      BY <1>1, <3>1, <3>2 DEF HealerTypeOK, LimitDisables
  <2>2. CASE RestartResets(s)
    BY <1>1, <2>2 DEF RestartResets, HealerTypeOK, LimitDisables
  <2> QED
    BY <2>1, <2>2 DEF RestartStep
<1>4. /\ sleeping \in [Services -> Nat] /\ running \in [Services -> Nat]
      /\ resetting \in [Services -> Nat]
  BY DEF HealerTypeOK
<1>5. /\ sleeping' \in [Services -> Nat] /\ running' \in [Services -> Nat]
      /\ resetting' \in [Services -> Nat]
      /\ \A r \in Services : InFlight(r)' <= InFlight(r)
  <2>1. CASE RestartWake(s)
    BY <1>4, <2>1 DEF RestartWake, InFlight
  <2>2. CASE RestartReturns(s)
    BY <1>4, <2>2 DEF RestartReturns, InFlight
  <2>3. CASE RestartResets(s)
    BY <1>4, <2>3 DEF RestartResets, InFlight
  <2>4. CASE ServiceFlips(s)
    BY <1>4, <2>4 DEF ServiceFlips, flight, InFlight
  <2> QED
    BY <2>1, <2>2, <2>3, <2>4 DEF RestartStep
<1>6. \A r \in Services : InFlight(r)' <= MaxInFlight
  <2>1. ASSUME NEW r \in Services
        PROVE  InFlight(r) \in Nat /\ InFlight(r)' \in Nat
    BY <1>4, <1>5 DEF InFlight
  <2>2. \A r \in Services : InFlight(r) <= MaxInFlight
    BY DEF HealerTypeOK
  <2> QED
    BY <1>5, <2>1, <2>2
<1> QED
  BY <1>1, <1>2, <1>3, <1>5, <1>6 DEF HealerTypeOK

LEMMA HealerInvariant == HealerSteps => []HealerInv
<1> USE HealerAssumption
<1>1. HealerInit => HealerInv
  <2> SUFFICES ASSUME HealerInit
               PROVE  HealerInv
    OBVIOUS
  <2>1. Cardinality(Services) \in Nat /\ Cardinality(queue) = 0
    BY FS_CardinalityType, FS_EmptySet DEF HealerInit
  <2>2. RoundCounts /\ LimitDisables
    BY <2>1 DEF HealerInit, RoundCounts, LimitDisables, WindowRounds
  <2>3. \A s \in Services : InFlight(s) <= MaxInFlight
    BY DEF HealerInit, InFlight
  <2>4. HealerTypeOK
    <3>1. /\ ring \in [0..WindowRounds -> 0..Cardinality(Services)]
          /\ attempts \in [Services -> 0..(MaxAttempts + 1)]
      BY <2>1 DEF HealerInit
    <3> QED
      BY <2>3, <3>1 DEF HealerInit, HealerTypeOK
  <2> QED
    BY <2>2, <2>4 DEF HealerInv
<1>2. HealerInv /\ [HealerNext]_healervars => HealerInv'
  <2> SUFFICES ASSUME HealerInv, [HealerNext]_healervars
               PROVE  HealerInv'
    OBVIOUS
  <2>1. CASE UNCHANGED healervars
    BY <2>1 DEF healervars, HealerInv, HealerTypeOK, RoundCounts, LimitDisables,
       InFlight, probe, flight, record
  <2> QED
    BY <2>1, ProbeKeepsHealer, RestartKeepsHealer DEF HealerNext
<1> QED
  BY <1>1, <1>2, PTL DEF HealerSteps

LEMMA HealerKeepsTypes == HealerSteps => []HealerTypeOK
BY HealerInvariant, PTL DEF HealerInv

LEMMA GivingUpStaysSafe == HealerSteps => []GivenUpIsSafe
<1>1. HealerInit => GivenUpIsSafe
  BY DEF HealerInit, GivenUpIsSafe
<1>2. HealerTypeOK /\ GivenUpIsSafe /\ [HealerNext]_healervars
        => GivenUpIsSafe'
  <2> SUFFICES ASSUME HealerTypeOK, GivenUpIsSafe, [HealerNext]_healervars
               PROVE  GivenUpIsSafe'
    OBVIOUS
  <2>1. CASE ProbeStart \/ ProbeOne \/ ProbeEnd \/ Notify
    <3>1. disabled' = disabled /\ safe' = safe /\ ppc # "escalate"
      BY <2>1 DEF ProbeStart, ProbeOne, ProbeEnd, Notify, record
    <3> QED
      BY <3>1 DEF GivenUpIsSafe
  <2>2. CASE Disable
    BY <2>2 DEF Disable, AfterDisable, GivenUpIsSafe
  <2>3. CASE Escalate
    BY <2>3 DEF Escalate, GivenUpIsSafe
  <2>4. ASSUME NEW s \in Services, RestartStep(s) \/ ServiceFlips(s)
        PROVE  GivenUpIsSafe'
    <3>1. safe' = safe /\ ppc' = ppc
      BY <2>4 DEF RestartStep, RestartWake, RestartReturns, RestartResets,
         ServiceFlips, probe
    <3>2. \A r \in Services : disabled'[r] => disabled[r]
      BY <2>4 DEF RestartStep, RestartWake, RestartReturns, RestartResets,
         ServiceFlips, record, HealerTypeOK
    <3> QED
      BY <3>1, <3>2 DEF GivenUpIsSafe
  <2>5. CASE UNCHANGED healervars
    BY <2>5 DEF healervars, record, probe, GivenUpIsSafe
  <2> QED
    BY <2>1, <2>2, <2>3, <2>4, <2>5 DEF HealerNext, ProbeStep
<1> QED
  BY <1>1, <1>2, HealerKeepsTypes, PTL DEF HealerSteps

-----------------------------------------------------------------------------
(* The policy enforcer.  Less is a strict weak order, whatever the time    *)
(* stamps: this is what container/heap needs of it.                        *)
LEMMA LessIsAnOrder ==
    ASSUME stamp \in [Actions -> Nat],
           NEW a \in Actions, NEW b \in Actions, NEW c \in Actions
    PROVE  /\ ~(Less(a, b) /\ Less(b, a))
           /\ ~Less(a, b) /\ ~Less(b, c) => ~Less(a, c)
<1>1. \A x \in Actions : Priority[x] \in Nat /\ stamp[x] \in Nat
  BY DEF Priority
<1> HIDE DEF Priority
<1> QED
  BY <1>1 DEF Less

(* Every set of numbers has a least one.                                   *)
LEMMA LeastNumber ==
    ASSUME NEW S \in SUBSET Nat, S # {}
    PROVE  \E m \in S : \A k \in S : m <= k
<1> DEFINE Segments == {0..k : k \in S}
<1>1. IsWellFoundedOn(StrictSubsetOrdering(Nat), FiniteSubsetsOf(Nat))
  BY FS_StrictSubsetOrderingWellFounded
<1>2. Segments \subseteq FiniteSubsetsOf(Nat) /\ Segments # {}
  <2>1. \A k \in S : IsFiniteSet(0..k) /\ 0..k \in SUBSET Nat
    BY FS_Interval
  <2> QED
    BY <2>1 DEF FiniteSubsetsOf
<1>3. PICK x \in Segments :
          \A y \in Segments : <<y, x>> \notin StrictSubsetOrdering(Nat)
  <2> HIDE DEF Segments
  <2> QED
    BY <1>1, <1>2, WFMin
<1>4. PICK m \in S : x = 0..m
  OBVIOUS
<1>5. ASSUME NEW k \in S, k < m
      PROVE  FALSE
  <2>1. 0..k \subseteq 0..m /\ m \in 0..m /\ m \notin 0..k
    BY <1>5
  <2>2. <<0..k, 0..m>> \in StrictSubsetOrdering(Nat)
    BY <2>1 DEF StrictSubsetOrdering
  <2> QED
    BY <1>3, <1>4, <2>2
<1> QED
  BY <1>5

(* What exchanging two elements does to a sequence.                        *)
LEMMA SwapExchanges ==
    ASSUME NEW h \in Seq(Actions)
    PROVE  /\ \A i, j \in 1..Len(h) : Swap(h, i, j) \in Seq(Actions)
           /\ \A i, j \in 1..Len(h) : Len(Swap(h, i, j)) = Len(h)
           /\ \A i, j \in 1..Len(h) : Swap(h, i, j)[j] = h[i]
           /\ \A i, j \in 1..Len(h) : Swap(h, i, j)[i] = h[j]
           /\ \A i, j, k \in 1..Len(h) :
                k # i /\ k # j => Swap(h, i, j)[k] = h[k]
BY DEF Swap

LEMMA SwapKeepsElements ==
    ASSUME NEW h \in Seq(Actions), NEW i \in 1..Len(h), NEW j \in 1..Len(h)
    PROVE  ToSet(Swap(h, i, j)) = ToSet(h)
<1>1. /\ ToSet(h) = {h[k] : k \in 1..Len(h)}
      /\ ToSet(Swap(h, i, j)) = {Swap(h, i, j)[k] : k \in 1..Len(h)}
  BY DEF ToSet, Swap
<1>2. \A k \in 1..Len(h) : \E m \in 1..Len(h) : Swap(h, i, j)[k] = h[m]
  <2> SUFFICES ASSUME NEW k \in 1..Len(h)
               PROVE  \E m \in 1..Len(h) : Swap(h, i, j)[k] = h[m]
    OBVIOUS
  <2>1. CASE k = i
    BY <2>1, SwapExchanges
  <2>2. CASE k = j
    BY <2>2, SwapExchanges
  <2>3. CASE k # i /\ k # j
    BY <2>3, SwapExchanges
  <2> QED
    BY <2>1, <2>2, <2>3
<1>3. \A k \in 1..Len(h) : \E m \in 1..Len(h) : h[k] = Swap(h, i, j)[m]
  <2> SUFFICES ASSUME NEW k \in 1..Len(h)
               PROVE  \E m \in 1..Len(h) : h[k] = Swap(h, i, j)[m]
    OBVIOUS
  <2>1. CASE k = i
    BY <2>1, SwapExchanges
  <2>2. CASE k = j
    BY <2>2, SwapExchanges
  <2>3. CASE k # i /\ k # j
    BY <2>3, SwapExchanges
  <2> QED
    BY <2>1, <2>2, <2>3
<1>4. ToSet(Swap(h, i, j)) \subseteq ToSet(h)
  BY <1>1, <1>2
<1>5. ToSet(h) \subseteq ToSet(Swap(h, i, j))
  BY <1>1, <1>3
<1> QED
  BY <1>4, <1>5

LEMMA AppendAddsElement ==
    ASSUME NEW h \in Seq(Actions), NEW a \in Actions
    PROVE  ToSet(Append(h, a)) = ToSet(h) \cup {a}
<1> DEFINE g == Append(h, a)
<1>1. /\ Len(h) \in Nat /\ Len(g) = Len(h) + 1 /\ g[Len(h) + 1] = a
      /\ \A k \in 1..Len(h) : g[k] = h[k]
      /\ g \in Seq(Actions)
  OBVIOUS
<1>2. /\ ToSet(h) = {h[k] : k \in 1..Len(h)}
      /\ ToSet(g) = {g[k] : k \in 1..(Len(h) + 1)}
  BY <1>1 DEF ToSet
<1> HIDE DEF g
<1>3. ToSet(g) \subseteq ToSet(h) \cup {a}
  <2> SUFFICES ASSUME NEW k \in 1..(Len(h) + 1)
               PROVE  g[k] \in ToSet(h) \cup {a}
    BY <1>2
  <2> QED
    BY <1>1, <1>2
<1>4. ToSet(h) \subseteq ToSet(g) /\ a \in ToSet(g)
  <2>1. Len(h) + 1 \in 1..(Len(h) + 1) /\ 1..Len(h) \subseteq 1..(Len(h) + 1)
    BY <1>1
  <2> QED
    BY <1>1, <1>2, <2>1
<1> QED
  BY <1>3, <1>4 DEF g

(* Front takes the last element away, and nothing else.                    *)
LEMMA FrontDropsLast ==
    ASSUME NEW h \in Seq(Actions), h # <<>>
    PROVE  /\ Len(Front(h)) = Len(h) - 1 /\ Len(h) \in Nat /\ Len(h) >= 1
           /\ \A i \in 1..(Len(h) - 1) : Front(h)[i] = h[i]
           /\ Front(h) \in Seq(Actions)
           /\ Last(h) = h[Len(h)] /\ Last(h) \in Actions
<1>1. Front(h) = SubSeq(h, 1, Len(h) - 1) /\ Len(h) \in Nat /\ Len(h) >= 1
  BY DEF Front
<1>2. Len(h) - 1 \in Int /\ \A i \in 1..(Len(h) - 1) : h[i] \in Actions
  BY <1>1
<1>3. /\ Front(h) \in Seq(Actions)
      /\ Len(Front(h)) = IF 1 <= Len(h) - 1 THEN Len(h) - 1 - 1 + 1 ELSE 0
      /\ \A i \in 1..(Len(h) - 1 - 1 + 1) : Front(h)[i] = h[1 + i - 1]
  BY <1>1, <1>2, SubSeqProperties
<1>4. ASSUME NEW i \in 1..(Len(h) - 1)
      PROVE  Front(h)[i] = h[i]
  <2>1. i \in 1..(Len(h) - 1 - 1 + 1) /\ 1 + i - 1 = i
    BY <1>1
  <2> QED
    BY <1>3, <2>1
<1>5. Len(Front(h)) = Len(h) - 1
  <2> DEFINE n == Len(h)
             m == Len(Front(h))
  <2>1. n \in Nat /\ n >= 1 /\ m = IF 1 <= n - 1 THEN n - 1 - 1 + 1 ELSE 0
    BY <1>1, <1>3
  <2> HIDE DEF n, m
  <2>2. m = n - 1
    BY <2>1
  <2> QED
    BY <2>2 DEF n, m
<1> QED
  BY <1>1, <1>3, <1>4, <1>5 DEF Last

LEMMA FrontDropsElement ==
    ASSUME NEW h \in Seq(Actions), h # <<>>,
           \A i, j \in 1..Len(h) : h[i] = h[j] => i = j
    PROVE  /\ ToSet(Front(h)) = ToSet(h) \ {Last(h)}
           /\ Last(h) \in ToSet(h)
<1> DEFINE n == Len(h)
           g == Front(h)
<1>1. /\ n \in Nat /\ n >= 1 /\ Len(g) = n - 1 /\ Last(h) = h[n]
      /\ \A i \in 1..(n - 1) : g[i] = h[i]
      /\ g \in Seq(Actions)
  BY FrontDropsLast
<1>2. ToSet(h) = {h[k] : k \in 1..n} /\ ToSet(g) = {g[k] : k \in 1..(n - 1)}
  BY <1>1 DEF ToSet
<1> SUFFICES ToSet(g) = ToSet(h) \ {h[n]} /\ h[n] \in ToSet(h)
  BY <1>1
<1> HIDE DEF n, g
<1>3. \A i \in 1..(n - 1) : i \in 1..n /\ i # n
  BY <1>1
<1>4. n \in 1..n
  BY <1>1
<1>5. ToSet(g) \subseteq ToSet(h) \ {h[n]}
  BY <1>1, <1>2, <1>3, <1>4 DEF n
<1>6. ToSet(h) \ {h[n]} \subseteq ToSet(g)
  <2> SUFFICES ASSUME NEW k \in 1..n, h[k] # h[n]
               PROVE  h[k] \in ToSet(g)
    BY <1>2
  <2>1. k \in 1..(n - 1)
    BY <1>1
  <2> QED
    BY <1>1, <1>2, <2>1
<1> QED
  BY <1>2, <1>4, <1>5, <1>6

-----------------------------------------------------------------------------
(* The order of a heap in which the element at s may still rise (none, if  *)
(* s is 0), and of one in which it may still sink, the last element having *)
(* been taken from the root.                                               *)
OrderedBut(h, s) ==
    \A i \in 2..Len(h) :
        /\ i # s => ~Less(h[i], h[i \div 2])
        /\ i \div 2 = s /\ s > 1 => ~Less(h[i], h[s \div 2])

SinksOrdered(h, s) ==
    /\ \A i \in 2..(Len(h) - 1) :
        /\ i \div 2 # s => ~Less(h[i], h[i \div 2])
        /\ i \div 2 = s /\ s > 1 => ~Less(h[i], h[s \div 2])
    /\ \A i \in 1..Len(h) : ~Less(h[i], h[Len(h)])

LEMMA Halves ==
    \A i \in Nat :
        i >= 2 => /\ i \div 2 \in Nat /\ i \div 2 >= 1 /\ i \div 2 < i
                  /\ i = 2 * (i \div 2) \/ i = 2 * (i \div 2) + 1
  OBVIOUS

(* The root of an ordered heap is as urgent as any of its elements.        *)
LEMMA RootIsFirst ==
    ASSUME stamp \in [Actions -> Nat],
           NEW h \in Seq(Actions), OrderedBut(h, 0)
    PROVE  \A i \in 1..Len(h) : ~Less(h[i], h[1])
<1> DEFINE Bad == {i \in 1..Len(h) : Less(h[i], h[1])}
<1> SUFFICES ASSUME Bad # {}
             PROVE  FALSE
  OBVIOUS
<1>1. PICK m \in Bad : \A k \in Bad : m <= k
  <2>1. Bad \in SUBSET Nat
    OBVIOUS
  <2> HIDE DEF Bad
  <2> QED
    BY <2>1, LeastNumber
<1>2. m \in 1..Len(h) /\ h[m] \in Actions /\ h[1] \in Actions
  OBVIOUS
<1>3. m # 1
  BY <1>1, <1>2, LessIsAnOrder
<1>4. m \div 2 \in 1..Len(h) /\ m \div 2 < m /\ h[m \div 2] \in Actions
  BY <1>2, <1>3, Halves
<1>5. ~Less(h[m \div 2], h[1])
  BY <1>1, <1>4
<1>6. ~Less(h[m], h[m \div 2])
  BY <1>2, <1>3 DEF OrderedBut
<1> QED
  BY <1>1, <1>2, <1>4, <1>5, <1>6, LessIsAnOrder

(* heap.up: exchanging the element that rises with its parent moves the    *)
(* only place where the order may be broken to the parent.                 *)
LEMMA RisingKeepsOrder ==
    ASSUME stamp \in [Actions -> Nat],
           NEW h \in Seq(Actions), NEW s \in 2..Len(h),
           OrderedBut(h, s), Less(h[s], h[s \div 2])
    PROVE  OrderedBut(Swap(h, s, s \div 2), s \div 2)
<1> DEFINE p == s \div 2
           g == Swap(h, s, p)
<1>1. p \in 1..Len(h) /\ p < s /\ s \in 1..Len(h)
  BY Halves
<1>2. /\ Len(g) = Len(h)
      /\ g[p] = h[s] /\ g[s] = h[p]
      /\ \A k \in 1..Len(h) : k # s /\ k # p => g[k] = h[k]
  <2> HIDE DEF p
  <2> QED
    BY <1>1, SwapExchanges
<1>3. \A k \in 1..Len(h) : h[k] \in Actions
  OBVIOUS
<1> SUFFICES OrderedBut(g, p)
  OBVIOUS
<1> HIDE DEF g
<1> SUFFICES ASSUME NEW i \in 2..Len(h)
             PROVE  /\ i # p => ~Less(g[i], g[i \div 2])
                    /\ i \div 2 = p /\ p > 1 => ~Less(g[i], g[p \div 2])
  BY <1>2 DEF OrderedBut
<1> DEFINE q == i \div 2
<1>4. q \in 1..Len(h) /\ q < i /\ i \in 1..Len(h) /\ s \in 1..Len(h)
  BY Halves
<1>5. ASSUME i # p
      PROVE  ~Less(g[i], g[q])
  <2>1. CASE i = s
    BY <1>1, <1>2, <1>3, <1>4, <2>1, LessIsAnOrder
  <2>2. CASE i # s /\ q = s
    <3>1. ~Less(h[i], h[p])
      BY <1>1, <2>2 DEF OrderedBut
    <3> QED
      BY <1>1, <1>2, <1>4, <1>5, <2>2, <3>1
  <2>3. CASE i # s /\ q = p
    <3>1. ~Less(h[i], h[p])
      BY <2>3 DEF OrderedBut
    <3>2. ~Less(h[p], h[s])
      BY <1>1, <1>3, <1>4, LessIsAnOrder
    <3>3. ~Less(h[i], h[s])
      BY <1>1, <1>3, <1>4, <3>1, <3>2, LessIsAnOrder
    <3> QED
      BY <1>2, <1>4, <1>5, <2>3, <3>3
  <2>4. CASE i # s /\ q # s /\ q # p
    <3>1. ~Less(h[i], h[q])
      BY <2>4 DEF OrderedBut
    <3> QED
      BY <1>2, <1>4, <1>5, <2>4, <3>1
  <2> QED
    BY <2>1, <2>2, <2>3, <2>4
<1>6. ASSUME q = p, p > 1
      PROVE  ~Less(g[i], g[p \div 2])
  <2>1. p \div 2 \in 1..Len(h) /\ p \div 2 # p /\ p \div 2 # s
    <3> HIDE DEF p
    <3> QED
      BY <1>1, <1>6, Halves
  <2>2. g[p \div 2] = h[p \div 2]
    <3> HIDE DEF p
    <3> QED
      BY <1>2, <2>1
  <2>3. ~Less(h[p], h[p \div 2])
    BY <1>1, <1>6 DEF OrderedBut
  <2>4. CASE i = s
    BY <1>1, <1>2, <1>4, <2>2, <2>3, <2>4
  <2>5. CASE i # s
    <3>1. i # p
      BY <1>4, <1>6
    <3>2. ~Less(h[i], h[p])
      BY <1>6, <2>5 DEF OrderedBut
    <3>3. g[i] = h[i]
      BY <1>2, <1>4, <2>5, <3>1
    <3> QED
      BY <1>1, <1>3, <1>4, <2>1, <2>2, <2>3, <3>2, <3>3, LessIsAnOrder
  <2> QED
    BY <2>4, <2>5
<1> QED
  BY <1>5, <1>6

(* heap.down: likewise for the lesser child, when the root sinks; the      *)
(* element that leaves stays where it is.                                  *)
LEMMA SinkingKeepsOrder ==
    ASSUME stamp \in [Actions -> Nat],
           NEW h \in Seq(Actions),
           NEW s \in 1..Len(h), NEW c \in 2..(Len(h) - 1),
           SinksOrdered(h, s), c \div 2 = s, Less(h[c], h[s]),
           \A i \in 2..(Len(h) - 1) : i \div 2 = s => ~Less(h[i], h[c])
    PROVE  SinksOrdered(Swap(h, s, c), c)
<1> DEFINE g == Swap(h, s, c)
<1>1. c \in 1..Len(h) /\ s < c /\ c # Len(h)
  BY Halves
<1>2. /\ Len(g) = Len(h)
      /\ g[c] = h[s] /\ g[s] = h[c]
      /\ \A k \in 1..Len(h) : k # s /\ k # c => g[k] = h[k]
  BY SMTT(30), <1>1, SwapExchanges
<1>3. \A k \in 1..Len(h) : h[k] \in Actions
  OBVIOUS
<1> SUFFICES SinksOrdered(g, c)
  OBVIOUS
<1> HIDE DEF g
<1>4. ASSUME NEW i \in 1..Len(h)
      PROVE  ~Less(g[i], g[Len(h)])
  <2>1. g[Len(h)] = h[Len(h)] /\ \E k \in 1..Len(h) : g[i] = h[k]
    BY SMTT(30), <1>1, <1>2
  <2> QED
    BY <2>1 DEF SinksOrdered
<1>5. ASSUME NEW i \in 2..(Len(h) - 1)
      PROVE  /\ i \div 2 # c => ~Less(g[i], g[i \div 2])
             /\ i \div 2 = c /\ c > 1 => ~Less(g[i], g[c \div 2])
  <2> DEFINE q == i \div 2
  <2>1. q \in 1..Len(h) /\ q < i /\ i \in 1..Len(h)
    BY Halves
  <2>2. ASSUME q # c
        PROVE  ~Less(g[i], g[q])
    <3>1. CASE i = c
      <4>1. g[i] = h[s] /\ g[q] = h[c]
        BY <1>1, <1>2, <2>1, <3>1
      <4> QED
        BY <1>1, <1>3, <4>1, LessIsAnOrder
    <3>2. CASE i = s
      <4>1. g[i] = h[c] /\ g[q] = h[q]
        BY <1>1, <1>2, <2>1, <2>2, <3>2
      <4>2. ~Less(h[c], h[q])
        BY SMTT(30), <3>2 DEF SinksOrdered
      <4> QED
        BY <4>1, <4>2
    <3>3. CASE i # c /\ i # s /\ q = s
      <4>1. g[i] = h[i] /\ g[q] = h[c]
        BY <1>1, <1>2, <2>1, <3>3
      <4> QED
        BY <3>3, <4>1
    <3>4. CASE i # c /\ i # s /\ q # s
      <4>1. g[i] = h[i] /\ g[q] = h[q]
        BY <1>2, <2>1, <2>2, <3>4
      <4>2. ~Less(h[i], h[q])
        BY <3>4 DEF SinksOrdered
      <4> QED
        BY <4>1, <4>2
    <3> QED
      BY <3>1, <3>2, <3>3, <3>4
  <2>3. ASSUME q = c
        PROVE  ~Less(g[i], g[c \div 2])
    <3>1. i # s /\ i # c
      BY SMTT(30), <1>1, <2>1, <2>3
    <3>2. g[i] = h[i] /\ g[c \div 2] = h[c]
      BY <1>2, <2>1, <3>1
    <3>3. ~Less(h[i], h[q])
      BY <1>1, <2>3 DEF SinksOrdered
    <3> QED
      BY <2>3, <3>2, <3>3
  <2> QED
    BY <2>2, <2>3
<1> QED
  BY <1>2, <1>4, <1>5 DEF SinksOrdered

(* heap.Pop begins: the root is exchanged with the last element.           *)
LEMMA PoppingStartsToSink ==
    ASSUME stamp \in [Actions -> Nat],
           NEW h \in Seq(Actions), h # <<>>, OrderedBut(h, 0)
    PROVE  SinksOrdered(Swap(h, 1, Len(h)), 1)
<1> DEFINE n == Len(h)
           g == Swap(h, 1, n)
<1>1. n \in Nat /\ n >= 1 /\ 1 \in 1..n /\ n \in 1..n
  OBVIOUS
<1>2. /\ Len(g) = n
      /\ g[n] = h[1] /\ g[1] = h[n]
      /\ \A k \in 1..n : k # 1 /\ k # n => g[k] = h[k]
  BY ZenonT(40), <1>1, SwapExchanges
<1> SUFFICES SinksOrdered(g, 1)
  OBVIOUS
<1> HIDE DEF g
<1>3. ASSUME NEW i \in 1..n
      PROVE  ~Less(g[i], g[n])
  BY <1>1, <1>2, RootIsFirst
<1>4. ASSUME NEW i \in 2..(n - 1), i \div 2 # 1
      PROVE  ~Less(g[i], g[i \div 2])
  <2>1. i \div 2 \in 2..(n - 1) /\ i \in 1..n /\ i # 1 /\ i # n
    BY <1>1, <1>4, Halves
  <2>2. g[i] = h[i] /\ g[i \div 2] = h[i \div 2]
    BY <1>2, <2>1
  <2>3. ~Less(h[i], h[i \div 2])
    BY SMTT(30), <2>1 DEF OrderedBut
  <2> QED
    BY <2>2, <2>3
<1> QED
  BY <1>2, <1>3, <1>4 DEF SinksOrdered

(* heap.Pop ends: nothing is left to sink, and the element that leaves is  *)
(* as urgent as any.                                                       *)
LEMMA PoppedIsOrdered ==
    ASSUME stamp \in [Actions -> Nat],
           NEW h \in Seq(Actions), h # <<>>, NEW s, SinksOrdered(h, s),
           \A i \in 2..(Len(h) - 1) : i \div 2 = s => ~Less(h[i], h[s])
    PROVE  /\ OrderedBut(Front(h), 0)
           /\ \A a \in ToSet(h) : ~Less(a, Last(h))
<1>1. /\ Len(Front(h)) = Len(h) - 1 /\ Len(h) \in Nat /\ Len(h) >= 1
      /\ \A i \in 1..(Len(h) - 1) : Front(h)[i] = h[i]
  BY FrontDropsLast
<1>2. ASSUME NEW i \in 2..(Len(h) - 1)
      PROVE  ~Less(Front(h)[i], Front(h)[i \div 2])
  <2>1. i \div 2 \in 1..(Len(h) - 1)
    BY <1>1, Halves
  <2>2. ~Less(h[i], h[i \div 2])
    BY DEF SinksOrdered
  <2> QED
    BY <1>1, <2>1, <2>2
<1>3. \A i \in 2..(Len(h) - 1) : i \div 2 # 0
  BY Halves
<1>4. OrderedBut(Front(h), 0)
  BY <1>1, <1>2, <1>3 DEF OrderedBut
<1>5. \A a \in ToSet(h) : ~Less(a, Last(h))
  BY DEF ToSet, Last, SinksOrdered
<1> QED
  BY <1>4, <1>5

-----------------------------------------------------------------------------
(* Who is where: no action is in the heap twice, what the worker has seen  *)
(* was pushed, and a time stamp is taken once, from a clock that does not  *)
(* go back.                                                                *)
Books ==
    /\ \A i, j \in 1..Len(heap) : heap[i] = heap[j] => i = j
    /\ \A a \in ToSet(heap) \cup cur \cup done : sub[a] \notin {"new", "push"}
    /\ \A a \in Actions : /\ stamp[a] <= clock
                          /\ sub[a] = "new" <=> stamp[a] = 0
    /\ wpc = "exec" => \E a \in Actions : cur = {a}

(* Who holds the mutex: the worker while it sinks the root, or the one     *)
(* submission whose action rises.                                          *)
Mutex ==
    /\ wpc = "down" => sift > 0
    /\ \A a \in Actions :
          sub[a] = "up" => sift > 0 /\ heap[sift] = a /\ wpc # "down"

HeapOrder ==
    IF wpc = "down" THEN SinksOrdered(heap, sift) ELSE OrderedBut(heap, sift)

EnforcerInv == EnforcerTypeOK /\ Books /\ Mutex /\ HeapOrder

LEMMA StampKeepsEnforcer ==
    ASSUME EnforcerInv, NEW a \in Actions, SubmitStamp(a)
    PROVE  EnforcerInv'
<1> USE DEF EnforcerInv, SubmitStamp, guarded, execution
<1>1. /\ clock' \in Nat \ {0} /\ clock <= clock'
      /\ stamp' = [stamp EXCEPT ![a] = clock']
      /\ sub' = [sub EXCEPT ![a] = "push"]
  BY DEF EnforcerTypeOK
<1>2. EnforcerTypeOK'
  BY <1>1 DEF EnforcerTypeOK
<1>3. a \notin ToSet(heap) \cup cur \cup done
  BY DEF Books
<1>4. Books' /\ Mutex'
  <2>1. \A b \in Actions : /\ stamp'[b] <= clock'
                           /\ sub'[b] = "new" <=> stamp'[b] = 0
    BY <1>1 DEF Books, EnforcerTypeOK
  <2>2. \A b \in ToSet(heap) \cup cur \cup done : sub'[b] \notin {"new", "push"}
    BY <1>1, <1>3 DEF Books, EnforcerTypeOK
  <2>3. Mutex'
    BY <1>1 DEF Mutex, EnforcerTypeOK
  <2> QED
    BY <2>1, <2>2, <2>3 DEF Books
<1>5. \A i \in 1..Len(heap) : heap[i] \in Actions \ {a}
  BY <1>3 DEF ToSet, EnforcerTypeOK
<1>6. \A b, c \in Actions \ {a} : Less(b, c)' <=> Less(b, c)
  BY <1>1 DEF Less, EnforcerTypeOK
<1>7. HeapOrder'
  <2>1. \A i, j \in 1..Len(heap) :
           ~Less(heap[i], heap[j]) => ~Less(heap[i], heap[j])'
    BY <1>5, <1>6
  <2>2. Len(heap) \in Nat /\ sift \in 0..Len(heap)
    BY DEF EnforcerTypeOK
  <2>3. \A i \in 2..Len(heap) : i \in 1..Len(heap) /\ i \div 2 \in 1..Len(heap)
    BY <2>2, Halves
  <2>4. sift > 1 => sift \div 2 \in 1..Len(heap)
    BY <2>2, Halves
  <2>5. CASE wpc = "down"
    <3>1. \A i \in 1..Len(heap) : ~Less(heap[i], heap[Len(heap)])'
      <4>1. \A i \in 1..Len(heap) : Len(heap) \in 1..Len(heap)
        BY <2>2
      <4>2. \A i \in 1..Len(heap) : ~Less(heap[i], heap[Len(heap)])
        BY <2>5 DEF HeapOrder, SinksOrdered
      <4> QED
        BY <2>1, <4>1, <4>2
    <3>2. ASSUME NEW i \in 2..(Len(heap) - 1)
          PROVE  /\ i \div 2 # sift => ~Less(heap[i], heap[i \div 2])'
                 /\ i \div 2 = sift /\ sift > 1
                      => ~Less(heap[i], heap[sift \div 2])'
      <4>1. i \in 2..Len(heap)
        BY <2>2
      <4>2. /\ i \div 2 # sift => ~Less(heap[i], heap[i \div 2])
            /\ i \div 2 = sift /\ sift > 1 => ~Less(heap[i], heap[sift \div 2])
        BY <2>5 DEF HeapOrder, SinksOrdered
      <4> QED
        BY <2>1, <2>3, <2>4, <4>1, <4>2
    <3> QED
      BY <2>5, <3>1, <3>2 DEF HeapOrder, SinksOrdered
  <2>6. CASE wpc # "down"
    BY <2>1, <2>2, <2>3, <2>4, <2>6 DEF HeapOrder, OrderedBut
  <2> QED
    BY <2>5, <2>6
<1> QED
  BY <1>2, <1>4, <1>7

LEMMA PushKeepsEnforcer ==
    ASSUME EnforcerInv, NEW a \in Actions, SubmitPush(a)
    PROVE  EnforcerInv'
<1> USE DEF EnforcerInv, SubmitPush, execution, Free
<1> DEFINE n == Len(heap)
<1>1. /\ n \in Nat /\ heap' \in Seq(Actions) /\ Len(heap') = n + 1
      /\ heap'[n + 1] = a /\ \A i \in 1..n : heap'[i] = heap[i]
      /\ sift' = n + 1 /\ wpc' = wpc
  BY DEF EnforcerTypeOK
<1>2. wpc # "down" /\ \A b \in Actions : sub[b] # "up"
  BY DEF Mutex
<1>3. EnforcerTypeOK'
  BY <1>1 DEF EnforcerTypeOK
<1>4. a \notin ToSet(heap) /\ ToSet(heap') = ToSet(heap) \cup {a}
  BY AppendAddsElement DEF Books, EnforcerTypeOK
<1>5. Books'
  <2>1. \A i \in 1..n : heap[i] # a
    BY <1>1, <1>4 DEF ToSet, EnforcerTypeOK
  <2>2. \A i, j \in 1..(n + 1) : heap'[i] = heap'[j] => i = j
    BY <1>1, <2>1 DEF Books
  <2>3. \A b \in ToSet(heap') \cup cur \cup done :
           sub'[b] \notin {"new", "push"}
    BY <1>4 DEF Books, EnforcerTypeOK
  <2>4. \A b \in Actions : /\ stamp'[b] <= clock'
                           /\ sub'[b] = "new" <=> stamp'[b] = 0
    BY DEF Books, EnforcerTypeOK
  <2> QED
    BY <1>1, <2>2, <2>3, <2>4 DEF Books
<1>6. Mutex'
  BY <1>1, <1>2 DEF Mutex, EnforcerTypeOK
<1>7. OrderedBut(heap, sift)'
  <2>1. \A i \in 2..(n + 1) : i \div 2 # n + 1 /\ i \div 2 \in 1..n
    BY <1>1, Halves
  <2>2. ASSUME NEW i \in 2..n
        PROVE  ~Less(heap[i], heap[i \div 2])
    BY <1>2 DEF HeapOrder, OrderedBut
  <2>3. \A b, c \in Actions : Less(b, c)' <=> Less(b, c)
    BY DEF Less
  <2>4. ASSUME NEW i \in 2..(n + 1), i # n + 1
        PROVE  ~Less(heap[i], heap[i \div 2])'
    <3>1. /\ i \in 2..n /\ heap'[i] = heap[i]
          /\ heap'[i \div 2] = heap[i \div 2]
      BY <1>1, <2>1, <2>4
    <3> QED
      BY <2>2, <3>1 DEF Less
  <2> QED
    BY <1>1, <2>1, <2>4 DEF OrderedBut
<1> QED
  BY <1>1, <1>2, <1>3, <1>5, <1>6, <1>7 DEF HeapOrder

LEMMA UpKeepsEnforcer ==
    ASSUME EnforcerInv, NEW a \in Actions, SubmitUp(a)
    PROVE  EnforcerInv'
<1> USE DEF EnforcerInv, SubmitUp, execution
<1>1. /\ sift \in 1..Len(heap) /\ heap[sift] = a /\ wpc # "down"
      /\ Len(heap) \in Nat /\ \A i \in 1..Len(heap) : heap[i] \in Actions
  BY DEF Mutex, EnforcerTypeOK
<1>2. \A b \in Actions : sub[b] = "up" => b = a
  BY <1>1 DEF Mutex
<1>3. OrderedBut(heap, sift)
  BY <1>1 DEF HeapOrder
<1>4. CASE Rises /\ heap' = Swap(heap, sift, sift \div 2)
             /\ sift' = sift \div 2 /\ UNCHANGED sub
  <2> DEFINE p == sift \div 2
  <2>1. p \in 1..Len(heap) /\ p < sift /\ sift \in 2..Len(heap) /\ p # 0
    BY <1>1, <1>4, Halves DEF Rises
  <2>2. OrderedBut(Swap(heap, sift, p), p)
    BY <1>3, <1>4, <2>1, RisingKeepsOrder DEF Rises, EnforcerTypeOK
  <2>3. ToSet(heap') = ToSet(heap)
    BY <1>1, <1>4, <2>1, SwapKeepsElements DEF EnforcerTypeOK
  <2> HIDE DEF p
  <2>4. /\ heap' \in Seq(Actions) /\ Len(heap') = Len(heap)
        /\ heap'[p] = a /\ heap'[sift] = heap[p]
        /\ \A k \in 1..Len(heap) : k # sift /\ k # p => heap'[k] = heap[k]
    <3>1. heap' = Swap(heap, sift, p) /\ heap \in Seq(Actions)
      BY <1>4 DEF p, EnforcerTypeOK
    <3>2. heap' \in Seq(Actions) /\ Len(heap') = Len(heap)
      BY <1>1, <2>1, <3>1, SwapExchanges
    <3>3. heap'[p] = a /\ heap'[sift] = heap[p]
      BY <1>1, <2>1, <3>1, SwapExchanges
    <3>4. \A k \in 1..Len(heap) : k # sift /\ k # p => heap'[k] = heap[k]
      BY <1>1, <2>1, <3>1, SwapExchanges
    <3> QED
      BY <3>2, <3>3, <3>4
  <2>5. \A i, j \in 1..Len(heap') : heap'[i] = heap'[j] => i = j
    BY SMTT(30), <1>1, <2>1, <2>4 DEF Books
  <2>6. sift' = p
    BY <1>4 DEF p
  <2>7. EnforcerTypeOK'
    <3>1. UNCHANGED <<sub, stamp, clock, signal, wpc, cur, hung, cancelled,
                      letters, done>>
      BY <1>4
    <3>2. sift' \in 0..Len(heap')
      BY ONLY <1>1, <2>1, <2>4, <2>6
    <3> QED
      BY <2>4, <3>1, <3>2 DEF EnforcerTypeOK
  <2>8. Books'
    BY <1>4, <2>3, <2>5 DEF Books
  <2>9. Mutex'
    BY <1>1, <1>2, <1>4, <2>1, <2>4, <2>6 DEF Mutex
  <2>10. OrderedBut(heap, sift)'
    BY <1>4, <2>2 DEF OrderedBut, Less, p
  <2> QED
    BY <1>1, <2>7, <2>8, <2>9, <2>10 DEF HeapOrder
<1>5. CASE ~Rises /\ sift' = 0 /\ sub' = [sub EXCEPT ![a] = "poke"]
             /\ UNCHANGED heap
  <2>1. EnforcerTypeOK'
    BY <1>1, <1>5 DEF EnforcerTypeOK
  <2>2. Books'
    <3>1. \A b \in Actions :
             /\ sub'[b] \in {"new", "push"} <=> sub[b] \in {"new", "push"}
             /\ sub'[b] = "new" <=> sub[b] = "new"
      BY <1>5 DEF EnforcerTypeOK
    <3>2. \A b \in ToSet(heap) \cup cur \cup done : b \in Actions
      BY DEF ToSet, EnforcerTypeOK
    <3> QED
      BY <1>5, <3>1, <3>2 DEF Books
  <2>3. Mutex'
    BY <1>1, <1>2, <1>5 DEF Mutex, EnforcerTypeOK
  <2>4. \A i \in 2..Len(heap) : ~Less(heap[i], heap[i \div 2])
    <3> SUFFICES ASSUME NEW i \in 2..Len(heap)
                 PROVE  ~Less(heap[i], heap[i \div 2])
      OBVIOUS
    <3>1. CASE i = sift
      BY <1>5, <3>1 DEF Rises
    <3>2. CASE i # sift
      BY <1>3, <3>2 DEF OrderedBut
    <3> QED
      BY <3>1, <3>2
  <2>5. \A i \in 2..Len(heap) : i \div 2 # 0
    BY <1>1, Halves
  <2>6. OrderedBut(heap, sift)'
    BY <1>5, <2>4, <2>5 DEF OrderedBut, Less
  <2> QED
    BY <1>1, <2>1, <2>2, <2>3, <2>6 DEF HeapOrder
<1> QED
  BY <1>4, <1>5

(* Steps that leave the heap alone.                                        *)
LEMMA OthersKeepEnforcer ==
    ASSUME EnforcerInv,
           \/ \E a \in Actions : SubmitPoke(a)
           \/ WorkerWake \/ WorkerStop \/ WorkerEmpty \/ WorkerExec
           \/ SubprocessHangs \/ Cancel
           \/ UNCHANGED enforcervars
    PROVE  EnforcerInv'
<1> USE DEF EnforcerInv
<1>1. /\ UNCHANGED <<stamp, clock, heap, sift>>
      /\ wpc' = "down" <=> wpc = "down"
  BY DEF SubmitPoke, WorkerWake, WorkerStop, WorkerEmpty, WorkerExec,
     SubprocessHangs, Cancel, enforcervars, guarded, execution
<1>2. \A a \in Actions :
         \/ sub'[a] = sub[a]
         \/ sub[a] = "poke" /\ sub'[a] = "done"
  <2>1. CASE \E a \in Actions : SubmitPoke(a)
    BY <2>1 DEF SubmitPoke, EnforcerTypeOK
  <2>2. CASE sub' = sub
    BY <2>2
  <2> QED
    BY <2>1, <2>2 DEF WorkerWake, WorkerStop, WorkerEmpty, WorkerExec,
       SubprocessHangs, Cancel, enforcervars
<1>3. EnforcerTypeOK'
  <2>1. CASE \E a \in Actions : SubmitPoke(a)
    BY <2>1 DEF SubmitPoke, Poked, guarded, execution, EnforcerTypeOK
  <2>2. CASE WorkerWake \/ WorkerStop \/ WorkerEmpty
    BY <2>2 DEF WorkerWake, WorkerStop, WorkerEmpty, guarded, execution,
       EnforcerTypeOK
  <2>3. CASE WorkerExec
    BY <2>3 DEF WorkerExec, guarded, EnforcerTypeOK
  <2>4. CASE SubprocessHangs \/ Cancel \/ UNCHANGED enforcervars
    BY <2>4 DEF SubprocessHangs, Cancel, enforcervars, guarded, execution,
       EnforcerTypeOK
  <2> QED
    BY <2>1, <2>2, <2>3, <2>4
<1>4. /\ cur' \cup done' = cur \cup done
      /\ wpc' = "exec" => wpc = "exec" /\ cur' = cur
  BY DEF SubmitPoke, WorkerWake, WorkerStop, WorkerEmpty, WorkerExec,
     SubprocessHangs, Cancel, enforcervars, guarded, execution, EnforcerTypeOK
<1>5. Books'
  <2>1. \A a \in ToSet(heap) \cup cur \cup done : a \in Actions
    BY DEF ToSet, EnforcerTypeOK
  <2> QED
    BY <1>1, <1>2, <1>4, <2>1 DEF Books
<1>6. Mutex'
  BY <1>1, <1>2 DEF Mutex
<1>7. HeapOrder'
  BY <1>1 DEF HeapOrder, OrderedBut, SinksOrdered, Less
<1> QED
  BY <1>3, <1>5, <1>6, <1>7

LEMMA PopKeepsEnforcer ==
    ASSUME EnforcerInv, WorkerPop
    PROVE  EnforcerInv'
<1> DEFINE n == Len(heap)
<1>1. /\ heap \in Seq(Actions) /\ heap' = Swap(heap, 1, n)
      /\ n \in Nat /\ 1 \in 1..n /\ n \in 1..n
      /\ stamp \in [Actions -> Nat] /\ heap # <<>>
      /\ wpc = "drain" /\ sift = 0 /\ wpc' = "down" /\ sift' = 1
      /\ UNCHANGED <<sub, stamp, clock, signal, cur, hung, done, letters,
                     cancelled>>
  BY DEF EnforcerInv, EnforcerTypeOK, WorkerPop, Free, execution
<1> HIDE DEF n
<1>2. heap' \in Seq(Actions) /\ Len(heap') = n
  BY <1>1, SwapExchanges DEF n
<1>3. heap'[n] = heap[1] /\ heap'[1] = heap[n]
  BY <1>1, SwapExchanges DEF n
<1>4. \A k \in 1..n : k # 1 /\ k # n => heap'[k] = heap[k]
  BY <1>1, SwapExchanges DEF n
<1>5. ToSet(heap') = ToSet(heap)
  BY <1>1, SwapKeepsElements DEF n
<1>6. EnforcerTypeOK'
  BY <1>1, <1>2 DEF EnforcerInv, EnforcerTypeOK
<1>7. Books'
  <2>1. \A i, j \in 1..n : heap'[i] = heap'[j] => i = j
    BY <1>1, <1>3, <1>4 DEF EnforcerInv, Books, n
  <2> QED
    BY <1>1, <1>2, <1>5, <2>1 DEF EnforcerInv, Books
<1>8. Mutex'
  BY <1>1 DEF EnforcerInv, Mutex
<1>9. SinksOrdered(heap, sift)'
  <2>1. heap # <<>> /\ OrderedBut(heap, 0)
    BY <1>1 DEF EnforcerInv, HeapOrder
  <2>2. SinksOrdered(Swap(heap, 1, n), 1)
    BY <1>1, <2>1, PoppingStartsToSink DEF n
  <2> QED
    BY <1>1, <2>2 DEF SinksOrdered, Less
<1> QED
  BY <1>1, <1>6, <1>7, <1>8, <1>9 DEF EnforcerInv, HeapOrder

(* The children of an element, and the lesser one of them.                 *)
LEMMA LesserChildIsLess ==
    ASSUME EnforcerInv, wpc = "down"
    PROVE  /\ \A i \in 2..Kept : i \div 2 = sift =>
                /\ LesserChild \in 2..Kept /\ LesserChild \div 2 = sift
                /\ ~Less(heap[i], heap[LesserChild])
           /\ 2 * sift <= Kept =>
                LesserChild \in 2..Kept /\ LesserChild \div 2 = sift
           /\ sift \in 1..Len(heap) /\ Len(heap) \in Nat
<1>1. /\ sift \in 1..Len(heap) /\ Len(heap) \in Nat
      /\ stamp \in [Actions -> Nat]
      /\ \A i \in 1..Len(heap) : heap[i] \in Actions
  BY DEF EnforcerInv, EnforcerTypeOK, Mutex
<1>2. \A i \in 2..Kept : i \div 2 = sift => i = 2 * sift \/ i = 2 * sift + 1
  BY <1>1 DEF Kept
<1>3. 2 * sift <= Kept => LesserChild \in 2..Kept /\ LesserChild \div 2 = sift
  BY <1>1 DEF Kept, LesserChild
<1>4. ASSUME NEW i \in 2..Kept, i \div 2 = sift
      PROVE  2 * sift <= Kept /\ ~Less(heap[i], heap[LesserChild])
  <2>1. 2 * sift <= Kept /\ i \in 1..Len(heap)
    BY <1>1, <1>2, <1>4 DEF Kept
  <2>2. CASE i = LesserChild
    BY <1>1, <2>1, <2>2, LessIsAnOrder
  <2>3. CASE i # LesserChild
    <3>1. CASE i = 2 * sift /\ LesserChild = 2 * sift + 1
      <4>1. 2 * sift + 1 <= Kept /\ Less(heap[2 * sift + 1], heap[2 * sift])
        BY <1>1, <3>1 DEF LesserChild
      <4>2. 2 * sift \in 1..Len(heap) /\ 2 * sift + 1 \in 1..Len(heap)
        BY <1>1, <4>1 DEF Kept
      <4> QED
        BY <1>1, <3>1, <4>1, <4>2, LessIsAnOrder
    <3>2. CASE i = 2 * sift + 1 /\ LesserChild = 2 * sift
      <4>1. /\ 2 * sift + 1 <= Kept /\ 2 * sift + 1 # 2 * sift
            /\ sift \in Int /\ Kept \in Int
        BY <1>1, <3>2 DEF Kept
      <4>2. ASSUME Less(heap[2 * sift + 1], heap[2 * sift])
            PROVE  LesserChild = 2 * sift + 1
        BY <4>1, <4>2 DEF LesserChild
      <4> QED
        BY <3>2, <4>1, <4>2
    <3> QED
      BY <1>2, <1>4, <2>3, <3>1, <3>2 DEF LesserChild
  <2> QED
    BY <2>1, <2>2, <2>3
<1> QED
  BY <1>1, <1>3, <1>4

LEMMA DownKeepsEnforcer ==
    ASSUME EnforcerInv, WorkerDown
    PROVE  EnforcerInv'
<1> DEFINE n == Len(heap)
           c == LesserChild
<1>1. /\ heap \in Seq(Actions) /\ heap' = Swap(heap, sift, c) /\ sift' = c
      /\ stamp \in [Actions -> Nat] /\ Less(heap[c], heap[sift])
      /\ wpc = "down"
      /\ UNCHANGED <<sub, stamp, clock, signal, wpc, cur, hung, done, letters,
                     cancelled>>
  BY DEF EnforcerInv, EnforcerTypeOK, WorkerDown, Sinks, execution
<1>2. /\ n \in Nat /\ sift \in 1..n /\ c \in 2..(n - 1) /\ c \div 2 = sift
      /\ \A i \in 2..(n - 1) : i \div 2 = sift => ~Less(heap[i], heap[c])
  BY LesserChildIsLess DEF WorkerDown, Sinks, Kept
<1>3. SinksOrdered(heap, sift)
  BY <1>1 DEF EnforcerInv, HeapOrder
<1> HIDE DEF c
<1>4. SinksOrdered(Swap(heap, sift, c), c)
  BY <1>1, <1>2, <1>3, SinkingKeepsOrder
<1>5. c \in 1..n /\ c # sift
  BY <1>2
<1>6. heap' \in Seq(Actions) /\ Len(heap') = n
  BY <1>1, <1>2, <1>5, SwapExchanges
<1>7. heap'[c] = heap[sift] /\ heap'[sift] = heap[c]
  BY <1>1, <1>2, <1>5, SwapExchanges
<1>8. \A k \in 1..n : k # c /\ k # sift => heap'[k] = heap[k]
  BY <1>1, <1>2, <1>5, SwapExchanges
<1>9. ToSet(heap') = ToSet(heap)
  BY <1>1, <1>2, <1>5, SwapKeepsElements
<1>10. EnforcerTypeOK'
  BY <1>1, <1>5, <1>6 DEF EnforcerInv, EnforcerTypeOK
<1>11. Books'
  <2>1. \A i, j \in 1..n : heap'[i] = heap'[j] => i = j
    BY <1>2, <1>5, <1>7, <1>8 DEF EnforcerInv, Books
  <2> QED
    BY <1>1, <1>6, <1>9, <2>1 DEF EnforcerInv, Books
<1>12. Mutex'
  BY <1>1, <1>2 DEF EnforcerInv, Mutex
<1>13. SinksOrdered(heap, sift)'
  BY <1>1, <1>4 DEF SinksOrdered, Less
<1> QED
  BY <1>1, <1>10, <1>11, <1>12, <1>13 DEF EnforcerInv, HeapOrder

(* The element that leaves is as urgent as any that waits.                 *)
LEMMA TakenIsFirst ==
    ASSUME EnforcerInv, WorkerTake
    PROVE  /\ heap # <<>> /\ heap \in Seq(Actions)
           /\ OrderedBut(Front(heap), 0)
           /\ \A a \in ToSet(heap) : ~Less(a, Last(heap))
<1> USE DEF EnforcerInv, WorkerTake
<1>1. /\ heap \in Seq(Actions) /\ stamp \in [Actions -> Nat]
      /\ sift \in 1..Len(heap) /\ Len(heap) \in Nat /\ SinksOrdered(heap, sift)
      /\ \A i \in 1..Len(heap) : heap[i] \in Actions
  BY DEF EnforcerTypeOK, Mutex, HeapOrder
<1>2. heap # <<>>
  BY <1>1
<1>3. ASSUME NEW i \in 2..(Len(heap) - 1), i \div 2 = sift
      PROVE  ~Less(heap[i], heap[sift])
  <2>1. 2 * sift <= Kept
    BY <1>1, <1>3 DEF Kept
  <2>2. /\ LesserChild \in 2..Kept /\ ~Less(heap[i], heap[LesserChild])
        /\ ~Less(heap[LesserChild], heap[sift])
    BY <1>3, <2>1, LesserChildIsLess DEF Sinks, Kept
  <2>3. LesserChild \in 1..Len(heap) /\ i \in 1..Len(heap)
    BY SMTT(30), <1>1, <2>2 DEF Kept
  <2> QED
    BY <1>1, <2>2, <2>3, LessIsAnOrder
<1> QED
  BY <1>1, <1>2, <1>3, PoppedIsOrdered

LEMMA TakeKeepsEnforcer ==
    ASSUME EnforcerInv, WorkerTake
    PROVE  EnforcerInv'
<1> USE DEF EnforcerInv, WorkerTake
<1>1. heap # <<>> /\ heap \in Seq(Actions) /\ OrderedBut(Front(heap), 0)
  BY TakenIsFirst
<1>2. /\ Len(Front(heap)) = Len(heap) - 1 /\ Len(heap) \in Nat
      /\ \A i \in 1..(Len(heap) - 1) : Front(heap)[i] = heap[i]
      /\ Front(heap) \in Seq(Actions) /\ Last(heap) \in Actions
  BY <1>1, FrontDropsLast
<1>3. ToSet(Front(heap)) \subseteq ToSet(heap) /\ Last(heap) \in ToSet(heap)
  BY <1>1, FrontDropsElement DEF Books
<1>4. EnforcerTypeOK'
  BY <1>2 DEF EnforcerTypeOK
<1>5. Books'
  <2>1. \A i, j \in 1..Len(heap') : heap'[i] = heap'[j] => i = j
    BY <1>2 DEF Books
  <2>2. \A a \in ToSet(heap') \cup cur' \cup done' :
           sub'[a] \notin {"new", "push"}
    BY <1>3 DEF Books
  <2> QED
    BY <1>2, <2>1, <2>2 DEF Books
<1>6. Mutex'
  BY DEF Mutex
<1>7. OrderedBut(heap, sift)'
  BY <1>1 DEF OrderedBut, Less
<1> QED
  BY <1>4, <1>5, <1>6, <1>7 DEF HeapOrder

LEMMA EnforcerInvariant == EnforcerSteps => []EnforcerInv
<1>1. EnforcerInit => EnforcerInv
  <2> SUFFICES ASSUME EnforcerInit
               PROVE  EnforcerInv
    OBVIOUS
  <2>1. heap = <<>> /\ ToSet(heap) = {} /\ Len(heap) = 0
    BY DEF EnforcerInit, ToSet
  <2>2. EnforcerTypeOK
    <3>1. heap \in Seq(Actions) /\ sift \in 0..Len(heap)
      BY <2>1 DEF EnforcerInit
    <3>2. hung \in BOOLEAN /\ cancelled \in BOOLEAN
      BY DEF EnforcerInit
    <3> QED
      BY <3>1, <3>2 DEF EnforcerInit, EnforcerTypeOK
  <2>3. Books /\ Mutex /\ HeapOrder
    BY <2>1 DEF EnforcerInit, Books, Mutex, HeapOrder, OrderedBut
  <2> QED
    BY <2>2, <2>3 DEF EnforcerInv
<1>2. EnforcerInv /\ [EnforcerNext]_enforcervars => EnforcerInv'
  <2> SUFFICES ASSUME EnforcerInv, [EnforcerNext]_enforcervars
               PROVE  EnforcerInv'
    OBVIOUS
  <2>1. CASE \E a \in Actions : SubmitStamp(a) \/ Submits(a)
    BY <2>1, StampKeepsEnforcer, PushKeepsEnforcer, UpKeepsEnforcer,
       OthersKeepEnforcer DEF Submits
  <2>2. CASE Worker
    BY <2>2, PopKeepsEnforcer, DownKeepsEnforcer, TakeKeepsEnforcer,
       OthersKeepEnforcer DEF Worker
  <2>3. CASE SubprocessHangs \/ Cancel \/ UNCHANGED enforcervars
    BY <2>3, OthersKeepEnforcer
  <2> QED
    BY <2>1, <2>2, <2>3 DEF EnforcerNext
<1> QED
  BY <1>1, <1>2, PTL DEF EnforcerSteps

LEMMA EnforcerKeepsTypes == EnforcerSteps => []EnforcerTypeOK
BY EnforcerInvariant, PTL DEF EnforcerInv

LEMMA HeapKeepsUrgency == EnforcerSteps => RunsByUrgency
<1>1. EnforcerInit => Queue!QInit
  BY DEF EnforcerInit, Queue!QInit, ToSet
<1>2. EnforcerInv /\ [EnforcerNext]_enforcervars
        => [Queue!QNext]_(Queue!qvars)
  <2> SUFFICES ASSUME EnforcerInv, [EnforcerNext]_enforcervars
               PROVE  Queue!QNext \/ UNCHANGED Queue!qvars
    OBVIOUS
  <2> USE DEF EnforcerInv
  <2>1. ASSUME NEW a \in Actions, SubmitStamp(a)
        PROVE  Queue!QStamp(a)
    <3>1. /\ stamp' = [stamp EXCEPT ![a] = clock']
          /\ clock' \in Nat /\ clock' > 0 /\ clock <= clock'
          /\ stamp'[a] = clock'
      BY <2>1 DEF SubmitStamp, EnforcerTypeOK
    <3>2. stamp[a] = 0 /\ \A b \in Actions : stamp[b] <= clock'
      BY <2>1, <3>1 DEF SubmitStamp, Books, EnforcerTypeOK
    <3> QED
      BY <2>1, <3>1, <3>2
      DEF SubmitStamp, Queue!QStamp, guarded, execution
  <2>2. ASSUME NEW a \in Actions, SubmitPush(a)
        PROVE  Queue!QAccept(a)
    <3>1. ToSet(heap') = ToSet(heap) \cup {a}
      BY <2>2, AppendAddsElement DEF SubmitPush, EnforcerTypeOK
    <3>2. stamp[a] > 0 /\ a \notin ToSet(heap) \cup cur \cup done
      BY <2>2 DEF SubmitPush, Books, EnforcerTypeOK
    <3> QED
      BY <2>2, <3>1, <3>2 DEF SubmitPush, Queue!QAccept, execution
  <2>3. ASSUME NEW a \in Actions, SubmitUp(a)
        PROVE  UNCHANGED Queue!qvars
    <3>1. ToSet(heap') = ToSet(heap)
      <4>1. CASE UNCHANGED heap
        BY <4>1
      <4>2. CASE Rises /\ heap' = Swap(heap, sift, sift \div 2)
        <5>1. /\ sift \in 1..Len(heap) /\ sift \div 2 \in 1..Len(heap)
              /\ heap \in Seq(Actions)
          BY <4>2, Halves DEF Rises, EnforcerTypeOK
        <5> QED
          BY <4>2, <5>1, SwapKeepsElements
      <4> QED
        BY <2>3, <4>1, <4>2 DEF SubmitUp
    <3> QED
      BY <2>3, <3>1 DEF SubmitUp, Queue!qvars, execution
  <2>4. CASE WorkerPop \/ WorkerDown
    <3>1. ToSet(heap') = ToSet(heap)
      <4>1. CASE WorkerPop
        <5>1. /\ heap \in Seq(Actions) /\ heap' = Swap(heap, 1, Len(heap))
              /\ 1 \in 1..Len(heap) /\ Len(heap) \in 1..Len(heap)
          BY <4>1 DEF WorkerPop, EnforcerTypeOK
        <5> QED
          BY <5>1, SwapKeepsElements
      <4>2. CASE WorkerDown
        <5>1. /\ heap \in Seq(Actions) /\ heap' = Swap(heap, sift, LesserChild)
              /\ sift \in 1..Len(heap)
          BY <4>2, LesserChildIsLess DEF WorkerDown, EnforcerTypeOK
        <5>2. LesserChild \in 1..Len(heap)
          BY <4>2, LesserChildIsLess DEF WorkerDown, Sinks, Kept
        <5> QED
          BY <5>1, <5>2, SwapKeepsElements
      <4> QED
        BY <2>4, <4>1, <4>2
    <3> QED
      BY <2>4, <3>1 DEF WorkerPop, WorkerDown, Queue!qvars, execution
  <2>5. CASE WorkerTake
    <3> DEFINE a == Last(heap)
    <3>1. /\ heap # <<>> /\ heap \in Seq(Actions)
          /\ \A b \in ToSet(heap) : ~Less(b, a)
      BY <2>5, TakenIsFirst
    <3>2. ToSet(heap') = ToSet(heap) \ {a} /\ a \in ToSet(heap) /\ a \in Actions
      BY <2>5, <3>1, FrontDropsElement, FrontDropsLast DEF WorkerTake, Books
    <3>3. \A b \in ToSet(heap) : ~Queue!MoreUrgent(b, a)
      BY <3>1 DEF Queue!MoreUrgent, Less
    <3>4. cur = {} /\ wpc = "down" /\ wpc' = "exec" /\ cur' = {a}
      BY <2>5 DEF WorkerTake, EnforcerTypeOK
    <3>5. Queue!QStart(a)
      BY <2>5, <3>2, <3>3, <3>4 DEF WorkerTake, Queue!QStart
    <3> QED
      BY <3>2, <3>5 DEF Queue!QNext
  <2>6. CASE WorkerExec
    <3>1. PICK a \in Actions : cur = {a}
      BY <2>6 DEF WorkerExec, Books
    <3>2. letters' \in {letters, letters \cup {a}}
      BY <2>6, <3>1 DEF WorkerExec
    <3>3. Queue!QFinish(a)
      BY <2>6, <3>1, <3>2 DEF WorkerExec, Queue!QFinish, guarded
    <3> QED
      BY <3>3 DEF Queue!QNext
  <2>7. CASE WorkerStop
    <3>1. Queue!QStop
      BY <2>7 DEF WorkerStop, Queue!QStop, guarded, execution, EnforcerTypeOK
    <3> QED
      BY <3>1 DEF Queue!QNext
  <2>8. CASE WorkerWake \/ WorkerEmpty \/ SubprocessHangs \/ Cancel
               \/ UNCHANGED enforcervars
    BY <2>8 DEF WorkerWake, WorkerEmpty, SubprocessHangs, Cancel, enforcervars,
       guarded, execution, Queue!qvars
  <2>9. ASSUME NEW a \in Actions, SubmitPoke(a)
        PROVE  UNCHANGED Queue!qvars
    BY <2>9 DEF SubmitPoke, guarded, execution, Queue!qvars
  <2> QED
    BY <2>1, <2>2, <2>3, <2>4, <2>5, <2>6, <2>7, <2>8, <2>9
    DEF EnforcerNext, Submits, Worker, Queue!QNext
<1> QED
  BY <1>1, <1>2, EnforcerInvariant, PTL
  DEF EnforcerSteps, RunsByUrgency, Queue!QSafety

-----------------------------------------------------------------------------
(* The theorems.                                                           *)

(* No variable ever leaves its type, for every period and threshold.       *)
THEOREM WatchdogTypeCorrect == Spec => []TypeOK
BY WatchdogKeepsTypes, PTL DEF Spec, WatchdogSteps

(* However the subsystem flaps, the breaker keeps the restarts started in  *)
(* any circuitWindow at circuitThresh, also across its closing.            *)
THEOREM RestartsAreBounded == Spec => []RestartRate
BY RestartsKeepRate, PTL DEF Spec, WatchdogSteps

(* Whatever the phase of the goroutine that sends the heartbeats and of    *)
(* the ticker that drains them, a subsystem that stays alive is not        *)
(* counted as missing, as long as the SLA is not below the period.         *)
THEOREM SteadySubsystemIsHealthy == Spec => []SteadyIsHealthy
BY SteadyStaysHealthy, PTL DEF Spec, WatchdogSteps

(* No silence escapes the watchdog: two ticks past the SLA a restart is    *)
(* scheduled inside the window, or the breaker is open or just closed.     *)
THEOREM NoSilenceIsMissed == Spec => []SilenceIsNoticed
BY SilenceGetsNoticed, PTL DEF Spec, WatchdogSteps

(* No variable of the healer leaves its type: no count runs away, whatever *)
(* the services, the limits and the restarts in flight.                    *)
THEOREM HealerTypeCorrect == HealerSpec => []HealerTypeOK
BY HealerKeepsTypes, PTL DEF HealerSpec, HealerSteps

(* Giving up on a service puts the daemon into safe mode before the probe  *)
(* goroutine does anything else, whatever the restarts do meanwhile.       *)
THEOREM GivingUpIsSafe == HealerSpec => []GivenUpIsSafe
BY GivingUpStaysSafe, PTL DEF HealerSpec, HealerSteps

(* Type correctness of the enforcer: the heap and its sifting stay within  *)
(* bounds, whatever is submitted and in whatever order.                    *)
THEOREM EnforcerTypeCorrect == EnforcerSpec => []EnforcerTypeOK
BY EnforcerKeepsTypes, PTL DEF EnforcerSpec, EnforcerSteps

(* Every step of the enforcer is one of the queue it promises, or none:    *)
(* the binary heap, put in order step by step, the channel of one poke and *)
(* the worker run the actions one at a time, the most urgent and then the  *)
(* oldest first, each once, for any actions and any interleaving.          *)
THEOREM HeapRunsByUrgency == EnforcerSpec => RunsByUrgency
BY HeapKeepsUrgency, PTL DEF EnforcerSpec, EnforcerSteps

(* A behaviour of the run is one of each part, which does not see that the *)
(* others stand still: what is proved of the parts holds of the run.       *)
LEMMA PartsRunAlone == MCSpec => WatchdogSteps /\ HealerSteps /\ EnforcerSteps
<1>1. MCInit => Init /\ HealerInit /\ EnforcerInit
  BY DEF MCInit
<1>2. [MCNext]_allvars => [Next]_vars
  BY DEF MCNext, allvars, vars, Watchdogs, Healers, Enforcers, Next
<1>3. [MCNext]_allvars => [HealerNext]_healervars
  BY DEF MCNext, allvars, healervars, Watchdogs, Healers, Enforcers,
         HealerNext, ProbeStep, RestartStep
<1>4. [MCNext]_allvars => [EnforcerNext]_enforcervars
  BY DEF MCNext, allvars, enforcervars, Watchdogs, Healers, Enforcers,
         EnforcerNext, Submits, Worker
<1> QED
  BY <1>1, <1>2, <1>3, <1>4, PTL
     DEF MCSpec, WatchdogSteps, HealerSteps, EnforcerSteps

(* The types of all three parts, in every run.                             *)
THEOREM PartsTypeCorrect == MCSpec => []PartsTypeOK
BY PartsRunAlone, WatchdogKeepsTypes, HealerKeepsTypes, EnforcerKeepsTypes,
   PTL DEF PartsTypeOK

(* Every other safety property of the run, of every run there can be.      *)
THEOREM RunsAreSafe ==
    MCSpec => /\ []RestartRate /\ []SteadyIsHealthy /\ []SilenceIsNoticed
              /\ []GivenUpIsSafe
              /\ RunsByUrgency
BY PartsRunAlone, RestartsKeepRate, SteadyStaysHealthy, SilenceGetsNoticed,
   GivingUpStaysSafe, HeapKeepsUrgency, PTL

=============================================================================
