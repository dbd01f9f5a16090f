-------------------------- MODULE HispowerdProofs ---------------------------
(***************************************************************************)
(* What is proved of hispowerd, for any bounds on failures and kills: its  *)
(* types, that undisturbed sessions leave no setting of theirs behind, and *)
(* that crashes of recorded sessions are cleaned up.                       *)
(***************************************************************************)
EXTENDS MCMachine, TLAPS

(* Where a phase is in the three orders.                                   *)
StartAt == [cpu |-> 1, irq |-> 2, throttle |-> 3, firewall |-> 4, tuning |-> 5]
StopAt  == [tuning |-> 1, firewall |-> 2, throttle |-> 3, irq |-> 4, cpu |-> 5]
NetAt   == [cpu |-> 1, irq |-> 2, firewall |-> 3, throttle |-> 4, tuning |-> 5]

(* A session has applied phase p and not yet restored it.                  *)
Held(p) ==
    \/ pc = Rest /\ gaming
    \/ Does(Starting) /\ StartAt[p] < pc.k
    \/ Does(Stopping) /\ StopAt[p] >= pc.k

(* Who will take a change back: the clean-up of the next start, the clean- *)
(* up under way, or the session, which has what it needs for it.           *)
Accounted(p, i) ==
    i \in changed =>
       \/ pc = Down /\ record
       \/ Does(Cleaning) /\ NetAt[p] >= pc.k
       \/ Held(p) /\ p \in applied /\ saved[i] = "original"

(* What the clean-up takes back without memory.                            *)
Memoryless == {"games", "daemons", "table"}

Undisturbed == faults = 0 /\ kills = 0

(* Without disturbance the record is of the session, so no clean-up runs.  *)
Settled ==
    Undisturbed =>
       /\ ~Does(Cleaning)
       /\ pc = Down => ~record /\ ~gaming
       /\ pc = Rest => record = gaming

AllAccounted ==
    Undisturbed => \A p \in Phases : \A i \in ItemsOf[p] : Accounted(p, i)

MemorylessAccounted ==
    faults = 0 /\ ~unrecorded =>
       \A p \in Phases : \A i \in ItemsOf[p] \cap Memoryless : Accounted(p, i)

(* Only the clean-up gives interrupts every CPU; a session never does.     *)
OnlyMasks == Undisturbed => freed \subseteq Processes

Inv == TypeOK /\ Settled /\ AllAccounted /\ MemorylessAccounted /\ OnlyMasks

-----------------------------------------------------------------------------
(* The orders, as the provers see them.                                    *)

(* A step of an order that is not its last leaves room for the next.       *)
LEMMA NotLast ==
    ASSUME TypeOK, NEW w, w # "record", Step(w),
           Does(Starting \cup Stopping \cup Cleaning)
    PROVE  /\ pc \in [do : DOMAIN Orders, k : 1..7]
           /\ pc.k \in 1..6
<1>1. pc \in [do : DOMAIN Orders, k : 1..7]
  BY DEF TypeOK, Does, Starting, Stopping, Cleaning, Rest, Down
<1>2. /\ Orders["start"][7] = "record" /\ Orders["stop"][7] = "record"
      /\ Orders["leave"][7] = "record" /\ Orders["net"][7] = "record"
      /\ Orders["clean"][7] = "record"
  BY DEF Orders, StartOrder, StopOrder, NetOrder
<1>3. DOMAIN Orders = {"start", "stop", "leave", "net", "clean"}
  BY DEF Orders
<1>4. pc.k # 7
  BY <1>1, <1>2, <1>3 DEF Step
<1> QED
  BY <1>1, <1>4

(* Which step of an order is phase p.                                      *)
LEMMA PhaseAt ==
    ASSUME NEW p \in Phases, NEW k \in 1..7
    PROVE  /\ StartOrder[k] = p <=> k = StartAt[p]
           /\ StopOrder[k] = p <=> k = StopAt[p]
           /\ NetOrder[k] = p <=> k = NetAt[p]
           /\ StartAt[p] \in 1..5 /\ StopAt[p] \in 1..5 /\ NetAt[p] \in 1..5
<1>1. CASE p = "cpu"
  BY <1>1 DEF StartOrder, StopOrder, NetOrder, StartAt, StopAt, NetAt
<1>2. CASE p = "irq"
  BY <1>2 DEF StartOrder, StopOrder, NetOrder, StartAt, StopAt, NetAt
<1>3. CASE p = "throttle"
  BY <1>3 DEF StartOrder, StopOrder, NetOrder, StartAt, StopAt, NetAt
<1>4. CASE p = "firewall"
  BY <1>4 DEF StartOrder, StopOrder, NetOrder, StartAt, StopAt, NetAt
<1>5. CASE p = "tuning"
  BY <1>5 DEF StartOrder, StopOrder, NetOrder, StartAt, StopAt, NetAt
<1> QED
  BY <1>1, <1>2, <1>3, <1>4, <1>5 DEF Phases

(* No item is of two phases.                                               *)
LEMMA ItemsApart ==
    ASSUME NEW p \in Phases, NEW q \in Phases, NEW i \in ItemsOf[p], i \in ItemsOf[q]
    PROVE  p = q /\ i \in Items
  BY DEF Phases, ItemsOf, Items

-----------------------------------------------------------------------------
(* Types.                                                                  *)

LEMMA InitType == Init => TypeOK
<1> SUFFICES ASSUME Init PROVE TypeOK
  OBVIOUS
<1>1. faults \in 0..MaxFaults /\ kills \in 0..MaxKills
  BY HispowerdAssumption DEF Init
<1>2. saved \in [Items -> Saved]
  BY DEF Init, Saved
<1> QED
  BY <1>1, <1>2 DEF Init, TypeOK, Modes

LEMMA FailsType ==
    ASSUME TypeOK, NEW b, Fails(b)
    PROVE  faults' \in 0..MaxFaults /\ faults <= faults'
BY HispowerdAssumption DEF TypeOK, Fails

(* A step that goes on in its order has a place to go to.                  *)
LEMMA ThenType ==
    ASSUME TypeOK, NEW w, w # "record", Step(w), Then,
           Does(Starting \cup Stopping \cup Cleaning)
    PROVE  /\ pc' \in [do : DOMAIN Orders, k : 1..7]
           /\ pc'.do = pc.do /\ pc'.k = pc.k + 1
BY NotLast DEF Then

LEMMA ModeType ==
    ASSUME TypeOK, NEW m \in Modes, SetControlPlaneMode(m)
    PROVE  coreMode' \in Modes /\ coreFile' \in Modes /\ faults' \in 0..MaxFaults
BY FailsType DEF SetControlPlaneMode, TypeOK

LEMMA WrittenBackType ==
    ASSUME TypeOK, NEW p \in Phases, NEW ok, WrittenBack(p, ok)
    PROVE  changed' \subseteq Items /\ saved' \in [Items -> Saved]
BY DEF WrittenBack, TypeOK, Saved

LEMMA BroadResetType ==
    ASSUME TypeOK, BroadReset
    PROVE  /\ changed' \subseteq Items /\ saved' \in [Items -> Saved]
           /\ faults' \in 0..MaxFaults
           /\ freed' \subseteq freed \cup Processes
BY FailsType DEF BroadReset, TypeOK, Saved

LEMMA RestoreType ==
    ASSUME TypeOK, NEW p \in Phases, Restore(p)
    PROVE  /\ changed' \subseteq Items /\ saved' \in [Items -> Saved]
           /\ faults' \in 0..MaxFaults
BY FailsType, WrittenBackType DEF Restore

LEMMA RestoreCPUType ==
    ASSUME TypeOK, RestoreCPU
    PROVE  /\ changed' \subseteq Items /\ saved' \in [Items -> Saved]
           /\ faults' \in 0..MaxFaults
           /\ freed' \subseteq freed \cup Processes
<1>1. "cpu" \in Phases
  BY DEF Phases
<1> QED
  BY <1>1, FailsType, WrittenBackType, BroadResetType DEF RestoreCPU

LEMMA ApplyPhaseType ==
    ASSUME TypeOK, NEW p \in Phases, ApplyPhase(p)
    PROVE  TypeOK'
<1>1. p # "record"
  BY DEF Phases
<1>2. pc' \in [do : DOMAIN Orders, k : 1..7]
  BY <1>1, ThenType DEF ApplyPhase, Phase, Does, Starting, Stopping, Cleaning
<1>3. PICK done \in SUBSET ItemsOf[p] :
         /\ Fails(done # ItemsOf[p])
         /\ changed' = changed \cup done
         /\ saved' = [i \in Items |-> IF i \notin ItemsOf[p] THEN saved[i]
                                      ELSE IF i \in done THEN Before(i)
                                      ELSE "none"]
         /\ \E ok \in Success(p, done) :
               applied' = IF ok THEN applied \cup {p} ELSE applied
  BY DEF ApplyPhase
<1>4. ItemsOf[p] \subseteq Items
  BY DEF Items, ItemsOf, Phases
<1>5. saved' \in [Items -> Saved]
  BY <1>3 DEF TypeOK, Before, Saved
<1>6. faults' \in 0..MaxFaults
  BY <1>3, FailsType
<1>7. applied' \subseteq Phases \cup {"mode"}
  BY <1>3 DEF TypeOK
<1> QED
  BY <1>2, <1>3, <1>4, <1>5, <1>6, <1>7 DEF TypeOK, ApplyPhase, core, crashes

LEMMA StopPhaseType ==
    ASSUME TypeOK, NEW p \in Phases, StopPhase(p)
    PROVE  TypeOK'
<1>1. p # "record"
  BY DEF Phases
<1>2. pc' \in [do : DOMAIN Orders, k : 1..7]
  BY <1>1, ThenType DEF StopPhase, Phase, Does, Starting, Stopping, Cleaning
<1>3. /\ changed' \subseteq Items /\ saved' \in [Items -> Saved]
      /\ faults' \in 0..MaxFaults /\ freed' \subseteq freed \cup Processes
  BY FailsType, RestoreType, RestoreCPUType DEF StopPhase, TypeOK, machine
<1> QED
  BY <1>2, <1>3 DEF TypeOK, StopPhase, core, crashes

LEMMA NetPhaseType ==
    ASSUME TypeOK, NEW p \in Phases, NetPhase(p)
    PROVE  TypeOK'
<1>1. p # "record"
  BY DEF Phases
<1>2. pc' \in [do : DOMAIN Orders, k : 1..7]
  BY <1>1, ThenType DEF NetPhase, Phase, Does, Starting, Stopping, Cleaning
<1>3. CASE p \in {"cpu", "throttle", "tuning"}
  <2>1. BroadReset \/ (Restore(p) /\ UNCHANGED freed)
    BY <1>3 DEF NetPhase
  <2>2. /\ changed' \subseteq Items /\ saved' \in [Items -> Saved]
        /\ faults' \in 0..MaxFaults /\ freed' \subseteq freed \cup Processes
    BY <2>1, RestoreType, BroadResetType
  <2> QED
    BY <1>2, <2>2 DEF TypeOK, NetPhase, core, crashes
<1>4. CASE p = "irq"
  <2>1. FreeIRQs
    BY <1>4 DEF NetPhase
  <2>2. /\ changed' \subseteq Items /\ saved' \in [Items -> Saved]
        /\ faults' \in 0..MaxFaults
    BY <2>1, FailsType DEF FreeIRQs, TypeOK, Saved
  <2>3. freed' \subseteq freed \cup {"irqs"}
    BY <2>1 DEF FreeIRQs, Kept, ItemsOf
  <2> QED
    BY <1>2, <2>2, <2>3 DEF TypeOK, NetPhase, core, crashes
<1>5. CASE p = "firewall"
  <2>1. RemoveTable /\ UNCHANGED freed
    BY <1>5 DEF NetPhase
  <2>2. /\ changed' \subseteq Items /\ saved' \in [Items -> Saved]
        /\ faults' \in 0..MaxFaults
    BY <2>1, FailsType DEF RemoveTable, TypeOK, Saved
  <2> QED
    BY <1>2, <2>1, <2>2 DEF TypeOK, NetPhase, core, crashes
<1> QED
  BY <1>3, <1>4, <1>5 DEF Phases

(* What a process that ends leaves is typed.                               *)
LEMMA EndsType ==
    ASSUME NEW again \in BOOLEAN, Ends(again)
    PROVE  /\ saved' \in [Items -> Saved] /\ quitting' \in BOOLEAN
           /\ restarts' \in BOOLEAN
           /\ pc' \in {Rest, Down} \cup [do : DOMAIN Orders, k : 1..7]
BY DEF Ends, Saved

LEMMA RunType ==
    ASSUME NEW w \in {"start", "stop", "leave", "net", "clean"}
    PROVE  Run(w) \in [do : DOMAIN Orders, k : 1..7]
BY DEF Run, Orders

LEMMA CrashesType ==
    ASSUME TypeOK, NEW again \in BOOLEAN, Crashes(again)
    PROVE  TypeOK'
<1>1. kills' \in 0..MaxKills /\ unrecorded' \in BOOLEAN
  BY HispowerdAssumption DEF Crashes, TypeOK
<1>2. /\ saved' \in [Items -> Saved] /\ quitting' \in BOOLEAN
      /\ restarts' \in BOOLEAN
      /\ pc' \in {Rest, Down} \cup [do : DOMAIN Orders, k : 1..7]
  BY EndsType DEF Crashes
<1> QED
  BY <1>1, <1>2 DEF Crashes, TypeOK, core, machine

LEMMA NextType == TypeOK /\ [Next]_vars => TypeOK'
<1> SUFFICES ASSUME TypeOK, [Next]_vars PROVE TypeOK'
  OBVIOUS
<1>1. CASE \E p \in Phases : ApplyPhase(p) \/ StopPhase(p) \/ NetPhase(p)
  BY <1>1, ApplyPhaseType, StopPhaseType, NetPhaseType
<1>2. CASE StartMode
  <2>1. pc' \in [do : DOMAIN Orders, k : 1..7]
    BY <1>2, ThenType DEF StartMode, Does, Starting, Stopping, Cleaning
  <2>2. coreMode' \in Modes /\ coreFile' \in Modes /\ faults' \in 0..MaxFaults
    BY <1>2, ModeType DEF StartMode, Modes
  <2> QED
    BY <1>2, <2>1, <2>2 DEF StartMode, TypeOK, machine, crashes
<1>3. CASE StartRecord
  <2>1. faults' \in 0..MaxFaults /\ record' \in BOOLEAN
    BY <1>3, FailsType DEF StartRecord, Records, TypeOK
  <2> QED
    BY <1>3, <2>1 DEF StartRecord, TypeOK, core, machine, crashes
<1>4. CASE BackMode
  <2>1. pc' \in [do : DOMAIN Orders, k : 1..7]
    BY <1>4, ThenType DEF BackMode, Does, Starting, Stopping, Cleaning
  <2>2. coreMode' \in Modes /\ coreFile' \in Modes /\ faults' \in 0..MaxFaults
    BY <1>4, ModeType, FailsType DEF BackMode, Modes, TypeOK
  <2> QED
    BY <1>4, <2>1, <2>2 DEF BackMode, TypeOK, machine, crashes
<1>5. CASE BackRecord
  <2>1. faults' \in 0..MaxFaults /\ record' \in BOOLEAN
    BY <1>5, FailsType DEF BackRecord, Records, TypeOK
  <2>2. /\ saved' \in [Items -> Saved] /\ quitting' \in BOOLEAN
        /\ restarts' \in BOOLEAN
        /\ pc' \in {Rest, Down} \cup [do : DOMAIN Orders, k : 1..7]
    BY <1>5, EndsType DEF BackRecord, TypeOK
  <2> QED
    BY <1>5, <2>1, <2>2 DEF BackRecord, TypeOK, core, machine
<1>6. CASE Cycle
  BY <1>6, RunType DEF Cycle, TypeOK, core, bounds, machine, crashes
<1>7. CASE Leave
  <2>1. /\ saved' \in [Items -> Saved] /\ quitting' \in BOOLEAN
        /\ restarts' \in BOOLEAN
        /\ pc' \in {Rest, Down} \cup [do : DOMAIN Orders, k : 1..7]
    BY <1>7, EndsType, RunType DEF Leave, TypeOK
  <2> QED
    BY <1>7, <2>1 DEF Leave, TypeOK, core, machine
<1>8. CASE Quit
  BY <1>8 DEF Quit, TypeOK, core, bounds, machine, crashes
<1>9. CASE Start
  BY <1>9, RunType DEF Start, TypeOK, core, machine
<1>10. CASE Kill \/ PanicOutside
  <2>1. CASE Kill
    <3>1. (~quitting) \in BOOLEAN
      BY DEF TypeOK
    <3> QED
      BY <2>1, <3>1, CrashesType DEF Kill
  <2>2. CASE PanicOutside
    BY <2>2, CrashesType DEF PanicOutside
  <2> QED
    BY <1>10, <2>1, <2>2
<1>11. CASE Panic
  <2>1. kills' \in 0..MaxKills
    BY <1>11, HispowerdAssumption DEF Panic, TypeOK
  <2> QED
    BY <1>11, <2>1, RunType DEF Panic, TypeOK, core, machine
<1>12. CASE GameFlips
  <2>1. freed' \subseteq freed \cup {"games"} /\ changed' \subseteq changed
    BY <1>12 DEF GameFlips
  <2> QED
    BY <1>12, <2>1 DEF GameFlips, TypeOK, daemon, core, bounds, crashes, Processes,
                       ItemsOf
<1>13. CASE CorePersists
  BY <1>13 DEF CorePersists, TypeOK, daemon, bounds, CoreModes, machine, crashes
<1>14. CASE CoreStops \/ CoreStarts
  BY <1>14 DEF CoreStops, CoreStarts, TypeOK, daemon, bounds, machine, crashes
<1>15. CASE UNCHANGED vars
  BY <1>15 DEF vars, daemon, core, bounds, TypeOK, machine, crashes
<1> QED
  BY <1>1, <1>2, <1>3, <1>4, <1>5, <1>6, <1>7, <1>8, <1>9, <1>10, <1>11, <1>12,
     <1>13, <1>14, <1>15 DEF Next, Works

(* Type correctness of hispowerd, for any bounds on failures and kills and *)
(* any modes that block.                                                   *)
THEOREM HispowerdTypeCorrect == Spec => []TypeOK
BY InitType, NextType, PTL DEF Spec

-----------------------------------------------------------------------------
(* Where the changes are accounted for.                                    *)

LEMMA NoFault ==
    ASSUME TypeOK, NEW b \in BOOLEAN, Fails(b), faults' = 0
    PROVE  ~b /\ faults = 0
BY DEF TypeOK, Fails

LEMMA OrderOf ==
    ASSUME TypeOK, Does(Starting \cup Stopping \cup Cleaning)
    PROVE  /\ pc \in [do : DOMAIN Orders, k : 1..7]
           /\ Does(Starting) => Orders[pc.do] = StartOrder
           /\ Does(Stopping) => Orders[pc.do] = StopOrder
           /\ Does(Cleaning) => Orders[pc.do] = NetOrder
           /\ pc # Rest /\ pc # Down
BY DEF TypeOK, Does, Starting, Stopping, Cleaning, Rest, Down, Orders

(* A phase is where it is; the record comes after all of them.             *)
LEMMA PhaseStep ==
    ASSUME TypeOK, NEW p \in Phases, NEW w, Step(w),
           Does(Starting \cup Stopping \cup Cleaning)
    PROVE  /\ Does(Starting) => (w = p <=> pc.k = StartAt[p])
           /\ Does(Stopping) => (w = p <=> pc.k = StopAt[p])
           /\ Does(Cleaning) => (w = p <=> pc.k = NetAt[p])
BY OrderOf, PhaseAt DEF Step

LEMMA RecordIsLast ==
    ASSUME TypeOK, Step("record"), Does(Stopping \cup Cleaning)
    PROVE  pc.k > 5
<1>1. /\ pc.k \in 1..7
      /\ Orders[pc.do] \in {StopOrder, NetOrder}
  BY OrderOf DEF Does, Starting, Stopping, Cleaning
<1>2. \A k \in 1..7 : StopOrder[k] = "record" \/ NetOrder[k] = "record" => k > 5
  BY DEF StopOrder, NetOrder
<1> QED
  BY <1>1, <1>2 DEF Step

(* A step about anything else leaves a change accounted for as it was.     *)
LEMMA Onward ==
    ASSUME TypeOK, NEW p \in Phases, NEW w, w # "record", w # p, Step(w), Then,
           Does(Starting \cup Stopping \cup Cleaning)
    PROVE  /\ Held(p) => Held(p)'
           /\ Does(Cleaning) /\ NetAt[p] >= pc.k =>
                 Does(Cleaning)' /\ NetAt[p] >= pc'.k
           /\ pc # Down
<1>1. /\ pc \in [do : DOMAIN Orders, k : 1..7]
      /\ pc # Rest /\ pc # Down
  BY OrderOf
<1>2. pc'.do = pc.do /\ pc'.k = pc.k + 1
  BY ThenType
<1>3. /\ StartAt[p] \in 1..5 /\ StopAt[p] \in 1..5 /\ NetAt[p] \in 1..5
  BY PhaseAt
<1>4. pc.k \in 1..7
  BY <1>1
<1> QED
  BY <1>1, <1>2, <1>3, <1>4, PhaseStep DEF Held, Does

LEMMA ApplyAccounted ==
    ASSUME TypeOK, NEW p \in Phases, NEW i \in ItemsOf[p], Accounted(p, i),
           NEW q \in Phases, ApplyPhase(q), faults' = 0
    PROVE  Accounted(p, i)'
<1>1. /\ q # "record" /\ Step(q) /\ Then
      /\ Does(Starting) /\ ~Does(Cleaning) /\ ~Does(Stopping)
      /\ Does(Starting \cup Stopping \cup Cleaning)
  BY DEF ApplyPhase, Phase, Phases, Does, Starting, Stopping, Cleaning
<1>2. PICK done \in SUBSET ItemsOf[q] :
         /\ Fails(done # ItemsOf[q])
         /\ changed' = changed \cup done
         /\ saved' = [j \in Items |-> IF j \notin ItemsOf[q] THEN saved[j]
                                      ELSE IF j \in done THEN Before(j)
                                      ELSE "none"]
         /\ \E ok \in Success(q, done) :
               applied' = IF ok THEN applied \cup {q} ELSE applied
  BY DEF ApplyPhase
<1>3. done = ItemsOf[q]
  BY <1>2, NoFault
<1>4. applied' = applied \cup {q}
  <2>1. \A ok \in Success(q, ItemsOf[q]) : ok
    <3>1. CASE q = "irq"
      BY <3>1 DEF Success, ItemsOf
    <3>2. CASE q = "throttle"
      BY <3>2 DEF Success, ItemsOf
    <3>3. CASE q = "tuning"
      BY <3>3 DEF Success
    <3>4. CASE q \in {"cpu", "firewall"}
      BY <3>4 DEF Success
    <3> QED
      BY <3>1, <3>2, <3>3, <3>4 DEF Phases
  <2> QED
    BY <1>2, <1>3, <2>1
<1>5. i \in Items /\ (p # q => i \notin ItemsOf[q])
  BY ItemsApart
<1>6. pc # Down /\ pc # Rest
  BY <1>1, OrderOf
<1>7. CASE p = q
  <2>1. pc.k = StartAt[p] /\ StartAt[p] \in 1..5 /\ pc'.do = pc.do /\ pc'.k = pc.k + 1
    BY <1>1, <1>7, PhaseStep, PhaseAt, ThenType
  <2>2. i \notin changed
    BY <1>1, <1>6, <2>1 DEF Accounted, Held
  <2>3. saved'[i] = "original"
    BY <1>2, <1>3, <1>5, <1>7, <2>2 DEF Before
  <2>4. Held(p)'
    BY <1>1, <2>1 DEF Held, Does
  <2> QED
    BY <1>4, <1>7, <2>3, <2>4 DEF Accounted
<1>8. CASE p # q
  <2>1. Held(p) => Held(p)'
    BY <1>1, <1>8, Onward
  <2>2. saved'[i] = saved[i] /\ (i \in changed' => i \in changed)
    BY <1>2, <1>5, <1>8
  <2> QED
    BY <1>1, <1>4, <1>6, <2>1, <2>2 DEF Accounted
<1> QED
  BY <1>7, <1>8

(* What a restore that does not fail does to an item of its phase, and to  *)
(* one of another.                                                         *)
LEMMA RestoreFrees ==
    ASSUME TypeOK, NEW p \in Phases, NEW i \in ItemsOf[p], faults' = 0,
           saved[i] = "original",
           \/ p = "cpu" /\ RestoreCPU
           \/ Restore(p)
    PROVE  i \notin changed'
<1>1. i \in Kept(p)
  BY DEF Kept
<1>2. CASE Restore(p)
  <2>1. PICK ok \in SUBSET Kept(p) : Fails(ok # Kept(p)) /\ WrittenBack(p, ok)
    BY <1>2 DEF Restore
  <2>2. ok = Kept(p)
    BY <2>1, NoFault
  <2> QED
    BY <1>1, <2>1, <2>2 DEF WrittenBack
<1>3. CASE p = "cpu" /\ RestoreCPU
  BY <1>1, <1>3 DEF RestoreCPU, BroadReset, WrittenBack
<1> QED
  BY <1>2, <1>3

LEMMA RestoreKeeps ==
    ASSUME TypeOK, NEW q \in Phases, NEW i \in Items, i \notin ItemsOf[q],
           \/ q = "cpu" /\ RestoreCPU
           \/ Restore(q)
    PROVE  saved'[i] = saved[i] /\ (i \in changed' => i \in changed)
<1>1. \A ok : WrittenBack(q, ok) =>
              saved'[i] = saved[i] /\ (i \in changed' => i \in changed)
  BY DEF WrittenBack, TypeOK
<1>2. CASE Restore(q)
  BY <1>1, <1>2 DEF Restore
<1>3. CASE q = "cpu" /\ RestoreCPU
  BY <1>1, <1>3 DEF RestoreCPU, BroadReset, TypeOK
<1> QED
  BY <1>2, <1>3

LEMMA StopAccounted ==
    ASSUME TypeOK, NEW p \in Phases, NEW i \in ItemsOf[p], Accounted(p, i),
           NEW q \in Phases, StopPhase(q), faults' = 0
    PROVE  Accounted(p, i)'
<1>1. /\ q # "record" /\ Step(q) /\ Then
      /\ ~Does(Cleaning)
      /\ Does(Starting \cup Stopping \cup Cleaning)
      /\ applied' = applied
  BY DEF StopPhase, Phase, Phases, Does, Starting, Stopping, Cleaning
<1>2. \/ q \notin applied /\ UNCHANGED <<changed, saved>>
      \/ q \in applied /\ ((q = "cpu" /\ RestoreCPU) \/ Restore(q))
  BY DEF StopPhase, machine
<1>3. i \in Items /\ (p # q => i \notin ItemsOf[q])
  BY ItemsApart
<1>4. pc # Down
  BY <1>1, OrderOf
<1>5. CASE p = q
  <2>1. i \in changed => p \in applied /\ saved[i] = "original"
    BY <1>1, <1>4 DEF Accounted
  <2>2. CASE i \in changed
    BY <1>2, <1>5, <2>1, <2>2, RestoreFrees DEF Accounted
  <2>3. CASE i \notin changed
    <3>1. i \notin changed'
      BY <1>2, <1>5, <2>3 DEF RestoreCPU, BroadReset, Restore, WrittenBack
    <3> QED
      BY <3>1 DEF Accounted
  <2> QED
    BY <2>2, <2>3
<1>6. CASE p # q
  <2>1. Held(p) => Held(p)'
    BY <1>1, <1>6, Onward
  <2>2. saved'[i] = saved[i] /\ (i \in changed' => i \in changed)
    BY <1>2, <1>3, <1>6, RestoreKeeps
  <2> QED
    BY <1>1, <1>4, <2>1, <2>2 DEF Accounted
<1> QED
  BY <1>5, <1>6

LEMMA NetAccounted ==
    ASSUME TypeOK, NEW p \in Phases, NEW i \in ItemsOf[p], Accounted(p, i),
           i \in Memoryless, NEW q \in Phases, NetPhase(q), faults' = 0
    PROVE  Accounted(p, i)'
<1>1. /\ q # "record" /\ Step(q) /\ Then
      /\ Does(Cleaning) /\ ~Does(Starting) /\ ~Does(Stopping)
      /\ Does(Starting \cup Stopping \cup Cleaning)
  BY DEF NetPhase, Phase, Phases, Does, Starting, Stopping, Cleaning
<1>2. i \in changed => Does(Cleaning) /\ NetAt[p] >= pc.k
  BY <1>1, OrderOf DEF Accounted, Held
<1>3. i \in changed' => i \in changed
  BY DEF NetPhase, BroadReset, FreeIRQs, RemoveTable, Restore, WrittenBack
<1>4. CASE p = q
  <2>1. CASE p = "cpu"
    BY <1>4, <2>1 DEF NetPhase, BroadReset, Accounted
  <2>2. CASE p = "firewall"
    <3>1. RemoveTable /\ i = "table"
      BY <1>4, <2>2 DEF NetPhase, ItemsOf
    <3>2. PICK ok \in BOOLEAN :
             /\ Fails(~ok /\ "table" \in changed)
             /\ changed' = IF ok THEN changed \ {"table"} ELSE changed
      BY <3>1 DEF RemoveTable
    <3>3. ~(~ok /\ "table" \in changed)
      BY <3>2, NoFault
    <3> QED
      BY <3>1, <3>2, <3>3 DEF Accounted
  <2> QED
    BY <2>1, <2>2 DEF Phases, ItemsOf, Memoryless
<1>5. CASE p # q
  <2>1. i \in changed => Does(Cleaning)' /\ NetAt[p] >= pc'.k
    BY <1>1, <1>2, <1>5, Onward
  <2> QED
    BY <1>3, <2>1 DEF Accounted
<1> QED
  BY <1>4, <1>5

(* The steps of the goroutine.                                             *)
LEMMA WorksAccounted ==
    ASSUME TypeOK, NEW p \in Phases, NEW i \in ItemsOf[p], Accounted(p, i),
           i \in Memoryless \/ ~Does(Cleaning), Works, faults' = 0
    PROVE  Accounted(p, i)'
<1> "mode" \notin Phases
  BY DEF Phases
<1>1. CASE \E q \in Phases : ApplyPhase(q) \/ StopPhase(q) \/ NetPhase(q)
  <2>1. \A q \in Phases : NetPhase(q) => Does(Cleaning)
    BY DEF NetPhase
  <2> QED
    BY <1>1, <2>1, ApplyAccounted, StopAccounted, NetAccounted
<1>2. CASE StartMode \/ BackMode
  <2>1. /\ Step("mode") /\ Then /\ Does(Starting \cup Stopping \cup Cleaning)
        /\ UNCHANGED <<changed, record, saved>> /\ applied \subseteq applied'
    BY <1>2 DEF StartMode, BackMode, Does, Starting, Stopping, Cleaning, machine
  <2> QED
    BY <2>1, Onward DEF Accounted
<1>3. CASE StartRecord
  <2>1. /\ Held(p)' /\ UNCHANGED <<changed, saved, applied>> /\ pc # Down
        /\ ~Does(Cleaning)
    BY <1>3, OrderOf
       DEF StartRecord, Held, Does, Starting, Stopping, Cleaning, machine
  <2> QED
    BY <2>1 DEF Accounted
<1>4. CASE BackRecord
  <2>1. /\ pc.k > 5 /\ pc.k \in 1..7 /\ pc # Rest /\ pc # Down /\ ~Does(Starting)
    BY <1>4, RecordIsLast, OrderOf
       DEF BackRecord, Does, Starting, Stopping, Cleaning
  <2>2. i \notin changed
    BY <2>1, PhaseAt DEF Accounted, Held
  <2> QED
    BY <1>4, <2>2 DEF BackRecord, Accounted, machine
<1>5. CASE Cycle
  <2>1. pc = Rest /\ ~Does(Starting \cup Stopping \cup Cleaning) /\ pc # Down
    BY <1>5 DEF Cycle, Rest, Down, Does, Starting, Stopping, Cleaning
  <2>2. UNCHANGED <<changed, saved>>
    BY <1>5 DEF Cycle, machine
  <2>3. CASE i \notin changed
    BY <2>2, <2>3 DEF Accounted
  <2>4. CASE i \in changed
    <3>1. gaming /\ p \in applied /\ saved[i] = "original"
      BY <2>1, <2>4 DEF Accounted, Held, Does, Starting, Stopping, Cleaning
    <3>2. pc' = Run("stop") /\ applied' = applied
      BY <1>5, <3>1 DEF Cycle
    <3>3. Held(p)'
      BY <3>2, PhaseAt DEF Held, Does, Stopping, Run
    <3> QED
      BY <2>2, <3>1, <3>2, <3>3 DEF Accounted
  <2> QED
    BY <2>3, <2>4
<1>6. CASE Leave
  <2>1. pc = Rest /\ ~Does(Starting \cup Stopping \cup Cleaning) /\ pc # Down
    BY <1>6 DEF Leave, Rest, Down, Does, Starting, Stopping, Cleaning
  <2>2. UNCHANGED <<changed, applied>>
    BY <1>6 DEF Leave, machine
  <2>3. CASE i \notin changed
    BY <2>2, <2>3 DEF Accounted
  <2>4. CASE i \in changed
    <3>1. gaming /\ p \in applied /\ saved[i] = "original"
      BY <2>1, <2>4 DEF Accounted, Held, Does, Starting, Stopping, Cleaning
    <3>2. pc' = Run("leave") /\ saved' = saved
      BY <1>6, <3>1 DEF Leave
    <3>3. Held(p)'
      BY <3>2, PhaseAt DEF Held, Does, Stopping, Run
    <3> QED
      BY <2>2, <3>1, <3>2, <3>3 DEF Accounted
  <2> QED
    BY <2>3, <2>4
<1> QED
  BY <1>1, <1>2, <1>3, <1>4, <1>5, <1>6 DEF Works

(* Every step; a kill must find the changes on record, or none.            *)
LEMMA NextAccounted ==
    ASSUME TypeOK, NEW p \in Phases, NEW i \in ItemsOf[p], Accounted(p, i),
           i \in Memoryless \/ ~Does(Cleaning), [Next]_vars, faults' = 0,
           Kill \/ PanicOutside => record \/ changed = {}
    PROVE  Accounted(p, i)'
<1>1. CASE Works
  BY <1>1, WorksAccounted
<1>2. CASE Kill \/ PanicOutside
  <2>1. pc' = Down /\ record' = record /\ changed' = changed
    BY <1>2 DEF Kill, PanicOutside, Crashes, Ends, machine
  <2> QED
    BY <1>2, <2>1 DEF Accounted
<1>3. CASE Start
  <2>1. UNCHANGED <<changed, record, gaming, applied, saved>> /\ pc = Down
    BY <1>3 DEF Start, machine
  <2>2. ~Held(p) /\ ~Does(Cleaning)
    BY <2>1 DEF Held, Rest, Down, Does, Starting, Stopping, Cleaning
  <2>3. CASE record
    <3>1. pc' = Run("clean")
      BY <1>3, <2>3 DEF Start
    <3>2. Does(Cleaning)' /\ NetAt[p] >= pc'.k
      BY <3>1, PhaseAt DEF Run, Does, Cleaning
    <3> QED
      BY <3>2 DEF Accounted
  <2>4. CASE ~record
    BY <2>1, <2>2, <2>4 DEF Accounted
  <2> QED
    BY <2>3, <2>4
<1>4. CASE Panic
  <2>1. pc' = Run("net")
    BY <1>4 DEF Panic
  <2>2. Does(Cleaning)' /\ NetAt[p] >= pc'.k
    BY <2>1, PhaseAt DEF Run, Does, Cleaning
  <2> QED
    BY <2>2 DEF Accounted
<1>5. CASE Quit \/ GameFlips \/ CorePersists \/ CoreStops \/ CoreStarts \/ UNCHANGED vars
  <2>1. /\ UNCHANGED <<record, saved, applied, gaming, pc>>
        /\ changed' \subseteq changed
    BY <1>5 DEF Quit, GameFlips, CorePersists, CoreStops, CoreStarts, vars, daemon,
                core, machine
  <2> QED
    BY <2>1 DEF Accounted, Held, Does
<1> QED
  BY <1>1, <1>2, <1>3, <1>4, <1>5 DEF Next

-----------------------------------------------------------------------------
(* The invariant.                                                          *)

LEMMA InitInv == Init => Inv
<1> SUFFICES ASSUME Init PROVE Inv
  OBVIOUS
<1>1. pc = Down /\ changed = {} /\ ~record
  BY DEF Init
<1>2. ~Does(Cleaning) /\ pc # Rest
  BY <1>1 DEF Does, Cleaning, Down, Rest
<1> QED
  BY <1>1, <1>2, InitType
     DEF Init, Inv, Settled, AllAccounted, MemorylessAccounted, Accounted, OnlyMasks

(* Each crash and each panic counts; a crash looks at the record.          *)
LEMMA CrashCounts ==
    ASSUME TypeOK
    PROVE  /\ Kill \/ PanicOutside \/ Panic => kills' # 0 /\ faults' = faults
           /\ ~unrecorded' =>
                 /\ Kill \/ PanicOutside => ~unrecorded /\ (record \/ changed = {})
                 /\ Panic => ~unrecorded
<1>1. kills \in Nat
  BY HispowerdAssumption DEF TypeOK
<1>2. kills + 1 # 0
  BY ONLY <1>1
<1>3. \A again : Crashes(again) =>
        /\ kills' = kills + 1 /\ faults' = faults
        /\ ~unrecorded' => ~unrecorded /\ (record \/ changed = {})
  BY DEF Crashes
<1>4. Panic => kills' = kills + 1 /\ faults' = faults /\ unrecorded' = unrecorded
  BY DEF Panic
<1>5. Kill \/ PanicOutside =>
        /\ kills' # 0 /\ faults' = faults
        /\ ~unrecorded' => ~unrecorded /\ (record \/ changed = {})
  BY <1>2, <1>3 DEF Kill, PanicOutside
<1> QED
  BY <1>2, <1>4, <1>5

(* Failures and kills are never taken back.                                *)
LEMMA Monotone ==
    ASSUME TypeOK, [Next]_vars
    PROVE  /\ faults' = 0 => faults = 0
           /\ kills' = 0 => kills = 0 /\ ~Kill /\ ~Panic /\ ~PanicOutside
           /\ ~unrecorded' =>
                 /\ ~unrecorded
                 /\ (Kill \/ PanicOutside => record \/ changed = {})
<1>1. \A b : Fails(b) => (faults' = 0 => faults = 0)
  BY DEF TypeOK, Fails
<1>2. CASE \E p \in Phases : ApplyPhase(p) \/ StopPhase(p) \/ NetPhase(p)
  <2>1. PICK p \in Phases : ApplyPhase(p) \/ StopPhase(p) \/ NetPhase(p)
    BY <1>2
  <2>2. faults' = 0 => faults = 0
    BY <1>1, <2>1 DEF ApplyPhase, StopPhase, NetPhase, BroadReset, FreeIRQs,
                      RemoveTable, Restore, RestoreCPU
  <2>3. UNCHANGED <<kills, unrecorded>>
    BY <2>1 DEF ApplyPhase, StopPhase, NetPhase, crashes
  <2> QED
    BY <2>2, <2>3, CrashCounts
<1>3. CASE StartMode \/ StartRecord \/ BackMode \/ BackRecord
  <2>1. faults' = 0 => faults = 0
    BY <1>1, <1>3 DEF StartMode, StartRecord, BackMode, BackRecord, Records,
                      SetControlPlaneMode
  <2>2. UNCHANGED <<kills, unrecorded>>
    BY <1>3 DEF StartMode, StartRecord, BackMode, BackRecord, crashes
  <2> QED
    BY <2>1, <2>2, CrashCounts
<1>4. CASE Kill \/ PanicOutside
  BY <1>4, CrashCounts
<1>5. CASE Panic
  BY <1>5, CrashCounts
<1>6. CASE \/ Cycle \/ Leave \/ Quit \/ Start \/ GameFlips
           \/ CorePersists \/ CoreStops \/ CoreStarts \/ UNCHANGED vars
  <2>1. UNCHANGED <<faults, kills, unrecorded>>
    BY <1>6 DEF Cycle, Leave, Quit, Start, GameFlips, CorePersists, CoreStops,
                CoreStarts, vars, bounds, crashes
  <2> QED
    BY <2>1, CrashCounts
<1> QED
  BY <1>2, <1>3, <1>4, <1>5, <1>6 DEF Next, Works

LEMMA SettledStep ==
    ASSUME TypeOK, Settled, [Next]_vars
    PROVE  Settled'
<1> SUFFICES ASSUME faults' = 0, kills' = 0
             PROVE  /\ ~Does(Cleaning)'
                    /\ (pc = Down)' => ~record' /\ ~gaming'
                    /\ (pc = Rest)' => record' = gaming'
  BY DEF Settled, Undisturbed
<1>1. /\ ~Does(Cleaning) /\ (pc = Down => ~record /\ ~gaming)
      /\ (pc = Rest => record = gaming) /\ ~Kill /\ ~Panic /\ ~PanicOutside
  BY Monotone DEF Settled, Undisturbed
<1>2. CASE \/ \E p \in Phases : ApplyPhase(p) \/ StopPhase(p)
           \/ StartMode \/ BackMode
  <2>1. PICK w : w # "record" /\ Step(w) /\ Then /\ Does(Starting \cup Stopping)
    BY <1>1, <1>2 DEF ApplyPhase, StopPhase, StartMode, BackMode, Phase, Phases,
                      Does, Starting, Stopping, Cleaning
  <2>2. /\ pc' \in [do : DOMAIN Orders, k : 1..7] /\ pc'.do = pc.do
    BY <2>1, ThenType DEF Does
  <2> QED
    BY <2>1, <2>2 DEF Does, Starting, Stopping, Cleaning, Rest, Down
<1>3. CASE \E p \in Phases : NetPhase(p)
  BY <1>1, <1>3 DEF NetPhase
<1>4. CASE StartRecord
  <2>1. record' = TRUE
    BY <1>4, NoFault DEF StartRecord, Records
  <2> QED
    BY <1>4, <2>1 DEF StartRecord, Rest, Down, Does, Cleaning
<1>5. CASE BackRecord
  <2>1. record' = FALSE /\ gaming' = FALSE
    BY <1>5, NoFault DEF BackRecord, Records
  <2>2. pc' = Rest \/ pc' = Down
    BY <1>5 DEF BackRecord, Ends
  <2>3. pc'.do \notin Cleaning
    BY <2>2 DEF Rest, Down, Cleaning
  <2> QED
    BY <2>1, <2>3 DEF Does
<1>6. CASE Cycle
  BY <1>6 DEF Cycle, Run, Rest, Down, Does, Cleaning
<1>7. CASE Leave
  <2>1. pc = Rest /\ record = gaming /\ record' = record
    BY <1>1, <1>7 DEF Leave
  <2>2. IF gaming THEN pc' = Run("leave") ELSE pc' = Down
    BY <1>7 DEF Leave, Ends
  <2>3. record \in BOOLEAN /\ gaming \in BOOLEAN
    BY DEF TypeOK
  <2>4. CASE gaming
    BY <2>2, <2>4 DEF Run, Rest, Down, Does, Cleaning
  <2>5. CASE ~gaming
    <3>1. pc' = Down /\ ~record' /\ ~gaming'
      BY <1>7, <2>1, <2>2, <2>3, <2>5 DEF Leave
    <3> QED
      BY <3>1 DEF Rest, Down, Does, Cleaning
  <2> QED
    BY <2>4, <2>5
<1>8. CASE Start
  <2>1. pc' = Rest /\ ~record /\ record' = record /\ gaming' = gaming
    BY <1>1, <1>8 DEF Start
  <2>2. ~gaming
    BY <1>1, <1>8 DEF Start
  <2> QED
    BY <2>1, <2>2 DEF Rest, Down, Does, Cleaning, TypeOK
<1>9. CASE Quit \/ GameFlips \/ CorePersists \/ CoreStops \/ CoreStarts \/ UNCHANGED vars
  <2>1. UNCHANGED <<record, gaming, pc>>
    BY <1>9 DEF Quit, GameFlips, CorePersists, CoreStops, CoreStarts, vars, daemon
  <2> QED
    BY <1>1, <2>1 DEF Does
<1> QED
  BY <1>1, <1>2, <1>3, <1>4, <1>5, <1>6, <1>7, <1>8, <1>9 DEF Next, Works

(* What is given every CPU without a clean-up is processes.                *)
LEMMA OnlyMasksStep ==
    ASSUME TypeOK, Settled, OnlyMasks, [Next]_vars
    PROVE  OnlyMasks'
<1> SUFFICES ASSUME faults' = 0, kills' = 0 PROVE freed' \subseteq Processes
  BY DEF OnlyMasks, Undisturbed
<1>1. /\ freed \subseteq Processes /\ ~Does(Cleaning)
      /\ ~Kill /\ ~Panic /\ ~PanicOutside
  BY Monotone DEF OnlyMasks, Settled, Undisturbed
<1>2. CASE \E p \in Phases : StopPhase(p)
  <2>1. freed' \subseteq freed \cup Processes
    BY <1>2, RestoreCPUType DEF StopPhase, machine
  <2> QED
    BY <1>1, <2>1
<1>3. CASE \E p \in Phases : NetPhase(p)
  BY <1>1, <1>3 DEF NetPhase
<1>4. CASE GameFlips
  BY <1>1, <1>4 DEF GameFlips, Processes, ItemsOf
<1>5. CASE \/ \E p \in Phases : ApplyPhase(p)
           \/ StartMode \/ StartRecord \/ BackMode \/ BackRecord
           \/ Cycle \/ Leave \/ Quit \/ Start
           \/ CorePersists \/ CoreStops \/ CoreStarts \/ UNCHANGED vars
  <2>1. freed' = freed
    BY <1>5 DEF ApplyPhase, StartMode, StartRecord, BackMode, BackRecord, Cycle,
                Leave, Quit, Start, CorePersists, CoreStops, CoreStarts, vars, machine
  <2> QED
    BY <1>1, <2>1
<1> QED
  BY <1>1, <1>2, <1>3, <1>4, <1>5 DEF Next, Works

LEMMA InvStep == Inv /\ [Next]_vars => Inv'
<1> SUFFICES ASSUME Inv, [Next]_vars PROVE Inv'
  OBVIOUS
<1>1. TypeOK /\ TypeOK'
  BY NextType DEF Inv
<1>2. Settled'
  BY SettledStep DEF Inv
<1>3. AllAccounted'
  <2> SUFFICES ASSUME faults' = 0, kills' = 0, NEW p \in Phases, NEW i \in ItemsOf[p]
               PROVE  Accounted(p, i)'
    BY DEF AllAccounted, Undisturbed
  <2>1. Undisturbed /\ ~Kill /\ ~PanicOutside
    BY <1>1, Monotone DEF Undisturbed
  <2>2. Accounted(p, i) /\ ~Does(Cleaning)
    BY <2>1 DEF Inv, AllAccounted, Settled
  <2> QED
    BY <1>1, <2>1, <2>2, NextAccounted
<1>4. MemorylessAccounted'
  <2> SUFFICES ASSUME faults' = 0, ~unrecorded',
                      NEW p \in Phases, NEW i \in ItemsOf[p] \cap Memoryless
               PROVE  Accounted(p, i)'
    BY DEF MemorylessAccounted
  <2>1. /\ faults = 0 /\ ~unrecorded
        /\ Kill \/ PanicOutside => record \/ changed = {}
    BY <1>1, Monotone
  <2>2. Accounted(p, i)
    BY <2>1 DEF Inv, MemorylessAccounted
  <2> QED
    BY <1>1, <2>1, <2>2, NextAccounted
<1>5. OnlyMasks'
  BY OnlyMasksStep DEF Inv
<1> QED
  BY <1>1, <1>2, <1>3, <1>4, <1>5 DEF Inv

(* At rest or down nothing is accounted for but by a record.               *)
LEMMA NobodyElse ==
    ASSUME NEW p \in Phases, NEW i \in ItemsOf[p], Accounted(p, i),
           AtRest \/ (pc = Down /\ ~record)
    PROVE  i \notin changed
BY DEF Accounted, Held, AtRest, Rest, Down, Does, Starting, Stopping, Cleaning

LEMMA InvIsEnough == Inv => SessionsLeaveNothing /\ CrashesAreCleanedUp
<1> SUFFICES ASSUME Inv PROVE SessionsLeaveNothing /\ CrashesAreCleanedUp
  OBVIOUS
<1>1. \A i \in changed : \E p \in Phases : i \in ItemsOf[p]
  BY DEF Inv, TypeOK, Items
<1>2. SessionsLeaveNothing
  <2> SUFFICES ASSUME faults = 0, kills = 0, AtRest \/ pc = Down, NEW i \in changed
               PROVE  FALSE
    BY DEF SessionsLeaveNothing, Inv, OnlyMasks, Undisturbed
  <2>1. PICK p \in Phases : i \in ItemsOf[p]
    BY <1>1
  <2>2. Accounted(p, i) /\ (pc = Down => ~record)
    BY <2>1 DEF Inv, AllAccounted, Settled, Undisturbed
  <2> QED
    BY <2>1, <2>2, NobodyElse
<1>3. CrashesAreCleanedUp
  <2> SUFFICES ASSUME faults = 0, ~unrecorded, AtRest,
                      NEW i \in changed \cap Memoryless
               PROVE  FALSE
    BY DEF CrashesAreCleanedUp, Memoryless
  <2>1. PICK p \in Phases : i \in ItemsOf[p]
    BY <1>1
  <2>2. Accounted(p, i)
    BY <2>1 DEF Inv, MemorylessAccounted
  <2> QED
    BY <2>1, <2>2, NobodyElse
<1> QED
  BY <1>2, <1>3

(* Sessions that end, for whatever reason and in any number, leave no      *)
(* setting of theirs: all but the CPU masks of processes, which may be     *)
(* every CPU, is what it was, as long as no write fails and nothing is     *)
(* killed.                                                                 *)
THEOREM NothingIsLeft == Spec => []SessionsLeaveNothing
BY InitInv, InvStep, InvIsEnough, PTL DEF Spec

(* Any number of crashes of recorded sessions, in the clean-up too, leaves *)
(* no process pinned and no fast path once the service is at rest.         *)
THEOREM CleanedUpAfterCrashes == Spec => []CrashesAreCleanedUp
BY InitInv, InvStep, InvIsEnough, PTL DEF Spec

-----------------------------------------------------------------------------
(* What TLC runs, with kills or with failed writes, takes the steps of     *)
(* hispowerd.                                                              *)
LEMMA MCStepsAreSteps == ASSUME [MCNext]_<<vars, part>> PROVE [Next]_vars
<1>1. ASSUME NEW p \in Phases, ApplyPhase(p) \/ StopPhase(p) \/ NetPhase(p)
      PROVE  Next
  BY <1>1 DEF Next, Works
<1>2. ASSUME StartMode \/ StartRecord \/ BackMode \/ BackRecord
                \/ Cycle \/ Leave
      PROVE  Next
  BY <1>2 DEF Next, Works
<1>3. ASSUME Quit \/ Start \/ Kill \/ Panic \/ PanicOutside \/ GameFlips
                \/ CorePersists \/ CoreStops \/ CoreStarts
      PROVE  Next
  BY <1>3 DEF Next
<1> QED
  BY <1>1, <1>2, <1>3 DEF MCNext

(* So every safety property of the run holds of every instance of it.      *)
THEOREM MachineRunIsSafe ==
    MCSpec => []TypeOK /\ []SessionsLeaveNothing /\ []CrashesAreCleanedUp
<1>1. MCInit => Init
  BY DEF MCInit
<1>2. Inv => TypeOK
  BY DEF Inv
<1> QED
  BY <1>1, <1>2, MCStepsAreSteps, InitInv, InvStep, InvIsEnough, PTL DEF MCSpec

=============================================================================
