---------------------------- MODULE TuningProofs ----------------------------
(***************************************************************************)
(* Proofs about Performance and Tuning: that a change of profile is whole  *)
(* or undone, for any callers and any number of faults and crashes, and    *)
(* that the loops, commands and rollbacks of Tuning are such callers.      *)
(***************************************************************************)
EXTENDS Tuning, SequenceTheorems, TLAPS

(* The knobs that the holder of the mutex has been through.                *)
Behind ==
    CASE at = "cpu"            -> {}
      [] at \in {"irq", "io"}  -> {"cpu"}
      [] at = "mem"            -> {"cpu", "io"}
      [] at = "sched"          -> {"cpu", "io", "mem"}
      [] at = "commit"         -> {"cpu", "io", "mem", "sched"}

Knobs == {"cpu", "io", "mem", "sched"}

(* While an Apply runs, the knobs it has been through are the profile's,   *)
(* unless a write was refused, and the others are as it found them.        *)
Halfway ==
    lock # NoCaller =>
        /\ waits[lock] \in Profiles
        /\ \A k \in Behind : missed \/ machine[k] = DefOf[waits[lock]][k]
        /\ \A k \in Knobs \ Behind : machine[k] = snap[k]

IInv == PerfTypeOK /\ Halfway

LEMMA KnobsOfTunings ==
    /\ \A t \in Tunings : DOMAIN t = Knobs
    /\ DefOf \in [Profiles -> Tunings]
    /\ NoProfile \notin Profiles
    /\ Boot \in Tunings
BY DEF Tunings, Knobs, DefOf, Profiles, NoProfile, Boot

(* Two tunings are the same when they agree on every knob.                 *)
LEMMA SameTuning ==
    ASSUME NEW t \in Tunings, NEW u \in Tunings, \A k \in Knobs : t[k] = u[k]
    PROVE  t = u
BY DEF Tunings, Knobs

LEMMA TuningOfKnob ==
    ASSUME NEW t \in Tunings, NEW u \in Tunings, NEW k \in Knobs
    PROVE  [t EXCEPT ![k] = u[k]] \in Tunings
BY DEF Tunings, Knobs

-----------------------------------------------------------------------------
(* The inductive invariant.                                                *)

LEMMA Initially == PerfInit => IInv
<1> SUFFICES ASSUME PerfInit PROVE IInv
  OBVIOUS
<1>1. active \in Profiles
  BY DEF PerfInit, Loaded, Profiles, NoProfile
<1>2. PerfTypeOK
  <2>1. 0 \in 0..MaxFaults /\ 0 \in 0..MaxCrashes
    BY PerfAssumption
  <2>2. machine \in Tunings /\ snap \in Tunings
    BY KnobsOfTunings DEF PerfInit
  <2>3. waits \in [Callers -> {NoProfile} \cup Profiles]
    BY DEF PerfInit
  <2> QED
    BY <1>1, <2>1, <2>2, <2>3 DEF PerfInit, PerfTypeOK, Affinities
<1> QED
  BY <1>2 DEF PerfInit, IInv, Halfway

(* A write of the holder sets its knob to the profile's value or is missed,*)
(* and touches no other.                                                   *)
LEMMA WriteOfKnob ==
    ASSUME IInv, NEW c \in Callers, lock = c, NEW knob \in Knobs, Writes(c, knob)
    PROVE  /\ machine' \in Tunings
           /\ missed' \in BOOLEAN /\ faults' \in 0..MaxFaults
           /\ missed => missed'
           /\ missed' \/ machine'[knob] = DefOf[waits[c]][knob]
           /\ \A k \in Knobs \ {knob} : machine'[k] = machine[k]
<1>1. waits[c] \in Profiles
  BY PerfAssumption DEF IInv, Halfway
<1>2. DefOf[waits[c]] \in Tunings /\ machine \in Tunings
  BY <1>1, KnobsOfTunings DEF IInv, PerfTypeOK
<1>3. DOMAIN machine = Knobs
  BY <1>2, KnobsOfTunings
<1>4. missed \in BOOLEAN /\ faults \in 0..MaxFaults
  BY DEF IInv, PerfTypeOK
<1>5. CASE /\ machine' = [machine EXCEPT ![knob] = DefOf[waits[c]][knob]]
           /\ UNCHANGED <<missed, faults>>
  BY <1>2, <1>3, <1>4, <1>5, TuningOfKnob
<1>6. CASE /\ faults < MaxFaults /\ faults' = faults + 1
           /\ missed' = TRUE /\ UNCHANGED machine
  BY <1>2, <1>4, <1>6, PerfAssumption
<1> QED
  BY <1>5, <1>6 DEF Writes

(* A step that writes a knob and goes on to the next keeps the invariant.  *)
LEMMA KnobStep ==
    ASSUME IInv, NEW c \in Callers, NEW knob \in Knobs,
           lock = c, lock' = lock, waits' = waits, snap' = snap,
           Writes(c, knob),
           UNCHANGED <<irqs, active, stored, known, crashes>>,
           at' \in {"irq", "io", "mem", "sched", "commit"},
           Behind' = Behind \cup {knob}
    PROVE  IInv'
<1>1. /\ machine' \in Tunings
      /\ missed' \in BOOLEAN /\ faults' \in 0..MaxFaults
      /\ missed => missed'
      /\ missed' \/ machine'[knob] = DefOf[waits[c]][knob]
      /\ \A k \in Knobs \ {knob} : machine'[k] = machine[k]
  BY WriteOfKnob
<1>2. PerfTypeOK'
  BY <1>1 DEF IInv, PerfTypeOK
<1>3. /\ waits[c] \in Profiles
      /\ \A k \in Behind : missed \/ machine[k] = DefOf[waits[c]][k]
      /\ \A k \in Knobs \ Behind : machine[k] = snap[k]
  BY PerfAssumption DEF IInv, Halfway
<1>4. Behind \subseteq Knobs
  BY DEF IInv, PerfTypeOK, Behind, Knobs
<1>5. Halfway'
  <2>1. \A k \in Behind' : missed' \/ machine'[k] = DefOf[waits'[lock']][k]
    BY <1>1, <1>3, <1>4
  <2>2. \A k \in Knobs \ Behind' : machine'[k] = snap'[k]
    BY <1>1, <1>3
  <2> QED
    BY <1>3, <2>1, <2>2 DEF Halfway
<1> QED
  BY <1>2, <1>5 DEF IInv

(* With the mutex free only the types are at stake.                        *)
LEMMA FreeStep ==
    ASSUME PerfTypeOK', lock' = NoCaller
    PROVE  IInv'
BY DEF IInv, Halfway

LEMMA ApplyKeeps ==
    ASSUME IInv, NEW c \in Callers, ApplyStep(c)
    PROVE  IInv'
<1>1. CASE Capture(c)
  <2>1. CASE lock' = c
    <3>1. /\ waits[c] \in Profiles /\ lock = NoCaller /\ at' = "cpu"
          /\ snap' = machine /\ missed' = FALSE /\ UNCHANGED <<waits, faults>>
          /\ UNCHANGED <<machine, irqs, active, stored, known, crashes>>
      BY <1>1, <2>1, PerfAssumption DEF Capture, IInv, PerfTypeOK, NoProfile, Profiles
    <3>2. PerfTypeOK'
      BY <2>1, <3>1 DEF IInv, PerfTypeOK
    <3>3. Behind' = {}
      BY <3>1 DEF Behind
    <3> QED
      BY <2>1, <3>1, <3>2, <3>3 DEF IInv, Halfway
  <2>2. CASE lock' # c
    <3>1. PerfTypeOK' /\ lock' = NoCaller
      BY <1>1, <2>2, PerfAssumption DEF Capture, IInv, PerfTypeOK
    <3> QED
      BY <3>1, FreeStep
  <2> QED
    BY <2>1, <2>2
<1>2. CASE ApplyCPU(c)
  <2>1. CASE lock' = c
    <3>1. /\ lock = c /\ Writes(c, "cpu") /\ UNCHANGED <<waits, lock>>
          /\ at = "cpu" /\ at' \in {"irq", "io"}
          /\ UNCHANGED <<irqs, active, stored, snap, known, crashes>>
      BY <1>2, <2>1, PerfAssumption DEF ApplyCPU, Holds
    <3>2. Behind = {} /\ Behind' = {"cpu"}
      BY <3>1 DEF Behind
    <3> QED
      BY <3>1, <3>2, KnobStep DEF Knobs
  <2>2. CASE lock' # c
    <3>1. PerfTypeOK' /\ lock' = NoCaller
      BY <1>2, <2>2, PerfAssumption DEF ApplyCPU, Holds, IInv, PerfTypeOK
    <3> QED
      BY <3>1, FreeStep
  <2> QED
    BY <2>1, <2>2
<1>3. CASE ApplyIRQ(c)
  <2>1. CASE at' = "io"
    <3>1. /\ lock = c /\ at = "irq" /\ irqs' = "0-1"
          /\ UNCHANGED <<machine, waits, lock, known, faults>>
          /\ UNCHANGED <<active, stored, snap, missed, crashes>>
      BY <1>3, <2>1 DEF ApplyIRQ, Holds
    <3>2. PerfTypeOK'
      BY <2>1, <3>1 DEF IInv, PerfTypeOK, Affinities
    <3>3. Behind' = Behind
      BY <2>1, <3>1 DEF Behind
    <3> QED
      BY <3>1, <3>2, <3>3 DEF IInv, Halfway
  <2>2. CASE at' # "io"
    <3>1. /\ machine' \in {Undone, machine} /\ lock' = NoCaller /\ at' = "cpu"
          /\ known' = (known /\ machine' = Undone)
          /\ faults < MaxFaults /\ faults' = faults + 1
          /\ waits' = [waits EXCEPT ![c] = NoProfile]
          /\ UNCHANGED irqs
          /\ UNCHANGED <<active, stored, snap, missed, crashes>>
      BY <1>3, <2>2 DEF ApplyIRQ, Holds
    <3>2. machine \in Tunings /\ snap \in Tunings
      BY DEF IInv, PerfTypeOK
    <3>3. Undone \in Tunings
      BY <3>2, TuningOfKnob DEF Undone, Knobs
    <3>4. machine' \in Tunings
      BY <3>1, <3>2, <3>3
    <3>5. known' \in BOOLEAN
      BY <3>1
    <3>6. PerfTypeOK'
      BY <3>1, <3>2, <3>4, <3>5, PerfAssumption DEF IInv, PerfTypeOK
    <3> QED
      BY <3>1, <3>6, FreeStep
  <2> QED
    BY <2>1, <2>2
<1>4. CASE ApplyIO(c)
  <2>1. Behind = {"cpu"} /\ Behind' = {"cpu", "io"}
    BY <1>4 DEF ApplyIO, Holds, Behind
  <2> QED
    BY <1>4, <2>1, KnobStep DEF ApplyIO, Holds, Knobs
<1>5. CASE ApplyMem(c)
  <2>1. Behind = {"cpu", "io"} /\ Behind' = {"cpu", "io", "mem"}
    BY <1>5 DEF ApplyMem, Holds, Behind
  <2> QED
    BY <1>5, <2>1, KnobStep DEF ApplyMem, Holds, Knobs
<1>6. CASE ApplySched(c)
  <2>1. Behind = {"cpu", "io", "mem"} /\ Behind' = {"cpu", "io", "mem", "sched"}
    BY <1>6 DEF ApplySched, Holds, Behind
  <2> QED
    BY <1>6, <2>1, KnobStep DEF ApplySched, Holds, Knobs
<1>7. CASE Commit(c)
  <2>1. waits[c] \in Profiles
    BY <1>7, PerfAssumption DEF Commit, Holds, IInv, Halfway
  <2>2. PerfTypeOK' /\ lock' = NoCaller
    BY <1>7, <2>1, PerfAssumption DEF Commit, IInv, PerfTypeOK
  <2> QED
    BY <2>2, FreeStep
<1> QED
  BY <1>1, <1>2, <1>3, <1>4, <1>5, <1>6, <1>7 DEF ApplyStep

LEMMA LoadedType ==
    ASSUME PerfTypeOK
    PROVE  Loaded \in Profiles
BY DEF PerfTypeOK, Loaded, Profiles, NoProfile

LEMMA NewProcessType ==
    ASSUME IInv, NewProcess, machine' \in Tunings, irqs' \in Affinities, known' \in BOOLEAN
    PROVE  IInv'
<1>1. active' \in Profiles
  BY LoadedType DEF NewProcess, IInv
<1>2. waits' \in [Callers -> {NoProfile} \cup Profiles]
  BY DEF NewProcess
<1>3. crashes' \in 0..MaxCrashes
  BY PerfAssumption DEF NewProcess, IInv, PerfTypeOK
<1>4. PerfTypeOK' /\ lock' = NoCaller
  BY <1>1, <1>2, <1>3 DEF NewProcess, IInv, PerfTypeOK
<1> QED
  BY <1>4, FreeStep

LEMMA NextKeeps ==
    ASSUME IInv, [PerfNext]_perfvars
    PROVE  IInv'
<1>1. ASSUME NEW c \in Callers, Request(c) PROVE IInv'
  <2>1. PICK p \in Profiles : Calls(c, p)
    BY <1>1 DEF Request
  <2>2. /\ waits[c] = NoProfile /\ waits' = [waits EXCEPT ![c] = p]
        /\ UNCHANGED <<machine, irqs, active, stored, lock, at, snap, missed, known,
                       faults, crashes>>
    BY <1>1, <2>1 DEF Request, Calls
  <2>3. PerfTypeOK'
    BY <2>2 DEF IInv, PerfTypeOK
  <2>4. lock # NoCaller => lock # c /\ waits'[lock] = waits[lock]
    BY <2>2, KnobsOfTunings DEF IInv, PerfTypeOK, Halfway
  <2>5. Behind' = Behind
    BY <2>2 DEF Behind
  <2> QED
    BY <2>2, <2>3, <2>4, <2>5 DEF IInv, Halfway
<1>2. ASSUME NEW c \in Callers, ApplyStep(c) PROVE IInv'
  BY <1>2, ApplyKeeps
<1>3. CASE Reroute
  BY <1>3 DEF Reroute, IInv, PerfTypeOK, Halfway, Behind
<1>4. CASE Kill
  <2>1. machine' \in Tunings /\ irqs' \in Affinities /\ known' \in BOOLEAN
    BY <1>4 DEF Kill, KnownAfterKill, IInv, PerfTypeOK
  <2> QED
    BY <1>4, <2>1, NewProcessType DEF Kill
<1>5. CASE Reboot
  <2>1. machine' \in Tunings /\ irqs' \in Affinities /\ known' \in BOOLEAN
    BY <1>5, KnobsOfTunings DEF Reboot, Affinities
  <2> QED
    BY <1>5, <2>1, NewProcessType DEF Reboot
<1>6. CASE UNCHANGED perfvars
  BY <1>6 DEF perfvars, IInv, PerfTypeOK, Halfway, Behind
<1> QED
  BY <1>1, <1>2, <1>3, <1>4, <1>5, <1>6 DEF PerfNext

(* The manager of profiles keeps its types and its halfway states, for any *)
(* callers: Apply's mutex, snapshot and order of writes.                   *)
THEOREM ApplyInvariant == PerfSpec => []IInv
<1>1. PerfInit => IInv
  BY Initially
<1>2. IInv /\ [PerfNext]_perfvars => IInv'
  BY NextKeeps
<1> QED
  BY <1>1, <1>2, PTL DEF PerfSpec

-----------------------------------------------------------------------------
(* The refinement.                                                         *)

(* What the abstract profile is true of.                                   *)
Vouched == IF lock = NoCaller THEN machine ELSE snap

LEMMA VouchedType ==
    ASSUME IInv
    PROVE  Vouched \in Tunings
BY DEF Vouched, IInv, PerfTypeOK

LEMMA StaysVouched ==
    ASSUME UNCHANGED <<active, known>>, Vouched' = Vouched
    PROVE  UNCHANGED Switched!vars
BY DEF Switched!vars, Vouched

LEMMA LosesVouched ==
    ASSUME IInv', known' = FALSE
    PROVE  Switched!Lose
BY VouchedType DEF Switched!Lose, Vouched, IInv, PerfTypeOK

LEMMA KnobStays ==
    ASSUME NEW c \in Callers, lock = c,
           UNCHANGED <<active, known, lock, snap>>
    PROVE  UNCHANGED Switched!vars
BY PerfAssumption, StaysVouched DEF Vouched

LEMMA CommitSwitches ==
    ASSUME IInv, IInv', NEW c \in Callers, Commit(c)
    PROVE  Switched!Switch \/ Switched!Lose
<1>1. /\ lock = c /\ at = "commit" /\ active' = waits[c] /\ known' = ~missed
      /\ lock' = NoCaller /\ machine' = machine
  BY DEF Commit, Holds
<1>2. waits[c] \in Profiles
  BY <1>1, PerfAssumption DEF IInv, Halfway
<1>3. CASE missed
  BY <1>1, <1>3, LosesVouched
<1>4. CASE ~missed
  <2>1. Behind = Knobs
    BY <1>1 DEF Behind, Knobs
  <2>2. \A k \in Knobs : machine[k] = DefOf[waits[c]][k]
    BY <1>1, <1>4, <2>1, PerfAssumption DEF IInv, Halfway
  <2>3. machine = DefOf[waits[c]]
    BY <1>2, <2>2, SameTuning, KnobsOfTunings DEF IInv, PerfTypeOK
  <2>4. known' = TRUE
    BY <1>1, <1>4
  <2>5. Vouched' = machine
    BY <1>1 DEF Vouched
  <2> QED
    BY <1>1, <1>2, <2>3, <2>4, <2>5 DEF Switched!Switch, Vouched
<1> QED
  BY <1>3, <1>4 DEF IInv, PerfTypeOK

LEMMA ApplyRefines ==
    ASSUME IInv, IInv', NEW c \in Callers, ApplyStep(c)
    PROVE  [Switched!Next]_Switched!vars
<1>1. CASE Capture(c)
  <2>1. UNCHANGED <<active, known, machine>> /\ lock = NoCaller
    BY <1>1 DEF Capture
  <2>2. Vouched' = machine
    BY <1>1, PerfAssumption DEF Capture, Vouched
  <2> QED
    BY <2>1, <2>2, StaysVouched DEF Vouched
<1>2. CASE ApplyCPU(c)
  <2>1. CASE lock' = c
    BY <1>2, <2>1, KnobStays DEF ApplyCPU, Holds
  <2>2. CASE lock' # c
    <3>1. /\ lock = c /\ at = "cpu" /\ lock' = NoCaller
          /\ UNCHANGED <<machine, active, known, snap>>
      BY <1>2, <2>2 DEF ApplyCPU, Holds
    <3>2. \A k \in Knobs : machine[k] = snap[k]
      BY <3>1, PerfAssumption DEF IInv, Halfway, Behind
    <3>3. machine = snap
      BY <3>2, SameTuning DEF IInv, PerfTypeOK
    <3> QED
      BY <3>1, <3>3, PerfAssumption, StaysVouched DEF Vouched
  <2> QED
    BY <2>1, <2>2
<1>3. CASE ApplyIRQ(c)
  <2>1. CASE at' = "io"
    BY <1>3, <2>1, KnobStays DEF ApplyIRQ, Holds
  <2>2. CASE at' # "io"
    <3>1. /\ lock = c /\ at = "irq" /\ lock' = NoCaller
          /\ machine' \in {Undone, machine}
          /\ known' = (known /\ machine' = Undone)
          /\ UNCHANGED <<active, snap>>
      BY <1>3, <2>2 DEF ApplyIRQ, Holds
    <3>2. CASE known'
      <4>1. known /\ machine' = Undone
        BY <3>1, <3>2
      <4>2. \A k \in Knobs \ {"cpu"} : machine[k] = snap[k]
        BY <3>1, PerfAssumption DEF IInv, Halfway, Behind
      <4>3. machine \in Tunings /\ snap \in Tunings
        BY DEF IInv, PerfTypeOK
      <4>4. \A k \in Knobs : Undone[k] = snap[k]
        BY <4>2, <4>3, KnobsOfTunings DEF Undone, Knobs
      <4>5. Undone \in Tunings
        BY <4>3, TuningOfKnob DEF Undone, Knobs
      <4>6. machine' = snap
        BY <4>1, <4>3, <4>4, <4>5, SameTuning
      <4>7. Vouched' = Vouched
        BY <3>1, <4>6, PerfAssumption DEF Vouched
      <4>8. known' = known
        BY <3>2, <4>1 DEF IInv, PerfTypeOK
      <4> QED
        BY <3>1, <4>7, <4>8, StaysVouched
    <3>3. CASE ~known'
      BY <3>3, LosesVouched DEF IInv, PerfTypeOK, Switched!Next
    <3> QED
      BY <3>2, <3>3
  <2> QED
    BY <2>1, <2>2
<1>4. CASE ApplyIO(c)
  BY <1>4, KnobStays DEF ApplyIO, Holds
<1>5. CASE ApplyMem(c)
  BY <1>5, KnobStays DEF ApplyMem, Holds
<1>6. CASE ApplySched(c)
  BY <1>6, KnobStays DEF ApplySched, Holds
<1>7. CASE Commit(c)
  BY <1>7, CommitSwitches DEF Switched!Next
<1> QED
  BY <1>1, <1>2, <1>3, <1>4, <1>5, <1>6, <1>7 DEF ApplyStep

LEMMA StepRefines ==
    ASSUME IInv, IInv', [PerfNext]_perfvars
    PROVE  [Switched!Next]_Switched!vars
<1>1. ASSUME NEW c \in Callers, Request(c) PROVE UNCHANGED Switched!vars
  BY <1>1, StaysVouched DEF Request, Vouched
<1>2. ASSUME NEW c \in Callers, ApplyStep(c) PROVE [Switched!Next]_Switched!vars
  BY <1>2, ApplyRefines
<1>3. CASE Reroute
  BY <1>3, StaysVouched DEF Reroute, Vouched
<1>4. CASE Kill
  <2>1. CASE KnownAfterKill
    <3>1. /\ active' = active /\ known' = known /\ lock = NoCaller
          /\ lock' = NoCaller /\ machine' = machine
      BY <1>4, <2>1 DEF Kill, NewProcess, KnownAfterKill, IInv, PerfTypeOK
    <3> QED
      BY <3>1, StaysVouched DEF Vouched
  <2>2. CASE ~KnownAfterKill
    <3>1. known' = FALSE
      BY <1>4, <2>2 DEF Kill, KnownAfterKill, IInv, PerfTypeOK
    <3> QED
      BY <3>1, LosesVouched DEF Switched!Next
  <2> QED
    BY <2>1, <2>2
<1>5. CASE Reboot
  BY <1>5, LosesVouched DEF Reboot, Switched!Next
<1>6. CASE UNCHANGED perfvars
  BY <1>6, StaysVouched DEF perfvars, Vouched
<1> QED
  BY <1>1, <1>2, <1>3, <1>4, <1>5, <1>6 DEF PerfNext

(* Apply implements the whole-or-nothing switch of ProfileSwitch.          *)
THEOREM ApplySwitchesAtomically == PerfSpec => SwitchesAtomically
<1>1. PerfInit => Switched!Init
  <2>1. PerfInit => IInv
    BY Initially
  <2> QED
    BY <2>1 DEF PerfInit, IInv, PerfTypeOK, Switched!Init
<1>2. IInv /\ IInv' /\ [PerfNext]_perfvars => [Switched!Next]_Switched!vars
  BY StepRefines
<1> QED
  BY <1>1, <1>2, ApplyInvariant, PTL DEF PerfSpec, SwitchesAtomically, Switched!Spec

(* A name the manager vouches for, with no Apply under way, is true of     *)
(* the machine.                                                            *)
THEOREM NameDescribesMachine ==
    PerfSpec => [](lock = NoCaller /\ known => machine = DefOf[active])
<1>1. Switched!Init => Switched!NameIsTrue
  BY DEF Switched!Init, Switched!NameIsTrue
<1>2. Switched!NameIsTrue /\ [Switched!Next]_Switched!vars => Switched!NameIsTrue'
  <2> SUFFICES ASSUME Switched!NameIsTrue, [Switched!Next]_Switched!vars
               PROVE  Switched!NameIsTrue'
    OBVIOUS
  <2>1. CASE Switched!Switch
    BY <2>1 DEF Switched!Switch, Switched!NameIsTrue
  <2>2. CASE Switched!Lose
    BY <2>2 DEF Switched!Lose, Switched!NameIsTrue
  <2>3. CASE UNCHANGED Switched!vars
    BY <2>3 DEF Switched!vars, Switched!NameIsTrue
  <2> QED
    BY <2>1, <2>2, <2>3 DEF Switched!Next
<1>3. Switched!NameIsTrue => (lock = NoCaller /\ known => machine = DefOf[active])
  BY DEF Switched!NameIsTrue
<1> QED
  BY <1>1, <1>2, <1>3, ApplySwitchesAtomically, PTL DEF SwitchesAtomically, Switched!Spec

-----------------------------------------------------------------------------
(* Tuning calls Apply as Performance allows.                               *)

(* What is kept of the snapshots and the frame times, for LastOf.          *)
KeptInMemory ==
    /\ ring \in Seq(Nat)
    /\ snapshots \in Seq(Entries)
    /\ Len(snapshots) <= MaxSnapshots

Inv == IInv /\ TypeOK /\ KeptInMemory

(* The last n elements of a sequence.                                      *)
LEMMA LastOfSeq ==
    ASSUME NEW S, NEW s \in Seq(S), NEW n \in Nat
    PROVE  /\ LastOf(s, n) \in Seq(S)
           /\ Len(LastOf(s, n)) <= n
           /\ Len(LastOf(s, n)) <= Len(s)
           /\ Len(s) <= n => LastOf(s, n) = s
           /\ Len(s) = n + 1 => Len(LastOf(s, n)) = n
           /\ \A i \in 1..Len(LastOf(s, n)) :
                LastOf(s, n)[i] = s[Len(s) - Len(LastOf(s, n)) + i]
<1>1. CASE Len(s) <= n
  BY <1>1 DEF LastOf
<1>2. CASE Len(s) > n
  <2> DEFINE m == Len(s) - n + 1
  <2>1. m \in 1..(Len(s) + 1) /\ Len(s) \in Nat
    BY <1>2
  <2>2. LastOf(s, n) = SubSeq(s, m, Len(s))
    BY <1>2 DEF LastOf
  <2>3. /\ SubSeq(s, m, Len(s)) \in Seq(S)
        /\ Len(SubSeq(s, m, Len(s))) = n
        /\ \A i \in 1..n : SubSeq(s, m, Len(s))[i] = s[m + i - 1]
    BY <2>1, SubSeqProperties
  <2>4. \A i \in 1..n : m + i - 1 = Len(s) - n + i
    BY <2>1
  <2>5. \A i \in 1..n : LastOf(s, n)[i] = s[Len(s) - n + i]
    BY <2>2, <2>3, <2>4
  <2>6. Len(LastOf(s, n)) = n
    BY <2>2, <2>3
  <2> HIDE DEF m
  <2> QED
    BY <1>2, <2>1, <2>2, <2>3, <2>5, <2>6
<1> QED
  BY <1>1, <1>2

(* The next snapshot keeps the numbering of the kept ones.                 *)
LEMMA SnapshotKeeps ==
    ASSUME Inv, TakeSnapshot
    PROVE  /\ snapshots' \in Seq(Entries)
           /\ Len(snapshots') <= MaxSnapshots
           /\ nextID' \in 0..MaxIDs
           /\ snapshots' = LastOf(snapshots', MaxSnapshots)
           /\ \A i \in 1..Len(snapshots') :
                 snapshots'[i].id = nextID' - Len(snapshots') + i
<1> DEFINE e == [id |-> nextID', profile |-> active]
           s == Append(snapshots, e)
<1>1. nextID' \in 1..MaxIDs /\ nextID' = nextID + 1 /\ nextID \in Nat
  BY TuningAssumption DEF TakeSnapshot, Inv, TypeOK
<1>2. active \in Profiles
  BY DEF Inv, IInv, PerfTypeOK
<1>3. e \in Entries
  BY <1>1, <1>2 DEF Entries
<1>4. /\ s \in Seq(Entries) /\ Len(s) = Len(snapshots) + 1
      /\ \A i \in 1..Len(snapshots) : s[i] = snapshots[i]
      /\ s[Len(snapshots) + 1] = e
      /\ Len(snapshots) \in Nat
  BY <1>3, AppendProperties DEF Inv, KeptInMemory
<1>5. \A i \in 1..Len(s) : s[i].id = nextID' - Len(s) + i
  <2>1. \A i \in 1..Len(snapshots) : snapshots[i].id = nextID - Len(snapshots) + i
    BY DEF Inv, TypeOK
  <2> QED
    BY <1>1, <1>4, <2>1
<1>6. snapshots' = LastOf(s, MaxSnapshots)
  BY DEF TakeSnapshot
<1>7. MaxSnapshots \in Nat
  BY TuningAssumption
<1> HIDE DEF s
<1>8. /\ snapshots' \in Seq(Entries) /\ Len(snapshots') <= MaxSnapshots
      /\ Len(snapshots') <= Len(s)
      /\ \A i \in 1..Len(snapshots') : snapshots'[i] = s[Len(s) - Len(snapshots') + i]
  BY <1>4, <1>6, <1>7, LastOfSeq
<1>9. snapshots' = LastOf(snapshots', MaxSnapshots)
  BY <1>7, <1>8, LastOfSeq
<1>10. \A i \in 1..Len(snapshots') : snapshots'[i].id = nextID' - Len(snapshots') + i
  <2> SUFFICES ASSUME NEW i \in 1..Len(snapshots')
               PROVE  snapshots'[i].id = nextID' - Len(snapshots') + i
    OBVIOUS
  <2>1. Len(s) \in Nat /\ Len(snapshots') \in Nat
    BY <1>4, <1>8
  <2> DEFINE j == Len(s) - Len(snapshots') + i
  <2>2. j \in 1..Len(s)
    BY <1>8, <2>1
  <2>3. snapshots'[i].id = s[j].id
    BY <1>8
  <2>4. s[j].id = nextID' - Len(s) + j
    BY <1>5, <2>2
  <2> QED
    BY <1>1, <2>1, <2>3, <2>4
<1> QED
  BY <1>1, <1>8, <1>9, <1>10

(* Each loop, command and crash is a step of Performance or leaves it be.  *)
LEMMA NextIsPerf ==
    ASSUME Inv, [Next]_vars
    PROVE  [PerfNext]_perfvars
<1> USE DEF perfvars, Beside
<1>1. CASE ThermalTick
  <2>1. CASE waits' = waits
    BY <1>1, <2>1 DEF ThermalTick
  <2>2. CASE waits' # waits
    <3>1. Calls("thermal", "balanced") /\ UNCHANGED Beside
      BY <1>1, <2>2 DEF ThermalTick
    <3>2. Request("thermal")
      BY <3>1 DEF Request, Profiles
    <3> QED
      BY <3>2, TuningAssumption DEF PerfNext
  <2> QED
    BY <2>1, <2>2
<1>2. CASE ThermalRaised
  BY <1>2 DEF ThermalRaised
<1>3. CASE FrameTick
  <2>1. CASE waits' = waits
    BY <1>3, <2>1 DEF FrameTick
  <2>2. CASE waits' # waits
    <3>1. Calls("frame", "ultra") /\ UNCHANGED Beside
      BY <1>3, <2>2 DEF FrameTick
    <3>2. Request("frame")
      BY <3>1 DEF Request, Profiles
    <3> QED
      BY <3>2, TuningAssumption DEF PerfNext
  <2> QED
    BY <2>1, <2>2
<1>4. CASE FrameEscalated
  <2>1. CASE irqs' = irqs
    BY <1>4, <2>1 DEF FrameEscalated
  <2>2. CASE irqs' # irqs
    BY <1>4, <2>2 DEF FrameEscalated, Tick, Rebalances, Reroute, Affinities, PerfNext
  <2> QED
    BY <2>1, <2>2
<1>5. CASE BalancerStart \/ TimePasses
  BY <1>5 DEF BalancerStart, TimePasses
<1>6. CASE BalancerTick
  BY <1>6 DEF BalancerTick, Rebalances, Reroute, Affinities, PerfNext
<1>7. ASSUME NEW c \in Clients, SetProfile(c) PROVE PerfNext
  BY <1>7, TuningAssumption DEF SetProfile, Request, PerfNext
<1>8. ASSUME NEW c \in Clients, RollbackToLatest(c) PROVE UNCHANGED perfvars
  BY <1>8 DEF RollbackToLatest
<1>9. ASSUME NEW c \in Clients, Restore(c) PROVE PerfNext
  <2>1. picked[c] \in Entries
    BY <1>9 DEF Restore, Inv, TypeOK
  <2>2. picked[c].profile \in Profiles
    BY <2>1 DEF Entries
  <2> QED
    BY <1>9, <2>2, TuningAssumption DEF Restore, Request, PerfNext
<1>10. ASSUME NEW c \in Callers, Applies(c) PROVE PerfNext
  BY <1>10 DEF Applies, PerfNext
<1>11. CASE TakeSnapshot \/ FirewallChanges
  BY <1>11 DEF TakeSnapshot, FirewallChanges
<1>12. CASE HisnosdKilled \/ MachineReboots
  BY <1>12 DEF HisnosdKilled, MachineReboots, PerfNext
<1>13. CASE UNCHANGED vars
  BY <1>13 DEF vars
<1> QED
  BY <1>1, <1>2, <1>3, <1>4, <1>5, <1>6, <1>7, <1>8, <1>9, <1>10, <1>11, <1>12, <1>13
     DEF Next

(* The types of Tuning's own state.                                        *)
LoopsTypeOK ==
    /\ lastTier \in DOMAIN QuotaOf
    /\ \E t \in DOMAIN QuotaOf : quota = QuotaOf[t]
    /\ ring \in Seq(Nat) /\ Len(ring) <= RingSize
    /\ {raising, cooled, spiking} \subseteq BOOLEAN

BalancerTypeOK == {irqbalance, wasActive, rested} \subseteq BOOLEAN

RollbackTypeOK ==
    /\ firewall \in {"/etc/nftables.conf", "changed"}
    /\ nextID \in 0..MaxIDs
    /\ snapshots \in Seq(Entries) /\ Len(snapshots) <= MaxSnapshots
    /\ snapshots = LastOf(snapshots, MaxSnapshots)
    /\ \A i \in 1..Len(snapshots) : snapshots[i].id = nextID - Len(snapshots) + i
    /\ picked \in [Clients -> {NoEntry} \cup Entries]

LEMMA InvInParts == Inv <=> IInv /\ LoopsTypeOK /\ BalancerTypeOK /\ RollbackTypeOK
<1>1. ASSUME snapshots \in Seq(Entries)
      PROVE  \A i \in 1..Len(snapshots) : snapshots[i] \in Entries
  BY <1>1
<1> QED
  BY <1>1
     DEF Inv, IInv, TypeOK, KeptInMemory, LoopsTypeOK, BalancerTypeOK,
         RollbackTypeOK

LEMMA TiersHaveQuotas ==
    /\ \A t, throttling : Tier(t, throttling) \in DOMAIN QuotaOf
    /\ "critical" \in DOMAIN QuotaOf /\ "nominal" \in DOMAIN QuotaOf
    /\ "warm" \in DOMAIN QuotaOf /\ QuotaOf["warm"] = 100
BY DEF Tier, QuotaOf

LEMMA LoopsUnchanged ==
    ASSUME LoopsTypeOK, UNCHANGED loops
    PROVE  LoopsTypeOK'
BY DEF LoopsTypeOK, loops

LEMMA BalancerUnchanged ==
    ASSUME BalancerTypeOK, UNCHANGED balancer
    PROVE  BalancerTypeOK'
BY DEF BalancerTypeOK, balancer

LEMMA RollbackUnchanged ==
    ASSUME RollbackTypeOK, UNCHANGED rollback
    PROVE  RollbackTypeOK'
<1>1. LastOf(snapshots, MaxSnapshots)' = LastOf(snapshots, MaxSnapshots)
  BY DEF rollback, LastOf
<1> QED
  BY <1>1 DEF RollbackTypeOK, rollback

(* No snapshot is kept over a restart.                                     *)
LEMMA NoSnapshots ==
    ASSUME snapshots = <<>>, nextID = 0, picked = [c \in Clients |-> NoEntry],
           firewall \in {"/etc/nftables.conf", "changed"}
    PROVE  RollbackTypeOK
<1>1. /\ snapshots \in Seq(Entries) /\ Len(snapshots) = 0
      /\ 0 \in 0..MaxIDs /\ MaxSnapshots \in Nat
  BY TuningAssumption
<1>2. LastOf(snapshots, MaxSnapshots) = snapshots
  BY <1>1 DEF LastOf
<1> QED
  BY <1>1, <1>2 DEF RollbackTypeOK

LEMMA LoopsStart ==
    ASSUME NewLoops, firewall' \in {"/etc/nftables.conf", "changed"},
           irqbalance' \in BOOLEAN
    PROVE  LoopsTypeOK' /\ BalancerTypeOK' /\ RollbackTypeOK'
<1>1. LoopsTypeOK'
  <2>1. ring' \in Seq(Nat) /\ Len(ring') = 0 /\ RingSize \in Nat
    BY TuningAssumption DEF NewLoops
  <2>2. quota' = QuotaOf["warm"]
    BY TiersHaveQuotas DEF NewLoops
  <2>3. {raising', cooled', spiking'} \subseteq BOOLEAN
    BY DEF NewLoops
  <2>4. Len(ring') <= RingSize
    BY <2>1
  <2>5. lastTier' \in DOMAIN QuotaOf
    BY TiersHaveQuotas DEF NewLoops
  <2>6. \E t \in DOMAIN QuotaOf : quota' = QuotaOf[t]
    BY <2>2, TiersHaveQuotas
  <2>7. (DOMAIN QuotaOf)' = DOMAIN QuotaOf /\ \A t : QuotaOf[t]' = QuotaOf[t]
    BY DEF QuotaOf
  <2> QED
    BY <2>1, <2>3, <2>4, <2>5, <2>6, <2>7 DEF LoopsTypeOK
<1>2. BalancerTypeOK'
  BY DEF NewLoops, BalancerTypeOK
<1>3. /\ snapshots' \in Seq(Entries) /\ Len(snapshots') = 0
      /\ 0 \in 0..MaxIDs /\ MaxSnapshots \in Nat
  BY TuningAssumption DEF NewLoops
<1>4. LastOf(snapshots', MaxSnapshots) = snapshots'
  BY <1>3 DEF LastOf
<1>5. RollbackTypeOK'
  BY <1>3, <1>4 DEF NewLoops, RollbackTypeOK
<1> QED
  BY <1>1, <1>2, <1>5

LEMMA LoopsKeep ==
    ASSUME Inv, [Next]_vars
    PROVE  LoopsTypeOK' /\ BalancerTypeOK' /\ RollbackTypeOK'
<1>0. LoopsTypeOK /\ BalancerTypeOK /\ RollbackTypeOK
  BY InvInParts
<1> USE LoopsUnchanged, BalancerUnchanged, RollbackUnchanged
<1>1. CASE ThermalTick
  <2>1. UNCHANGED balancer /\ UNCHANGED rollback /\ UNCHANGED <<ring, cooled, spiking>>
    BY <1>1 DEF ThermalTick
  <2>2. LoopsTypeOK'
    <3>1. PICK t \in Celsius, throttling \in BOOLEAN :
            \/ raising' = TRUE /\ UNCHANGED <<lastTier, quota>>
            \/ /\ lastTier' = Tier(t, throttling)
               /\ quota' = QuotaOf[Tier(t, throttling)]
               /\ UNCHANGED raising
      BY <1>1 DEF ThermalTick
    <3> QED
      BY ZenonT(40), <1>0, <2>1, <3>1, TiersHaveQuotas DEF LoopsTypeOK
  <2> QED
    BY <1>0, <2>1, <2>2
<1>2. CASE ThermalRaised
  <2>1. LoopsTypeOK'
    BY ZenonT(40), <1>0, <1>2, TiersHaveQuotas DEF ThermalRaised, LoopsTypeOK
  <2> QED
    BY <1>0, <1>2, <2>1 DEF ThermalRaised
<1>3. CASE FrameTick
  <2>1. PICK log \in FrameLogs :
          /\ ring' = LastOf(ring \o log, RingSize)
          /\ \/ cooled' = FALSE /\ spiking' = TRUE
             \/ UNCHANGED <<cooled, spiking>>
    BY <1>3 DEF FrameTick
  <2>2. ring \o log \in Seq(Nat)
    BY <1>0, TuningAssumption DEF LoopsTypeOK
  <2>3. ring' \in Seq(Nat) /\ Len(ring') <= RingSize
    BY <2>1, <2>2, LastOfSeq, TuningAssumption
  <2>4. LoopsTypeOK'
    BY <1>0, <1>3, <2>1, <2>3 DEF FrameTick, LoopsTypeOK
  <2> QED
    BY <1>0, <1>3, <2>4 DEF FrameTick
<1>4. CASE FrameEscalated
  <2>1. LoopsTypeOK'
    BY <1>0, <1>4 DEF FrameEscalated, LoopsTypeOK
  <2>2. BalancerTypeOK'
    BY <1>0, <1>4 DEF FrameEscalated, Tick, Rebalances, BalancerTypeOK
  <2> QED
    BY <1>0, <1>4, <2>1, <2>2 DEF FrameEscalated
<1>5. CASE BalancerStart
  <2>1. BalancerTypeOK'
    BY <1>0, <1>5 DEF BalancerStart, BalancerTypeOK
  <2> QED
    BY <1>0, <1>5, <2>1 DEF BalancerStart
<1>6. CASE BalancerTick
  <2>1. BalancerTypeOK'
    BY <1>0, <1>6 DEF BalancerTick, Rebalances, BalancerTypeOK
  <2> QED
    BY <1>0, <1>6, <2>1 DEF BalancerTick
<1>7. CASE TimePasses
  <2>1. LoopsTypeOK'
    BY <1>0, <1>7 DEF TimePasses, LoopsTypeOK
  <2>2. BalancerTypeOK'
    BY <1>0, <1>7 DEF TimePasses, BalancerTypeOK
  <2> QED
    BY <1>0, <1>7, <2>1, <2>2 DEF TimePasses
<1>8. ASSUME NEW c \in Clients, SetProfile(c)
      PROVE  LoopsTypeOK' /\ BalancerTypeOK' /\ RollbackTypeOK'
  BY <1>0, <1>8 DEF SetProfile
<1>9. ASSUME NEW c \in Clients, RollbackToLatest(c)
      PROVE  LoopsTypeOK' /\ BalancerTypeOK' /\ RollbackTypeOK'
  <2>1. /\ snapshots # <<>> /\ picked' = [picked EXCEPT ![c] = Last(snapshots)]
        /\ UNCHANGED <<firewall, snapshots, nextID>>
    BY <1>9 DEF RollbackToLatest
  <2>2. Last(snapshots) \in Entries
    BY <1>0, <2>1 DEF RollbackTypeOK, Last
  <2>3. LastOf(snapshots, MaxSnapshots)' = LastOf(snapshots, MaxSnapshots)
    BY <2>1 DEF LastOf
  <2>4. RollbackTypeOK'
    BY <1>0, <2>1, <2>2, <2>3 DEF RollbackTypeOK
  <2> QED
    BY <1>0, <1>9, <2>4 DEF RollbackToLatest
<1>10. ASSUME NEW c \in Clients, Restore(c)
       PROVE  LoopsTypeOK' /\ BalancerTypeOK' /\ RollbackTypeOK'
  <2>1. /\ picked' = [picked EXCEPT ![c] = NoEntry]
        /\ firewall' \in {"/etc/nftables.conf", firewall}
        /\ UNCHANGED <<snapshots, nextID>>
    BY <1>10 DEF Restore
  <2>2. LastOf(snapshots, MaxSnapshots)' = LastOf(snapshots, MaxSnapshots)
    BY <2>1 DEF LastOf
  <2>3. RollbackTypeOK'
    BY <1>0, <2>1, <2>2 DEF RollbackTypeOK
  <2> QED
    BY <1>0, <1>10, <2>3 DEF Restore
<1>11. ASSUME NEW c \in Callers, Applies(c)
       PROVE  LoopsTypeOK' /\ BalancerTypeOK' /\ RollbackTypeOK'
  BY <1>0, <1>11 DEF Applies
<1>12. CASE TakeSnapshot
  <2>1. RollbackTypeOK'
    BY <1>0, <1>12, SnapshotKeeps DEF TakeSnapshot, RollbackTypeOK
  <2> QED
    BY <1>0, <1>12, <2>1 DEF TakeSnapshot
<1>13. CASE FirewallChanges
  <2>1. LastOf(snapshots, MaxSnapshots)' = LastOf(snapshots, MaxSnapshots)
    BY <1>13 DEF FirewallChanges, LastOf
  <2>2. RollbackTypeOK'
    BY <1>0, <1>13, <2>1 DEF FirewallChanges, RollbackTypeOK
  <2> QED
    BY <1>0, <1>13, <2>2 DEF FirewallChanges
<1>14. CASE HisnosdKilled
  BY <1>0, <1>14, LoopsStart DEF HisnosdKilled, RollbackTypeOK, BalancerTypeOK
<1>15. CASE MachineReboots
  BY <1>15, LoopsStart DEF MachineReboots
<1>16. CASE UNCHANGED vars
  BY <1>0, <1>16 DEF vars
<1> QED
  BY <1>1, <1>2, <1>3, <1>4, <1>5, <1>6, <1>7, <1>8, <1>9, <1>10, <1>11, <1>12, <1>13,
     <1>14, <1>15, <1>16 DEF Next

LEMMA TuningInvariant == Spec => []Inv
<1>1. Init => Inv
  <2> SUFFICES ASSUME Init PROVE Inv
    OBVIOUS
  <2>1. IInv
    BY Initially DEF Init
  <2>2. LoopsTypeOK /\ BalancerTypeOK
    <3>1. ring \in Seq(Nat) /\ Len(ring) = 0 /\ RingSize \in Nat
      BY TuningAssumption DEF Init
    <3>2. quota = QuotaOf["warm"]
      BY TiersHaveQuotas DEF Init
    <3>3. Len(ring) <= RingSize
      BY <3>1
    <3>4. {raising, cooled, spiking} \subseteq BOOLEAN
      BY DEF Init
    <3>5. lastTier \in DOMAIN QuotaOf /\ \E t \in DOMAIN QuotaOf : quota = QuotaOf[t]
      BY <3>2, TiersHaveQuotas DEF Init
    <3> QED
      BY <3>1, <3>3, <3>4, <3>5 DEF Init, LoopsTypeOK, BalancerTypeOK
  <2>3. RollbackTypeOK
    BY NoSnapshots DEF Init
  <2> QED
    BY <2>1, <2>2, <2>3, InvInParts
<1>2. Inv /\ [Next]_vars => Inv'
  <2> SUFFICES ASSUME Inv, [Next]_vars PROVE Inv'
    OBVIOUS
  <2>1. IInv'
    BY NextIsPerf, NextKeeps DEF Inv
  <2>2. LoopsTypeOK' /\ BalancerTypeOK' /\ RollbackTypeOK'
    BY LoopsKeep
  <2>3. (IInv /\ LoopsTypeOK /\ BalancerTypeOK /\ RollbackTypeOK => Inv)'
    BY InvInParts, PTL
  <2> QED
    BY <2>1, <2>2, <2>3
<1> QED
  BY <1>1, <1>2, PTL DEF Spec

(* The loops, the commands and the rollback keep their types; the ring of  *)
(* frame times never outgrows its size, and the snapshots that are kept    *)
(* are the last ones, numbered without a gap.                              *)
THEOREM TuningTypeCorrect == Spec => []TypeOK
<1>1. Inv => TypeOK
  BY DEF Inv
<1> QED
  BY <1>1, TuningInvariant, PTL

(* Tuning is a way of calling the manager of profiles.                     *)
THEOREM TuningImplementsPerformance == Spec => PerfSpec
<1>1. Init => PerfInit
  BY DEF Init
<1>2. Inv /\ [Next]_vars => [PerfNext]_perfvars
  BY NextIsPerf
<1> QED
  BY <1>1, <1>2, TuningInvariant, PTL DEF Spec, PerfSpec

(* So the thermal controller, the frame predictor, the IPC commands and    *)
(* the rollback, racing for the manager over any faults and crashes,       *)
(* switch the machine whole or not at all.                                 *)
THEOREM TuningSwitchesAtomically == Spec => SwitchesAtomically
BY TuningImplementsPerformance, ApplySwitchesAtomically, PTL

=============================================================================
