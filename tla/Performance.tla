---------------------------- MODULE Performance ----------------------------
(***************************************************************************)
(* The performance manager of hisnosd (core/performance/manager.go) over   *)
(* the settings of the kernel that its runtimes write.  Apply runs under   *)
(* one mutex for the whole of its writes; its callers are the connections  *)
(* of the IPC server and the two loops of Tuning.  The daemon may be       *)
(* killed, and the machine rebooted, between any two writes.               *)
(***************************************************************************)
EXTENDS Naturals

CONSTANTS
    Callers,        \* goroutines that call Apply
    NoCaller,       \* model value: the mutex is free
    MaxFaults,      \* bound: writes and scans that fail
    MaxCrashes      \* bound: restarts of the daemon and of the machine

ASSUME PerfAssumption ==
    /\ NoCaller \notin Callers
    /\ MaxFaults \in Nat /\ MaxCrashes \in Nat

(* profileDefs.  A value stands for all the settings its runtime writes;   *)
(* two profiles share it where their rows of the table agree.              *)
Profiles == {"balanced", "performance", "ultra"}

DefOf ==
    [balanced    |-> [cpu |-> "schedutil",   io |-> "256", mem |-> "60", sched |-> "fedora"],
     performance |-> [cpu |-> "performance", io |-> "512", mem |-> "10", sched |-> "gaming"],
     ultra       |-> [cpu |-> "performance", io |-> "0",   mem |-> "5",  sched |-> "gaming"]]

RoutesIRQs(p) == p = "ultra"

NoProfile == "none"

(* What the kernel boots with: no profile's values.                        *)
Boot == [cpu |-> "boot", io |-> "boot", mem |-> "boot", sched |-> "boot"]

Tunings == [cpu   : {"boot", "schedutil", "performance"},
            io    : {"boot", "256", "512", "0"},
            mem   : {"boot", "60", "10", "5"},
            sched : {"boot", "fedora", "gaming"}]

(* smp_affinity_list of the GPU and NIC interrupts.                        *)
Affinities == {"boot", "0-1", "2-11"}

VARIABLES
    machine,    \* the settings in effect
    irqs,       \* the affinity of the interrupts
    active,     \* Manager.active
    stored,     \* perf-state.json
    waits,      \* waits[c]: the profile c has called Apply with
    lock,       \* the holder of Manager.mu
    at,         \* the next step of the holder
    snap,       \* captureSnapshot's result
    missed,     \* a write of this Apply has failed
    known,      \* history: the last Apply is whole, and nothing came after
    faults, crashes

perfvars == <<machine, irqs, active, stored, waits, lock, at, snap, missed,
              known, faults, crashes>>

-----------------------------------------------------------------------------
(* Apply.                                                                  *)

Calls(c, p) == waits[c] = NoProfile /\ waits' = [waits EXCEPT ![c] = p]

Returned(c) == waits[c] = NoProfile

(* An unreadable list of CPUs ends Apply before anything is written.       *)
Capture(c) ==
    /\ waits[c] # NoProfile
    /\ lock = NoCaller
    /\ \/ /\ lock' = c
          /\ at' = "cpu"
          /\ snap' = machine
          /\ missed' = FALSE
          /\ UNCHANGED <<waits, faults>>
       \/ /\ faults < MaxFaults
          /\ faults' = faults + 1
          /\ waits' = [waits EXCEPT ![c] = NoProfile]
          /\ UNCHANGED <<lock, at, snap, missed>>
    /\ UNCHANGED <<machine, irqs, active, stored, known, crashes>>

(* A refused write is logged and nothing else.                             *)
Writes(c, knob) ==
    \/ /\ machine' = [machine EXCEPT ![knob] = DefOf[waits[c]][knob]]
       /\ UNCHANGED <<missed, faults>>
    \/ /\ faults < MaxFaults
       /\ faults' = faults + 1
       /\ missed' = TRUE
       /\ UNCHANGED machine

Holds(c, step) == lock = c /\ at = step

(* It reads the list of CPUs again, to the same effect.                    *)
ApplyCPU(c) ==
    /\ Holds(c, "cpu")
    /\ \/ /\ Writes(c, "cpu")
          /\ at' = IF RoutesIRQs(waits[c]) THEN "irq" ELSE "io"
          /\ UNCHANGED <<waits, lock>>
       \/ /\ faults < MaxFaults
          /\ faults' = faults + 1
          /\ waits' = [waits EXCEPT ![c] = NoProfile]
          /\ lock' = NoCaller
          /\ UNCHANGED <<machine, missed, at>>
    /\ UNCHANGED <<irqs, active, stored, snap, known, crashes>>

(* Variant: the CPUs stay as Apply has set them.                           *)
UndoneNothing == machine

Undone == [machine EXCEPT !.cpu = snap.cpu]

(* Only the scan of /proc/interrupts can fail an Apply that has begun; the *)
(* write that takes the CPUs back may itself be refused.                   *)
ApplyIRQ(c) ==
    /\ Holds(c, "irq")
    /\ \/ /\ irqs' = "0-1"
          /\ at' = "io"
          /\ UNCHANGED <<machine, waits, lock, known, faults>>
       \/ /\ faults < MaxFaults
          /\ machine' \in {Undone, machine}
          /\ known' = (known /\ machine' = Undone)
          /\ faults' = faults + 1
          /\ waits' = [waits EXCEPT ![c] = NoProfile]
          /\ lock' = NoCaller
          /\ at' = "cpu"
          /\ UNCHANGED irqs
    /\ UNCHANGED <<active, stored, snap, missed, crashes>>

ApplyIO(c) ==
    /\ Holds(c, "io")
    /\ Writes(c, "io")
    /\ at' = "mem"
    /\ UNCHANGED <<irqs, active, stored, waits, lock, snap, known, crashes>>

ApplyMem(c) ==
    /\ Holds(c, "mem")
    /\ Writes(c, "mem")
    /\ at' = "sched"
    /\ UNCHANGED <<irqs, active, stored, waits, lock, snap, known, crashes>>

ApplySched(c) ==
    /\ Holds(c, "sched")
    /\ Writes(c, "sched")
    /\ at' = "commit"
    /\ UNCHANGED <<irqs, active, stored, waits, lock, snap, known, crashes>>

(* The error of a failed saveState is returned with the profile switched.  *)
Commit(c) ==
    /\ Holds(c, "commit")
    /\ active' = waits[c]
    /\ known' = ~missed
    /\ \/ /\ stored' = active'
          /\ UNCHANGED faults
       \/ /\ faults < MaxFaults
          /\ faults' = faults + 1
          /\ UNCHANGED stored
    /\ waits' = [waits EXCEPT ![c] = NoProfile]
    /\ lock' = NoCaller
    /\ at' = "cpu"
    /\ UNCHANGED <<machine, irqs, snap, missed, crashes>>

ApplyStep(c) ==
    \/ Capture(c)
    \/ ApplyCPU(c) \/ ApplyIRQ(c) \/ ApplyIO(c) \/ ApplyMem(c) \/ ApplySched(c)
    \/ Commit(c)

-----------------------------------------------------------------------------
(* New: only the name of the profile is restored.                          *)
Loaded == IF stored = NoProfile THEN "balanced" ELSE stored

(* History: the name read back is true of the machine if it was when the   *)
(* daemon died, with no Apply under way and the file up to date.           *)
KnownAfterKill == known /\ lock = NoCaller /\ Loaded = active

(* Neither runs longer than the process: a kill frees every caller.        *)
NewProcess ==
    /\ crashes < MaxCrashes
    /\ crashes' = crashes + 1
    /\ active' = Loaded
    /\ waits' = [c \in Callers |-> NoProfile]
    /\ lock' = NoCaller
    /\ at' = "cpu"
    /\ missed' = FALSE
    /\ UNCHANGED <<stored, snap, faults>>

Kill ==
    /\ NewProcess
    /\ known' = KnownAfterKill
    /\ UNCHANGED <<machine, irqs>>

Reboot ==
    /\ NewProcess
    /\ known' = FALSE
    /\ machine' = Boot
    /\ irqs' = "boot"

PerfInit ==
    /\ machine = Boot
    /\ irqs = "boot"
    /\ stored \in {NoProfile} \cup Profiles
    /\ active = Loaded
    /\ waits = [c \in Callers |-> NoProfile]
    /\ lock = NoCaller
    /\ at = "cpu"
    /\ snap = Boot
    /\ missed = FALSE /\ known = FALSE
    /\ faults = 0 /\ crashes = 0

(* The callers of Tuning choose when to call, and with which profile.      *)
Request(c) ==
    /\ \E p \in Profiles : Calls(c, p)
    /\ UNCHANGED <<machine, irqs, active, stored, lock, at, snap, missed, known,
                   faults, crashes>>

(* The interrupts are also moved by the balancer of Tuning.                *)
Reroute ==
    /\ irqs' \in Affinities
    /\ UNCHANGED <<machine, active, stored, waits, lock, at, snap, missed, known,
                   faults, crashes>>

PerfNext ==
    \/ \E c \in Callers : Request(c) \/ ApplyStep(c)
    \/ Reroute
    \/ Kill
    \/ Reboot

PerfSpec == PerfInit /\ [][PerfNext]_perfvars

PerfTypeOK ==
    /\ machine \in Tunings /\ snap \in Tunings
    /\ irqs \in Affinities
    /\ active \in Profiles
    /\ stored \in {NoProfile} \cup Profiles
    /\ waits \in [Callers -> {NoProfile} \cup Profiles]
    /\ lock \in {NoCaller} \cup Callers
    /\ at \in {"cpu", "irq", "io", "mem", "sched", "commit"}
    /\ missed \in BOOLEAN /\ known \in BOOLEAN
    /\ faults \in 0..MaxFaults /\ crashes \in 0..MaxCrashes

-----------------------------------------------------------------------------
(* While Apply runs, the promise is about what it started from.            *)
Switched ==
    INSTANCE ProfileSwitch WITH
        profile <- active,
        tuning  <- IF lock = NoCaller THEN machine ELSE snap

(* Every Apply switches the whole machine or leaves it as it found it: the *)
(* callers that race for it, an interrupt table that cannot be read in the *)
(* middle and a kill between two writes never leave the manager with a     *)
(* name it vouches for and settings of another profile.                    *)
SwitchesAtomically == Switched!Spec

=============================================================================
