------------------------------- MODULE Tuning -------------------------------
(***************************************************************************)
(* Who tunes the machine: the loops that main.go starts over the           *)
(* performance manager (thermal controller, frame predictor, interrupt     *)
(* balancer), the IPC commands, and the global rollback with its           *)
(* snapshots.  All of them change the profile through Apply of             *)
(* Performance, each from a goroutine of its own.                          *)
(***************************************************************************)
EXTENDS Performance, Sequences, SequencesExt

CONSTANTS
    Clients,        \* connections of the IPC server
    NoEntry,        \* model value: the connection is not rolling back
    MaxSnapshots,   \* maxSnapshots, 5
    MaxIDs,         \* bound: snapshots taken by one process
    RingSize,       \* frameRingSize, 120
    MinSamples,     \* frameMinSamples, 30
    Celsius,        \* what the hottest sensor may read
    Critical,       \* its critical temperature
    FrameLogs       \* what a tick may find in the log of frame times

ASSUME TuningAssumption ==
    /\ Callers = Clients \cup {"thermal", "frame"}
    /\ MaxSnapshots \in Nat \ {0} /\ MaxIDs \in Nat /\ RingSize \in Nat
    /\ FrameLogs \subseteq Seq(Nat)

VARIABLES
    lastTier, quota,    \* ThermalController.lastTier; cpu.max of hisnosd
    raising,            \* applyTier waits for the downgrade
    ring, cooled,       \* FramePredictor.ring; 30 s since lastEscalate
    spiking,            \* onJitterSpike waits for its Apply
    irqbalance,         \* irqbalance.service is active
    wasActive, rested,  \* IRQAdaptiveBalancer: irqbalanceWasActive; 8 s passed
    firewall,           \* the ruleset in the kernel
    snapshots, nextID,  \* GlobalRollback
    picked              \* picked[c]: the entry that c restores

loops == <<lastTier, quota, raising, ring, cooled, spiking>>
balancer == <<irqbalance, wasActive, rested>>
rollback == <<firewall, snapshots, nextID, picked>>
vars == <<perfvars, loops, balancer, rollback>>

Beside == <<machine, irqs, active, stored, lock, at, snap, missed, known,
            faults, crashes>>

-----------------------------------------------------------------------------
(* The thermal controller.                                                 *)

(* classifyTier, in degrees.                                               *)
Tier(t, throttling) ==
    CASE throttling \/ t >= Critical - 5 -> "critical"
      [] ~throttling /\ t \in (Critical - 15)..(Critical - 6) -> "throttle"
      [] ~throttling /\ t \in 76..(Critical - 16) -> "warm"
      [] OTHER -> "nominal"

QuotaOf == [nominal |-> 200, warm |-> 100, throttle |-> 50, critical |-> 25]

(* Only a change of tier is acted on.                                      *)
ThermalTick ==
    /\ ~raising
    /\ \E t \in Celsius, throttling \in BOOLEAN :
          LET tier == Tier(t, throttling)
          IN  /\ tier # lastTier
              /\ IF tier = "critical"
                 THEN /\ raising' = TRUE
                      /\ Calls("thermal", "balanced")
                      /\ UNCHANGED <<lastTier, quota>>
                 ELSE /\ lastTier' = tier
                      /\ quota' = QuotaOf[tier]
                      /\ UNCHANGED <<raising, waits>>
    /\ UNCHANGED <<Beside, ring, cooled, spiking, balancer, rollback>>

(* The downgrade is asked for once, whether it succeeds or not.            *)
ThermalRaised ==
    /\ raising /\ Returned("thermal")
    /\ raising' = FALSE
    /\ lastTier' = "critical"
    /\ quota' = QuotaOf["critical"]
    /\ UNCHANGED <<perfvars, ring, cooled, spiking, balancer, rollback>>

-----------------------------------------------------------------------------
(* The frame predictor.  A log is read from its start at every tick.       *)

LastOf(s, n) == IF Len(s) <= n THEN s ELSE SubSeq(s, Len(s) - n + 1, Len(s))

Percentile(sorted, p) ==
    LET i == (p * Len(sorted)) \div 100
    IN  sorted[(IF i >= Len(sorted) THEN Len(sorted) - 1 ELSE i) + 1]

JitterSpike(s) ==
    LET sorted == SortSeq(s, LAMBDA x, y : x < y)
    IN  Percentile(sorted, 99) > 2 * Percentile(sorted, 50)

FrameTick ==
    /\ ~spiking
    /\ \E log \in FrameLogs :
        /\ ring' = LastOf(ring \o log, RingSize)
        /\ IF cooled /\ Len(ring') >= MinSamples /\ JitterSpike(ring')
           THEN /\ cooled' = FALSE
                /\ spiking' = TRUE
                /\ Calls("frame", "ultra")
           ELSE UNCHANGED <<cooled, spiking, waits>>
    /\ UNCHANGED <<Beside, lastTier, quota, raising, balancer, rollback>>

-----------------------------------------------------------------------------
(* The interrupt balancer.  The counters of /proc/interrupts are anything. *)

Rebalances == irqs' = "2-11" /\ rested' = FALSE

Tick ==
    \/ rested /\ Rebalances
    \/ UNCHANGED <<irqs, rested>>

BalancerTick ==
    /\ rested
    /\ Rebalances
    /\ UNCHANGED <<machine, active, stored, waits, lock, at, snap, missed, known,
                   faults, crashes, loops, irqbalance, wasActive, rollback>>

FrameEscalated ==
    /\ spiking /\ Returned("frame")
    /\ spiking' = FALSE
    /\ Tick
    /\ UNCHANGED <<machine, active, stored, waits, lock, at, snap, missed, known,
                   faults, crashes, lastTier, quota, raising, ring, cooled,
                   irqbalance, wasActive, rollback>>

(* Start, once in a process; nothing calls Stop.                           *)
BalancerStart ==
    /\ irqbalance /\ ~wasActive
    /\ wasActive' = TRUE
    /\ irqbalance' \in BOOLEAN
    /\ UNCHANGED <<perfvars, loops, rested, rollback>>

TimePasses ==
    /\ cooled' = TRUE /\ rested' = TRUE
    /\ <<cooled, rested>> # <<TRUE, TRUE>>
    /\ UNCHANGED <<perfvars, lastTier, quota, raising, ring, spiking, irqbalance,
                   wasActive, rollback>>

-----------------------------------------------------------------------------
(* The IPC commands and the global rollback.                               *)

Idle(c) == waits[c] = NoProfile /\ picked[c] = NoEntry

SetProfile(c) ==
    /\ Idle(c)
    /\ \E p \in Profiles : Calls(c, p)
    /\ UNCHANGED <<Beside, loops, balancer, rollback>>

(* ActiveProfile waits for the mutex of the manager.                       *)
TakeSnapshot ==
    /\ nextID < MaxIDs
    /\ lock = NoCaller
    /\ nextID' = nextID + 1
    /\ snapshots' = LastOf(Append(snapshots, [id |-> nextID', profile |-> active]),
                           MaxSnapshots)
    /\ UNCHANGED <<perfvars, loops, balancer, firewall, picked>>

RollbackToLatest(c) ==
    /\ Idle(c)
    /\ snapshots # <<>>
    /\ picked' = [picked EXCEPT ![c] = Last(snapshots)]
    /\ UNCHANGED <<perfvars, loops, balancer, firewall, snapshots, nextID>>

(* restore: the firewall, which was registered last, and then the profile; *)
(* an error of one does not stop the other.                                *)
Restore(c) ==
    /\ picked[c] # NoEntry
    /\ firewall' \in {"/etc/nftables.conf", firewall}
    /\ Calls(c, picked[c].profile)
    /\ picked' = [picked EXCEPT ![c] = NoEntry]
    /\ UNCHANGED <<Beside, loops, balancer, snapshots, nextID>>

FirewallChanges ==
    /\ firewall' = "changed"
    /\ UNCHANGED <<perfvars, loops, balancer, snapshots, nextID, picked>>

-----------------------------------------------------------------------------
(* The process starts again with loops that know nothing, in a cgroup with *)
(* the CPUQuota of its unit.                                               *)
NewLoops ==
    /\ lastTier' = "nominal" /\ raising' = FALSE
    /\ ring' = <<>> /\ cooled' = TRUE /\ spiking' = FALSE
    /\ quota' = 100
    /\ wasActive' = FALSE /\ rested' = TRUE
    /\ snapshots' = <<>> /\ nextID' = 0
    /\ picked' = [c \in Clients |-> NoEntry]

HisnosdKilled ==
    /\ Kill
    /\ NewLoops
    /\ UNCHANGED <<irqbalance, firewall>>

MachineReboots ==
    /\ Reboot
    /\ NewLoops
    /\ irqbalance' = TRUE
    /\ firewall' = "/etc/nftables.conf"

Init ==
    /\ PerfInit
    /\ lastTier = "nominal" /\ quota = 100 /\ raising = FALSE
    /\ ring = <<>> /\ cooled = TRUE /\ spiking = FALSE
    /\ irqbalance = TRUE /\ wasActive = FALSE /\ rested = TRUE
    /\ firewall = "/etc/nftables.conf"
    /\ snapshots = <<>> /\ nextID = 0
    /\ picked = [c \in Clients |-> NoEntry]

Applies(c) == ApplyStep(c) /\ UNCHANGED <<loops, balancer, rollback>>

Next ==
    \/ ThermalTick \/ ThermalRaised
    \/ FrameTick \/ FrameEscalated
    \/ BalancerStart \/ BalancerTick \/ TimePasses
    \/ \E c \in Clients : SetProfile(c) \/ RollbackToLatest(c) \/ Restore(c)
    \/ \E c \in Callers : Applies(c)
    \/ TakeSnapshot
    \/ FirewallChanges
    \/ HisnosdKilled \/ MachineReboots

Spec == Init /\ [][Next]_vars

Entries == [id : 1..MaxIDs, profile : Profiles]

(* The last of the snapshots taken are the ones that are kept.             *)
TypeOK ==
    /\ PerfTypeOK
    /\ lastTier \in DOMAIN QuotaOf
    /\ \E t \in DOMAIN QuotaOf : quota = QuotaOf[t]
    /\ Len(ring) <= RingSize
    /\ {raising, cooled, spiking, irqbalance, wasActive, rested} \subseteq BOOLEAN
    /\ firewall \in {"/etc/nftables.conf", "changed"}
    /\ nextID \in 0..MaxIDs
    /\ snapshots = LastOf(snapshots, MaxSnapshots)
    /\ \A i \in 1..Len(snapshots) :
          /\ snapshots[i] \in Entries
          /\ snapshots[i].id = nextID - Len(snapshots) + i
    /\ picked \in [Clients -> {NoEntry} \cup Entries]

=============================================================================
