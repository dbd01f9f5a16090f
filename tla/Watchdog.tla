------------------------------ MODULE Watchdog ------------------------------
(***************************************************************************)
(* The heartbeat watchdog of hisnosd (core/runtime/watchdog.go) and the    *)
(* one subsystem main.go registers with it: nftables, whose heartbeat a    *)
(* goroutine of main.go sends every 20 seconds while the supervisor's      *)
(* record says the firewall is alive.  Entries of the watchdog do not      *)
(* depend on each other.                                                   *)
(*                                                                         *)
(* Time advances with Tick, one heartbeatPeriod (5 seconds) at a time;     *)
(* every duration is in that unit and every timestamp is kept as its age.  *)
(* A timer that expires together with a tick may run before or after it,   *)
(* and runs before the next one.                                           *)
(***************************************************************************)
EXTENDS Naturals, FiniteSets

CONSTANTS
    SLA,            \* 6:  30 s
    BeatPeriod,     \* 4:  20 s
    Window,         \* 12: circuitWindow, 60 s
    Thresh,         \* 3:  circuitThresh
    Cooldown,       \* 60: circuitCooldown, 5 min
    FirstBackoff,   \* 1:  5 s
    MaxBackoff,     \* 12: 60 s
    ChanCap         \* 4:  the handle's channel

ASSUME WatchdogAssumption ==
    /\ SLA \in Nat /\ BeatPeriod \in Nat \ {0} /\ BeatPeriod <= SLA
    /\ Window \in Nat \ {0}
    /\ Thresh \in Nat \ {0} /\ Cooldown \in Nat /\ Window <= Cooldown
    /\ FirstBackoff \in Nat \ {0} /\ MaxBackoff \in Nat
    /\ FirstBackoff <= MaxBackoff
    /\ ChanCap \in Nat \ {0}

VARIABLES
    alive,      \* Subsystems.NftablesAlive, what the supervisor recorded
    steady,     \* history: ticks since alive last changed, up to SLA + 3
    due,        \* time until the heartbeat goroutine's next round
    ch,         \* heartbeats waiting in the handle's channel
    age,        \* age of lastBeat, up to SLA + 1
    missed,     \* missedBeats, up to 2
    restarts,   \* ages of the restartTimes inside the window
    started,    \* history: ages of the restarts scheduled in the last window
    circuit,    \* circuitOpen
    openAge,    \* age of circuitOpenAt, up to Cooldown
    backoff,    \* restartBackoff
    wake        \* remaining sleep -> restart goroutines with that much left

vars == <<alive, steady, due, ch, age, missed, restarts, started, circuit,
          openAge, backoff, wake>>

Least(a, b) == IF a <= b THEN a ELSE b

-----------------------------------------------------------------------------
(* The heartbeat goroutine of main.go; Beat drops what does not fit.       *)
HeartbeatRound ==
    /\ due <= 1
    /\ due' = due + BeatPeriod
    /\ ch' = IF alive THEN Least(ch + 1, ChanCap) ELSE ch
    /\ UNCHANGED <<alive, steady, age, missed, restarts, started, circuit,
                   openAge, backoff, wake>>

(* The supervisor records that the firewall died or came back.             *)
AliveChanges ==
    /\ alive' = ~alive
    /\ steady' = 0
    /\ UNCHANGED <<due, ch, age, missed, restarts, started, circuit, openAge,
                   backoff, wake>>

(* A restart goroutine wakes up and runs systemctl restart.  Whether that  *)
(* helps shows, if at all, in a later AliveChanges.                        *)
RestartRuns ==
    \E r \in {0, 1} \cap DOMAIN wake :
        /\ wake[r] > 0
        /\ wake' = [wake EXCEPT ![r] = @ - 1]
        /\ UNCHANGED <<alive, steady, due, ch, age, missed, restarts, started,
                       circuit, openAge, backoff>>

-----------------------------------------------------------------------------
(* Watchdog.tick, as a function of the clock's effect on the timestamps.   *)

(* Variant: the heartbeats in the channel are not drained.                 *)
AgeUndrained == Least(age + 1, SLA + 1)

(* Draining the channel, and otherwise growing older.                      *)
AgeNow == IF ch > 0 THEN 0 ELSE Least(age + 1, SLA + 1)

(* countRecent counts the timestamps inside the window.                    *)
Older(ages) == {a + 1 : a \in ages} \cap 0..(Window - 1)

(* Variant: the cooldown is never looked at.                               *)
CooledDownNever == FALSE

CooledDown == circuit /\ openAge + 1 >= Cooldown

(* Variant: a restart is not remembered.                                   *)
RestartsForgotten == {}

(* Variant: every tick starts counting anew.                               *)
MissedForgotten == 0

(* What the tick finds after the circuit may have closed.                  *)
OpenNow     == circuit /\ ~CooledDown
RestartsNow == IF CooledDown THEN {} ELSE Older(restarts)
MissedNow   == IF CooledDown THEN 0 ELSE missed

Healthy ==
    /\ AgeNow <= SLA
    /\ missed' = 0
    /\ backoff' = IF MissedNow > 0 THEN FirstBackoff ELSE backoff
    /\ restarts' = RestartsNow
    /\ circuit' = OpenNow
    /\ openAge' = Least(openAge + 1, Cooldown)

(* First miss, or nothing left to do while the circuit is open.            *)
OnlyCounts ==
    /\ AgeNow > SLA
    /\ MissedNow = 0 \/ OpenNow
    /\ missed' = Least(MissedNow + 1, 2)
    /\ restarts' = RestartsNow
    /\ circuit' = OpenNow
    /\ openAge' = Least(openAge + 1, Cooldown)
    /\ UNCHANGED backoff

(* Variant: one restart more than the threshold.                           *)
TrippedLate == Cardinality(RestartsNow) > Thresh

Tripped == Cardinality(RestartsNow) >= Thresh

(* Level 3 to 5: OnFail, onSafeModeCandidate, the operator alert.          *)
OpensCircuit ==
    /\ AgeNow > SLA /\ MissedNow > 0 /\ ~OpenNow
    /\ Tripped
    /\ circuit' = TRUE
    /\ openAge' = 0
    /\ missed' = 2
    /\ restarts' = RestartsNow
    /\ UNCHANGED backoff

(* Level 2: the goroutine of a delayed restart starts to sleep.            *)
SchedulesRestart ==
    /\ AgeNow > SLA /\ MissedNow > 0 /\ ~OpenNow
    /\ ~Tripped
    /\ restarts' = RestartsNow \cup {0}
    /\ backoff' = Least(2 * backoff, MaxBackoff)
    /\ missed' = 2
    /\ circuit' = OpenNow
    /\ openAge' = Least(openAge + 1, Cooldown)

(* The sleeps that are left one unit later, and one more of length b.      *)
Sleepers(b) ==
    [r \in 0..MaxBackoff |->
        (IF r + 1 <= MaxBackoff THEN wake[r + 1] ELSE 0)
          + (IF r = b THEN 1 ELSE 0)]

NoSleeper == MaxBackoff + 1

Tick ==
    /\ due >= 1
    /\ wake[0] = 0
    /\ due' = due - 1
    /\ ch' = 0
    /\ age' = AgeNow
    /\ steady' = Least(steady + 1, SLA + 3)
    /\ \/ /\ Healthy \/ OnlyCounts \/ OpensCircuit
          /\ wake' = Sleepers(NoSleeper)
          /\ started' = Older(started)
       \/ /\ SchedulesRestart
          /\ wake' = Sleepers(backoff)
          /\ started' = Older(started) \cup {0}
    /\ UNCHANGED alive

-----------------------------------------------------------------------------
Init ==
    /\ alive \in BOOLEAN
    /\ steady = 0
    /\ due = BeatPeriod
    /\ ch = 0 /\ age = 0 /\ missed = 0
    /\ restarts = {} /\ started = {}
    /\ circuit = FALSE /\ openAge = 0
    /\ backoff = FirstBackoff
    /\ wake = [r \in 0..MaxBackoff |-> 0]

Next == Tick \/ HeartbeatRound \/ RestartRuns \/ AliveChanges

(* Time passes and expired timers run.                                     *)
Fairness == WF_vars(Tick) /\ WF_vars(HeartbeatRound) /\ WF_vars(RestartRuns)

Spec == Init /\ [][Next]_vars /\ Fairness

-----------------------------------------------------------------------------
TypeOK ==
    /\ alive \in BOOLEAN
    /\ steady \in 0..(SLA + 3)
    /\ due \in 0..(BeatPeriod + 1)
    /\ ch \in 0..ChanCap
    /\ age \in 0..(SLA + 1)
    /\ missed \in 0..2
    /\ restarts \in SUBSET (0..(Window - 1))
    /\ started \in SUBSET (0..(Window - 1))
    /\ circuit \in BOOLEAN
    /\ openAge \in 0..Cooldown
    /\ backoff \in FirstBackoff..MaxBackoff
    /\ wake \in [0..MaxBackoff -> Nat]

(* However the subsystem flaps, at most circuitThresh restarts are started *)
(* in any circuitWindow: the breaker bounds the restart storm, although it *)
(* forgets the restarts it has counted when it closes.                     *)
RestartRate == Cardinality(started) <= Thresh

(* A subsystem recorded alive for a heartbeat period and the tick after it *)
(* is never counted as missing, whatever the phase of the two tickers.     *)
SteadyIsHealthy == alive /\ steady > BeatPeriod + 1 => missed = 0

(* A subsystem silent for two ticks past the SLA has a restart scheduled   *)
(* inside the window, or the breaker is open, or it has just closed and    *)
(* the first miss is counted anew.                                         *)
SilenceIsNoticed ==
    ~alive /\ steady > SLA + 2 =>
        restarts # {} \/ circuit \/ (missed = 1 /\ openAge = Cooldown)

(* A subsystem that stays silent keeps opening the breaker, so that the    *)
(* safe-mode candidate and the operator alert are raised again and again.  *)
SilenceOpensCircuit == <>[]~alive => []<>circuit

(* Once the subsystem stays alive, the breaker closes for good.            *)
RecoveryClosesCircuit == <>[]alive => <>[](~circuit /\ missed = 0)

=============================================================================
