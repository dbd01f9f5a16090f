----------------------------- MODULE SelfHealer -----------------------------
(***************************************************************************)
(* The self-healer of hisnosd (core/supervisor/self_healer.go) as main.go  *)
(* wires it: one goroutine probes the registered services every minute,    *)
(* every restart it decides on runs in a goroutine of its own, and its     *)
(* callback enters safe mode.                                              *)
(*                                                                         *)
(* Time is counted in probe rounds: correlatedFailureWindow is two of      *)
(* them, so that a failure two rounds old is inside the window or not by   *)
(* the jitter of the ticker.  Every backoff is shorter than a round.       *)
(***************************************************************************)
EXTENDS Naturals, FiniteSets

CONSTANTS
    Services,       \* the registered services
    MaxAttempts,    \* maxRestartAttempts, 6
    Threshold,      \* correlatedFailureThreshold, 3
    MaxInFlight     \* bound: restarts of one service in progress

ASSUME HealerAssumption ==
    /\ IsFiniteSet(Services)
    /\ MaxAttempts \in Nat \ {0}
    /\ Threshold \in Nat \ {0}
    /\ MaxInFlight \in Nat \ {0}

WindowRounds == 2

VARIABLES
    up,         \* service -> does its health check succeed
    attempts,   \* service -> consecutive failures
    disabled,   \* service -> given up
    ring,       \* age in rounds -> failures in failureRing of that age
    ppc,        \* where the probe goroutine is
    queue,      \* services of this round it has not probed yet
    failing,    \* the service whose probe failed
    sleeping,   \* service -> restart goroutines in their backoff
    running,    \* service -> restart commands in progress
    resetting,  \* service -> restarts that succeeded and have not called Reset
    safe        \* the callback has entered safe mode

probe == <<ppc, queue, failing>>
flight == <<sleeping, running, resetting>>
record == <<attempts, disabled, ring>>
healervars == <<up, record, probe, flight, safe>>

InFlight(s) == sleeping[s] + running[s] + resetting[s]

-----------------------------------------------------------------------------
(* Variant: failures never leave the window.                               *)
RingUnaged == ring

(* The ring one round later.                                               *)
RingAged == [a \in 0..WindowRounds |-> IF a = 0 THEN 0 ELSE ring[a - 1]]

(* ProbeAll: the services that are not disabled, in the order of a map.    *)
ProbeStart ==
    /\ ppc = "idle"
    /\ \A s \in Services : sleeping[s] = 0
    /\ queue' = {s \in Services : ~disabled[s]}
    /\ ppc' = "probe"
    /\ ring' = RingAged
    /\ UNCHANGED <<up, attempts, disabled, failing, flight, safe>>

ProbeOne ==
    /\ ppc = "probe"
    /\ \E s \in queue :
        /\ queue' = queue \ {s}
        /\ IF up[s] THEN UNCHANGED <<ppc, failing>>
                    ELSE ppc' = "notify" /\ failing' = s
    /\ UNCHANGED <<up, record, flight, safe>>

ProbeEnd ==
    /\ ppc = "probe"
    /\ queue = {}
    /\ ppc' = "idle"
    /\ UNCHANGED <<up, record, queue, failing, flight, safe>>

-----------------------------------------------------------------------------
(* RestartNotify.                                                          *)

(* The failures in the window; jitter decides on the oldest.               *)
Recent == {ring[0] + ring[1] + 1, ring[0] + ring[1] + ring[2] + 1}

(* Variant: the counter stops at its limit.                                *)
NextAttemptCapped(s) == IF attempts[s] < MaxAttempts THEN attempts[s] + 1
                        ELSE MaxAttempts

NextAttempt(s) == attempts[s] + 1

Exceeded(s) == NextAttempt(s) > MaxAttempts

(* Under the lock: count, remember, decide.  A disabled service is left    *)
(* alone, but never gets here: only this goroutine disables, and it probes *)
(* a service once in a round.                                              *)
Notify ==
    /\ ppc = "notify"
    /\ ~disabled[failing]
    /\ attempts' = [attempts EXCEPT ![failing] = NextAttempt(failing)]
    /\ ring' = [ring EXCEPT ![0] = @ + 1]
    /\ \/ /\ Exceeded(failing)
          /\ ppc' = "disable"
          /\ UNCHANGED sleeping
       \/ /\ ~Exceeded(failing)
          /\ \E n \in Recent : n >= Threshold
          /\ ppc' = "escalate"
          /\ UNCHANGED sleeping
       \/ /\ ~Exceeded(failing)
          /\ \E n \in Recent : n < Threshold
          /\ InFlight(failing) < MaxInFlight
          /\ sleeping' = [sleeping EXCEPT ![failing] = @ + 1]
          /\ ppc' = "probe"
    /\ UNCHANGED <<up, disabled, queue, failing, running, resetting, safe>>

(* Variant: only correlated failures are reported.                         *)
AfterDisableSilent == "probe"

AfterDisable == "escalate"

(* The lock is taken a second time to set Disabled.                        *)
Disable ==
    /\ ppc = "disable"
    /\ disabled' = [disabled EXCEPT ![failing] = TRUE]
    /\ ppc' = AfterDisable
    /\ UNCHANGED <<up, attempts, ring, queue, failing, flight, safe>>

(* onCorrelatedFailure of main.go: safeMode.Enter unless it is active.     *)
Escalate ==
    /\ ppc = "escalate"
    /\ safe' = TRUE
    /\ ppc' = "probe"
    /\ UNCHANGED <<up, record, queue, failing, flight>>

ProbeStep == ProbeStart \/ ProbeOne \/ ProbeEnd \/ Notify \/ Disable
               \/ Escalate

-----------------------------------------------------------------------------
(* restartAfterDelay.                                                      *)
RestartWake(s) ==
    /\ sleeping[s] > 0
    /\ sleeping' = [sleeping EXCEPT ![s] = @ - 1]
    /\ running' = IF disabled[s] THEN running
                  ELSE [running EXCEPT ![s] = @ + 1]
    /\ UNCHANGED <<up, record, probe, resetting, safe>>

RestartReturns(s) ==
    /\ running[s] > 0
    /\ running' = [running EXCEPT ![s] = @ - 1]
    /\ \/ /\ up' = [up EXCEPT ![s] = TRUE]
          /\ resetting' = [resetting EXCEPT ![s] = @ + 1]
       \/ UNCHANGED <<up, resetting>>
    /\ UNCHANGED <<record, probe, sleeping, safe>>

(* Reset, which clears Disabled as well.                                   *)
RestartResets(s) ==
    /\ resetting[s] > 0
    /\ resetting' = [resetting EXCEPT ![s] = @ - 1]
    /\ attempts' = [attempts EXCEPT ![s] = 0]
    /\ disabled' = [disabled EXCEPT ![s] = FALSE]
    /\ UNCHANGED <<up, ring, probe, sleeping, running, safe>>

RestartStep(s) == RestartWake(s) \/ RestartReturns(s) \/ RestartResets(s)

(* A service dies, or comes back by itself.                                *)
ServiceFlips(s) ==
    /\ up' = [up EXCEPT ![s] = ~@]
    /\ UNCHANGED <<record, probe, flight, safe>>

-----------------------------------------------------------------------------
HealerInit ==
    /\ up \in [Services -> BOOLEAN]
    /\ attempts = [s \in Services |-> 0]
    /\ disabled = [s \in Services |-> FALSE]
    /\ ring = [a \in 0..WindowRounds |-> 0]
    /\ ppc = "idle" /\ queue = {}
    /\ failing \in Services
    /\ sleeping = [s \in Services |-> 0]
    /\ running = [s \in Services |-> 0]
    /\ resetting = [s \in Services |-> 0]
    /\ safe = FALSE

HealerNext == ProbeStep \/ \E s \in Services : RestartStep(s) \/ ServiceFlips(s)

(* The probe goroutine and the restarts run; systemctl returns.            *)
HealerFairness ==
    /\ WF_healervars(ProbeStep)
    /\ \A s \in Services : WF_healervars(RestartStep(s))

HealerSpec == HealerInit /\ [][HealerNext]_healervars /\ HealerFairness

-----------------------------------------------------------------------------
HealerTypeOK ==
    /\ up \in [Services -> BOOLEAN] /\ disabled \in [Services -> BOOLEAN]
    /\ attempts \in [Services -> 0..(MaxAttempts + 1)]
    /\ ring \in [0..WindowRounds -> 0..Cardinality(Services)]
    /\ ppc \in {"idle", "probe", "notify", "disable", "escalate"}
    /\ queue \subseteq Services /\ failing \in Services
    /\ sleeping \in [Services -> Nat] /\ running \in [Services -> Nat]
    /\ resetting \in [Services -> Nat]
    /\ \A s \in Services : InFlight(s) <= MaxInFlight
    /\ safe \in BOOLEAN

(* No service is given up on without the enforcer being in safe mode, which*)
(* nothing in the daemon takes it out of.                                  *)
GivenUpIsSafe == (\E s \in Services : disabled[s]) /\ ppc # "escalate" => safe

(* A service that stays dead is given up on in the end, whatever restarts  *)
(* of it are still in flight and reset its record.                         *)
DeadIsGivenUp ==
    \A s \in Services : <>[]~up[s] => <>[]disabled[s]

=============================================================================
