------------------------------ MODULE Decision ------------------------------
(***************************************************************************)
(* The decision engine of hisnosd (core/automation): every 30 s it reads   *)
(* the threat state, asks the learning state for the threshold and for an  *)
(* override of the operator, and answers a cluster of signals with the     *)
(* actions of a rule, which it records as an incident.  The operators      *)
(* override it through the IPC server, each on a goroutine of its own.     *)
(* Scores and thresholds are in halves of a point.                         *)
(***************************************************************************)
EXTENDS Naturals, FiniteSets, Sequences, SequencesExt

CONSTANTS
    Operators,      \* goroutines that serve override_automation
    NoHolder,       \* model value: ls.mu is free
    SignalSets,     \* the signals a threat state may bring
    Strengths,      \* strengths a cluster may have
    Projections,    \* scores that may be projected
    MaxIncidents,   \* maxIncidents, 50
    MaxCrashes      \* bound: restarts of the daemon

DecisionAssumption ==
    /\ NoHolder \notin Operators \cup {"engine"}
    /\ MaxIncidents \in Nat /\ MaxCrashes \in Nat

DefaultThreshold == 140     \* 70.0
MinThreshold     == 100     \* 50.0
MaxThreshold     == 170     \* 85.0
thresholdStep    == 5       \* 2.5
confirmStep      == 2       \* 1.0

VARIABLES
    mu,             \* who holds LearningState.mu for writing
    threshold, adjusted,    \* AlertThreshold; changed in the last 2 h
    suppressed,     \* now is before OverrideCooldown
    incidents,      \* the length of Incidents
    cooling,        \* the rules in their cooldown
    safeMode,       \* SafeModeEnforcer.IsActive
    engine,         \* the next step of evaluate
    cluster, projected,     \* what this evaluation has seen and predicts
    serving,        \* serving[o]: the next step of an override
    crashes

learned == <<threshold, adjusted, suppressed, incidents>>
vars == <<mu, learned, cooling, safeMode, engine, cluster, projected, serving,
          crashes>>

Free == mu = NoHolder

Goes(from, to) == engine = from /\ engine' = to

-----------------------------------------------------------------------------
(* The clusters and the rules.                                             *)

(* classifyPattern, in its order.                                          *)
classes == <<[pattern |-> "exfil_prep",
              needs |-> {"vault_exposure", "firewall_anomaly"}],
             [pattern |-> "lateral_movement",
              needs |-> {"namespace_abuse", "privilege_escalation"}],
             [pattern |-> "persistence_rootkit",
              needs |-> {"persistence_signal", "kernel_integrity"}],
             [pattern |-> "kernel_exploit",
              needs |-> {"privilege_escalation", "kernel_integrity"}]>>

Pattern(signals, strength) ==
    LET i == SelectInSeq(classes, LAMBDA c : c.needs \subseteq signals)
    IN  IF i # 0 THEN classes[i].pattern
        ELSE IF /\ strength > 120
                /\ signals \cap {"privilege_escalation", "firewall_anomaly"} # {}
             THEN "escalation" ELSE "generic"

Hot(c) == Cardinality(c.signals) >= 2

(* rules, by priority.                                                     *)
rules == <<[pattern |-> "lateral_movement",    minScore |-> 110],
           [pattern |-> "kernel_exploit",      minScore |-> 120],
           [pattern |-> "exfil_prep",          minScore |-> 100],
           [pattern |-> "persistence_rootkit", minScore |-> 130],
           [pattern |-> "escalation",          minScore |-> 130],
           [pattern |-> "generic",             minScore |-> 150]>>

Fits(c, r) ==
    /\ r.pattern \in {Pattern(c.signals, c.strength), "generic"}
    /\ c.strength >= r.minScore

(* The first that fits, if any does.                                       *)
Best(c) ==
    {i \in DOMAIN rules :
        /\ Fits(c, rules[i])
        /\ \A j \in DOMAIN rules : j < i => ~Fits(c, rules[j])}

-----------------------------------------------------------------------------
(* evaluate.                                                               *)

(* A tick whose threat state cannot be read does nothing.                  *)
Tick ==
    /\ Goes("idle", "predict")
    /\ \E s \in SignalSets, n \in Strengths : cluster' = [signals |-> s, strength |-> n]
    /\ projected' \in Projections
    /\ UNCHANGED <<mu, learned, cooling, safeMode, serving, crashes>>

(* Threshold() waits for a writer.  An alert probability of 0.65 is a      *)
(* projection 3 points above the threshold; that and the safe mode are     *)
(* looked at after the override, and have no effect before.                *)
Predict ==
    /\ Free
    /\ Goes("predict", IF projected >= threshold + 6 THEN "override" ELSE "idle")
    /\ UNCHANGED <<mu, learned, cooling, safeMode, cluster, projected, serving, crashes>>

(* IsSuppressed() waits for a writer.                                      *)
AskOverride ==
    /\ Free
    /\ Goes("override", IF suppressed THEN "idle" ELSE "safe mode")
    /\ UNCHANGED <<mu, learned, cooling, safeMode, cluster, projected, serving, crashes>>

AskSafeMode ==
    /\ Goes("safe mode", IF safeMode \/ ~Hot(cluster) THEN "idle" ELSE "dispatch")
    /\ UNCHANGED <<mu, learned, cooling, safeMode, cluster, projected, serving, crashes>>

(* The actions go to the observability bus and nowhere else.               *)
Dispatch ==
    /\ \/ /\ Best(cluster) \subseteq cooling
          /\ Goes("dispatch", "idle")
          /\ UNCHANGED cooling
       \/ /\ ~(Best(cluster) \subseteq cooling)
          /\ Goes("dispatch", "record")
          /\ cooling' = cooling \cup Best(cluster)
    /\ UNCHANGED <<mu, learned, safeMode, cluster, projected, serving, crashes>>

(* RecordIncident takes the lock, and save, which it calls, asks for it    *)
(* again to read: neither returns, nor does anyone who waits for the lock, *)
(* and nothing is written.                                                 *)
RecordIncident ==
    /\ Free
    /\ mu' = "engine"
    /\ Goes("record", "save")
    /\ incidents' = IF incidents < MaxIncidents THEN incidents + 1 ELSE incidents
    /\ UNCHANGED <<threshold, adjusted, suppressed, cooling, safeMode, cluster,
                   projected, serving, crashes>>

-----------------------------------------------------------------------------
(* override_automation, whose handlers end in the same save.               *)

Override(o) ==
    /\ serving[o] = "idle"
    /\ Free
    /\ mu' = o
    /\ serving' = [serving EXCEPT ![o] = "save"]
    /\ UNCHANGED <<incidents, cooling, safeMode, engine, cluster, projected, crashes>>

(* suppress, or for no time reset.                                         *)
Suppress(o) ==
    /\ Override(o)
    /\ suppressed' \in BOOLEAN
    /\ UNCHANGED <<threshold, adjusted>>

(* The bounds of adjustThreshold.                                          *)
Adjusted(n) ==
    IF n < MinThreshold THEN MinThreshold
    ELSE IF n > MaxThreshold THEN MaxThreshold ELSE n

(* The threshold moves whether the incident is known or not.               *)
Mark(o) ==
    /\ Override(o)
    /\ IF adjusted THEN UNCHANGED <<threshold, adjusted>>
       ELSE /\ threshold' \in {Adjusted(threshold + thresholdStep),
                              Adjusted(threshold - confirmStep)}
            /\ adjusted' = TRUE
    /\ UNCHANGED suppressed

-----------------------------------------------------------------------------
(* Around it.                                                              *)

TimePasses ==
    /\ cooling' \in SUBSET cooling
    /\ suppressed' \in {suppressed, FALSE}
    /\ adjusted' \in {adjusted, FALSE}
    /\ UNCHANGED <<mu, threshold, incidents, safeMode, engine, cluster, projected,
                   serving, crashes>>

SafeModeEntered ==
    /\ safeMode' = TRUE
    /\ UNCHANGED <<mu, learned, cooling, engine, cluster, projected, serving, crashes>>

(* The file is the installer's.                                            *)
NewLearningState ==
    /\ crashes < MaxCrashes
    /\ crashes' = crashes + 1
    /\ mu' = NoHolder
    /\ threshold' = DefaultThreshold
    /\ adjusted' \in BOOLEAN
    /\ suppressed' = FALSE
    /\ incidents' = 0
    /\ cooling' = {}
    /\ engine' = "idle"
    /\ serving' = [o \in Operators |-> "idle"]
    /\ UNCHANGED <<safeMode, cluster, projected>>

Init ==
    /\ mu = NoHolder
    /\ threshold = DefaultThreshold /\ adjusted \in BOOLEAN
    /\ suppressed = FALSE /\ incidents = 0
    /\ cooling = {}
    /\ safeMode \in BOOLEAN
    /\ engine = "idle"
    /\ cluster = [signals |-> {}, strength |-> 0] /\ projected = 0
    /\ serving = [o \in Operators |-> "idle"]
    /\ crashes = 0

Evaluates ==
    Tick \/ Predict \/ AskOverride \/ AskSafeMode \/ Dispatch \/ RecordIncident

Next ==
    \/ Evaluates
    \/ \E o \in Operators : Suppress(o) \/ Mark(o)
    \/ TimePasses
    \/ SafeModeEntered
    \/ NewLearningState

(* The ticker fires, and the goroutine of the engine runs when it can.     *)
Spec == Init /\ [][Next]_vars /\ WF_vars(Evaluates)

TypeOK ==
    /\ mu \in {NoHolder, "engine"} \cup Operators
    /\ threshold \in MinThreshold..MaxThreshold
    /\ {adjusted, suppressed, safeMode} \subseteq BOOLEAN
    /\ incidents \in 0..MaxIncidents
    /\ cooling \subseteq DOMAIN rules
    /\ engine \in {"idle", "predict", "override", "safe mode", "dispatch", "record",
                   "save"}
    /\ serving \in [Operators -> {"idle", "save"}]
    /\ crashes \in 0..MaxCrashes

-----------------------------------------------------------------------------
(* decision_engine.go says that it "Reads threat state [...] every 30      *)
(* seconds": every evaluation ends, so that the next can begin.            *)
EvaluatesForEver == []<>(engine = "idle")

=============================================================================
