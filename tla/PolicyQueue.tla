---------------------------- MODULE PolicyQueue -----------------------------
(***************************************************************************)
(* What the policy enforcer of hisnosd promises: the actions submitted to  *)
(* it run one at a time, the most urgent of those waiting first and the    *)
(* oldest of equally urgent ones, each once; an action that fails goes to  *)
(* the dead-letter handler; and what waits is run, until the enforcer is   *)
(* stopped.                                                                *)
(***************************************************************************)
EXTENDS Naturals

CONSTANTS Actions,      \* the actions that may be submitted
          Priority      \* action -> its class, 4 the most urgent

VARIABLES stamp,        \* action -> when it was submitted, 0 if it was not
          waiting,      \* submitted and not started
          running,      \* the action being executed, as a set
          finished,     \* executed
          letters,      \* given to the dead-letter handler
          stopped       \* the enforcer has been stopped

qvars == <<stamp, waiting, running, finished, letters, stopped>>

QInit ==
    /\ stamp = [a \in Actions |-> 0]
    /\ waiting = {} /\ running = {} /\ finished = {} /\ letters = {}
    /\ stopped = FALSE

(* A submission takes its timestamp before it gets into the queue.         *)
QStamp(a) ==
    /\ stamp[a] = 0
    /\ stamp' = [stamp EXCEPT ![a] = stamp'[a]]
    /\ stamp'[a] > 0 /\ \A b \in Actions : stamp[b] <= stamp'[a]
    /\ UNCHANGED <<waiting, running, finished, letters, stopped>>

QAccept(a) ==
    /\ stamp[a] > 0
    /\ a \notin waiting \cup running \cup finished
    /\ waiting' = waiting \cup {a}
    /\ UNCHANGED <<stamp, running, finished, letters, stopped>>

MoreUrgent(a, b) ==
    \/ Priority[a] > Priority[b]
    \/ Priority[a] = Priority[b] /\ stamp[a] < stamp[b]

QStart(a) ==
    /\ ~stopped
    /\ running = {}
    /\ a \in waiting
    /\ \A b \in waiting : ~MoreUrgent(b, a)
    /\ waiting' = waiting \ {a}
    /\ running' = {a}
    /\ UNCHANGED <<stamp, finished, letters, stopped>>

QFinish(a) ==
    /\ a \in running
    /\ running' = {}
    /\ finished' = finished \cup {a}
    /\ letters' \in {letters, letters \cup {a}}
    /\ UNCHANGED <<stamp, waiting, stopped>>

QStop ==
    /\ running = {}
    /\ stopped' = TRUE
    /\ UNCHANGED <<stamp, waiting, running, finished, letters>>

QNext ==
    \/ QStop
    \/ \E a \in Actions : QStamp(a) \/ QAccept(a) \/ QStart(a) \/ QFinish(a)

(* One at a time, by urgency, once each.                                   *)
QSafety == QInit /\ [][QNext]_qvars

(* What waits is run, unless the enforcer is stopped.                      *)
QLiveness == \A a \in Actions : a \in waiting ~> a \in finished \/ stopped

=============================================================================
