--------------------------- MODULE PolicyEnforcer ---------------------------
(***************************************************************************)
(* The policy enforcer of hisnosd (core/runtime/policy_enforcer.go): a     *)
(* heap ordered by priority, a channel of capacity one that pokes the      *)
(* worker, and the worker that drains the heap.  Every submission runs on  *)
(* a goroutine of its own.  The actions are the response actions main.go   *)
(* submits (submitPolicyAction, dispatchResponseAction).                   *)
(***************************************************************************)
EXTENDS Naturals, Sequences, SequencesExt

CONSTANTS
    Actions,    \* the response actions submitted, each once
    MayHang,    \* those whose subprocess may never return
    MayCancel   \* may the daemon's context be cancelled?

ASSUME EnforcerAssumption ==
    /\ Actions \subseteq {"vault_lock", "containment_apply", "firewall_strict",
                          "safe_mode_candidate", "firewall_restore",
                          "gaming_freeze", "gaming_unfreeze", "lab_isolate",
                          "audit_high_verbosity", "vault_idle_shorten",
                          "vault_idle_restore"}
    /\ MayHang \subseteq Actions \ {"lab_isolate", "containment_apply"}
    /\ MayCancel \in BOOLEAN

VARIABLES
    sub,        \* action -> where its Submit is
    stamp,      \* action -> submittedAt, 0 before
    clock,      \* the latest time.Now()
    heap,       \* actionHeap
    sift,       \* where heap.up or heap.down is; 0: the mutex is free
    signal,     \* values in the signal channel
    wpc,        \* where the worker is
    cur,        \* the action it executes, as a set
    hung,       \* its subprocess does not return
    cancelled,  \* ctx is done
    done,       \* actions executed
    letters     \* actions given to DeadLetter

guarded == <<heap, sift>>
execution == <<cur, hung, done, letters>>
enforcervars == <<sub, stamp, clock, guarded, signal, wpc, execution,
                  cancelled>>

-----------------------------------------------------------------------------
(* The classes submitPolicyAction gives the response actions.              *)
Priority ==
    [a \in Actions |->
        CASE a \in {"vault_lock", "containment_apply",
                    "safe_mode_candidate"} -> 4
          [] a \in {"gaming_freeze", "gaming_unfreeze", "lab_isolate"} -> 2
          [] OTHER -> 3]

(* Those whose Exec may return an error.  lab_isolate, containment_apply   *)
(* run no command; SafeModeEnforcer.Enter runs some, and returns nil.      *)
Fallible ==
    Actions \ {"lab_isolate", "containment_apply", "safe_mode_candidate"}

(* Variant: the class alone decides, the time of submission does not.      *)
LessByClass(a, b) == Priority[a] > Priority[b]

(* actionHeap.Less                                                         *)
Less(a, b) ==
    \/ Priority[a] > Priority[b]
    \/ Priority[a] = Priority[b] /\ stamp[a] < stamp[b]

Swap(h, i, j) == [h EXCEPT ![i] = h[j], ![j] = h[i]]

(* The mutex of the enforcer is held while the heap is put in order.       *)
Free == sift = 0

-----------------------------------------------------------------------------
(* Submit: timestamp, push under the lock, non-blocking poke.              *)
SubmitStamp(a) ==
    /\ sub[a] = "new"
    /\ clock' \in {clock, clock + 1}
    /\ stamp' = [stamp EXCEPT ![a] = clock']
    /\ sub' = [sub EXCEPT ![a] = "push"]
    /\ UNCHANGED <<guarded, signal, wpc, execution, cancelled>>

SubmitPush(a) ==
    /\ sub[a] = "push"
    /\ Free
    /\ heap' = Append(heap, a)
    /\ sift' = Len(heap) + 1
    /\ sub' = [sub EXCEPT ![a] = "up"]
    /\ UNCHANGED <<stamp, clock, signal, wpc, execution, cancelled>>

(* heap.up: the last element rises while it is less than its parent.       *)
Rises == sift > 1 /\ Less(heap[sift], heap[sift \div 2])

SubmitUp(a) ==
    /\ sub[a] = "up"
    /\ \/ /\ Rises
          /\ heap' = Swap(heap, sift, sift \div 2)
          /\ sift' = sift \div 2
          /\ UNCHANGED sub
       \/ /\ ~Rises
          /\ sift' = 0
          /\ sub' = [sub EXCEPT ![a] = "poke"]
          /\ UNCHANGED heap
    /\ UNCHANGED <<stamp, clock, signal, wpc, execution, cancelled>>

(* Variant: the channel has no buffer, a busy worker misses the poke.      *)
PokedUnbuffered == IF wpc = "select" THEN 1 ELSE signal

(* The channel holds one value; a poke that finds it full is dropped.      *)
Poked == 1

SubmitPoke(a) ==
    /\ sub[a] = "poke"
    /\ signal' = Poked
    /\ sub' = [sub EXCEPT ![a] = "done"]
    /\ UNCHANGED <<stamp, clock, guarded, wpc, execution, cancelled>>

Submits(a) == SubmitPush(a) \/ SubmitUp(a) \/ SubmitPoke(a)

-----------------------------------------------------------------------------
(* The worker.                                                             *)

(* select: with both cases ready, either is taken.                         *)
WorkerWake ==
    /\ wpc = "select"
    /\ signal = 1
    /\ signal' = 0
    /\ wpc' = "drain"
    /\ UNCHANGED <<sub, stamp, clock, guarded, execution, cancelled>>

WorkerStop ==
    /\ wpc = "select"
    /\ cancelled
    /\ wpc' = "stopped"
    /\ UNCHANGED <<sub, stamp, clock, guarded, signal, execution, cancelled>>

(* The lock is released before the worker is back in its select.           *)
WorkerEmpty ==
    /\ \/ wpc = "drain" /\ Free /\ heap = <<>> /\ wpc' = "back"
       \/ wpc = "back" /\ wpc' = "select"
    /\ UNCHANGED <<sub, stamp, clock, guarded, signal, execution, cancelled>>

(* heap.Pop: the root and the last element change places.                  *)
WorkerPop ==
    /\ wpc = "drain"
    /\ Free
    /\ heap # <<>>
    /\ heap' = Swap(heap, 1, Len(heap))
    /\ sift' = 1
    /\ wpc' = "down"
    /\ UNCHANGED <<sub, stamp, clock, signal, execution, cancelled>>

(* The elements but for the one that leaves, and the lesser child of sift. *)
Kept == Len(heap) - 1

LesserChild ==
    IF 2 * sift + 1 <= Kept /\ Less(heap[2 * sift + 1], heap[2 * sift])
    THEN 2 * sift + 1 ELSE 2 * sift

(* heap.down: the new root sinks while a child is less.                    *)
Sinks == 2 * sift <= Kept /\ Less(heap[LesserChild], heap[sift])

WorkerDown ==
    /\ wpc = "down"
    /\ Sinks
    /\ heap' = Swap(heap, sift, LesserChild)
    /\ sift' = LesserChild
    /\ UNCHANGED <<sub, stamp, clock, signal, wpc, execution, cancelled>>

(* actionHeap.Pop takes the last element, the lock is released.            *)
WorkerTake ==
    /\ wpc = "down"
    /\ ~Sinks
    /\ cur' = {Last(heap)}
    /\ heap' = Front(heap)
    /\ sift' = 0
    /\ wpc' = "exec"
    /\ UNCHANGED <<sub, stamp, clock, signal, hung, cancelled, done, letters>>

(* Exec returns; an error starts the dead-letter handler.                  *)
WorkerExec ==
    /\ wpc = "exec"
    /\ ~hung
    /\ done' = done \cup cur
    /\ letters' \in {letters, letters \cup (cur \cap Fallible)}
    /\ cur' = {}
    /\ wpc' = "drain"
    /\ UNCHANGED <<sub, stamp, clock, guarded, signal, hung, cancelled>>

Worker ==
    \/ WorkerWake \/ WorkerStop \/ WorkerEmpty
    \/ WorkerPop \/ WorkerDown \/ WorkerTake \/ WorkerExec

-----------------------------------------------------------------------------
(* The subprocess hangs: dispatchResponseAction gets a context that        *)
(* expires and looks at it nowhere.                                        *)
SubprocessHangs ==
    /\ wpc = "exec"
    /\ cur \subseteq MayHang
    /\ ~hung
    /\ hung' = TRUE
    /\ UNCHANGED <<sub, stamp, clock, guarded, signal, wpc, cur, cancelled,
                   done, letters>>

Cancel ==
    /\ MayCancel
    /\ cancelled' = TRUE
    /\ UNCHANGED <<sub, stamp, clock, guarded, signal, wpc, execution>>

-----------------------------------------------------------------------------
EnforcerInit ==
    /\ sub = [a \in Actions |-> "new"]
    /\ stamp = [a \in Actions |-> 0]
    /\ clock = 1
    /\ heap = <<>> /\ sift = 0
    /\ signal = 0
    /\ wpc = "select"
    /\ cur = {}
    /\ hung = FALSE /\ cancelled = FALSE
    /\ done = {} /\ letters = {}

EnforcerNext ==
    \/ \E a \in Actions : SubmitStamp(a) \/ Submits(a)
    \/ Worker
    \/ SubprocessHangs
    \/ Cancel

(* A Submit that has begun is finished and the worker keeps running; a     *)
(* caller need not submit, a subprocess need not hang.                     *)
EnforcerFairness ==
    /\ WF_enforcervars(Worker)
    /\ \A a \in Actions : WF_enforcervars(Submits(a))

EnforcerSpec ==
    EnforcerInit /\ [][EnforcerNext]_enforcervars /\ EnforcerFairness

-----------------------------------------------------------------------------
EnforcerTypeOK ==
    /\ sub \in [Actions -> {"new", "push", "up", "poke", "done"}]
    /\ stamp \in [Actions -> Nat] /\ clock \in Nat \ {0}
    /\ heap \in Seq(Actions) /\ sift \in 0..Len(heap)
    /\ signal \in 0..1
    /\ wpc \in {"select", "drain", "down", "exec", "back", "stopped"}
    /\ cur \subseteq Actions /\ (cur # {}) = (wpc = "exec")
    /\ hung \in BOOLEAN /\ cancelled \in BOOLEAN
    /\ letters \subseteq done /\ done \subseteq Actions

Queue == INSTANCE PolicyQueue WITH
    waiting <- ToSet(heap), running <- cur, finished <- done,
    stopped <- wpc = "stopped"

(* The heap, the poke and the worker keep the promise of the queue: by     *)
(* urgency, then by age, one at a time and each once.                      *)
RunsByUrgency == Queue!QSafety

(* No poke is lost: what is in the heap is executed, unless a subprocess   *)
(* hangs, which no timeout of the enforcer ends.                           *)
WaitingIsRun == []~hung => Queue!QLiveness

=============================================================================
