----------------------------- MODULE Onboarding -----------------------------
(***************************************************************************)
(* The first-boot wizard (onboarding/backend): its HTTP handlers, each a   *)
(* goroutine, over the state that state.Manager keeps in memory and in     *)
(* onboarding-state.json.  The manager locks one Update at a time; a       *)
(* handler makes several, after commands of its own that take as long as   *)
(* they like.  The wizard may die between any two of them.                 *)
(***************************************************************************)
EXTENDS Naturals, Sequences

CONSTANTS
    Requests,       \* handlers that run at one time
    NoFile,         \* model value: there is no state file
    MaxRequests,    \* bound: requests
    MaxBadWrites,   \* bound: writes of the state file that fail
    MaxKills        \* bound: deaths of the wizard

AllSteps == <<"welcome", "vault", "firewall", "threat", "gaming", "verify">>

StepNames == {AllSteps[i] : i \in 1..Len(AllSteps)}

(* OnboardingState without the dates, the warnings and the choices of the  *)
(* firewall, threat and gaming steps.                                      *)
States == [completed : BOOLEAN, cur : StepNames, done : SUBSET StepNames,
           vaultInitialized : BOOLEAN]

Fresh == [completed |-> FALSE, cur |-> "welcome", done |-> {},
          vaultInitialized |-> FALSE]

ASSUME WizardAssumption ==
    /\ NoFile \notin States
    /\ MaxRequests \in Nat /\ MaxBadWrites \in Nat /\ MaxKills \in Nat

(* No request, or the place of a handler and its step.                     *)
NoRequest == [at |-> "idle", name |-> "welcome"]

Jobs == [at : {"run", "warn", "warn to mark", "record", "mark"},
         name : StepNames]

VARIABLES
    running,            \* a wizard serves its port
    mem, stateFile,     \* Manager.s; onboarding-state.json
    vault,              \* hisnos-vault.sh has made one
    swap,               \* the machine has a swap device in use
    job,                \* each handler: where it is, and its step
    pidfile,            \* hisnos-onboarding.lock holds the PID of a wizard
    enabled, disabling, \* the unit; the goroutine of Complete will disable it
    acked,              \* history: Complete has answered that it is done
    requests, badWrites, kills

wizardvars == <<running, mem, stateFile, vault, swap, job, pidfile, enabled,
                disabling, acked, requests, badWrites, kills>>

-----------------------------------------------------------------------------
(* state.Manager.                                                          *)

(* persist: an atomic replacement, or nothing.                             *)
Persist(new) ==
    \/ stateFile' = new /\ UNCHANGED badWrites
    \/ /\ badWrites < MaxBadWrites
       /\ badWrites' = badWrites + 1
       /\ UNCHANGED stateFile

(* Whatever becomes of the file, memory has changed.                       *)
Update(new) == mem' = new /\ Persist(new)

NextStep(n) ==
    IF \E i \in 1..(Len(AllSteps) - 1) : AllSteps[i] = n
    THEN AllSteps[1 + CHOOSE i \in 1..(Len(AllSteps) - 1) : AllSteps[i] = n]
    ELSE "verify"

(* The position follows the step marked, wherever the wizard was before.   *)
Marked(n) == [mem EXCEPT !.done = @ \cup {n}, !.cur = NextStep(n)]

MarkStepComplete(n) == Update(Marked(n))

(* AddWarning writes the whole state too; the texts are left out.          *)
AddWarning == Update(mem)

-----------------------------------------------------------------------------
(* The handlers.  What they ignore is the error of every Update.           *)

Moves(r, from, to) == job[r].at = from /\ job' = [job EXCEPT ![r].at = to]

Ends(r, from) == job[r].at = from /\ job' = [job EXCEPT ![r] = NoRequest]

Arrives(r) ==
    /\ running
    /\ job[r] = NoRequest
    /\ requests < MaxRequests
    /\ requests' = requests + 1

Serve(r, n, to) ==
    /\ Arrives(r)
    /\ job' = [job EXCEPT ![r] = [at |-> to, name |-> n]]

StepWelcome(r) ==
    /\ Serve(r, "welcome", "mark")
    /\ UNCHANGED <<running, mem, stateFile, vault, swap, pidfile, enabled,
                   disabling, acked, badWrites, kills>>

(* The steps in the middle begin with a command or a file of theirs.       *)
StepChoosing(r, n) ==
    /\ Serve(r, n, "run")
    /\ UNCHANGED <<running, mem, stateFile, vault, swap, pidfile, enabled,
                   disabling, acked, badWrites, kills>>

(* Skip takes any step; the vault step has a skip of its own.              *)
Skip(r, n) ==
    /\ Serve(r, n, "warn to mark")
    /\ UNCHANGED <<running, mem, stateFile, vault, swap, pidfile, enabled,
                   disabling, acked, badWrites, kills>>

(* Variant: the script's failure is one more warning.                      *)
VaultMadeOrNot(r) == vault' \in {vault, TRUE} /\ Moves(r, "run", "record")

(* hisnos-vault.sh init refuses a vault that is there, and any failure     *)
(* ends the handler.  With swap in use it asks whether to go on, reads the *)
(* passphrase for an answer, and aborts with success.                      *)
VaultMade(r) ==
    \/ ~vault /\ ~swap /\ vault' = TRUE /\ Moves(r, "run", "record")
    \/ ~vault /\ swap /\ UNCHANGED vault /\ Moves(r, "run", "record")
    \/ UNCHANGED vault /\ Ends(r, "run")

(* The others go on: what fails of the firewall and of the group makes a   *)
(* warning, of the files nothing.                                          *)
OtherRuns(r) ==
    /\ \/ Moves(r, "run", "record")
       \/ job[r].name \in {"firewall", "gaming"} /\ Moves(r, "run", "warn")
    /\ UNCHANGED vault

Runs(r) ==
    /\ job[r].at = "run"
    /\ IF job[r].name = "vault" THEN VaultMade(r) ELSE OtherRuns(r)
    /\ UNCHANGED <<running, mem, stateFile, swap, pidfile, enabled, disabling,
                   acked, requests, badWrites, kills>>

Warns(r) ==
    /\ Moves(r, "warn", "record") \/ Moves(r, "warn to mark", "mark")
    /\ AddWarning
    /\ UNCHANGED <<running, vault, swap, pidfile, enabled, disabling, acked,
                   requests, kills>>

Records(r) ==
    /\ Moves(r, "record", "mark")
    /\ Update([mem EXCEPT
                  !.vaultInitialized = @ \/ job[r].name = "vault"])
    /\ UNCHANGED <<running, vault, swap, pidfile, enabled, disabling, acked,
                   requests, kills>>

Marks(r) ==
    /\ Ends(r, "mark")
    /\ MarkStepComplete(job[r].name)
    /\ UNCHANGED <<running, vault, swap, pidfile, enabled, disabling, acked,
                   requests, kills>>

(* Variant: as in every other handler, the error is not looked at.         *)
SaysDoneAnyway == TRUE

SaysDone == UNCHANGED badWrites

(* Complete asks for no step to be done.                                   *)
Complete(r) ==
    /\ Arrives(r)
    /\ Update([mem EXCEPT !.completed = TRUE, !.cur = "verify"])
    /\ acked' = (acked \/ SaysDone)
    /\ disabling' = (disabling \/ SaysDone)
    /\ UNCHANGED <<running, vault, swap, job, pidfile, enabled, kills>>

-----------------------------------------------------------------------------
(* The process.                                                            *)

(* load, whose file is never half written.                                 *)
LoadedState == IF stateFile = NoFile THEN Fresh ELSE stateFile

(* acquireLock is refused by whoever lives under the PID it finds, and a   *)
(* wizard that was completed exits without releasing the lock, as one does *)
(* that cannot listen.  The unit starts only without a state file.         *)
WizardStarts(by) ==
    /\ ~running
    /\ by = "unit" => enabled /\ stateFile = NoFile
    /\ pidfile' = TRUE
    /\ \/ /\ mem' = LoadedState
          /\ ~mem'.completed
          /\ running' = TRUE
       \/ UNCHANGED <<mem, running>>
    /\ UNCHANGED <<stateFile, vault, swap, job, enabled, disabling, acked,
                   requests, badWrites, kills>>

(* Neither the handlers nor the memory outlive the process.                *)
Exits(released) ==
    /\ running
    /\ running' = FALSE
    /\ mem' = Fresh
    /\ pidfile' = ~released
    /\ job' = [r \in Requests |-> NoRequest]
    /\ disabling' = FALSE
    /\ UNCHANGED <<vault, swap, acked, requests>>

(* A signal, or the poll that finds the wizard completed.  Shutdown waits  *)
(* 5 s for the handlers, who may not be done by then.                      *)
WizardStops ==
    /\ Exits(TRUE)
    /\ UNCHANGED <<stateFile, enabled, badWrites, kills>>

(* After 30 minutes it says so in a last warning.                          *)
SessionTimeout ==
    /\ Exits(TRUE)
    /\ Persist(mem)
    /\ UNCHANGED <<enabled, kills>>

(* systemctl disable --now, which stops the wizard too.                    *)
DisableUnit ==
    /\ disabling
    /\ enabled' = FALSE
    /\ Exits(TRUE)
    /\ UNCHANGED <<stateFile, badWrites, kills>>

(* Killed; State marshals a map that other handlers write, which is fatal. *)
WizardDies ==
    /\ kills < MaxKills
    /\ kills' = kills + 1
    /\ Exits(FALSE)
    /\ UNCHANGED <<stateFile, enabled, badWrites>>

WizardInit ==
    /\ running = FALSE
    /\ mem = Fresh /\ stateFile = NoFile
    /\ vault = FALSE
    /\ swap \in BOOLEAN
    /\ job = [r \in Requests |-> NoRequest]
    /\ pidfile = FALSE
    /\ enabled = TRUE /\ disabling = FALSE /\ acked = FALSE
    /\ requests = 0 /\ badWrites = 0 /\ kills = 0

Handles(r) ==
    \/ StepWelcome(r)
    \/ \E n \in StepNames \ {"welcome", "verify"} : StepChoosing(r, n)
    \/ \E n \in StepNames : Skip(r, n)
    \/ Runs(r) \/ Warns(r) \/ Records(r) \/ Marks(r)
    \/ Complete(r)

WizardNext ==
    \/ \E r \in Requests : Handles(r)
    \/ \E by \in {"unit", "hand"} : WizardStarts(by)
    \/ WizardStops \/ SessionTimeout \/ DisableUnit \/ WizardDies

WizardSpec == WizardInit /\ [][WizardNext]_wizardvars

WizardTypeOK ==
    /\ mem \in States
    /\ stateFile \in {NoFile} \cup States
    /\ job \in [Requests -> {NoRequest} \cup Jobs]
    /\ {running, vault, swap, pidfile, enabled, disabling, acked} \subseteq BOOLEAN
    /\ requests \in 0..MaxRequests
    /\ badWrites \in 0..MaxBadWrites /\ kills \in 0..MaxKills

-----------------------------------------------------------------------------
(* Once Complete has answered that the wizard is done, the file says so    *)
(* for ever, over the handlers still at work, the writes that fail and the *)
(* deaths of the process: no later wizard serves its port.                 *)
CompletionLasts ==
    acked => /\ stateFile # NoFile /\ stateFile.completed
             /\ running => mem.completed

(* A vault that the state, in memory or on disk, calls initialised has     *)
(* been made (StepVault "initialises the gocryptfs vault").                *)
VaultRecordIsTrue ==
    \A s \in {mem, stateFile} \ {NoFile} :
        s.vaultInitialized => vault

(* On a machine without swap it has, wherever the handler that makes it is *)
(* cut off and whoever writes the state after it.                          *)
UnswappedVaultIsTrue == ~swap => VaultRecordIsTrue

=============================================================================
