----------------------------- MODULE Hispowerd ------------------------------
(***************************************************************************)
(* hispowerd (gaming/hispowerd): a session of gaming changes the machine   *)
(* in five phases and then the mode of the control plane; the end of the   *)
(* session, the safety net of a panic and the clean-up of a start take     *)
(* the changes back.  One goroutine runs it all; around it are a game that *)
(* comes and goes, SIGTERM, SIGKILL at any step, and hisnosd, which        *)
(* changes its mode whenever it likes and keeps it in core-state.json.     *)
(***************************************************************************)
EXTENDS Naturals, Sequences

CONSTANTS
    MaxFaults,  \* bound: writes to the machine or its files that fail
    MaxKills,   \* bound: SIGKILLs and panics
    Blocked     \* the modes that block gaming: update-preparing, safe-mode...

VARIABLES
    game,       \* a game runs: what Detect finds in /proc
    changed,    \* what has a setting of a session, or a leftover of one
    freed,      \* what was given every CPU and so has lost the mask it had
    saved,      \* the value a controller will write back
    applied,    \* the phases flagged in Daemon.phases
    gaming,     \* Daemon.gaming
    record,     \* gaming_active in gaming-state.json
    pc,         \* what the goroutine does next
    quitting,   \* the context is cancelled
    coreUp, coreMode,   \* hisnosd, and the mode it has in memory
    coreFile,   \* the mode in core-state.json
    restarts,   \* the service is down and systemd will start it again
    faults, kills,
    unrecorded  \* history: ended with changes no file tells of

machine == <<changed, freed>>
daemon  == <<saved, applied, gaming, pc, quitting>>
core    == <<coreUp, coreMode, coreFile>>
crashes == <<kills, unrecorded, restarts>>
bounds  == <<faults, crashes>>
vars    == <<game, machine, record, daemon, core, bounds>>

Phases == {"cpu", "irq", "throttle", "firewall", "tuning"}

(* What a phase changes, each item by a write of its own.  games and       *)
(* daemons are the processes found when the session starts, not what they  *)
(* start later, which inherits their CPUs; governor stands for autogroup   *)
(* too, env for the nice values.                                           *)
ItemsOf == [cpu      |-> {"games", "daemons"}, irq |-> {"irqs"},
            throttle |-> {"quotas", "timer"},  firewall |-> {"table"},
            tuning   |-> {"governor", "env"}]
Items    == UNION {ItemsOf[p] : p \in Phases}

(* All processes: those a session pins and those it never touches.         *)
Processes == ItemsOf["cpu"] \cup {"others"}

(* Undone by a fixed command, whatever was there before; the others are    *)
(* written back to the value that was read.                                *)
Switches == {"timer", "table", "env"}

StartOrder == <<"cpu", "irq", "throttle", "firewall", "tuning", "mode", "record">>
(* Mutants: the end of a session forgets the interrupts; the clean-up the *)
(* fast path.                                                              *)
StopOrderShort == <<"tuning", "firewall", "throttle", "cpu", "mode", "record">>
NetOrderShort  == <<"cpu", "irq", "throttle", "tuning", "mode", "record">>

StopOrder  == <<"tuning", "firewall", "throttle", "irq", "cpu", "mode", "record">>
NetOrder   == <<"cpu", "irq", "firewall", "throttle", "tuning", "mode", "record">>
Orders     == [start |-> StartOrder, stop |-> StopOrder, leave |-> StopOrder,
               net |-> NetOrder, clean |-> NetOrder]

Normal  == "normal"
Gaming  == "gaming-performance"
Modes   == {Normal, Gaming} \cup Blocked
CoreModes == Modes \ {Gaming}

ASSUME HispowerdAssumption ==
    MaxFaults \in Nat /\ MaxKills \in Nat /\ Blocked \cap {Normal, Gaming} = {}

-----------------------------------------------------------------------------
Saved == {"none", "original", "gaming"}

Rest == [do |-> "idle", k |-> 1]
Down == [do |-> "down", k |-> 1]
Run(what) == [do |-> what, k |-> 1]

TypeOK ==
    /\ game \in BOOLEAN /\ gaming \in BOOLEAN /\ record \in BOOLEAN
    /\ quitting \in BOOLEAN /\ coreUp \in BOOLEAN /\ unrecorded \in BOOLEAN
    /\ restarts \in BOOLEAN
    /\ changed \subseteq Items /\ freed \subseteq Processes \cup {"irqs"}
    /\ saved \in [Items -> Saved]
    /\ applied \subseteq Phases \cup {"mode"}
    /\ pc \in {Rest, Down} \cup [do : DOMAIN Orders, k : 1..7]
    /\ coreMode \in Modes /\ coreFile \in Modes
    /\ faults \in 0..MaxFaults /\ kills \in 0..MaxKills

Init ==
    /\ game = FALSE /\ gaming = FALSE /\ record = FALSE /\ quitting = FALSE
    /\ changed = {} /\ freed = {} /\ saved = [i \in Items |-> "none"] /\ applied = {}
    /\ pc = Down
    /\ coreUp = TRUE /\ coreMode = Normal /\ coreFile = Normal
    /\ faults = 0 /\ kills = 0 /\ unrecorded = FALSE /\ restarts = FALSE

(* A step in which something fails uses up one of the faults.              *)
Fails(b) == faults' = (IF b THEN faults + 1 ELSE faults) /\ faults' <= MaxFaults

Does(what) == pc.do \in what
Step(what) == Orders[pc.do][pc.k] = what
Then       == pc' = [pc EXCEPT !.k = @ + 1]
Phase(p)   == Step(p) /\ Then

Starting == {"start"}
Stopping == {"stop", "leave"}   \* at the end of a session, or of run
Cleaning == {"net", "clean"}    \* safetyNet, ensureCleanStart

-----------------------------------------------------------------------------
(* startGaming, one step per phase.                                        *)

(* What Apply returns no error for: the isolator reports any failure, the  *)
(* throttler those of the quotas, the optimizer those that are EPERM, the  *)
(* tuner none.                                                             *)
Success(p, done) ==
    CASE p = "throttle" -> {"quotas" \in done}
      [] p = "tuning"   -> {TRUE}
      [] p = "irq"      -> IF done = {} THEN BOOLEAN ELSE {TRUE}
      [] OTHER          -> {done = ItemsOf[p]}

(* What was read before the write: of a leftover, the value of the session *)
(* before.                                                                 *)
Before(i) == IF i \in changed \ Switches THEN "gaming" ELSE "original"

ApplyPhase(p) ==
    /\ Does(Starting) /\ Phase(p)
    /\ \E done \in SUBSET ItemsOf[p] :
          /\ Fails(done # ItemsOf[p])
          /\ changed' = changed \cup done
          /\ saved' = [i \in Items |-> IF i \notin ItemsOf[p] THEN saved[i]
                                       ELSE IF i \in done THEN Before(i)
                                       ELSE "none"]
          /\ \E ok \in Success(p, done) :
                applied' = IF ok THEN applied \cup {p} ELSE applied
    /\ UNCHANGED <<game, freed, record, gaming, quitting, core, crashes>>

(* SetControlPlaneMode: hisnosd is asked first, and knows no mode called   *)
(* gaming-performance; if it is down or refuses, the file is written.      *)
SetControlPlaneMode(m) ==
    \/ /\ coreUp /\ m \in CoreModes
       /\ coreMode' = m /\ coreFile' = m /\ Fails(FALSE)
    \/ /\ ~(coreUp /\ m \in CoreModes)
       /\ coreFile' = m /\ Fails(FALSE)
       /\ UNCHANGED coreMode
    \/ /\ ~(coreUp /\ m \in CoreModes)
       /\ Fails(TRUE)
       /\ UNCHANGED <<coreMode, coreFile>>

StartMode ==
    /\ Does(Starting) /\ Step("mode") /\ Then
    /\ SetControlPlaneMode(Gaming)
    /\ applied' = IF faults' = faults THEN applied \cup {"mode"} ELSE applied
    /\ UNCHANGED <<game, machine, record, saved, gaming, quitting, coreUp,
                   crashes>>

(* The last step of an order: gaming-state.json is written, or is not.     *)
Records(b) == \E ok \in BOOLEAN : Fails(~ok) /\ record' = (IF ok THEN b ELSE record)

StartRecord ==
    /\ Does(Starting) /\ Step("record") /\ pc' = Rest
    /\ Records(TRUE)
    /\ gaming' = TRUE
    /\ UNCHANGED <<game, machine, saved, applied, quitting, core, crashes>>

-----------------------------------------------------------------------------
(* Restore of the five controllers.  ok: the writes that succeed.          *)

Kept(p) == {i \in ItemsOf[p] : saved[i] # "none"}

(* What is written back, though not all of it to what it was.              *)
WrittenBack(p, ok) ==
    /\ changed' = changed \ {i \in ok : saved[i] = "original"}
    /\ saved' = [i \in Items |->
                    IF i \in ItemsOf[p] /\ (i = "timer" => i \in ok)
                    THEN "none" ELSE saved[i]]

Restore(p) ==
    \E ok \in SUBSET Kept(p) : Fails(ok # Kept(p)) /\ WrittenBack(p, ok)

(* BroadReset: the mask of every process in /proc, pinned or not, is set   *)
(* to all CPUs, and what it was is forgotten.                              *)
BroadReset ==
    /\ changed' = changed \ ItemsOf["cpu"]
    /\ freed' = freed \cup Processes
    /\ saved' = [i \in Items |-> IF i \in ItemsOf["cpu"] THEN "none" ELSE saved[i]]
    /\ Fails(FALSE)

(* Restore of the isolator writes the masks back; it fails for a process   *)
(* that has ended, which the game has as a rule, and then BroadReset       *)
(* overwrites them all.                                                    *)
RestoreCPU ==
    \/ BroadReset
    \/ WrittenBack("cpu", Kept("cpu")) /\ Fails(FALSE) /\ UNCHANGED freed

(* EmergencyRestore of the fast path does not ask whether it was applied.  *)
RemoveTable ==
    \E ok \in BOOLEAN :
       /\ Fails(~ok /\ "table" \in changed)
       /\ changed' = IF ok THEN changed \ {"table"} ELSE changed
       /\ saved' = [saved EXCEPT !["table"] = "none"]

(* EmergencyRestore of the optimizer: all CPUs, for the saved IRQs.        *)
FreeIRQs ==
    \E ok \in SUBSET Kept("irq") :
       /\ Fails(ok # Kept("irq"))
       /\ changed' = changed \ ok /\ freed' = freed \cup ok
       /\ saved' = [saved EXCEPT !["irqs"] = "none"]

-----------------------------------------------------------------------------
(* stopGaming: what is flagged is restored.  Restore of the optimizer      *)
(* forgets what it has saved even when it fails, which leaves the          *)
(* EmergencyRestore that follows nothing to do.                            *)
StopPhase(p) ==
    /\ Does(Stopping) /\ Phase(p)
    /\ \/ p \notin applied /\ Fails(FALSE) /\ UNCHANGED <<machine, saved>>
       \/ p \in applied /\ p = "cpu" /\ RestoreCPU
       \/ p \in applied \ {"cpu"} /\ Restore(p) /\ UNCHANGED freed
    /\ UNCHANGED <<game, record, applied, gaming, quitting, core, crashes>>

(* safetyNet and ensureCleanStart: everything, whatever is flagged.        *)
NetPhase(p) ==
    /\ Does(Cleaning) /\ Phase(p)
    /\ \/ p = "cpu" /\ BroadReset
       \/ p = "irq" /\ FreeIRQs
       \/ p = "firewall" /\ RemoveTable /\ UNCHANGED freed
       \/ p \in {"throttle", "tuning"} /\ Restore(p) /\ UNCHANGED freed
    /\ UNCHANGED <<game, record, applied, gaming, quitting, core, crashes>>

BackMode ==
    /\ Does(Stopping \cup Cleaning) /\ Step("mode") /\ Then
    /\ IF Does(Stopping) /\ "mode" \notin applied
       THEN Fails(FALSE) /\ UNCHANGED <<coreMode, coreFile>>
       ELSE SetControlPlaneMode(Normal)
    /\ UNCHANGED <<game, machine, record, saved, applied, gaming, quitting,
                   coreUp, crashes>>

(* The process is gone, its memory with it.  again: Restart=on-failure     *)
(* takes the end for a failure.                                            *)
Ends(again) ==
    /\ pc' = Down /\ quitting' = FALSE /\ saved' = [i \in Items |-> "none"]
    /\ restarts' = again

(* ClearGamingState.  After the net, and when run returns, main returns:   *)
(* exit status 0.                                                          *)
BackRecord ==
    /\ Does(Stopping \cup Cleaning) /\ Step("record")
    /\ Records(FALSE)
    /\ gaming' = FALSE /\ applied' = {}
    /\ IF Does({"net", "leave"})
       THEN Ends(FALSE)
       ELSE pc' = Rest /\ UNCHANGED <<quitting, saved, restarts>>
    /\ UNCHANGED <<game, machine, core, kills, unrecorded>>

-----------------------------------------------------------------------------
(* The loop.                                                               *)

IsBlocked == coreFile \in Blocked

(* Mutant: a blocked cycle returns without a look at the session.          *)
CycleReturns ==
    /\ pc = Rest /\ ~IsBlocked
    /\ \/ game /\ ~gaming /\ pc' = Run("start") /\ applied' = {}
       \/ ~game /\ gaming /\ pc' = Run("stop") /\ UNCHANGED applied
    /\ UNCHANGED <<game, machine, record, saved, gaming, quitting, core, bounds>>

(* One cycle: blocked or not, then what Detect says.                       *)
Cycle ==
    /\ pc = Rest
    /\ \/ ~IsBlocked /\ game /\ ~gaming /\ pc' = Run("start") /\ applied' = {}
       \/ (IsBlocked \/ ~game) /\ gaming /\ pc' = Run("stop") /\ UNCHANGED applied
    /\ UNCHANGED <<game, machine, record, saved, gaming, quitting, core, bounds>>

(* SIGTERM, and what run makes of it between two cycles.                   *)
Quit ==
    /\ pc # Down /\ ~Does({"clean"}) /\ ~quitting    \* Notify follows the clean start
    /\ quitting' = TRUE
    /\ UNCHANGED <<game, machine, record, saved, applied, gaming, pc, core,
                   bounds>>

Leave ==
    /\ pc = Rest /\ quitting
    /\ IF gaming
       THEN pc' = Run("leave") /\ UNCHANGED <<quitting, saved, restarts>>
       ELSE Ends(FALSE)
    /\ UNCHANGED <<game, machine, record, applied, gaming, core, faults, kills,
                   unrecorded>>

(* Mutant: the state file is not looked at.                                *)
StartUnclean ==
    /\ pc = Down /\ pc' = Rest /\ restarts' = FALSE
    /\ UNCHANGED <<game, machine, record, saved, applied, gaming, quitting,
                   core, faults, kills, unrecorded>>

(* Start: ensureCleanStart looks at the file and nothing else.             *)
Start ==
    /\ pc = Down
    /\ pc' = (IF record THEN Run("clean") ELSE Rest) /\ restarts' = FALSE
    /\ UNCHANGED <<game, machine, record, saved, applied, gaming, quitting,
                   core, faults, kills, unrecorded>>

(* The process ends where it is.  Of the changes it has made only the file *)
(* can tell.                                                               *)
Crashes(again) ==
    /\ pc # Down /\ kills < MaxKills
    /\ kills' = kills + 1
    /\ unrecorded' = (unrecorded \/ (~record /\ changed # {}))
    /\ Ends(again) /\ gaming' = FALSE /\ applied' = {}
    /\ UNCHANGED <<game, machine, record, core, faults>>

(* SIGKILL, or a second panic, in the net: a failure for systemd, unless a *)
(* stop was asked for.                                                     *)
Kill == Crashes(~quitting)

(* A panic while gaming: the deferred safetyNet runs.                      *)
Panic ==
    /\ gaming /\ Does({"idle"} \cup Stopping) /\ kills < MaxKills
    /\ kills' = kills + 1
    /\ pc' = Run("net")
    /\ UNCHANGED <<game, machine, record, saved, applied, gaming, quitting,
                   core, faults, unrecorded, restarts>>

(* A panic while gaming is not set, in startGaming, in ensureCleanStart or *)
(* between sessions: safetyNet recovers from it and returns, and the       *)
(* process ends with status 0.                                             *)
PanicOutside == ~gaming /\ Crashes(FALSE)

-----------------------------------------------------------------------------
(* Around it.                                                              *)

(* A game that ends takes its processes along; those of one that starts   *)
(* have the mask of their parent.                                          *)
GameFlips ==
    /\ game' = ~game
    /\ IF game
       THEN changed' = changed \ {"games"} /\ freed' = freed \ {"games"}
       ELSE /\ UNCHANGED changed
            /\ freed' = IF "others" \in freed THEN freed \cup {"games"} ELSE freed
    /\ UNCHANGED <<record, daemon, core, bounds>>

(* hisnosd sets a mode or persists the one it has.                         *)
CorePersists ==
    /\ coreUp
    /\ \E m \in CoreModes \cup {coreMode} : coreMode' = m /\ coreFile' = m
    /\ UNCHANGED <<game, machine, record, daemon, coreUp, bounds>>

CoreStops ==
    /\ coreUp /\ coreUp' = FALSE
    /\ UNCHANGED <<game, machine, record, daemon, coreMode, coreFile, bounds>>

(* Mutant: hisnosd starts with no mode.                                    *)
CoreStartsBlank ==
    /\ ~coreUp /\ coreUp' = TRUE /\ coreMode' = "" /\ coreFile' = ""
    /\ UNCHANGED <<game, machine, record, daemon, bounds>>

(* It loads whatever mode the file names.                                  *)
CoreStarts ==
    /\ ~coreUp /\ coreUp' = TRUE /\ coreMode' = coreFile
    /\ UNCHANGED <<game, machine, record, daemon, coreFile, bounds>>

Works ==
    \/ \E p \in Phases : ApplyPhase(p) \/ StopPhase(p) \/ NetPhase(p)
    \/ StartMode \/ StartRecord \/ BackMode \/ BackRecord
    \/ Cycle \/ Leave

Next ==
    \/ Works
    \/ Quit \/ Start \/ Kill \/ Panic \/ PanicOutside
    \/ GameFlips \/ CorePersists \/ CoreStops \/ CoreStarts

(* The goroutine goes on, and systemd starts the service again after an    *)
(* end that it takes for a failure.  After any other end somebody may      *)
(* start it, or nobody.                                                    *)
Fairness == WF_vars(Works) /\ WF_vars(Start /\ restarts)

Spec == Init /\ [][Next]_vars /\ Fairness

-----------------------------------------------------------------------------
(* Properties.                                                             *)

AtRest == pc = Rest /\ ~gaming

(* Sessions that end, whether the game ends, the control plane blocks them *)
(* or the service is stopped, in any number and whatever hisnosd does      *)
(* meanwhile, leave none of their settings on the machine unless a write   *)
(* has failed or the process has crashed (stopGaming against startGaming). *)
(* Of interrupts, quotas, timer, table, governor and environment that      *)
(* means what they were before; of the CPUs of processes only that no      *)
(* session confines them: BroadReset gives every process every CPU, those  *)
(* no session has touched as well.                                         *)
SessionsLeaveNothing ==
    faults = 0 /\ kills = 0 /\ (AtRest \/ pc = Down) =>
        changed = {} /\ freed \subseteq Processes

(* A crash of a recorded session is cleaned up as far as no memory is      *)
(* needed for it: once the service is at rest again no process is pinned   *)
(* and the fast path is not loaded (ensureCleanStart, safetyNet), through  *)
(* further crashes in the clean-up itself.                                 *)
CrashesAreCleanedUp ==
    faults = 0 /\ ~unrecorded /\ AtRest =>
        changed \cap {"games", "daemons", "table"} = {}

(* A session ends while the control plane is preparing an update or in     *)
(* safe mode, or they end first (isBlockedByControlPlane, cycle).          *)
BlockedEndsGaming ==
    (gaming /\ IsBlocked) ~> (~gaming \/ ~IsBlocked)

(* When the game is over and nothing fails, the session that is on record  *)
(* is taken off it, whatever crashes come in between, or the service is    *)
(* down after an end that was no failure, which a panic in the clean-up of *)
(* its start can be, and nobody starts it (ensureCleanStart, Restart=).    *)
RecordIsCleared ==
    <>[](~game /\ faults = 0) => <>[](~record \/ (pc = Down /\ ~restarts))

(* "Phase 10 safety: never interfere with update or vault lock operations" *)
(* (main.go:430): no step of hispowerd takes hisnosd out of a mode that    *)
(* blocks it.                                                              *)
BlockedModeIsLeftAlone == [][Works /\ coreMode \in Blocked => coreMode' = coreMode]_vars
=============================================================================
