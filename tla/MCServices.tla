----------------------------- MODULE MCServices -----------------------------
(***************************************************************************)
(* What surrounds the control loop of hisnosd, for TLC: how it starts      *)
(* (LeaderGuard, and by the process that leads TransactionManager), the    *)
(* loops and commands that tune the machine (Tuning, RTGuard), the engine  *)
(* that answers threats (Decision), the plugins and the fleet policy       *)
(* (Registry, FleetSync), and the wizard of the first boot (Onboarding).   *)
(* They share no state, so a behaviour runs one of them, named by part,    *)
(* and of Tuning either the loops or the rollback, each beside the thermal *)
(* controller.                                                             *)
(***************************************************************************)
EXTENDS Tuning, LeaderGuard, TransactionManager, RTGuard, Registry, FleetSync,
        Onboarding

CONSTANTS
    NoHolder, SignalSets, Strengths, Projections, MaxIncidents  \* Decision

VARIABLES
    (* Decision *)
    mu, threshold, adjusted, suppressed, incidents, cooling, safeMode, engine,
    cluster, projected, serving, dcrashes,
    part        \* the part that runs

D == INSTANCE Decision WITH crashes <- dcrashes

FleetBundles == {[fleet |-> "any", signed |-> TRUE],
                 [fleet |-> "ours", signed |-> FALSE],
                 [fleet |-> "other", signed |-> TRUE]}

Logs == {<<1, 1, 1>>, <<3>>}

ASSUME EngineAssumption == D!DecisionAssumption

dvars == <<mu, threshold, adjusted, suppressed, incidents, cooling, safeMode,
           engine, cluster, projected, serving, dcrashes>>

allvars == <<vars, guardvars, journalvars, dvars, rtvars, pluginvars,
             fleetvars, wizardvars, part>>

(* A fault or a crash of what tunes the machine, not both.                 *)
OneFailure == faults + crashes <= 1

Leads == part = "leader"
OnlyLeads == UNCHANGED <<vars, journalvars, dvars, rtvars, pluginvars,
                         fleetvars, wizardvars, part>>

Journals == part = "journal"
OnlyJournals == UNCHANGED <<vars, guardvars, dvars, rtvars, pluginvars,
                            fleetvars, wizardvars, part>>

Decides == part = "decision"
OnlyDecides == UNCHANGED <<vars, guardvars, journalvars, rtvars, pluginvars,
                           fleetvars, wizardvars, part>>

Polices == part = "rt"
OnlyPolices == UNCHANGED <<vars, guardvars, journalvars, dvars, pluginvars,
                           fleetvars, wizardvars, part>>

Plugs == part = "plugins"
OnlyPlugs == UNCHANGED <<vars, guardvars, journalvars, dvars, rtvars,
                         fleetvars, wizardvars, part>>

Follows == part = "fleet"
OnlyFollows == UNCHANGED <<vars, guardvars, journalvars, dvars, rtvars,
                           pluginvars, wizardvars, part>>

Welcomes == part = "wizard"
OnlyWelcomes == UNCHANGED <<vars, guardvars, journalvars, dvars, rtvars,
                            pluginvars, fleetvars, part>>

(* The thermal controller and Apply run with either half of Tuning.        *)
Loops == part = "loops"
Rolls == part = "rollback"
Thermal == Loops \/ Rolls
OnlyTunes == UNCHANGED <<guardvars, journalvars, dvars, rtvars, pluginvars,
                         fleetvars, wizardvars, part>>

(* A part that does not run is in one of its initial states.               *)
MCInit ==
    /\ part \in {"leader", "journal", "loops", "rollback", "decision", "rt",
                "plugins", "fleet", "wizard"}
    /\ GuardInit /\ JournalInit /\ Init /\ D!Init /\ RTInit
    /\ RegistryInit /\ FleetInit /\ WizardInit
    /\ part # "journal" => coreState = NoState
    /\ part # "decision" => ~adjusted /\ ~safeMode
    /\ stored \in {"none"} \cup
                  (IF part \in {"loops", "rollback"} THEN {"ultra"} ELSE {})
    /\ part # "rt" => listed = {} /\ rt = {} /\ budget /\ budgetOK
    /\ part # "fleet" => keyring /\ fleetID = "ours" /\ identity = "none"
    /\ part # "wizard" => ~swap

MCNext ==
    \/ \E p \in Procs : Leads /\ Start(p) /\ OnlyLeads
    \/ \E p \in Procs : Leads /\ OpenLock(p) /\ OnlyLeads
    \/ \E p \in Procs : Leads /\ Flock(p) /\ OnlyLeads
    \/ \E p \in Procs : Leads /\ ReadPID(p) /\ OnlyLeads
    \/ \E p \in Procs : Leads /\ CheckAlive(p) /\ OnlyLeads
    \/ \E p \in Procs : Leads /\ UnlinkStale(p) /\ OnlyLeads
    \/ \E p \in Procs : Leads /\ WritePID(p) /\ OnlyLeads
    \/ \E p \in Procs : Leads /\ BindSocket(p) /\ OnlyLeads
    \/ \E p \in Procs : Leads /\ Shutdown(p) /\ OnlyLeads
    \/ \E p \in Procs : Leads /\ Release(p) /\ OnlyLeads
    \/ \E p \in Procs : Leads /\ Crash(p) /\ OnlyLeads
    \/ Journals /\ Load /\ OnlyJournals
    \/ Journals /\ Replay /\ OnlyJournals
    \/ Journals /\ ReplayLine /\ OnlyJournals
    \/ Journals /\ ReplayEnd /\ OnlyJournals
    \/ Journals /\ MigrateSchema /\ OnlyJournals
    \/ Journals /\ ApplyIntent /\ OnlyJournals
    \/ Journals /\ ApplyUpdate /\ OnlyJournals
    \/ Journals /\ ApplyCommit /\ OnlyJournals
    \/ Journals /\ DirectUpdate /\ OnlyJournals
    \/ Journals /\ Rotate /\ OnlyJournals
    \/ Journals /\ PowerLoss /\ OnlyJournals
    \/ Decides /\ D!Tick /\ OnlyDecides
    \/ Decides /\ D!Predict /\ OnlyDecides
    \/ Decides /\ D!AskOverride /\ OnlyDecides
    \/ Decides /\ D!AskSafeMode /\ OnlyDecides
    \/ Decides /\ D!Dispatch /\ OnlyDecides
    \/ Decides /\ D!RecordIncident /\ OnlyDecides
    \/ \E o \in Operators : Decides /\ D!Suppress(o) /\ OnlyDecides
    \/ \E o \in Operators : Decides /\ D!Mark(o) /\ OnlyDecides
    \/ Decides /\ D!TimePasses /\ OnlyDecides
    \/ Decides /\ D!SafeModeEntered /\ OnlyDecides
    \/ Decides /\ D!NewLearningState /\ OnlyDecides
    \/ Thermal /\ ThermalTick /\ OnlyTunes
    \/ Thermal /\ ThermalRaised /\ OnlyTunes
    \/ Loops /\ FrameTick /\ OnlyTunes
    \/ Loops /\ FrameEscalated /\ OnlyTunes
    \/ Loops /\ BalancerStart /\ OnlyTunes
    \/ Loops /\ BalancerTick /\ OnlyTunes
    \/ Loops /\ TimePasses /\ OnlyTunes
    \/ \E c \in Clients : Rolls /\ SetProfile(c) /\ OnlyTunes
    \/ \E c \in Clients : Rolls /\ RollbackToLatest(c) /\ OnlyTunes
    \/ \E c \in Clients : Rolls /\ Restore(c) /\ OnlyTunes
    \/ Rolls /\ TakeSnapshot /\ OnlyTunes
    \/ Rolls /\ FirewallChanges /\ OnlyTunes
    \/ \E c \in Callers : Thermal /\ Applies(c) /\ OnlyTunes
    \/ Thermal /\ HisnosdKilled /\ OnlyTunes
    \/ Thermal /\ MachineReboots /\ OnlyTunes
    \/ Polices /\ Scan /\ OnlyPolices
    \/ Polices /\ ScanFails /\ OnlyPolices
    \/ \E p \in PIDs : Polices /\ Demote(p) /\ OnlyPolices
    \/ \E p \in PIDs : Polices /\ Raises(p) /\ OnlyPolices
    \/ \E p \in PIDs : Polices /\ Leaves(p) /\ OnlyPolices
    \/ \E p \in PIDs : Polices /\ ExitsAndReuses(p) /\ OnlyPolices
    \/ Polices /\ BudgetChanges /\ OnlyPolices
    \/ Polices /\ NewRTGuard /\ OnlyPolices
    \/ \E o \in Operators : Plugs /\ Install(o) /\ OnlyPlugs
    \/ \E o \in Operators : Plugs /\ ExtractArchive(o) /\ OnlyPlugs
    \/ \E o \in Operators : Plugs /\ Register(o) /\ OnlyPlugs
    \/ \E o \in Operators : Plugs /\ SaveIndex(o) /\ OnlyPlugs
    \/ \E o \in Operators : Plugs /\ Enable(o) /\ OnlyPlugs
    \/ \E o \in Operators : Plugs /\ Disable(o) /\ OnlyPlugs
    \/ \E o \in Operators : Plugs /\ Uninstall(o) /\ OnlyPlugs
    \/ \E o \in Operators : Plugs /\ RemoveAll(o) /\ OnlyPlugs
    \/ \E o \in Operators : Plugs /\ Run(o) /\ OnlyPlugs
    \/ \E o \in Operators : Plugs /\ Exec(o) /\ OnlyPlugs
    \/ Plugs /\ DaemonDies /\ OnlyPlugs
    \/ \E s \in Syncs : Follows /\ FetchBundle(s) /\ OnlyFollows
    \/ \E s \in Syncs : Follows /\ VerifyBundle(s) /\ OnlyFollows
    \/ \E s \in Syncs : Follows /\ ApplyBundle(s) /\ OnlyFollows
    \/ \E s \in Syncs : Follows /\ Remember(s) /\ OnlyFollows
    \/ \E s \in Syncs : Follows /\ SaveBundle(s) /\ OnlyFollows
    \/ Follows /\ NewFleetSync /\ OnlyFollows
    \/ Follows /\ KeyringChanges /\ OnlyFollows
    \/ \E r \in Requests : Welcomes /\ StepWelcome(r) /\ OnlyWelcomes
    \/ \E r \in Requests, n \in {"vault", "firewall", "threat", "gaming"} :
          Welcomes /\ StepChoosing(r, n) /\ OnlyWelcomes
    \/ \E r \in Requests, n \in {"vault", "verify"} :
          Welcomes /\ Skip(r, n) /\ OnlyWelcomes
    \/ \E r \in Requests : Welcomes /\ Runs(r) /\ OnlyWelcomes
    \/ \E r \in Requests : Welcomes /\ Warns(r) /\ OnlyWelcomes
    \/ \E r \in Requests : Welcomes /\ Records(r) /\ OnlyWelcomes
    \/ \E r \in Requests : Welcomes /\ Marks(r) /\ OnlyWelcomes
    \/ \E r \in Requests : Welcomes /\ Complete(r) /\ OnlyWelcomes
    \/ \E by \in {"unit", "hand"} : Welcomes /\ WizardStarts(by) /\ OnlyWelcomes
    \/ Welcomes /\ WizardStops /\ OnlyWelcomes
    \/ Welcomes /\ SessionTimeout /\ OnlyWelcomes
    \/ Welcomes /\ DisableUnit /\ OnlyWelcomes
    \/ Welcomes /\ WizardDies /\ OnlyWelcomes

MCSpec == MCInit /\ [][MCNext]_allvars

-----------------------------------------------------------------------------
(* The type invariant of the part that runs; the others do not change.     *)
PartsTypeOK ==
    /\ Leads => GuardTypeOK
    /\ Journals => JournalTypeOK
    /\ Thermal => TypeOK
    /\ Decides => D!TypeOK
    /\ Polices => RTTypeOK
    /\ Plugs => RegistryTypeOK
    /\ Follows => FleetTypeOK
    /\ Welcomes => WizardTypeOK

=============================================================================
