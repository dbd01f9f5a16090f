# HisnOS: models, model checks and proofs

HisnOS is a hardened workstation: a Go control plane (`core/`, the daemon
`hisnosd`), a web dashboard (`dashboard/`), a gaming daemon
(`gaming/hispowerd`), a search daemon (`commandcenter/searchd`), an onboarding
wizard and a layer of shell scripts for updates, the vault, labs, egress and
recovery. This directory holds TLA+ modules translated from that code, the TLC
configurations that check them and TLAPS proofs about them. `PROJECT.json` maps
every definition to the lines it models, lists the runs, the mutants that show
each property can fail, the findings, the hazards and the theorems.

    tlc -workers 2 -config HisnosdAudit.cfg MCHisnosd.tla
    tlapm HisnosdProofs.tla

## 1. Inventory

### The core control plane (`core/`)

| part | state | operations | what is hard |
|---|---|---|---|
| `main.go` | goroutines, wiring | start-up, policy loop, callbacks that enter safe mode, heartbeats, shutdown | the loop reads a copy of the state, then acts on it in several updates |
| `ipc/server.go` | one goroutine per connection | eight mutating commands, the safe-mode gate, admission checks, subprocesses | check, subprocess, update: three steps, other clients between them |
| `policy/policy.go` | none | rules P1 to P8 and admission checks | the loop feeds on events its own actions publish |
| `state/state.go` | the state in memory and `core-state.json` | `Get`, `Update`, `persist`, load | a persist that fails after the memory has changed; crash |
| `eventbus/eventbus.go` | a buffered channel per subscriber | `Publish`, `Subscribe` | a full channel drops events |
| `supervisor/supervisor.go` | crash windows, backoffs | probe, vault and risk tickers, delayed restarts | reads the previous state before a slow probe, uses it after |
| `supervisor/self_healer.go` | attempts, disabled services, a ring of failures | probe rounds, restarts, correlation, giving up | late restarts reset records of newer failures |
| `runtime/safemode.go` | the enforcer's state and its file | `Enter`, `Exit`, `IsBlocked` | two callbacks enter at once; crash between memory, file and actions |
| `runtime/watchdog.go` | per subsystem: misses, restarts, breaker | one tick per second | unsynchronised tickers, restarts that outlive the breaker |
| `runtime/policy_enforcer.go` | a heap, a wake-up channel | `Submit`, the worker | lost wake-ups, hung actions |
| `runtime/transaction_manager.go` | a JSON-lines journal | `Apply`, replay, rotation, migration | power loss in every step, torn lines |
| `runtime/leader_guard.go` | a lock file, a socket | acquire, stale check, release | two starts at once |
| `orchestrator/*` | none, or a ring of snapshots | subprocesses; snapshot and restore of profile and firewall | partial failures, restores beside the loops |
| `performance/manager.go` and its runtimes | the profile, its file, the settings of the kernel | `Apply` under one mutex | many writes, a refusal or a kill between any two; an undo that undoes half |
| `performance/` loops | tier, frame ring, alerted and demoted PIDs | thermal, frame, IRQ and real-time ticks | they call `Apply` from their own goroutines, beside the operator; PIDs are reused |
| `automation/*` | clusters, learning state under a lock, cooldowns | evaluate, override, record | a lock taken twice stops the engine for ever |
| `marketplace` | an index, its file, a directory per version | install, enable, disable, uninstall, run | the lock covers the index, not the directories |
| `fleet` | identity, the last bundle, its cache | fetch, verify, apply, remember, save | two syncs at once, a key ring that comes and goes |
| `ecosystem/*` | manifests and queues on disk | stage, confirm, roll back | crash between steps |
| `health`, `telemetry`, `security`, `forensics` | histories, buffers, baselines | score, fan out, isolate, verify, capture | buffers at their limit |

### Beside it

- `dashboard/backend`: a control plane of its own (a mode, facts, their file),
  update runs, lab sessions with a lock file and a systemd unit, the vault, a
  confirmation token, an IPC client to `hisnosd`. Every HTTP request runs on its
  own goroutine; only the state manager has a lock, which no handler keeps from
  its guard to its transition.
- `gaming/hispowerd`: detects a session, applies CPU, IRQ, quota, firewall and
  tuning changes one after the other, sets the mode of `hisnosd` and records the
  session in a file, takes all of it back at the end, after a panic and at the
  next start. One goroutine; around it signals, and `hisnosd`, which shares its
  state file with it.
- `commandcenter/searchd`: an index fed by a scanner and a watcher.
- `onboarding/backend`: the first-boot wizard. A goroutine per request, a state
  under a lock with a file, a lock file against a second wizard, a unit it
  disables at the end; it runs `hisnos-vault.sh init`.
- shell: `update/`, `vault/`, `lab/`, `egress/`, `recovery/`, `systemd/`, `boot/`.
- `bootstrap/`, `dracut/`, image and installer scripts: one-shot.

### How the core interacts

The supervisor, the commands and the policy loop change one `SystemState`
through `Manager.Update` (a lock, then a persist under it) and publish events
on the bus. The loop has one subscription (64 events); on each event of a kind
it knows it evaluates a copy of the state and dispatches the actions it gets.
The enforcer of safe mode has a state and a file of its own; the watchdog and
the self healer enter it from their goroutines, `main.go` copies its state into
nothing, and only the watchdog's callback also sets the mode of the core state.
So "safe mode" is two facts, and several properties below are about how they
part.

### What makes each part correct

- control loop: no loss of a critical service is ever forgotten, whatever the
  interleaving, dropped events, auto-exit or a crash; the mode settles where
  the rules want it; the loop comes to rest.
- safe mode: once observed it survives a crash; what it promises to block stays
  blocked.
- watchdog: a bound on restarts, no silence missed, recovery.
- policy enforcer: a priority queue, nothing lost, nothing starved by a hang.
- self healer: giving up always means safe mode; the dead are given up on.
- transactions: committed means applied; the replay is truthful.
- leader guard: one leader; no crash locks the next start out.
- performance: every change of profile switches everything or nothing, and the
  name of the profile is true of the machine, whoever asks.
- real-time guard: a demotion is forgotten with its process.
- decisions: every evaluation ends.
- plugins: the file is the index; what it lists is there and has passed the checks.
- fleet: the policy that is reported was verified and applied.
- onboarding: done stays done; a recorded vault exists.
- dashboard: what is shown is what a restart would find; a guard that has been
  outdated lets no update be prepared over a rollback that waits and no lab be
  started over one; a lab that runs can be seen and stopped.
- hispowerd: no setting of a session stays behind; a crash is cleaned up after; a
  session gives way to the control plane.

## 2. Modules

| module | models | theorems in |
|---|---|---|
| `Policy` | `policy.go`, the mode guard of `server.go` | |
| `Hisnosd` | state manager, bus, server, loop, supervisor, enforcer composed | `HisnosdProofs` |
| `Watchdog` | `runtime/watchdog.go` and the heartbeats of `main.go` | `RuntimeProofs` |
| `PolicyQueue` | the abstract queue the enforcer promises | `RuntimeProofs` |
| `PolicyEnforcer` | the enforcer; implements `PolicyQueue` | `RuntimeProofs` |
| `SelfHealer` | `supervisor/self_healer.go` and its wiring | `RuntimeProofs` |
| `TransactionManager` | the journal, the state file and start-up | `StartupProofs` |
| `LeaderGuard` | the lock file, the socket, starts and crashes | `StartupProofs` |
| `ProfileSwitch` | the abstract change of profile: all or nothing | `TuningProofs` |
| `Performance` | the performance manager, write by write; implements `ProfileSwitch` | `TuningProofs` |
| `Tuning` | the loops and commands over it, the global rollback; implements `Performance` | `TuningProofs` |
| `RTGuard` | the guard against real-time priorities | `ServicesProofs` |
| `Decision` | the decision engine, its rules and the lock of the learning state | `MCServicesProofs` |
| `Registry` | the plugin registry: index, file, directories | `ServicesProofs` |
| `FleetSync` | identity, bundles, their cache | `ServicesProofs` |
| `Onboarding` | the wizard: handlers, state file, process, unit | `StartupProofs` |
| `ControlPlane` | the state manager of the dashboard: modes, transitions, file | `DashboardProofs` |
| `Dashboard` | the handlers of its API over it, lab units, crashes | `DashboardProofs` |
| `Hispowerd` | gaming sessions, their clean-up, hisnosd beside them | `HispowerdProofs` |
| `MCHisnosd` | instances of `Hisnosd` for TLC | |
| `MCRuntime` | `Watchdog`, `SelfHealer`, `PolicyEnforcer` for TLC | `RuntimeProofs` |
| `MCServices` | `LeaderGuard`, `TransactionManager` and the modules from `Tuning` to `Onboarding`, for TLC | `MCServicesProofs` |
| `MCDashboard` | `Dashboard` for TLC, by groups of handlers | `DashboardProofs` |
| `MCMachine` | `Hispowerd` for TLC, with kills or with failed writes | `HispowerdProofs` |

### `Hisnosd`

`st` is `Manager.state`, `disk` the state file; `pending` counts the events in
the loop's channel (what they say does not matter: the loop reads the state).
`cpc`/`creq` are the connections: a request passes the gate and its admission
checks in one step (`Admit`, one read of the state), runs its subprocess
(`CmdExec`), updates (`CmdUpdate`) and publishes (`CmdEmit`). `ppc`/`todo` are
the loop: `PolicyReceive`, `PolicyEvaluate` (the copy), then one
read-or-subprocess, update and publication per recommended action, in the order
of the rules. `sup` is the supervisor's goroutine, cut at each subprocess and
each update; `spawned`/`sleeping`/`crashes` are its restarts and crash windows.
`smActive`/`smDisk` are the enforcer, `esc` the two callbacks. `up`, `vault`,
`threat` and `ruleset` are the world the probes read. `CrashRestart` loses
everything but the two files and the world.

Where the code reads state once and uses it after a subprocess, the model keeps
the copy and interleaves. A persist may fail when `PersistMayFail` is TRUE.

`syncRisk` calls a method of `time.Time` on a string and so would not build as
written; its evident intent (skip an absent time stamp) is what is modelled.
`submitPolicyAction` is assigned to the blank identifier in `main.go`, and the
handler of `acknowledge_safe_mode` is never installed: neither path exists in
the model of the daemon. `applyStrict` of the firewall orchestrator never loads
the strict file, it reloads the default one: `ruleset` shows that.

### `Watchdog`

One subsystem, in seconds since the events that matter (ages), so that the
state space is finite without a clock: `age` of the last heartbeat drained,
`restarts` as ages inside the window, `openAge`, `backoff`, `wake` the sleeping
restarts by the seconds left. The two tickers are not synchronised:
`HeartbeatRound` may come anywhere between two of the watchdog's ticks, `due`
bounding its period. `started` is a history variable: the restarts of the last
window, whatever the breaker has forgotten since.

### `PolicyEnforcer`

The heap is the array of `container/heap`, and putting it in order is a step per
exchange (`SubmitUp`, `WorkerDown`), because `Less` and `Swap` are the code's and
a wrong order there is what could go wrong. `sift` is where the element stands
that is being moved, and as long as it is not 0 the mutex is held: nobody else
pushes or pops. A submission stamps, pushes, sifts and pokes; the worker wakes,
pops, sifts, takes the action and executes it. The refinement maps the heap to
the set of waiting actions: of the worker's steps only `WorkerTake` is one of the
queue, and of a submission's only `SubmitPush`.

### `SelfHealer`

Time is counted in probe rounds; the window is `WindowRounds` of them. `ring`
counts failures by age. A restart sleeps, runs `systemctl` and resets, each a
step that probe rounds may separate.

### `TransactionManager`

A state file is its version, whether it holds what a legacy file held (`kept`)
and the time it was written; a sum is the form (compact or indented) and the
state. A journal line is readable, a `Stump` (cut short, the next append
continues it) or `Garbage`. `Replay` reads the file, `ReplayLine` looks at one
line and may append a mark, `ReplayEnd` starts the rotation, which is a goroutine
of its own. `PowerLoss` is possible in every step of start-up.

### `LeaderGuard`

An inode per lock file ever created, `path` the one the name points to,
`holder` the flock of each, `content` the PID in it; processes start, crash,
stop and start again. `overlapped` is a history variable: has a process been
started while another was still starting? The guard keeps its promise until
then (`OneLeaderAtATime`), and not after (`bad_leader`). A PID is taken not to
be reused.

### `ControlPlane` and `Dashboard`

`cached` and `file` are `Manager.cached` and the state file; an operation of the
manager is one step, since its mutex covers all of it and the file is replaced
by a rename. It ends `ok`, `refused` (a transition `allowedTransitions` does not
list) or `failed` (the write failed: the cache has changed already). `stale` is
a history variable for that last case.

A handler is a chain of steps, one per call that reads or changes shared state
and one per subprocess: `req[r].at` is the next, `prev` the mode it will restore.
The names follow the handlers: `Prepare` is the guard of `UpdatePrepare`,
`PrepareBegin` its first transition, `PrepareScript` the minutes its script
takes, `PrepareFacts` and `PreparePending` or `PrepareRevert` its end. A lab
session is a name (`NamesSession`), a lock file (`lock`), a mode and a unit
(`unit`), set up in this order by `LabCheck`, `LabWrite`, `LabMode`, `LabRun`.
`RemoveLock` is shared: five places remove the file, none looks at whose it is.
The unit's own script is one of them (`UnitCleans`); it ends only after that,
with a last line for the journal (`UnitLeaves`), and runs until then (`Runs`).
`disturbed` is a history variable: have requests of the lab overlapped, has a
`systemctl` or `systemd-run` timed out, or has a crash cut one short?

This is the dashboard on its own: with `hisnosd` running, the vault lock, the
mode, gaming and the firewall reload are routed to it (`Hisnosd` models what it
does with them) and the dashboard's own mode does not follow. Guards on the
files of other components (the vault's lock file, the last kernel validation,
the firewall table) are open choices.

As written the handlers that discard the two results of `execpkg.Run`, or the
missing one of `execLogLabNetProfile`, into a single blank
(`api/lab.go:416`, `api/lab_network.go:162`) do not compile; modelled is their
evident intent, a message to the journal.

### `Hispowerd`

`pc` is the goroutine: idle, down, or at step `k` of one of five orders of steps,
which are the calls of `startGaming`, of `stopGaming` (at the end of a session,
or when the service leaves), of `safetyNet` and of `ensureCleanStart`. `changed`
is what has a setting of a session, by item; a phase writes each of its items
by a call of its own, any of which may fail. `freed` is what was given every CPU
instead of the mask it had: `BroadReset` does that to all processes, those no
session has touched (`others`) too, `EmergencyRestore` to the interrupts. So
`changed = {}` means that no session confines anything, and only together with
`freed` that the machine is as it was. `saved` is what a controller would
write back: it is the original value, or the leftover of an earlier session when
that is what it has read (`Before`). Items that a fixed command undoes
(`Switches`) have no such memory. `applied` are the flags in `Daemon.phases`,
`record` is `gaming_active` in the file. `ApplyPhase`, `StopPhase` and `NetPhase`
stand for five phases each; `RestoreCPU`, `RemoveTable`, `FreeIRQs` and `Restore`
are the controllers' ways back, each with what it forgets.

`games` and `daemons` are the processes a session has found. What they start
during it inherits its CPUs and is restored by nobody but `BroadReset`, threads
not even by that: the model says nothing of it (section 6). `hisnosd` is a mode in
memory, a mode in its file and whether it runs; what makes it change its mode is
`Hisnosd`. `unrecorded` is a history variable: did the process ever end with
changes made and no session on record?

A process ends in four ways. `Kill` is SIGKILL, or a panic in the safety net
itself: `Restart=on-failure` starts the service again (`restarts`), unless a stop
was asked for. After `Panic` the safety net runs, and `main` then returns.
`PanicOutside` is a panic while `gaming` is not set, in `startGaming`, in
`ensureCleanStart` or between sessions: `safetyNet` recovers from it and returns
(`main.go:379`). `Leave` is the orderly end. The last three exit with status 0, and
systemd does not start the service again; somebody may.

### `ProfileSwitch`, `Performance` and `Tuning`

`machine` are the settings the runtimes write, one field per runtime (`cpu`, `io`,
`mem`, `sched`), with a value for each row of `profileDefs` that differs; `irqs` is
the affinity of the interrupts, which the balancer writes too and the abstract
promise leaves out. `waits[c]` is the profile with which goroutine `c` has called
`Apply`, `lock` and `at` the holder of its mutex and the holder's next step; each
runtime is a step, and a refused write (logged, never returned) is possible in
each. `snap` is `captureSnapshot`: of what it holds the code puts back the CPU
settings only, in the one branch that can be taken (`ApplyIRQ`); `io`, `mem` and
`sched` never return an error, so the branches that would put back more are dead.
`known` is a history variable: the last `Apply` was whole and nothing (a refused
write, a kill in the middle, a reboot, a file out of date) has come after it that
would make the name untrue. `ProfileSwitch` promises that a switch that is
vouched for is a whole one; the mapping shows it the machine when the mutex is
free and the snapshot while somebody holds it, so that the whole of `Apply` is
one step.

`Tuning` adds who calls: the thermal controller (`ThermalTick`, and
`ThermalRaised` when its downgrade has returned), the frame predictor (its ring,
its percentiles, its cooldown), the interrupt balancer, the commands, and the
global rollback with its ring of snapshots. A snapshot is the profile that was
active, as in the hook of `main.go`; the firewall's part of it is empty.

### `RTGuard`

A process is its PID, whether its name is on the list and whether its policy is a
real-time one. `Scan` is the walk over `/proc` with `gcMaps` and the alerts, which
nothing separates; the demotions that follow are a step each, between which a
PID may have changed hands.

### `Decision`

`mu` is the write lock of `LearningState` and `engine` and `serving` are where the
engine and the overrides stand. `Dispatch` has the rules and `Pattern` the
patterns of the code, in halves of a point. The numbers before them (baseline,
clusters' decay, smoothing) come down to a set of signals, a strength and a
projected score, each an open choice.

### `Registry`

One plugin in several versions. `index` and `file` are the entry in memory and on
disk, `dir` what the directory of each version holds. `Install` is four steps
(checks and directory, archive, index, save), because the lock is taken twice and
the archive is unpacked under neither; `Uninstall` saves under the lock and
removes the files after it. `spoiled` is a history variable: have two operations
met on one version, or has an extraction or a save failed? `InstalledIsThere` is
about the behaviours where neither has happened; `lost` says that the last save
failed. What a signature or an archive holds is an `Offer`.

### `FleetSync`

A bundle is whom it is for and whether its signature is good. `applied` and
`skipped` are history variables: whose rules were all handed to the executor, and
has a bundle ever gone unverified for want of a key ring? The two goroutines that
sync are cut where each reads or writes what the other does.

### `Onboarding`

`mem` and `stateFile` are `Manager.s` and its file, `job[r]` where a handler is:
after its command (`record`, `warn`), before `MarkStepComplete` (`mark`). Each
`Update` is one step, since the manager's lock covers it, and fails to write
without anybody noticing, but for the one in `Complete`. `VaultMade` is
`hisnos-vault.sh init` as a subprocess without a terminal that is fed a
passphrase: with swap in use it asks a question first, and the passphrase is
its answer. `WizardStarts` is `main` up to the listener, by the unit or by hand;
`Exits` has the four ways out. `acked` is a history variable: `Complete` has
answered that the wizard is done.

### `MCRuntime`, `MCServices`, `MCDashboard` and `MCMachine`

The parts that `MCRuntime` and `MCServices` bring together share no variable, in
the code as in the models, so a behaviour runs one of them (`part`) and leaves the
rest in an initial state: interleaving them would multiply the states and add no
behaviour of any part. Where parts of the daemon do share state they are
composed: the supervisor's record, the mode, the enforcer and the event bus in
`Hisnosd`, the performance manager with its loops and the rollback in `Tuning`.
Of `Tuning`, a behaviour of `MCServices` has the frame predictor and the balancer
or the commands, the snapshots and the rollback, each beside the thermal
controller; a failed write or a restart, not both (`OneFailure`). `TuningProofs`
has all of them together. The names of the parts but `Decision` (an instance)
are distinct, so that one module can extend them all.

The handlers of the dashboard do share state. `MCDashboard` keeps each instance
small by the handlers a behaviour may call: updates with the operator's modes,
rollbacks and reboots; prepares with the vault; labs; and validations, the one
handler without a guard, with all of them. What is left out is only the three or
more kinds of request that would have to meet in one behaviour: the theorems of
`DashboardProofs` are about all handlers together.

A behaviour of `MCMachine` has kills and panics, or a write that fails, not both;
`HispowerdProofs` has both.

## 3. Runs

| run | configuration | properties | what it shows |
|---|---|---|---|
| `audit` | `HisnosdAudit.cfg` of `MCHisnosd` | `TypeOK`, `AuditLossNoticed`, `ObservedSafeModeIsDurable` | Two requests out of seven commands, the two callbacks that enter safe mode, a channel of one event, crashes of the daemon and of the audit logger: no interleaving leaves a dead audit pipeline recorded and unnoticed, and safe mode once observed survives a crash. |
| `modes` | `HisnosdModes.cfg` of `MCHisnosd` | `ModeSettled`, `FirewallLossNoticed` | Two connections against the loop while the firewall flaps and the score crosses its bound: the mode settles where the rules want it, and a firewall recorded inactive is never left without safe mode or an event on its way. |
| `live` | `HisnosdLive.cfg` of `MCHisnosd` | `AuditLossLeadsToSafeMode`, `ViewConverges`, `PolicyQuiesces` | Under scheduler fairness: a dead audit pipeline ends in safe mode, the record converges to the truth, the loop that feeds itself comes to rest. |
| `runtime` | `Runtime.cfg` of `MCRuntime` | `PartsTypeOK`, `RestartRate`, `SteadyIsHealthy`, `SilenceIsNoticed`, `GivenUpIsSafe`, `SilenceOpensCircuit`, `RecoveryClosesCircuit`, `DeadIsGivenUp`, `RunsByUrgency`, `WaitingIsRun` | Watchdog, self healer and policy enforcer: restarts are bounded, no silence is missed, the breaker opens and recovers; giving up on a service enters safe mode and the dead are given up on; the heap and its worker implement the queue by urgency. |
| `services` | `Services.cfg` of `MCServices` | `PartsTypeOK`, `OneLeaderAtATime`, `SocketIsLeaders`, `CommittedTookEffect`, `DemotionIsForgotten`, `FileIsIndex`, `InstalledIsThere`, `PolicyWasApplied`, `CompletionLasts`, `UnswappedVaultIsTrue`, `RefusedByTheLiving`, `SwitchesAtomically` | How the daemon starts, tunes the machine, answers threats, installs plugins, follows its fleet and is set up: one leader unless starts overlap, a committed transaction in the state file, every change of the profile a whole one against loops, rollbacks, failed writes and kills (a refinement of ProfileSwitch), an index that agrees with its file and with the directories, a policy that was applied, a wizard that stays done. |
| `dashboard` | `Dashboard.cfg` of `MCDashboard` | `TypeOK`, `FileIsCurrent`, `SerialLabIsTracked`, `StaleGuardIsCaught`, `ValidationDecides` | Two requests at a time with a write that fails and a crash: the file is the cache whenever the last write worked, an update prepared over a rollback or over one that waits for its reboot, and a lab opened over a rollback, are refused when the mode is set although the guard has passed, a validation decides the mode, and labs asked for one request at a time are tracked by their lock file. |
| `machine` | `Machine.cfg` of `MCMachine` | `TypeOK`, `SessionsLeaveNothing`, `CrashesAreCleanedUp`, `BlockedEndsGaming`, `RecordIsCleared` | Gaming sessions with a hisnosd that changes its mode at any time: with two kills or panics in any step, or with one write that fails, no setting of an undisturbed session stays, after a crash of a recorded one no process is pinned and no fast path loaded, a blocked session ends, a record of a session that is over is cleared unless the service has ended by itself and nobody starts it. |

All bounds are constants of the modules, with values in the configurations.

- `MaxEnv`, `MaxRequests` and `MaxRestarts` bound what the world, the clients
  and crashes of the daemon do; its goroutines are unbounded.
- `BufSize` is 1 or 2 (64 in the code): small enough for the channel to be full
  in many states, which is when events are dropped.
- `Scores` has one value on each side of the threshold of rule P7.
- `Clients`: the races between admission and update are pairwise. `audit` has
  one client and both escalators, `modes` two clients and no escalator.
- `MaxCrashes` in `Hisnosd` is how many crashes of a service its window counts:
  the escalation publishes one more event, which a full channel drops.
- The watchdog has the periods and thresholds of the code, in units of five
  seconds; its state space is closed without any bound on time.
- The self healer has the two services and the threshold of the code, and gives
  up after `MaxAttempts` = 2 instead of 6: a first restart may still be in flight
  when the service is given up on, and reset it afterwards. `MaxInFlight` = 1
  bounds the restarts of one service that overlap.
- The policy enforcer has two critical actions, which only the time of their
  submission orders, and one of high priority whose response may hang. Each is
  submitted once, from a goroutine of its own.
- `MaxLosses` = 3 power losses are one for each phase of a transaction;
  `MaxJournal` = 3 lines rotate within one start.
- Three processes let a stale file be unlinked under a start that is itself
  overtaken by another; `MaxInodes` = 6 is never reached, so that the lock files
  created are not bounded by it.
- `Tuning`: one client with the two loops that call `Apply` are three goroutines
  for one mutex, which one holds while two wait. A temperature that is nominal
  and one that is critical on a 100-degree part; a log of frame times with a spike
  and one without. The ring holds 3 of them (120 in the code) and is judged from 3
  (30), one snapshot of two is kept (5 in the code): each wraps or evicts.
- `RTGuard`: two PIDs, each to be reused any number of times; its states are
  closed without a bound on time.
- `Decision`: two operators and the engine, all three of whom want the lock; three
  sets of signals, a strength and a projection on each side of the
  thresholds; one incident (50 in the code), since the ring is not reached by an
  engine that stops at its first.
- `Registry`: two versions, so that an upgrade meets the version it replaces, and
  two goroutines; one failed write and one death of the daemon.
- `FleetSync`: two syncs; a bundle for everyone, an unsigned one for this fleet and
  one for another; one death (`MaxFleetCrashes`).
- `Onboarding`: two handlers at a time out of three requests, one write that fails
  and one kill: the third request may find what the other two have left.

- `Dashboard`: two requests at a time, since each race above is of a handler
  against another one; two sessions, one lock file naming the wrong one; one
  write that fails and one crash, of the labs either (`OneFailure`).

- `Hispowerd`: two kills, so that one may hit the clean-up after the other; one
  write that fails; one blocking mode for the six names that are treated alike.

Deadlock is checked for the dashboard, which always answers another request, and
for hispowerd, beside which games come and go. It
is not in the other runs: all but those of parts that never stop reach a bound,
and a part is run with its neighbours.

The runs named `bad_*` check one sentence of a comment or document each, and
end with the behaviour of the code that contradicts it (section 6).

### Fairness

`Hisnosd`: weak fairness of the loop, of each connection that has a request in
hand, of restarts and of the callbacks: the Go scheduler runs a runnable
goroutine. Strong fairness of the two branches of the supervisor's `select`:
each ticker fires again, and Go chooses among ready cases at random. Nothing
makes a client send, a service die or live, an escalator trip or the daemon
crash. `Watchdog` and `SelfHealer`: time passes (the tick, the probe round) and
a sleeping restart wakes. `PolicyEnforcer`: the worker runs, a started `Submit`
goes on; a hung subprocess need not return. `Hispowerd`: the goroutine goes on,
and a service that has ended with a failure starts again (`Restart=on-failure` in
`gaming/hispowerd/systemd/hisnos-hispowerd.service:18`; the two crashes of the run
stay below its limit of five starts in 120 s). Nothing starts it after any other
end, with a session on record or not: a panic in `ensureCleanStart` leaves one,
and `RecordIsCleared` promises nothing for a service that then stays down.
Nothing makes a game start or end. `Decision`: the
ticker fires and the engine's goroutine runs when it can; that is all
`bad_decisions` needs. The other parts of `MCServices` are checked for safety only.

## 4. Proofs

| theorem | module | property | establishes |
|---|---|---|---|
| `TypeCorrect` | `HisnosdProofs` | `TypeOK` | Every reachable state of the daemon has its type, for any clients, channel size and bounds. |
| `AuditLossIsNoticed` | `HisnosdProofs` | `AuditLossNoticed` | With persists that succeed, a recorded loss of the audit pipeline is always acted on or about to be noticed, for any number of clients and any channel size. |
| `FirewallRecorded` | `HisnosdProofs` |  | Without reload_firewall the two records of the firewall agree, in memory and on disk (the invariant FirewallAgrees). |
| `FirewallLossIsNoticed` | `HisnosdProofs` | `FirewallLossNoticed` | Without reload_firewall a recorded loss of the firewall is always acted on or about to be noticed. |
| `ModeIsSettled` | `HisnosdProofs` | `ModeSettled` | Without the watchdog callback, whenever nothing is on its way to the loop the mode is the one the rules want. |
| `SafeModeIsDurable` | `HisnosdProofs` | `ObservedSafeModeIsDurable` | With persists that succeed, an active enforcer that anyone can observe is on disk. |
| `WatchdogTypeCorrect` | `RuntimeProofs` |  | Type correctness of the watchdog for any periods and thresholds. |
| `RestartsAreBounded` | `RuntimeProofs` | `RestartRate` | At most circuitThresh restarts are started in any window, for every threshold, window, cooldown and backoff. |
| `GuardTypeCorrect` | `StartupProofs` |  | Type correctness of the leader guard for any set of processes. |
| `LeadersDoNotMeet` | `StartupProofs` | `OneLeaderAtATime` | As long as no start has overlapped another, at most one process leads, whatever crashes and in whatever step. |
| `SocketFollowsTheLeader` | `StartupProofs` | `SocketIsLeaders` | As long as no start has overlapped another, the bound socket is the one of the leader. |
| `DashboardTypeCorrect` | `DashboardProofs` | `TypeOK` | Type correctness of the dashboard for any requests, sessions and bounds on faults and crashes. |
| `FileFollowsCache` | `DashboardProofs` | `FileIsCurrent` | Whatever handlers interleave, unless the last write failed, the file on disk is the control plane the dashboard shows. |
| `GuardsHoldWhenSet` | `DashboardProofs` | `StaleGuardIsCaught` | No step of any number of concurrent requests prepares an update over a rollback or over one that waits for its reboot, or takes rollback-mode to a lab, although the guards were checked in an earlier step. |
| `VerdictBecomesMode` | `DashboardProofs` | `ValidationDecides` | The verdict of a validation becomes the mode from whatever mode other requests, failed writes and crashes have left. |
| `LabsAreTracked` | `DashboardProofs` | `SerialLabIsTracked` | As long as lab requests do not overlap and systemctl answers, the lock file names every lab that runs, and there is at most one, for any number of requests and sessions. |
| `HispowerdTypeCorrect` | `HispowerdProofs` | `TypeOK` | Type correctness of hispowerd, for any bounds on failed writes and kills and any modes that block. |
| `NothingIsLeft` | `HispowerdProofs` | `SessionsLeaveNothing` | Any number of sessions, however they end, leave no setting of theirs as long as no write fails and nothing crashes: interrupts, quotas, timer, fast path, governor and environment are what they were, and no process is confined to the CPUs a session gave it; its mask may be all CPUs instead of what it was. |
| `CleanedUpAfterCrashes` | `HispowerdProofs` | `CrashesAreCleanedUp` | After any number of kills and panics of recorded sessions, in the clean-up too, no process is pinned and no fast path loaded once the service is at rest. |
| `ApplySwitchesAtomically` | `TuningProofs` | `SwitchesAtomically` | Apply implements ProfileSwitch: for any set of callers, and any bounds on failed writes and kills, every change of the profile is the whole change or none. |
| `NameDescribesMachine` | `TuningProofs` |  | Whenever the manager vouches for the profile it names, the machine has that profile's tuning. |
| `TuningImplementsPerformance` | `TuningProofs` |  | The loops, the balancer, the commands and the rollback, whatever they do, are callers of Performance: Tuning refines it. |
| `TuningSwitchesAtomically` | `TuningProofs` | `SwitchesAtomically` | So with all of them running every change of the profile is whole. |
| `FileIsTheIndex` | `ServicesProofs` | `FileIsIndex` | For any operators and versions, the index on disk is the one in memory whenever no save is due and none has failed. |
| `InstalledPluginsAreThere` | `ServicesProofs` | `InstalledIsThere` | For any operators, a plugin of the index is in its directory, unless an install and a removal of it overlapped or it was spoiled by a failure. |
| `WizardStaysDone` | `StartupProofs` | `CompletionLasts` | For any number of requests, failed writes and crashes, a wizard that has said it is done is done on disk for ever. |
| `UnswappedVaultIsMade` | `StartupProofs` | `UnswappedVaultIsTrue` | Without swap a vault that is recorded was made, for any number of requests and crashes. |
| `SteadySubsystemIsHealthy` | `RuntimeProofs` | `SteadyIsHealthy` | A subsystem that stays alive is never counted as missing, whatever the phase of the two tickers, for any period not above the SLA. |
| `NoSilenceIsMissed` | `RuntimeProofs` | `SilenceIsNoticed` | Two ticks past the SLA a silent subsystem has a restart in the window, or the breaker is open or has just closed. |
| `HealerTypeCorrect` | `RuntimeProofs` |  | Type correctness of the self healer, for any finite set of services: no count of attempts or failures passes its limit. |
| `GivingUpIsSafe` | `RuntimeProofs` | `GivenUpIsSafe` | A service that is given up on has put the daemon into safe mode before the probe goroutine goes on, whatever restarts do meanwhile. |
| `EnforcerTypeCorrect` | `RuntimeProofs` |  | Type correctness of the policy enforcer for any actions: the sifting stays inside the heap. |
| `HeapRunsByUrgency` | `RuntimeProofs` | `RunsByUrgency` | The policy enforcer implements PolicyQueue: the heap sifted step by step, the channel of one poke and the worker run each action once, the most urgent and then the oldest first. |
| `PartsTypeCorrect` | `RuntimeProofs` | `PartsTypeOK` | Type correctness of the watchdog, the self healer and the enforcer in every behaviour of the composition. |
| `RunsAreSafe` | `RuntimeProofs` | `RunsByUrgency` | Every other safety property of the composition, carried over from its parts. |
| `NoStartIsRefusedInVain` | `StartupProofs` | `RefusedByTheLiving` | A start is refused only because of another process that has not ended, for any processes, crashes and overlaps. |
| `JournalTypeCorrect` | `StartupProofs` |  | Type correctness of the journal, the state file and start-up, for any length of the journal and any number of power losses. |
| `JournalInvariant` | `StartupProofs` |  | The inductive invariant of the journal: whose sums its lines hold, which lines may be marked committed at which step of Apply, and that time stamps only grow. |
| `CommittedIsInTheFile` | `StartupProofs` | `CommittedTookEffect` | What the journal calls committed is in the state file, and it is one transaction, whatever power losses cut short and rotation drops. |
| `ReplayRedoesNothing` | `StartupProofs` |  | The replay never finds a transaction whose result is in the file, although that is what it looks for: Apply has hashed another encoding. |
| `RegistryTypeCorrect` | `ServicesProofs` |  | Type correctness of the plugin registry, with its counters of failures and deaths. |
| `FleetTypeCorrect` | `ServicesProofs` |  | Type correctness of the fleet sync for any bundles and goroutines. |
| `RememberedPolicyWasApplied` | `ServicesProofs` | `PolicyWasApplied` | The bundle that is remembered and cached was handed to the executor, is not for another fleet and was verified unless a check was skipped, for any number of overlapping syncs. |
| `RTTypeCorrect` | `ServicesProofs` |  | Type correctness of the real-time guard for any PIDs. |
| `DemotionsAreForgotten` | `ServicesProofs` | `DemotionIsForgotten` | Whom the guard takes for demoted is among those it has alerted about, so that a PID that changes hands is forgotten, for any PIDs. |
| `WizardTypeCorrect` | `StartupProofs` |  | Type correctness of the wizard, its file, vault and unit, for any number of requests, failed writes and kills. |
| `AllPartsTypeCorrect` | `MCServicesProofs` | `PartsTypeOK` | Type correctness of all eight parts of the composition, the decision engine with its bounded threshold and ring of incidents among them, for any values of the constants. |
| `AllPartsAreSafe` | `MCServicesProofs` | `SwitchesAtomically` | Each behaviour of the composition is one of every part, so that every other safety property of the run holds for any values of the constants. |
| `DashboardRunIsSafe` | `DashboardProofs` | `StaleGuardIsCaught` | Every property of the run holds of all instances of what it checks: a behaviour of a part of the handlers is one of the dashboard. |
| `MachineRunIsSafe` | `HispowerdProofs` | `SessionsLeaveNothing` | Every safety property of the run holds of all instances of what it checks, with kills or with failed writes. |

**`HisnosdProofs`.** The invariant that is inductive adds to the property what
each goroutine carries between its steps: a copy that is stale can only be
stale in the direction that leaves an event on its way. For the audit pipeline:
if the logger is recorded dead outside safe mode, then an event is pending, or
the loop has one in hand, or its list still has the entry to safe mode, or a
command or the supervisor is between its update and its publication; and the
same of the disk, which a crash brings back, since start-up publishes an event
after the loop has subscribed. A dropped event needs no case of its own, since
a full channel is not empty: this is why the proof needs `BufSize > 0` and
nothing more. For the firewall, `FirewallAgrees` comes first: the rule looks at
`Firewall.Active` while the supervisor compares `NftablesAlive`.

Assumptions: those theorems about durability and about the audit assume
`PersistMayFail = FALSE` (a failed persist leaves an older state on disk and the
newer one in memory, and nobody undoes it), those about the firewall that
`reload_firewall` is not among the commands (`bad_firewall_loss` shows what it
does), the one about the settled mode that the watchdog's callback, which
publishes nothing, is not among the escalators.

**`RuntimeProofs`.** The proofs are about the steps of each part, without its
fairness (`WatchdogSteps`, `HealerSteps`, `EnforcerSteps`); `PartsRunAlone` shows that
a behaviour of the composition `MCRuntime` is one of each, so that `PartsTypeCorrect`
and `RunsAreSafe` carry all of them over to the specification the run checks.

*Watchdog.* `Thresh` restarts counted in the window trip the breaker, and when the
breaker closes it forgets what it has counted. `NoneForgotten` says why that loses
nothing: as long as it is open the restarts are older than its opening, so that a
cooldown no shorter than the window (5 minutes and 60 seconds in the code, an
assumption of the module) has pushed them all out. The theorem then bounds the
restarts really scheduled (`started`), not the breaker's own count. `BeatsInTime`
relates the two tickers nobody synchronises: the age of the last heartbeat drained
and the time to the next one add up to one period, which the SLA must not be below
(an assumption; 20 and 30 seconds in the code). `SilenceCounts` says how far the
age and the misses have come after each second of silence.

*Self healer.* That the attempts of a service stay within its limit is not inductive:
`LimitDisables` adds that one past it is disabled or about to be, `RoundCounts` that
the failures of a round and the services still to probe are together no more than
there are services, which bounds the ring. `GivenUpIsSafe` then follows step by step,
with the late restarts that clear counts in between. Any finite set of services.

*Policy enforcer.* `Less` is a strict weak order whatever the time stamps
(`LessIsAnOrder`). `HeapOrder` is the heap property but at one place: while an element
rises, but between it and its parent (`OrderedBut`), while one sinks, but between it
and its children, with the one to be popped already at the end and no less urgent
than any (`SinksOrdered`). That nothing in an ordered heap is more urgent than its root
(`RootIsFirst`) would be an induction on the index; instead the least index for which
it failed has a parent for which it fails too (`LeastNumber`). `Mutex` says who sifts,
`Books` that no action is twice in the heap and what is there was stamped. Then what `WorkerTake`
takes is as urgent as any that waits (`TakenIsFirst`), and each step is one of
`PolicyQueue` or a stutter: `HeapRunsByUrgency`, for any actions and submissions.

**`StartupProofs`.** *Leader guard.* As long as starts do not overlap, a starting
process is alone, and the one that leads holds the lock on the inode its name points
to and has written its PID there: the stale check then never takes it for dead. The
invariant says so in five parts (`Alone`, `OwnsLock`, `OnThePath`, `Announced`,
`Undisturbed`), whatever crashes have left in the files before. That no start is
refused in vain holds with overlaps too: `NotWritten` says that a process that has
not written its PID finds it in no file, so that the PID it asks the kernel about is
another's.

*Transaction manager.* `CommittedTookEffect` alone is not inductive; `JournalInv` adds
whose sums the lines hold (`CompactSums`), that no time stamp lies ahead of the clock
(`InThePast`), what `Apply` has done at each of its steps (`Stages`: nothing is
committed yet while a migration is under way), and that memory is as current as the
file (`InStep`). The proof turned up what `ReplayRedoesNothing` states: the replay
would mark a line whose after-sum is the file's, but the sums in the journal are of
the compact encoding and the file holds the indented one, so that it never does; the
only marks are those of `ApplyCommit`. Lemmas say what the helpers do to the lines
(`AppendedLines`, `CutShortLines`, `RotatedLines`). Any journal length and any number of
power losses; the assumptions say that the three model values are no lines and no
state.

*Wizard.* `WizardInv` adds to `CompletionLasts` that a wizard that is gone has
no handler left (`GoneIsIdle`), since a handler that went on would write an older
state over the completed one, and to the record of the vault that a handler about to
record it comes from a script that has made it, unless the machine has swap
(`RecordsMade`). `WizardBounds` keeps its counters. Any number of handlers and
requests. The assumptions are that `NoFile` is no state and the bounds are naturals.

**`DashboardProofs`.** Any number of requests of any kind, any sessions, any
bounds on failed writes and crashes. `Inv` (types and the current file) is
preserved by each operation of the manager, once, in lemmas about
`ControlPlane`; the handlers inherit it, since they change the control plane by
those operations only. `StaleGuardIsCaught` speaks of two steps of a handler
with any number of steps of others in between: what the guard saw is gone, and
the proof rests on `allowedTransitions` alone. `ValidationDecides` needs to know
who may move a request: `HandlerMoves` says that only its own handler does, so
that a validation that carries its verdict still carries it when it writes.
`LabInv` serves `SerialLabIsTracked`: while nothing has been disturbed, either no
lab request is under way and the lock file tells the truth (`Calm`), or exactly
one is (`Alone`), and what it has learned so far (`Local`) says that no unit is
active when it goes on to remove the file. Assumptions: `MaxFaults` and
`MaxCrashes` are naturals, `NotLoaded` is no mode and `NoSession` no session.
`DashboardRunIsSafe` carries the five theorems over to what `MCDashboard` runs.

**`HispowerdProofs`.** `Accounted` says of each change who will take it back: the
clean-up of the next start (down, with a record), the clean-up under way, if it
has not come to that phase, or the session, if it has applied the phase and not
yet restored it, still has it flagged and has saved the original value. A session
never reads a leftover as the original, because it starts with nothing changed.
Undisturbed, all items are accounted for (`AllAccounted`); it takes `Settled` to
see that no clean-up runs then, which would have nothing to write back, and from
it follows that only processes are given every CPU (`OnlyMasks`). With kills
and panics only what is taken back without memory is (`MemorylessAccounted`). The
only assumptions are that the bounds are naturals and that the mode names differ.
`MachineRunIsSafe` says the same of what `MCMachine` runs.

**`TuningProofs`.** The inductive invariant `IInv` is the types and `Halfway`: who
holds the mutex has called with a profile; while he holds it, the fields that his
steps have passed have his profile's values unless a write was missed, and those
ahead of him are still the snapshot's. From it each step of `Performance` is a step of
`ProfileSwitch` or a stutter (`ApplySwitchesAtomically`), for any callers and any
bounds. The last step is the whole switch: by then nothing lies ahead. A failed
scan is a stutter, since what was written is what is put back, or else the
switch is vouched for no longer. `NameDescribesMachine` is the abstract invariant
carried over: as long as it is `known`, the machine has the tuning its profile
names. `TuningImplementsPerformance` shows that the loops, commands and rollback only
ever call. It needs to know that the entry a rollback has picked names a profile,
and so that what is kept of the snapshots are entries (`KeptInMemory`, by lemmas about
`LastOf`). `TuningSwitchesAtomically` joins the
two. Assumptions: `NoCaller` is no caller, `NoEntry` no entry, the bounds are
naturals, the callers are the clients and the two loops.

**`ServicesProofs`.** *Registry.* `FileIsIndex` is nearly inductive: it needs the types. That the
listed versions are in place is about several goroutines, some between the
two critical sections of an install: `Clean` says that those at work are on versions
of their own (`Apart`), that an archive unpacked and not yet registered is whole
(`Extracted`), that a version being removed is on no list (`RemovedAreDelisted`), and
that what is listed is there (`ListedAreThere`). It holds as long as nothing is
`spoiled`; the assumptions are that `NoVersion` is no version and that the bounds are
naturals.

*Fleet sync.* `PolicyWasApplied` is about what any of several overlapping syncs has
fetched, checked and executed before it remembers and saves: `Checked` and `Executed`
say it of the bundle each carries at each of its steps, while the others, the key ring
and restarts move on (`OthersDoNotProceed`, `AppliedStays`). Any bundles and goroutines.

*Real-time guard.* `DemotionIsForgotten` is inductive: the walk of a scan drops from
both maps together, and whom it finds to demote it has alerted about.

**`MCServicesProofs`.** `DecisionKeepsTypes` types the engine: the threshold stays
between the limits of the code because `Adjusted` clamps it, whatever operators mark
(`AdjustedStaysInBounds`), an evaluation and an override hold what their next step
expects (`EvaluateKeepsTypes`, `OverrideKeepsTypes`), and the incidents stay within the
ring. A step of the composition is a step of one part (`OnePartMoves`), and the others
stand still; so a behaviour of it is one of every part (`PartsRunAlone`), and the
theorems of `TuningProofs`, `StartupProofs` and `ServicesProofs` are theorems about it:
`AllPartsTypeCorrect` and `AllPartsAreSafe` have every safety property the run checks.
The assumptions are those of the parts.

What stays with TLC. Liveness, since fairness is out of the prover's reach:
`SilenceOpensCircuit`, `RecoveryClosesCircuit`, `DeadIsGivenUp` and `WaitingIsRun` of
`runtime`, `AuditLossLeadsToSafeMode`, `ViewConverges` and `PolicyQuiesces` of `live`,
`BlockedEndsGaming` and `RecordIsCleared` of `machine`. Every invariant and every
property of steps that a passing run checks is also a theorem.

## 5. Not modelled

- `Exit` of the enforcer, `RollbackTo` and `ReadJournal` of the transaction
  manager, `Registry.Dispatch`, `CorruptionDetected`: not called by the daemon.
- `Revert` and the queue of kernel arguments of the performance manager, the NUMA
  scheduler: called by nothing, or written and read by nothing else.
- `RollbackTo` of the global rollback, `Stop` of the balancer and of the guards:
  called by nothing.
- The statistics in front of the decision engine (`risk_predictor`'s smoothing,
  `confidence_model`, `baseline_engine`, `longterm_projection`): numbers whose
  outcome is an open choice of `Decision`.
- `cmd/hisnos-pkg`, which prints and calls; of the vault scripts everything but
  `init`, which the wizard runs.
- Dry run, logging, metrics, the wording of messages.
- The path from a corrupt journal to safe mode is in `TransactionManager`, not
  repeated in `Hisnosd`. A clean shutdown ends in a persist of the state it has:
  with persists that succeed it is a crash.
- Restart delays are read without a lock (`supervisor.go`); only the length of a
  sleep depends on them, which the model leaves open.
- Components marked `not_modelled` in `PROJECT.json`; the plan follows.

### Plan

What would come next, in this order, and what is worth proving of it.

1. `Updates`: the update manager, channels and deployment graph of
   `core/ecosystem`, boot counting (`health/boot_scorer.go`) and the update and
   recovery scripts, composed over the deployments on disk.
2. The rest of the dashboard, beside `ControlPlane` and `Dashboard`: the firewall
   and gaming routes, and the network of a lab (`lab_network.go` and the netd
   socket), as parts of `MCDashboard`.
3. The recovery script of hispowerd (`gaming/hisnos-hispowerd-recover.sh`), as a
   step of `Hispowerd` that an operator or a unit may take at any time.
4. As parts of `MCServices`: the telemetry streams at their limits, containment,
   the search index, the vault scripts beside `init`.
5. Proofs: what leads to the liveness properties, one step of it at a time, as
   the invariants of `Hisnosd` do it for the loss of the audit: from each state in
   which a promise is owed there is somebody whose step brings it nearer, and no
   step of another takes it back.

## 6. Findings

- `bad_firewall_loss` (`FirewallLossLeadsToSafeMode`, src/core/ipc/server.go:391; the words differ from the code): cmdReloadFirewall sets Firewall.Active without looking at the service. The supervisor writes Firewall.Active = alive in every round (supervisor.go:173-182) and so takes it back, but emits EventFirewallDead only when its own field NftablesAlive falls (184-194), which it has not done if nftables died again before a probe saw it up. In the behaviour found the loop has spent its last event on the record that the command wrote; the record turns inactive without an event, and the daemon stays in normal mode with nftables dead. core/policy/policy.go:85 says "P4: Firewall inactive → enter safe mode" and docs/AI-REPORT.md:3236-3237 "Safe mode activates when: 1. nftables.service inactive (P4)".
- `bad_leader` (`OneLeader`, src/core/runtime/leader_guard.go:85; the words differ from the code): A start that fails to lock reads a file the holder has not yet written, takes the empty or old PID for stale, unlinks the file and locks a new one. core/runtime/leader_guard.go:3 says "LeaderGuard ensures exactly one hisnosd instance is active at any time".
- `bad_decisions` (`EvaluatesForEver`, src/core/automation/learning_state.go:186; a bug): save takes ls.mu for reading while its four callers (lines 83, 92, 111 and 127) hold it for writing, which a sync.RWMutex never grants: the goroutine that records an incident or serves an override never returns, no evaluation follows, and automation-state.json is never written. core/automation/decision_engine.go:3 says "Reads threat state from /var/lib/hisnos/threat-state.json every 30 seconds." and docs/ARCHITECTURE-CORE.md:612 "RecordIncident → persist to automation-state.json".
- `bad_vault` (`VaultRecordIsTrue`, src/vault/hisnos-vault.sh:112; a bug): cmd_init warns of swap (zram included) and reads a confirmation from its standard input, where the wizard has put the passphrase; the answer is not "yes", and the script prints "Aborted." and exits 0. onboarding/backend/api/wizard.go:123-126 takes that for a vault, records VaultInitialized and marks the step done. onboarding/backend/api/wizard.go:89 says "StepVault initialises the gocryptfs vault with the given passphrase."
- `bad_mode` (`BlockedModeIsLeftAlone`, src/gaming/hispowerd/main.go:347; a bug): stopGaming sends set_mode "normal" whatever the mode has become since the session began, and hisnosd accepts it from safe-mode, rollback-mode and update-preparing (core/ipc/server.go:512-525). A session that is stopped because the control plane is in a blocking mode takes it out of that mode. gaming/hispowerd/main.go:430 says "never interfere with update or vault lock operations".

Seen while translating, without a run of their own; the model does what the code
does in each case:

- *Leaving safe mode.* `dispatchLegacyAction` (`core/main.go:505`) leaves it on
  rule P7 alone, never asking the enforcer, and `main.go` installs no handler for
  the acknowledgement. `core/runtime/safemode.go:24-28` and
  `docs/ARCHITECTURE-CORE.md:293-297` list the acknowledgement of the operator.
- *`set_mode` in safe mode.* `SafeModeBlockedCommands` (`core/runtime/safemode.go:57`)
  has no entry for it; line 14 says "Block all mutating IPC commands (set_mode
  except to safe-mode".
- *Starts across a change of mode.* `cmdStartLab` (`core/ipc/server.go:330`) checks
  a copy of the state, runs a subprocess and updates without checking again: a
  lab can be recorded started in safe mode, though `core/policy/policy.go:103`
  says "block lab and gaming starts".
- *Restarts.* `checkAll` (`core/supervisor/supervisor.go:186`) schedules a restart
  when a probe changes from alive to dead: a service that stays dead is restarted
  once. Line 246 says "Double the delay for next attempt".
- *Repeated crashes.* The escalation (`core/supervisor/supervisor.go:228`) only
  publishes an event, and no rule counts crashes; `docs/AI-REPORT.md:3261` says
  "if > 3 crashes in 5min → safe mode".
- *A failed persist.* `Update` (`core/state/state.go:144`) returns the error with the
  change made in memory.
- *Strict rules.* `reload` (`core/orchestrator/firewall.go:67`) restarts nftables
  with its own configuration; `core/runtime/safemode.go:63` says "reload_firewall
  to non-strict profile is blocked". They are not loaded again after a restart of
  the daemon either.
- *Sleeping restarts.* The goroutines that sleep out a backoff
  (`core/runtime/watchdog.go:220`) do not look at the breaker again and restart
  with it open; lines 10-11 say "stop auto-restart".
- *Hung subprocesses.* `execute` (`core/runtime/policy_enforcer.go:205`) waits for a
  response that ignores its context: one that hangs holds back every later
  action, whatever its priority and its timeout (lines 8, 14, 76).
- *Self healer.* `Reset` of a late restart clears the attempts of a service just
  disabled, not the disabling (`core/supervisor/self_healer.go:182`); the
  correlation counts failures, not services (244; lines 11-13 say "distinct
  services"), and with two services could never reach its threshold of three
  otherwise; the branch that finds a correlation returns before the restart its
  attempt was counted for (148).
- *Journal.* The sums of a transaction are taken of compact JSON, the file holds
  the indented form, so that an intact file matches neither and is reported
  corrupt after a crash (`core/runtime/transaction_manager.go:190`,
  `core/state/state.go:172`); an append continues a line a crash has cut short,
  which loses the entry (85, 117-120); `load` refuses version 0, so that
  `MigrateSchema` never sees a legacy file (`core/state/state.go:162`);
  `MigrateSchema` runs on a file of a newer version only, and lowers it;
  `StateChecksum` reads the default path whatever `-state` says.
- *Risk.* Rule P3 raises it while the vault is mounted and a lab active, and the
  supervisor writes the measured one back: the two alternate for ever, which is
  why `HisnosdLive` has no `start_lab`.
- *Prepare, then apply.* `docs/OPERATOR-GUIDE.md:267-268` posts one after the
  other. A prepare that has ended well leaves update-pending-reboot, in which
  `UpdateApply` answers 409 (`api/update.go:189`); only a validation or the start
  of a lab leads out.
- *Reverting.* `docs/AI-REPORT.md:2156` has handlers "explicitly revert to that
  mode on failures". From rollback-mode the table of transitions leads to normal
  and vault-mounted only, so a rollback that fails and was started from gaming or
  lab-active stays in rollback-mode; the error is discarded
  (`api/update.go:312`, 319). A prepare that fails restores the mode it saw
  minutes ago: it ends a rollback-mode set meanwhile, or shows a vault mounted
  that has been locked.
- *Preparing is not exclusive.* Between the guard (`api/update.go:100`) and the
  transition (109) a second prepare passes, and a transition to the same mode is
  accepted; a prepare and a rollback both run their scripts. `UpdateValidate` asks
  no guard and sets the mode to normal while a prepare runs, after which the
  firewall reload that `docs/AI-REPORT.md:2042` blocks is accepted.
- *A failed write* (`state/control_plane.go:212`) leaves the new mode in the
  cache: `UpdatePrepare` and `LabStart` answer with an error and the mode stays
  update-preparing or lab-active.
- *A crash during a prepare* leaves update-preparing in the file; only an apply
  or a validation leads on.
- *The vault.* `hisnos-update.sh apply` locks it, `UpdateApply` does not record
  that.
- *Reboots.* The header of `api/reboot.go` says the mode must not be
  rollback-mode; the handler allows it and says why.
- *The lab's runtime.* `_update_session_net` never updates the session file
  (`SESSION_FILE` is not in the environment of its Python process); the trap of
  SIGTERM and the one of EXIT both run the clean-up; for the profiles that need a
  network the script opens the write end of a FIFO before anything can open the
  other and waits there (`lab/runtime/hisnos-lab-runtime.sh:405`).
- *A crash of hispowerd* loses the saved values: `ensureCleanStart`
  (`gaming/hispowerd/main.go:409`) restores from controllers that have saved
  nothing, so that interrupt masks, quotas, the governor, the stopped vault timer
  and the environment file stay as the session made them, and the record is
  cleared. Line 22 says "Never leaves IRQ masks modified". Killed before its
  record is written (253), a session leaves its CPUs and the fast path as well;
  lines 21 and 23 say "Never leaves cores isolated after crash" and "Never leaves
  nftables fast path loaded". A panic before `gaming` is set (268) is no
  better off: `safetyNet` recovers from it and returns (379), the process ends with
  status 0 and systemd does not start it again; so does one in the clean-up of a
  start, which leaves `gaming_active` on record with nobody to take it off. Line 13
  says "On panic/crash: deferred safetyNet() restores all subsystems".
- *Every CPU for everybody.* The usual end of a session finds a saved process gone:
  `Restore` returns an error (`gaming/hispowerd/cpu/isolator.go:111-114`), though line
  112 says "not a fatal error", and `stopGaming` calls `BroadReset`
  (`gaming/hispowerd/main.go:340`), as do the safety net and the clean-up of a start.
  It sets the mask of every process in /proc to all CPUs: the masks just restored,
  and those of processes no session has touched, are lost with no write refused.
  `SessionsLeaveNothing` and `CrashesAreCleanedUp` promise of CPU masks
  only that they are not those of a session. `EmergencyRestore` gives the
  interrupts the session has moved all CPUs as well
  (`gaming/hispowerd/irq/affinity.go:130`), not the masks it has saved; that happens
  only in the clean-up after a panic.
- *A session after such a crash* saves what it finds, the values of the one
  before, as the ones to restore.
- *A phase that fails in part* is not flagged and not restored.
  `gaming/hispowerd/cpu/isolator.go:63` says "Returns error only if ALL operations
  fail", but any failure is returned (a process that has ended is enough); with a
  quota that cannot be written the vault timer stays stopped.
- *EmergencyRestore* after a failed `Restore` of the interrupts has nothing to do:
  `Restore` has emptied the list (`gaming/hispowerd/irq/affinity.go:121`).
- *CPUs are inherited.* What a game or a managed daemon starts during a session
  keeps its CPUs after it, when the saved processes are restored one by one;
  `BroadReset` reaches processes, not their other threads.
- *The name of the mode.* hispowerd asks for "gaming-performance", which hisnosd
  does not know (`core/ipc/server.go:290`): it is always refused and written to
  hisnosd's file, where the next persist of hisnosd overwrites it and a restart
  loads it.
- *A manual session without a pid* (`gaming/hispowerd/detect/detector.go:102`) has
  PID 0, of which every process descends: all of them are pinned.
- *The lab's lock file* is removed by a status that finds no unit
  (`dashboard/backend/api/lab.go:192`), also when a start has just written it and not
  yet started its unit: line 330 says that a status then "is consistent
  immediately". The lab that follows is not tracked, nor is one whose `systemd-run`
  is given up on after 15 s (397) and starts the unit all the same.
- *An Apply that fails half-way* (`core/performance/manager.go:158`) puts back the
  CPUs; a write that any runtime is refused is logged and nothing is put back.
  Line 9 says "rollback ALL on first fatal error". The branches for `io`, `mem` and
  `sched` cannot be taken: their `Apply` returns nil always.
- *The name of the profile* is read back at start (`core/performance/manager.go:122`)
  and nothing is applied: after a reboot `get_performance_profile` reports what the
  machine is not set to.
- *irqbalance* is stopped when the daemon starts, not "when gaming starts"
  (`core/performance/irq_adaptive_balancer.go:8`), and nothing calls the `Stop` that
  line 9 says restarts it.
- *The global rollback* has one caller, the operator's command;
  `core/orchestrator/global_rollback.go:19-22` also names the boot score, the
  escalation to safe mode and the thermal tier.
- *The real-time guard* demotes a PID once as long as scans find it
  (`core/performance/rt_guard.go:137`): a process that raises itself again between two
  scans keeps its priority. Lines 8-9 say that any such process is demoted. A
  PID that changes hands between scan and demotion takes the demotion with it.
- *The engine acts on nothing.* Its `ActionFn` (`core/main.go:791`) logs and emits an
  event; `core/automation/response_orchestrator.go:4-6` says that its actions go
  through the IPC command pathway. A mark moves the threshold whether its incident
  exists or not (`core/automation/learning_state.go:120`).
- *Boot scores.* `RecordBoot` runs at every start of the daemon (`core/main.go:679`);
  `core/health/boot_scorer.go:85` says "Call once per boot".
- *Plugins.* `cmd/hisnos-pkg/main.go:188` to 263 calls `marketplace_install`,
  `_uninstall`, `_enable`, `_disable` and `_run`; `core/main.go` registers
  `marketplace_list` and `marketplace_installed` only. The registry's operations are
  modelled as if those commands existed: otherwise its index never changes.
- *Fleet.* A cached bundle is believed at start without a look at its signature, and
  its rules are not applied again; `core/fleet/sync.go:29-30` says it "remains
  active". "higher wins on conflict" (line 21) has no code: rules run in the order of
  the bundle, and one that fails does not keep it from being reported as applied.
- *The wizard is not resumed.* Its unit starts only while there is no state file
  (`onboarding/systemd/hisnos-onboarding.service:5`), which exists from its first
  step on: after a crash, or the timeout whose message asks for `systemctl start`
  (`onboarding/backend/main.go:161`), the unit does nothing. Lines 7-8 there say
  "wizard always resumes at the last incomplete step".
- *The wizard's lock file* stays after `os.Exit` and `log.Fatalf`
  (`onboarding/backend/main.go:92`, 107, 114), which skip the deferred release; the
  next start takes it over, since nobody lives under the PID in it.
- *Completed* needs no step (`onboarding/backend/api/wizard.go:274`);
  `onboarding/backend/state/state.go:8` says "once the user finishes step 6".
- *The search index* gives every added file a new record, also one that it has
  (`commandcenter/searchd/index/index.go:128`, "inserts or updates").
