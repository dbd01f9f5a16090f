------------------------------ MODULE Hisnosd -------------------------------
(***************************************************************************)
(* The control core of hisnosd: every goroutine of the daemon that reads   *)
(* or writes the authoritative SystemState, and the safe-mode enforcer     *)
(* that keeps a state of its own beside it.                                *)
(*                                                                         *)
(*   clients     one goroutine per IPC connection (core/ipc/server.go)     *)
(*   policy loop runPolicyLoop, fed by the wildcard bus subscription       *)
(*   supervisor  checkAll and syncRisk, one goroutine, plus one goroutine  *)
(*               per restart it attempts (core/supervisor/supervisor.go)   *)
(*   escalators  the watchdog and self-healer callbacks of core/main.go,   *)
(*               which call SafeModeEnforcer.Enter                         *)
(*   environment services that die and return, the vault the user mounts,  *)
(*               the score hisnos-threatd writes, a crash of the daemon    *)
(*                                                                         *)
(* A step is what one goroutine does between two points where another can  *)
(* run: state.Manager.Get and Update each hold the manager's lock for one  *)
(* step, a subprocess is a step, a publication on the bus is a step.       *)
(***************************************************************************)
EXTENDS Policy

CONSTANTS
    Clients,        \* IPC connections
    Commands,       \* the commands the clients may send
    SetModes,       \* the modes set_mode is asked for
    Escalators,     \* subset of {"watchdog", "healer"}
    Mortal,         \* the services that may die in this instance
    Scores,         \* the scores (in tens) threat-state.json may hold
    BufSize,        \* subscriberBufSize, 64 in the code
    MaxCrashes,     \* maxCrashes of the supervisor, 3 in the code
    PersistMayFail, \* may state.Manager.persist return an error?
    MaxEnv,         \* bound: environment changes
    MaxRequests,    \* bound: requests admitted
    MaxRestarts     \* bound: crashes of the daemon

Services == {"nft", "logd", "threatd", "dash"}

AllCommands == {"set_mode", "lock_vault", "start_lab", "stop_lab",
                "reload_firewall", "prepare_update", "start_gaming",
                "stop_gaming"}

ASSUME InstanceAssumption ==
    /\ "none" \notin Clients
    /\ Commands \subseteq AllCommands
    /\ SetModes \subseteq Modes
    /\ Escalators \subseteq {"watchdog", "healer"}
    /\ Mortal \subseteq Services
    /\ Scores \subseteq 0..MaxRisk /\ Scores # {}
    /\ BufSize \in Nat \ {0}
    /\ MaxCrashes \in Nat
    /\ PersistMayFail \in BOOLEAN
    /\ MaxEnv \in Nat /\ MaxRequests \in Nat /\ MaxRestarts \in Nat

VARIABLES
    st,         \* state.Manager.state
    disk,       \* core-state.json
    pending,    \* events in the policy loop's channel; it ignores their content
    cpc,        \* client -> where its handler is
    creq,       \* client -> the request being handled
    ppc,        \* where the policy loop is
    todo,       \* actions of the current evaluation not yet done
    sup,        \* supervisor goroutine: [pc, svc, seen, prev, snap]
    spawned,    \* service -> restart goroutines that have not started
    sleeping,   \* service -> restart goroutines waiting out their delay
    crashes,    \* service -> crash times inside crashWindow
    esc,        \* escalator -> where its callback is
    smActive,   \* SafeModeEnforcer.state.Active
    smDisk,     \* Active in safe-mode-state.json
    up,         \* service -> is the systemd unit active
    vault,      \* is a gocryptfs mount in /proc/mounts
    threat,     \* score in threat-state.json
    ruleset,    \* the nft ruleset in force: "default" or "strict"
    left        \* what remains of the bounds: [env, req, crash]

core   == <<st, disk, pending>>
cli    == <<cpc, creq>>
loop   == <<ppc, todo>>
rst    == <<spawned, sleeping, crashes>>
safe   == <<esc, smActive, smDisk>>
world  == <<up, vault, threat, ruleset>>
vars   == <<core, cli, loop, sup, rst, safe, world, left>>

-----------------------------------------------------------------------------
(* Building blocks                                                         *)

DefaultState ==
    [mode |-> "normal", risk |-> 0, mounted |-> FALSE, lab |-> "none",
     fw |-> FALSE, alive |-> [s \in Services |-> FALSE]]

Requests ==
    {[cmd |-> k, mode |-> "normal"] : k \in Commands \ {"set_mode"}}
      \cup {[cmd |-> k, mode |-> m] : k \in Commands \cap {"set_mode"},
                                      m \in SetModes}

NoRequest == [cmd |-> "none", mode |-> "normal"]

PersistOutcomes == IF PersistMayFail THEN BOOLEAN ELSE {TRUE}

(* Manager.Update: the in-memory state changes first; the write to disk is *)
(* all or nothing (tmp, fsync, rename) and may fail.                       *)
Update(s, ok) ==
    /\ st' = s
    /\ disk' = IF ok THEN s ELSE disk

(* Variant: the channel has no limit.                                      *)
EmitUnbounded(n) == pending' = pending + n

(* Bus.Publish never blocks: into a full channel the event is dropped.     *)
Emit(n) == pending' = IF pending + n <= BufSize THEN pending + n ELSE BufSize

(* Variant: the startup event is published before anyone subscribes.       *)
StartupBeforeSubscribe == 0

(* main subscribes the policy loop, starts it, and only then publishes the *)
(* startup ModeChanged, so that a loaded state is always evaluated once.   *)
StartupEvents == 1

(* Variant: Enter lets go of its lock to write the file.                   *)
UnlockedWhilePersisting == \E e \in Escalators : esc[e] = "apply"

(* SafeModeEnforcer.Enter holds its lock while it persists and applies.    *)
EnforcerLocked == \E e \in Escalators : esc[e] \in {"persist", "apply"}

-----------------------------------------------------------------------------
(* IPC clients                                                             *)

ReadOnly   == {"lock_vault", "stop_lab", "stop_gaming"}
Blocked    == {"start_lab", "start_gaming", "prepare_update", "unlock_vault"}
Subprocess == AllCommands \ {"set_mode", "start_lab"}
(* A subprocess whose failure the handler only logs.                       *)
BestEffort == {"stop_lab", "stop_gaming"}
(* Handlers that answer an error when Update fails; the others ignore it.  *)
ReportsPersist == {"set_mode", "start_lab"}

(* The safe-mode gate of dispatch: commands outside readOnlyCommands ask   *)
(* SafeModeEnforcer.IsBlocked, which waits for the enforcer's lock.        *)
PassesGate(k) ==
    k \notin ReadOnly => ~EnforcerLocked /\ ~(smActive /\ k \in Blocked)

Admissible(r, s) ==
    CASE r.cmd = "set_mode"        -> ModeTransitionAllowed(s.mode, r.mode)
      [] r.cmd = "start_lab"       -> CanStartLab(s)
      [] r.cmd = "start_gaming"    -> CanStartGaming(s)
      [] r.cmd = "reload_firewall" -> CanReloadFirewall(s)
      [] OTHER                     -> TRUE

(* What the closure a handler passes to Update does to the state.          *)
Effect(r, s, c) ==
    CASE r.cmd = "set_mode"        -> [s EXCEPT !.mode = r.mode]
      [] r.cmd = "lock_vault"      -> [s EXCEPT !.mounted = FALSE]
      [] r.cmd = "start_lab"       -> [s EXCEPT !.mode = "lab-active", !.lab = c]
      [] r.cmd = "stop_lab"        ->
            [s EXCEPT !.lab = "none",
                      !.mode = IF @ = "lab-active" THEN "normal" ELSE @]
      [] r.cmd = "reload_firewall" -> [s EXCEPT !.fw = TRUE]
      [] r.cmd = "prepare_update"  -> [s EXCEPT !.mode = "update-preparing"]
      [] r.cmd = "start_gaming"    -> [s EXCEPT !.mode = "gaming"]
      [] OTHER                     ->
            [s EXCEPT !.mode = IF @ = "gaming" THEN "normal" ELSE @]

(* Gate, snapshot and admission guard.  A refused request changes nothing. *)
(* The guard sees the state of this step; the effect comes steps later.    *)
Admit(c) ==
    \E r \in Requests :
        /\ cpc[c] = "idle"
        /\ left.req > 0
        /\ PassesGate(r.cmd)
        /\ Admissible(r, st)
        /\ creq' = [creq EXCEPT ![c] = r]
        /\ cpc' = [cpc EXCEPT ![c] = IF r.cmd \in Subprocess
                                     THEN "exec" ELSE "update"]
        /\ left' = [left EXCEPT !.req = @ - 1]
        /\ UNCHANGED <<core, loop, sup, rst, safe, world>>

(* systemctl reload-or-restart nftables.service: the unit comes up with    *)
(* the rules on disk, which are the default ones.                          *)
ReloadNftables ==
    /\ up' = [up EXCEPT !["nft"] = TRUE]
    /\ ruleset' = "default"

(* The subprocess of a handler.                                            *)
CmdExec(c) ==
    /\ cpc[c] = "exec"
    /\ \/ /\ cpc' = [cpc EXCEPT ![c] = "update"]
          /\ \/ /\ creq[c].cmd = "lock_vault"
                /\ vault' = FALSE
                /\ UNCHANGED <<up, ruleset>>
             \/ /\ creq[c].cmd = "reload_firewall"
                /\ ReloadNftables
                /\ UNCHANGED vault
             \/ /\ creq[c].cmd \notin {"lock_vault", "reload_firewall"}
                /\ UNCHANGED <<up, vault, ruleset>>
          /\ UNCHANGED creq
       \/ /\ creq[c].cmd \notin BestEffort
          /\ cpc' = [cpc EXCEPT ![c] = "idle"]
          /\ creq' = [creq EXCEPT ![c] = NoRequest]
          /\ UNCHANGED <<up, vault, ruleset>>
    /\ UNCHANGED <<core, loop, sup, rst, safe, threat, left>>

CmdUpdate(c) ==
    /\ cpc[c] = "update"
    /\ \E ok \in PersistOutcomes :
        /\ Update(Effect(creq[c], st, c), ok)
        /\ IF ok \/ creq[c].cmd \notin ReportsPersist
           THEN cpc' = [cpc EXCEPT ![c] = "emit"] /\ UNCHANGED creq
           ELSE /\ cpc' = [cpc EXCEPT ![c] = "idle"]
                /\ creq' = [creq EXCEPT ![c] = NoRequest]
    /\ UNCHANGED <<pending, loop, sup, rst, safe, world, left>>

CmdEmit(c) ==
    /\ cpc[c] = "emit"
    /\ Emit(1)
    /\ cpc' = [cpc EXCEPT ![c] = "idle"]
    /\ creq' = [creq EXCEPT ![c] = NoRequest]
    /\ UNCHANGED <<st, disk, loop, sup, rst, safe, world, left>>

ClientStep(c) == Admit(c) \/ CmdExec(c) \/ CmdUpdate(c) \/ CmdEmit(c)

-----------------------------------------------------------------------------
(* The policy loop: receive any event, snapshot, evaluate, dispatch.       *)

(* Variant: the case for ExitSafeMode is missing.                          *)
DispatchedWithoutExit == {ForceVaultLock, FirewallStrict, IncreaseRisk}
                           \cup EnterSafeMode

(* The recommendations dispatchLegacyAction has a case for.                *)
Dispatched == {ForceVaultLock, FirewallStrict, IncreaseRisk, ExitSafeMode}
                \cup EnterSafeMode

FirstOf(a) == a \in todo /\ \A b \in todo : a <= b

Done(a) ==
    /\ todo' = todo \ {a}
    /\ ppc' = IF todo \ {a} = {} THEN "idle" ELSE "dispatch"

PolicyReceive ==
    /\ ppc = "idle"
    /\ pending > 0
    /\ pending' = pending - 1
    /\ ppc' = "got"
    /\ UNCHANGED <<st, disk, cli, todo, sup, rst, safe, world, left>>

PolicyEvaluate ==
    /\ ppc = "got"
    /\ todo' = Evaluate(st) \cap Dispatched
    /\ ppc' = IF Evaluate(st) \cap Dispatched = {} THEN "idle" ELSE "dispatch"
    /\ UNCHANGED <<core, cli, sup, rst, safe, world, left>>

(* vault.Execute runs hisnos-vault.sh lock; an error ends the action.      *)
PolicyLockVault ==
    /\ ppc = "dispatch"
    /\ FirstOf(ForceVaultLock)
    /\ \/ /\ vault' = FALSE
          /\ ppc' = "update"
          /\ UNCHANGED todo
       \/ /\ Done(ForceVaultLock)
          /\ UNCHANGED vault
    /\ UNCHANGED <<core, cli, sup, rst, safe, up, threat, ruleset, left>>

(* fw.Execute(FirewallStrictProfile): applyStrict reloads nftables.        *)
PolicyStrictFirewall ==
    /\ ppc = "dispatch"
    /\ FirstOf(FirewallStrict)
    /\ ReloadNftables \/ UNCHANGED <<up, ruleset>>
    /\ Done(FirewallStrict)
    /\ UNCHANGED <<core, cli, sup, rst, safe, vault, threat, left>>

PolicyRaiseRisk ==
    /\ ppc = "dispatch"
    /\ FirstOf(IncreaseRisk)
    /\ \E ok \in PersistOutcomes :
        Update([st EXCEPT !.risk = IF @ + 1 > MaxRisk THEN MaxRisk ELSE @ + 1],
               ok)
    /\ Done(IncreaseRisk)
    /\ UNCHANGED <<pending, cli, sup, rst, safe, world, left>>

(* The three actions that change the state and then publish.               *)
PolicyUpdate ==
    /\ \E ok \in PersistOutcomes :
        \/ /\ ppc = "update"
           /\ Update([st EXCEPT !.mounted = FALSE], ok)
        \/ /\ ppc = "dispatch"
           /\ \E a \in EnterSafeMode : FirstOf(a)
           /\ Update([st EXCEPT !.mode = "safe-mode"], ok)
        \/ /\ ppc = "dispatch"
           /\ FirstOf(ExitSafeMode)
           /\ Update([st EXCEPT !.mode = "normal"], ok)
    /\ ppc' = "emit"
    /\ UNCHANGED <<pending, cli, todo, sup, rst, safe, world, left>>

PolicyEmit ==
    /\ ppc = "emit"
    /\ Emit(1)
    /\ \E a \in PolicyActions : FirstOf(a) /\ Done(a)
    /\ UNCHANGED <<st, disk, cli, sup, rst, safe, world, left>>

PolicyStep ==
    \/ PolicyReceive \/ PolicyEvaluate \/ PolicyLockVault
    \/ PolicyStrictFirewall \/ PolicyRaiseRisk \/ PolicyUpdate \/ PolicyEmit

-----------------------------------------------------------------------------
(* The supervisor: one goroutine, alternating checkAll and syncRisk.       *)

SupIdle == [pc |-> "idle", svc |-> "nft", seen |-> FALSE, prev |-> FALSE,
            snap |-> 0]

Restartable == Services \ {"dash"}

(* The order of the services slice; after the last one comes the vault.    *)
AfterService(s) ==
    CASE s = "nft"     -> [pc |-> "probe", svc |-> "logd"]
      [] s = "logd"    -> [pc |-> "probe", svc |-> "threatd"]
      [] s = "threatd" -> [pc |-> "probe", svc |-> "dash"]
      [] s = "dash"    -> [pc |-> "vault", svc |-> "nft"]

(* The supervisor goes on to the next service of the loop.                 *)
NextService(s) ==
    sup' = [sup EXCEPT !.pc = AfterService(s).pc, !.svc = AfterService(s).svc,
                       !.seen = FALSE]

(* Variant: the vault is compared with a state that is never read.         *)
ZeroPrevState == FALSE

PrevState == st.mounted

(* prevState is read once, before the first subprocess of the round.       *)
SupCheck ==
    /\ sup.pc = "idle"
    /\ sup' = [SupIdle EXCEPT !.pc = "probe", !.prev = PrevState]
    /\ UNCHANGED <<core, cli, loop, rst, safe, world, left>>

SupProbe ==
    /\ sup.pc = "probe"
    /\ sup' = [sup EXCEPT !.pc = "update", !.seen = up[sup.svc]]
    /\ UNCHANGED <<core, cli, loop, rst, safe, world, left>>

(* The unit's state is stored, and for nftables Firewall.Active with it;   *)
(* only a change against the stored value is acted on.                     *)
SupUpdate ==
    LET s == sup.svc
        was == st.alive[s]
    IN  /\ sup.pc = "update"
        /\ \E ok \in PersistOutcomes :
              Update([st EXCEPT !.alive[s] = sup.seen,
                                !.fw = IF s = "nft" THEN sup.seen ELSE @], ok)
        /\ \/ /\ was = sup.seen
              /\ NextService(s)
           \/ /\ was # sup.seen
              /\ sup' = [sup EXCEPT !.pc = IF was THEN "crashed" ELSE "restored"]
        /\ UNCHANGED <<pending, cli, loop, rst, safe, world, left>>

(* Variant: FirewallDead takes the place of SubsystemCrashed.              *)
OnlyFirewallEvents(s) == IF s = "nft" THEN 1 ELSE 0

(* SubsystemCrashed, and FirewallDead besides for nftables.                *)
CrashEvents(s) == IF s = "nft" THEN 2 ELSE 1

SupCrashed ==
    /\ sup.pc = "crashed"
    /\ Emit(CrashEvents(sup.svc))
    /\ spawned' = [spawned EXCEPT
                     ![sup.svc] = IF sup.svc \in Restartable THEN @ + 1 ELSE @]
    /\ NextService(sup.svc)
    /\ UNCHANGED <<st, disk, cli, loop, sleeping, crashes, safe, world, left>>

SupRestored ==
    /\ sup.pc = "restored"
    /\ Emit(1)
    /\ NextService(sup.svc)
    /\ UNCHANGED <<st, disk, cli, loop, rst, safe, world, left>>

(* /proc/mounts is compared with prevState, not with the current state.    *)
SupVaultRead ==
    /\ sup.pc = "vault"
    /\ sup' = IF vault # sup.prev
              THEN [sup EXCEPT !.pc = "vaultUpd", !.seen = vault]
              ELSE SupIdle
    /\ UNCHANGED <<core, cli, loop, rst, safe, world, left>>

(* This Emit runs inside the closure given to Update.                      *)
SupVaultUpdate ==
    /\ sup.pc = "vaultUpd"
    /\ \E ok \in PersistOutcomes : Update([st EXCEPT !.mounted = sup.seen], ok)
    /\ Emit(1)
    /\ sup' = SupIdle
    /\ UNCHANGED <<cli, loop, rst, safe, world, left>>

(* syncRisk: threat-state.json, then a snapshot, then the update.          *)
SupRisk ==
    /\ sup.pc = "idle"
    /\ threat # st.risk
    /\ sup' = [SupIdle EXCEPT !.pc = "riskUpd", !.snap = threat]
    /\ UNCHANGED <<core, cli, loop, rst, safe, world, left>>

SupRiskUpdate ==
    /\ sup.pc = "riskUpd"
    /\ \E ok \in PersistOutcomes : Update([st EXCEPT !.risk = sup.snap], ok)
    /\ sup' = [SupIdle EXCEPT !.pc = "riskEmit"]
    /\ UNCHANGED <<pending, cli, loop, rst, safe, world, left>>

SupRiskEmit ==
    /\ sup.pc = "riskEmit"
    /\ Emit(1)
    /\ sup' = SupIdle
    /\ UNCHANGED <<st, disk, cli, loop, rst, safe, world, left>>

SupStep ==
    \/ SupCheck \/ SupProbe \/ SupUpdate \/ SupCrashed \/ SupRestored
    \/ SupVaultRead \/ SupVaultUpdate \/ SupRisk \/ SupRiskUpdate \/ SupRiskEmit

-----------------------------------------------------------------------------
(* attemptRestart: the goroutines it starts.                               *)

(* recordCrash; past maxCrashes an event is all that happens.              *)
RestartRecord(s) ==
    /\ spawned[s] > 0
    /\ spawned' = [spawned EXCEPT ![s] = @ - 1]
    /\ crashes' = [crashes EXCEPT ![s] = @ + 1]
    /\ \/ /\ crashes[s] + 1 > MaxCrashes
          /\ Emit(1)
          /\ UNCHANGED sleeping
       \/ /\ crashes[s] + 1 <= MaxCrashes
          /\ sleeping' = [sleeping EXCEPT ![s] = @ + 1]
          /\ UNCHANGED pending
    /\ UNCHANGED <<st, disk, cli, loop, sup, safe, world, left>>

(* One systemctl restart.  Success or not, the goroutine ends: no event,   *)
(* no state, only a longer delay for the next crash.                       *)
RestartRun(s) ==
    /\ sleeping[s] > 0
    /\ sleeping' = [sleeping EXCEPT ![s] = @ - 1]
    /\ \/ /\ up' = [up EXCEPT ![s] = TRUE]
          /\ ruleset' = IF s = "nft" THEN "default" ELSE ruleset
       \/ UNCHANGED <<up, ruleset>>
    /\ UNCHANGED <<core, cli, loop, sup, spawned, crashes, safe, vault, threat,
                   left>>

(* The oldest crash of s leaves crashWindow.                               *)
CrashesAge(s) ==
    /\ crashes[s] > 0
    /\ crashes' = [crashes EXCEPT ![s] = @ - 1]
    /\ UNCHANGED <<core, cli, loop, sup, spawned, sleeping, safe, world, left>>

RestartStep(s) == RestartRecord(s) \/ RestartRun(s)

-----------------------------------------------------------------------------
(* The callbacks of main.go that enter safe mode.  What makes them fire    *)
(* (missed heartbeats, correlated probe failures) is bounded environment.  *)

EscTrip(e) ==
    /\ esc[e] = "idle"
    /\ left.env > 0
    /\ ~EnforcerLocked
    /\ ~smActive
    /\ esc' = [esc EXCEPT ![e] = "enter"]
    /\ left' = [left EXCEPT !.env = @ - 1]
    /\ UNCHANGED <<core, cli, loop, sup, rst, smActive, smDisk, world>>

(* Where the callback of e goes when Enter returns.                        *)
EnterReturns(e) == esc' = [esc EXCEPT ![e] = IF e = "watchdog" THEN "update"
                                             ELSE "idle"]

EscEnter(e) ==
    /\ esc[e] = "enter"
    /\ ~EnforcerLocked
    /\ IF smActive THEN EnterReturns(e) ELSE esc' = [esc EXCEPT ![e] = "persist"]
    /\ smActive' = TRUE
    /\ UNCHANGED <<core, cli, loop, sup, rst, smDisk, world, left>>

(* persistState ignores its errors.                                        *)
EscPersist(e) ==
    /\ esc[e] = "persist"
    /\ \E ok \in PersistOutcomes : smDisk' = (smDisk \/ ok)
    /\ esc' = [esc EXCEPT ![e] = "apply"]
    /\ UNCHANGED <<core, cli, loop, sup, rst, smActive, world, left>>

(* applyActions: nft -f hisnos-strict.nft, which may fail, is the one of   *)
(* its commands that touches modelled state.                               *)
EscApply(e) ==
    /\ esc[e] = "apply"
    /\ ruleset' \in {"strict", ruleset}
    /\ EnterReturns(e)
    /\ UNCHANGED <<core, cli, loop, sup, rst, smActive, smDisk, up, vault,
                   threat, left>>

(* The watchdog's callback also sets the core mode; it publishes nothing.  *)
EscUpdate(e) ==
    /\ esc[e] = "update"
    /\ \E ok \in PersistOutcomes : Update([st EXCEPT !.mode = "safe-mode"], ok)
    /\ esc' = [esc EXCEPT ![e] = "idle"]
    /\ UNCHANGED <<pending, cli, loop, sup, rst, smActive, smDisk, world, left>>

EscHandler(e) == EscEnter(e) \/ EscPersist(e) \/ EscApply(e) \/ EscUpdate(e)

-----------------------------------------------------------------------------
(* The environment, bounded by left.                                       *)

ServiceFlips(s) ==
    /\ left.env > 0
    /\ up' = [up EXCEPT ![s] = ~@]
    /\ ruleset' = IF s = "nft" /\ ~up[s] THEN "default" ELSE ruleset
    /\ left' = [left EXCEPT !.env = @ - 1]
    /\ UNCHANGED <<core, cli, loop, sup, rst, safe, vault, threat>>

VaultFlips ==
    /\ left.env > 0
    /\ vault' = ~vault
    /\ left' = [left EXCEPT !.env = @ - 1]
    /\ UNCHANGED <<core, cli, loop, sup, rst, safe, up, threat, ruleset>>

ThreatScore ==
    /\ left.env > 0
    /\ threat' \in Scores \ {threat}
    /\ left' = [left EXCEPT !.env = @ - 1]
    /\ UNCHANGED <<core, cli, loop, sup, rst, safe, up, vault, ruleset>>

(* The daemon dies anywhere and systemd starts it again: every goroutine   *)
(* and both channels are gone, the two state files are read back, and      *)
(* main publishes its startup ModeChanged after subscribing the loop.      *)
CrashRestart ==
    /\ left.crash > 0
    /\ left' = [left EXCEPT !.crash = @ - 1]
    /\ st' = disk
    /\ smActive' = smDisk
    /\ pending' = StartupEvents
    /\ cpc' = [c \in Clients |-> "idle"]
    /\ creq' = [c \in Clients |-> NoRequest]
    /\ ppc' = "idle" /\ todo' = {}
    /\ sup' = SupIdle
    /\ spawned' = [s \in Services |-> 0]
    /\ sleeping' = [s \in Services |-> 0]
    /\ crashes' = [s \in Services |-> 0]
    /\ esc' = [e \in Escalators |-> "idle"]
    /\ UNCHANGED <<disk, smDisk, world>>

Environment ==
    \/ \E s \in Mortal : ServiceFlips(s)
    \/ VaultFlips \/ ThreatScore \/ CrashRestart

-----------------------------------------------------------------------------
(* First start: no state file, the startup event in the channel.           *)
Init ==
    /\ st = DefaultState /\ disk = DefaultState
    /\ pending = StartupEvents
    /\ cpc = [c \in Clients |-> "idle"]
    /\ creq = [c \in Clients |-> NoRequest]
    /\ ppc = "idle" /\ todo = {}
    /\ sup = SupIdle
    /\ spawned = [s \in Services |-> 0]
    /\ sleeping = [s \in Services |-> 0]
    /\ crashes = [s \in Services |-> 0]
    /\ esc = [e \in Escalators |-> "idle"]
    /\ smActive = FALSE /\ smDisk = FALSE
    /\ up \in {f \in [Services -> BOOLEAN] : \A s \in Services \ Mortal : f[s]}
    /\ vault = FALSE
    /\ threat \in Scores
    /\ ruleset = "default"
    /\ left = [env |-> MaxEnv, req |-> MaxRequests, crash |-> MaxRestarts]

Next ==
    \/ PolicyStep
    \/ SupStep
    \/ Environment
    \/ \E c \in Clients : ClientStep(c)
    \/ \E s \in Services : RestartStep(s) \/ CrashesAge(s)
    \/ \E e \in Escalators : EscTrip(e) \/ EscHandler(e)

(* A goroutine that can run is eventually run by the Go scheduler, and the *)
(* two tickers of the supervisor both keep firing.  Nothing makes a client *)
(* send, a service die, an escalator trip or the daemon crash.             *)
Fairness ==
    /\ WF_vars(PolicyStep)
    /\ WF_vars(SupStep)
    /\ SF_vars(SupRisk) /\ SF_vars(SupCheck)
    /\ \A c \in Clients : WF_vars(CmdExec(c) \/ CmdUpdate(c) \/ CmdEmit(c))
    /\ \A s \in Services : WF_vars(RestartStep(s))
    /\ \A e \in Escalators : WF_vars(EscHandler(e))

Spec == Init /\ [][Next]_vars /\ Fairness

-----------------------------------------------------------------------------
(* Properties                                                              *)

States == [mode : Modes, risk : 0..MaxRisk, mounted : BOOLEAN,
           lab : Clients \cup {"none"}, fw : BOOLEAN,
           alive : [Services -> BOOLEAN]]

SupPcs == {"idle", "probe", "update", "crashed", "restored", "vault",
           "vaultUpd", "riskUpd", "riskEmit"}

SupStates == [pc : SupPcs, svc : Services, seen : BOOLEAN, prev : BOOLEAN,
              snap : 0..MaxRisk]

TypeOK ==
    /\ st \in States /\ disk \in States
    /\ pending \in 0..BufSize
    /\ cpc \in [Clients -> {"idle", "exec", "update", "emit"}]
    /\ creq \in [Clients -> Requests \cup {NoRequest}]
    /\ \A c \in Clients : cpc[c] # "idle" => creq[c] \in Requests
    /\ ppc \in {"idle", "got", "dispatch", "update", "emit"}
    /\ todo \subseteq Dispatched
    /\ (todo = {}) <=> (ppc \in {"idle", "got"})
    /\ sup \in SupStates
    /\ spawned \in [Services -> Nat] /\ sleeping \in [Services -> Nat]
    /\ crashes \in [Services -> Nat]
    /\ esc \in [Escalators -> {"idle", "enter", "persist", "apply", "update"}]
    /\ \A e \in Escalators : esc[e] = "update" => e = "watchdog"
    /\ smActive \in BOOLEAN /\ smDisk \in BOOLEAN
    /\ up \in [Services -> BOOLEAN] /\ vault \in BOOLEAN
    /\ threat \in 0..MaxRisk /\ ruleset \in {"default", "strict"}
    /\ left \in [env : Nat, req : Nat, crash : Nat]

(* The policy loop will evaluate the state again: an event is in its       *)
(* channel, it has one in hand, it is about to do something that ends in a *)
(* publication, or another goroutine is between its update and its event.  *)
Noticed ==
    \/ pending > 0
    \/ ppc \in {"got", "update", "emit"}
    \/ todo \cap (EnterSafeMode \cup {ExitSafeMode}) # {}
    \/ \E c \in Clients : cpc[c] = "emit"
    \/ sup.pc \in {"crashed", "restored", "riskEmit"}

(* P5.  The daemon never sits outside safe mode with the audit pipeline    *)
(* recorded dead and nothing on its way to make the policy loop look: no   *)
(* stale snapshot, dropped event, manual set_mode, auto-exit or restart of *)
(* the daemon in between loses the fact.                                   *)
AuditLossNoticed ==
    ~st.alive["logd"] /\ st.mode # "safe-mode" => Noticed

(* P4, the same for a firewall recorded inactive.                          *)
FirewallLossNoticed == ~st.fw /\ st.mode # "safe-mode" => Noticed

(* Firewall.Active and NftablesAlive are two records of one fact; without  *)
(* reload_firewall they agree, in memory and on disk.                      *)
Agrees(s) == s.fw = s.alive["nft"]
FirewallAgrees == Agrees(st) /\ Agrees(disk)

(* When nothing is on its way to the policy loop, the mode is the one its  *)
(* rules want: neither an entry to nor an exit from safe mode is due.      *)
ModeSettled ==
    ~Noticed => Evaluate(st) \cap (EnterSafeMode \cup {ExitSafeMode}) = {}

(* Once Enter has returned, or anyone else can read the enforcer's state,  *)
(* an active safe mode is on disk: a crash of the daemon does not leave it.*)
ObservedSafeModeIsDurable == smActive /\ ~EnforcerLocked => smDisk

(* Nothing in the policy loop, on its way to it or in a handler.           *)
Idle == /\ pending = 0 /\ ppc = "idle"
        /\ \A c \in Clients : cpc[c] = "idle"

(* A dead audit pipeline that stays dead ends in a safe mode that stays:   *)
(* requests, auto-exit and restarts of the daemon can only delay it.       *)
AuditLossLeadsToSafeMode == <>[]~up["logd"] => <>[](st.mode = "safe-mode")

(* The same for nftables.                                                  *)
FirewallLossLeadsToSafeMode == <>[]~up["nft"] => <>[](st.mode = "safe-mode")

(* What the daemon records of the services, of the vault and of the score  *)
(* converges to the truth once they stop changing, however its goroutines  *)
(* overwrote each other's updates on the way.                              *)
ViewConverges ==
    <>[](st.alive = up /\ st.mounted = vault /\ st.risk = threat)

(* The loop feeds on its own events.  It still comes to rest.              *)
PolicyQuiesces == <>[]Idle

=============================================================================
