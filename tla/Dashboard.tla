----------------------------- MODULE Dashboard ------------------------------
(***************************************************************************)
(* The handlers of the dashboard backend (dashboard/backend/api) over      *)
(* ControlPlane, as they run while hisnosd is not there to route to: the   *)
(* update runs, the vault, the operator's mode changes, the reboot and the *)
(* lab sessions with their systemd units and lock file (lab.go,            *)
(* lab/runtime).  net/http runs every request on a goroutine of its own    *)
(* and no handler holds a lock across two calls: a handler is a sequence   *)
(* of steps, and req[r].at names the one request r takes next.             *)
(***************************************************************************)
EXTENDS ControlPlane

CONSTANTS
    Requests,   \* bound: requests that are served at the same time
    Sessions,   \* bound: lab sessions that are ever created
    NoSession,  \* model value
    MaxCrashes  \* bound: ends of the process and of the machine

ASSUME DashboardAssumption == MaxCrashes \in Nat /\ NoSession \notin Sessions

VARIABLES
    req,        \* the handlers' goroutines: next step and local variables
    lock,       \* the session named in hisnos-lab-session.json
    unit,       \* the systemd unit of a session
    disturbed,  \* history: lab requests overlapped, a call of theirs timed
                \* out, or a crash cut one short
    crashes

labvars == <<lock, unit, disturbed>>
vars    == <<cpvars, req, labvars, crashes>>

LabSteps == {"lab.check", "lab.write", "lab.mode", "lab.run", "lab.drop",
             "lab.remove", "lab.revert", "stop.script", "stop.wait",
             "stop.remove", "stop.mode", "stop.normal", "status.check",
             "status.remove"}

Steps == {"idle", "prepare.begin", "prepare.script", "prepare.facts",
          "prepare.pending", "prepare.revert", "apply.script", "apply.facts",
          "apply.pending", "apply.revert", "rollback.begin",
          "rollback.script", "rollback.facts", "rollback.revert",
          "validate.script", "validate.kernel", "validate.mode", "mode.set",
          "mount.script", "mount.set", "lock.script", "lock.set", "reboot",
          "profile.set"} \cup LabSteps

(* "named": the id is taken, nothing started.  "exiting": bwrap has ended, *)
(* the script is in its EXIT trap; "leaving": it has removed the file and  *)
(* has a line left to log.  "stopping": it got SIGTERM and is in the trap  *)
(* of that signal; "again": in the EXIT trap after that one; "stopped":    *)
(* as leaving, after SIGTERM.                                              *)
UnitStates == {"unused", "named", "active", "exiting", "leaving", "stopping",
               "again", "stopped", "gone"}

(* systemctl is-active: a unit told to stop is deactivating.               *)
Active(s) == s # NoSession /\ unit[s] \in {"active", "exiting", "leaving"}

-----------------------------------------------------------------------------
(* How handlers are put together.                                          *)

(* prev is the mode a handler restores, or is about to set; sess is the    *)
(* lab session it works on.                                                *)
Idle == [at |-> "idle", prev |-> "normal", sess |-> NoSession]

At(r, step) == req[r].at = step

Goto(r, step) ==
    req' = [req EXCEPT ![r] = IF step = "idle" THEN Idle ELSE [@ EXCEPT !.at = step]]

Moves(r, from, to) == At(r, from) /\ Goto(r, to)

(* The guard of a handler: a snapshot, whose mode it remembers.            *)
Check(r, forbidden, step) ==
    /\ At(r, "idle")
    /\ \E res \in Results :
          /\ GetSnapshot(res)
          /\ req' = IF res = "ok" /\ Loaded.mode \notin forbidden
                    THEN [req EXCEPT ![r].at = step, ![r].prev = Loaded.mode]
                    ELSE req
    /\ UNCHANGED crashes

(* A transition, and where the handler goes with and without success.      *)
Set(r, from, mode, ok, otherwise) ==
    /\ \E res \in Results :
          /\ TransitionMode(mode, res)
          /\ Moves(r, from, IF res = "ok" THEN ok ELSE otherwise)
    /\ UNCHANGED <<labvars, crashes>>

(* SetUpdateFacts and its like; handlers ignore what it returns.           *)
Note(r, from, what, step) ==
    /\ \E res \in Results : SetFacts(what, res)
    /\ Moves(r, from, step)
    /\ UNCHANGED <<labvars, crashes>>

(* A script ends, is cut off by its timeout or by a client that has gone,  *)
(* or was never started.                                                   *)
Script(r, from, outcomes) ==
    /\ \E step \in outcomes : Moves(r, from, step)
    /\ UNCHANGED <<cpvars, labvars, crashes>>

-----------------------------------------------------------------------------
(* UpdatePrepare.                                                          *)
Prepare(r) ==
    /\ Check(r, Lifecycles, "prepare.begin")
    /\ UNCHANGED labvars
PrepareBegin(r)   == Set(r, "prepare.begin", "update-preparing",
                         "prepare.script", "idle")
PrepareScript(r)  == Script(r, "prepare.script",
                            {"prepare.facts", "prepare.revert"})
PrepareFacts(r)   == Note(r, "prepare.facts", "update", "prepare.pending")
PreparePending(r) == Set(r, "prepare.pending", "update-pending-reboot",
                         "idle", "idle")
PrepareRevert(r)  == Set(r, "prepare.revert", req[r].prev, "idle", "idle")

(* UpdateApply.  The other guards (vault locked, kernel validated for the  *)
(* booted deployment, firewall table loaded) look outside this state: the  *)
(* script may be kept from starting.  No mode is set before it ends.       *)
Apply(r) ==
    /\ Check(r, {"rollback-mode", "update-pending-reboot"},
             "apply.script")
    /\ UNCHANGED labvars
ApplyScript(r)  == Script(r, "apply.script",
                          {"idle", "apply.facts", "apply.revert"})
ApplyFacts(r)   == Note(r, "apply.facts", "update", "apply.pending")
ApplyPending(r) == Set(r, "apply.pending", "update-pending-reboot",
                       "idle", "idle")
ApplyRevert(r)  == Set(r, "apply.revert", req[r].prev, "idle", "idle")

(* UpdateRollback.                                                         *)
Rollback(r) ==
    /\ Check(r, Lifecycles, "rollback.begin")
    /\ UNCHANGED labvars
RollbackBegin(r)  == Set(r, "rollback.begin", "rollback-mode",
                         "rollback.script", "idle")
RollbackScript(r) == Script(r, "rollback.script",
                            {"rollback.facts", "rollback.revert"})
RollbackFacts(r)  == Note(r, "rollback.facts", "update", "idle")
RollbackRevert(r) == Set(r, "rollback.revert", req[r].prev, "idle", "idle")

(* UpdateValidate asks no guard; prev holds the mode its verdict asks for. *)
Validate(r) == Script(r, "idle", {"validate.script"})
ValidateScript(r) ==
    /\ At(r, "validate.script")
    /\ \/ \E verdict \in {"normal", "rollback-mode"} :
             req' = [req EXCEPT ![r].at = "validate.kernel", ![r].prev = verdict]
       \/ Goto(r, "idle")
    /\ UNCHANGED <<cpvars, labvars, crashes>>
ValidateKernel(r) == Note(r, "validate.kernel", "kernel", "validate.mode")
ValidateMode(r)   == Set(r, "validate.mode", req[r].prev, "idle", "idle")

-----------------------------------------------------------------------------
(* SystemModeTransition.                                                   *)
SystemMode(r) ==
    /\ Check(r, Lifecycles, "mode.set")
    /\ UNCHANGED labvars
SystemModeSet(r) == \E target \in {"normal", "gaming", "lab-active"} :
                       Set(r, "mode.set", target, "idle", "idle")

(* VaultMount and VaultLock.                                               *)
VaultMount(r) ==
    /\ Check(r, {"rollback-mode"}, "mount.script")
    /\ UNCHANGED labvars
VaultMountScript(r) == Script(r, "mount.script", {"mount.set", "idle"})
VaultLock(r)        == Script(r, "idle", {"lock.script"})
VaultLockScript(r)  == Script(r, "lock.script", {"lock.set", "idle"})
VaultSet(r) ==
    /\ \/ /\ Moves(r, "mount.set", "idle")
          /\ \E res \in Results : SetVaultMounted(TRUE, res)
       \/ /\ Moves(r, "lock.set", "idle")
          /\ \E res \in Results : SetVaultMounted(FALSE, res)
    /\ UNCHANGED <<labvars, crashes>>

-----------------------------------------------------------------------------
(* The lab.  A request of it that starts while another one runs disturbs.  *)

LabBusy == \E r \in Requests : req[r].at \in LabSteps

Overlaps == disturbed' = (disturbed \/ LabBusy)

Disturbs(happens) == disturbed' = (disturbed \/ happens)

LabStart(r) ==
    /\ Check(r, {"update-preparing", "rollback-mode"}, "lab.check")
    /\ IF req' # req THEN Overlaps ELSE UNCHANGED disturbed
    /\ UNCHANGED <<lock, unit>>

(* generateLabSessionID, after the checks of LabStart.                     *)
NamesSession(r, s) ==
    /\ unit[s] = "unused"
    /\ unit' = [unit EXCEPT ![s] = "named"]
    /\ req' = [req EXCEPT ![r].at = "lab.write", ![r].sess = s]

(* Variant: a lock file of a live unit does not stop a start.              *)
LabCheckNothing(r) ==
    /\ At(r, "lab.check")
    /\ \/ Goto(r, "idle") /\ UNCHANGED unit
       \/ \E s \in Sessions : NamesSession(r, s)
    /\ UNCHANGED <<cpvars, lock, disturbed, crashes>>

(* An active session, a missing script or a bad profile refuses; so does   *)
(* the bound Sessions.  An is-active that times out counts as not active.  *)
LabCheck(r) ==
    /\ At(r, "lab.check")
    /\ \/ Goto(r, "idle") /\ UNCHANGED <<unit, disturbed>>
       \/ (\E s \in Sessions : NamesSession(r, s)) /\ Disturbs(Active(lock))
    /\ UNCHANGED <<cpvars, lock, crashes>>

(* writeLabSession, by rename.                                             *)
LabWrite(r) ==
    /\ \/ Moves(r, "lab.write", "lab.mode") /\ lock' = req[r].sess
       \/ Moves(r, "lab.write", "idle") /\ UNCHANGED lock
    /\ UNCHANGED <<cpvars, unit, disturbed, crashes>>

LabMode(r) == Set(r, "lab.mode", "lab-active", "lab.run", "lab.drop")

(* systemd-run; one that is given up on may have started the unit.         *)
LabRun(r) ==
    /\ \/ /\ Moves(r, "lab.run", "idle")
          /\ unit' = [unit EXCEPT ![req[r].sess] = "active"]
          /\ UNCHANGED disturbed
       \/ /\ Moves(r, "lab.run", "lab.remove")
          /\ \E started \in {"active", "gone"} :
                /\ unit' = [unit EXCEPT ![req[r].sess] = started]
                /\ Disturbs(started = "active")
    /\ UNCHANGED <<cpvars, lock, crashes>>

(* The handlers remove the lock file, whatever session it names.           *)
RemoveLock(r) ==
    /\ \/ Moves(r, "lab.drop", "idle")
       \/ Moves(r, "lab.remove", "lab.revert")
       \/ Moves(r, "stop.remove", "stop.mode")
       \/ Moves(r, "status.remove", "idle")
    /\ lock' = NoSession
    /\ UNCHANGED <<cpvars, unit, disturbed, crashes>>

LabRevert(r) == Set(r, "lab.revert", req[r].prev, "idle", "idle")

(* LabStop and LabStatus read the lock file first.                         *)
ReadLock(r, step) ==
    /\ At(r, "idle")
    /\ lock # NoSession
    /\ req' = [req EXCEPT ![r].at = step, ![r].sess = lock]
    /\ Overlaps
    /\ UNCHANGED <<cpvars, lock, unit, crashes>>

LabStop(r) == ReadLock(r, "stop.script")

(* hisnos-lab-stop.sh: a unit that is not active loses its lock file only. *)
(* Without the script the handler calls systemctl stop itself, and leaves  *)
(* the file to the next step.                                              *)
StopScript(r) ==
    /\ IF Active(req[r].sess)
       THEN /\ Moves(r, "stop.script", "stop.wait")
            /\ unit' = [unit EXCEPT ![req[r].sess] = "stopping"]
            /\ UNCHANGED lock
       ELSE /\ Moves(r, "stop.script", "stop.remove")
            /\ lock' \in {lock, NoSession}
            /\ UNCHANGED unit
    /\ UNCHANGED <<cpvars, disturbed, crashes>>

(* systemctl stop returns when the unit is gone, or the handler has killed *)
(* the script after 30 s.                                                  *)
StopWait(r) ==
    /\ Moves(r, "stop.wait", "stop.remove")
    /\ lock' \in IF unit[req[r].sess] = "gone" THEN {lock, NoSession} ELSE {lock}
    /\ Disturbs(unit[req[r].sess] # "gone")
    /\ UNCHANGED <<cpvars, unit, crashes>>

StopMode(r) ==
    /\ \E res \in Results :
          /\ GetSnapshot(res)
          /\ Moves(r, "stop.mode", IF res = "ok" /\ Loaded.mode = "lab-active"
                                   THEN "stop.normal" ELSE "idle")
    /\ UNCHANGED <<labvars, crashes>>
StopNormal(r) == Set(r, "stop.normal", "normal", "idle", "idle")

LabStatus(r) == ReadLock(r, "status.check")

StatusCheck(r) ==
    /\ \/ /\ Active(req[r].sess)
          /\ Moves(r, "status.check", "idle")
          /\ UNCHANGED disturbed
       \/ /\ Moves(r, "status.check", "status.remove")
          /\ Disturbs(Active(req[r].sess))
    /\ UNCHANGED <<cpvars, lock, unit, crashes>>

(* LabNetworkProfileSet.  A session that is active refuses it, but an      *)
(* is-active that times out lets it through.                               *)
LabProfile(r)    == Script(r, "idle", {"profile.set"})
LabProfileSet(r) == Note(r, "profile.set", "lab", "idle")

(* hisnos-lab-runtime.sh.  Its trap removes the lock file, whatever        *)
(* session it names; SIGTERM runs the trap twice.                          *)
UnitMoves(s, from, to) == unit[s] \in from /\ unit' = [unit EXCEPT ![s] = to]

UnitEnds(s) ==
    /\ UnitMoves(s, {"active"}, "exiting")
    /\ UNCHANGED <<cpvars, req, lock, disturbed, crashes>>
UnitCleans(s) ==
    /\ \/ UnitMoves(s, {"stopping"}, "again")
       \/ UnitMoves(s, {"exiting"}, "leaving")
       \/ UnitMoves(s, {"again"}, "stopped")
    /\ lock' = NoSession
    /\ UNCHANGED <<cpvars, req, disturbed, crashes>>
UnitLeaves(s) ==
    /\ UnitMoves(s, {"leaving", "stopped"}, "gone")
    /\ UNCHANGED <<cpvars, req, lock, disturbed, crashes>>
UnitKilled(s) ==
    /\ UnitMoves(s, {"active", "exiting", "stopping", "again"}, "gone")
    /\ UNCHANGED <<cpvars, req, lock, disturbed, crashes>>

-----------------------------------------------------------------------------
(* The dashboard's service ends, with its scripts: the units are others.   *)
Crash ==
    /\ crashes < MaxCrashes
    /\ crashes' = crashes + 1
    /\ req' = [r \in Requests |-> Idle]
    /\ Disturbs(LabBusy)
    /\ Forget
    /\ UNCHANGED <<lock, unit>>

(* The machine restarts: /run is empty.                                    *)
Restart ==
    /\ crashes < MaxCrashes
    /\ crashes' = crashes + 1
    /\ req' = [r \in Requests |-> Idle]
    /\ lock' = NoSession
    /\ unit' = [s \in Sessions |-> IF unit[s] = "unused" THEN "unused" ELSE "gone"]
    /\ Forget
    /\ UNCHANGED disturbed

(* SystemReboot looks at the mode, and reboots half a second later.        *)
SystemReboot(r) ==
    /\ Check(r, {"update-preparing"}, "reboot")
    /\ UNCHANGED labvars
Reboot(r) ==
    \/ At(r, "reboot") /\ Restart
    \/ Script(r, "reboot", {"idle"})

-----------------------------------------------------------------------------
Init ==
    /\ CPInit
    /\ req = [r \in Requests |-> Idle]
    /\ lock = NoSession
    /\ unit = [s \in Sessions |-> "unused"]
    /\ disturbed = FALSE
    /\ crashes = 0

PrepareStep(r) ==
    \/ Prepare(r) \/ PrepareBegin(r) \/ PrepareScript(r) \/ PrepareFacts(r)
    \/ PreparePending(r) \/ PrepareRevert(r)
ApplyStep(r) ==
    Apply(r) \/ ApplyScript(r) \/ ApplyFacts(r) \/ ApplyPending(r) \/ ApplyRevert(r)
RollbackStep(r) ==
    \/ Rollback(r) \/ RollbackBegin(r) \/ RollbackScript(r) \/ RollbackFacts(r)
    \/ RollbackRevert(r)
ValidateStep(r) ==
    Validate(r) \/ ValidateScript(r) \/ ValidateKernel(r) \/ ValidateMode(r)
VaultStep(r) ==
    \/ VaultMount(r) \/ VaultMountScript(r) \/ VaultLock(r) \/ VaultLockScript(r)
    \/ VaultSet(r)
LabStartStep(r) ==
    \/ LabStart(r) \/ LabCheck(r) \/ LabWrite(r) \/ LabMode(r) \/ LabRun(r)
    \/ RemoveLock(r) \/ LabRevert(r)
LabOtherStep(r) ==
    \/ LabStop(r) \/ StopScript(r) \/ StopWait(r) \/ StopMode(r) \/ StopNormal(r)
    \/ LabStatus(r) \/ StatusCheck(r) \/ LabProfile(r) \/ LabProfileSet(r)

UnitStep(s) == UnitEnds(s) \/ UnitCleans(s) \/ UnitLeaves(s) \/ UnitKilled(s)

Next ==
    \/ \E r \in Requests :
          \/ PrepareStep(r) \/ ApplyStep(r) \/ RollbackStep(r) \/ ValidateStep(r)
          \/ SystemMode(r) \/ SystemModeSet(r) \/ VaultStep(r)
          \/ LabStartStep(r) \/ LabOtherStep(r)
          \/ SystemReboot(r) \/ Reboot(r)
    \/ \E s \in Sessions : UnitStep(s)
    \/ Crash \/ Restart

Spec == Init /\ [][Next]_vars

-----------------------------------------------------------------------------
(* Types.                                                                  *)
TypeOK ==
    /\ CPTypeOK
    /\ req \in [Requests -> [at : Steps, prev : Modes,
                              sess : Sessions \cup {NoSession}]]
    /\ lock \in Sessions \cup {NoSession}
    /\ unit \in [Sessions -> UnitStates]
    /\ disturbed \in BOOLEAN
    /\ crashes \in 0..MaxCrashes

(* What a restart would read is what the dashboard shows, unless the last  *)
(* write failed; the first write that succeeds repairs every field, also   *)
(* those an earlier one failed to save (persistLocked writes the whole     *)
(* state, under the lock that protects the cache).                         *)
FileIsCurrent == ~stale /\ cached # NotLoaded => file = cached

(* The guards are asked on a snapshot another request may have outdated.   *)
(* What must not happen is caught when the mode is set: no update is       *)
(* prepared over a rollback or an update that waits for its reboot, and no *)
(* lab is opened over a rollback (control_plane.go, allowedTransitions).   *)
StaleGuardIsCaught ==
    [][\A r \in Requests :
         /\ At(r, "prepare.begin") /\ At(r, "prepare.script")' =>
               Loaded.mode \notin {"rollback-mode", "update-pending-reboot"}
         /\ At(r, "lab.mode") /\ At(r, "lab.run")' =>
               Loaded.mode # "rollback-mode"]_vars

(* A validation that ran decides: the mode is normal after one that passed *)
(* and rollback-mode after one that failed, from wherever an update, a     *)
(* crash in the middle of one or other requests had left it                *)
(* (UpdateValidate).                                                       *)
ValidationDecides ==
    [][\A r \in Requests :
         At(r, "validate.mode") /\ At(r, "idle")' /\ cached' # NotLoaded =>
            cached'.mode = req[r].prev]_vars

(* A lab runs, or is being cleaned up after and still has its file.        *)
Runs(s) == unit[s] \in {"active", "exiting"}

(* Asked one request at a time, with systemctl answering, there is one lab *)
(* at most, and while it runs the lock file names it: it can be seen and   *)
(* stopped (LabStart, LabStop, LabStatus, and the traps of the units).     *)
SerialLabIsTracked ==
    ~disturbed => \A s \in Sessions : Runs(s) => lock = s

=============================================================================
