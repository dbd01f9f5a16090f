----------------------------- MODULE FleetSync -----------------------------
(***************************************************************************)
(* The fleet policy of hisnosd (core/fleet/sync.go): Sync fetches a bundle *)
(* of rules, checks it, hands its rules to the executor, remembers it and  *)
(* caches it.  The ticker of main.go and the IPC command fleet_sync_now    *)
(* run it at the same time, and its mutex covers only the remembering.     *)
(***************************************************************************)
EXTENDS Naturals

CONSTANTS
    Bundles,        \* what the server may hold
    Syncs,          \* goroutines that call Sync
    NoBundle,       \* model value: none
    MaxFleetCrashes \* bound: deaths of the daemon

(* Whom a bundle is for: one fleet by its ID, or ("any") all of them.      *)
Fleets == {"ours", "unknown", "other", "any"}

ASSUME BundlesAssumption ==
    /\ \A b \in Bundles : b.fleet \in Fleets /\ b.signed \in BOOLEAN
    /\ NoBundle \notin Bundles
    /\ MaxFleetCrashes \in Nat

VARIABLES
    fleetID, identity,      \* FleetSync.fleetID; fleet-identity.json
    keyring,                \* marketplace-keyring.gpg is there
    syncing, bundle,        \* the next step of each goroutine, and its bundle
    lastBundle, cached,     \* FleetSync.lastBundle; fleet-policy.json
    applied,                \* history: bundles whose rules were all executed
    skipped,                \* history: a bundle was not verified
    fleetCrashes

fleetvars == <<fleetID, identity, keyring, syncing, bundle, lastBundle, cached,
          applied, skipped, fleetCrashes>>

Proceeds(s, from, to) ==
    syncing[s] = from /\ syncing' = [syncing EXCEPT ![s] = to]

-----------------------------------------------------------------------------
(* Sync.                                                                   *)

(* A failed fetch warns of a stale policy and changes nothing.             *)
FetchBundle(s) ==
    /\ Proceeds(s, "idle", "verify")
    /\ \E b \in Bundles : bundle' = [bundle EXCEPT ![s] = b]
    /\ UNCHANGED <<fleetID, identity, keyring, lastBundle, cached, applied,
                   skipped, fleetCrashes>>

(* Variant: a bundle is taken whatever fleet it is for.                    *)
IsOursAny(b) == TRUE

IsOurs(b) == b.fleet \in {"any", fleetID}

(* Without a keyring nothing is verified.                                  *)
VerifyBundle(s) ==
    /\ \/ /\ Proceeds(s, "verify", "apply")
          /\ IsOurs(bundle[s])
          /\ keyring => bundle[s].signed
       \/ Proceeds(s, "verify", "idle")
    /\ skipped' = (skipped \/ ~keyring)
    /\ UNCHANGED <<fleetID, identity, keyring, bundle, lastBundle, cached,
                   applied, fleetCrashes>>

(* The rules that fail are passed over.                                    *)
ApplyBundle(s) ==
    /\ Proceeds(s, "apply", "remember")
    /\ applied' = applied \cup {bundle[s]}
    /\ UNCHANGED <<fleetID, identity, keyring, bundle, lastBundle, cached,
                   skipped, fleetCrashes>>

Remember(s) ==
    /\ Proceeds(s, "remember", "save")
    /\ lastBundle' = bundle[s]
    /\ UNCHANGED <<fleetID, identity, keyring, bundle, cached, applied, skipped,
                   fleetCrashes>>

(* The error of the write is dropped.                                      *)
SaveBundle(s) ==
    /\ Proceeds(s, "save", "idle")
    /\ cached' \in {bundle[s], cached}
    /\ UNCHANGED <<fleetID, identity, keyring, bundle, lastBundle, applied,
                   skipped, fleetCrashes>>

Sync(s) ==
    \/ FetchBundle(s) \/ VerifyBundle(s) \/ ApplyBundle(s)
    \/ Remember(s) \/ SaveBundle(s)

-----------------------------------------------------------------------------
(* deriveFleetID: what was cached, or else the hash of the machine-id or   *)
(* of the word "unknown", cached if the write succeeds.                    *)
DeriveFleetID ==
    IF identity # "none"
    THEN fleetID' = identity /\ UNCHANGED identity
    ELSE /\ fleetID' \in {"ours", "unknown"}
         /\ identity' \in {"none", fleetID'}

(* The daemon dies; NewFleetSync believes the cached bundle as it is.      *)
NewFleetSync ==
    /\ fleetCrashes < MaxFleetCrashes
    /\ fleetCrashes' = fleetCrashes + 1
    /\ DeriveFleetID
    /\ lastBundle' = cached
    /\ syncing' = [s \in Syncs |-> "idle"]
    /\ UNCHANGED <<keyring, bundle, cached, applied, skipped>>

KeyringChanges ==
    /\ keyring' = ~keyring
    /\ UNCHANGED <<fleetID, identity, syncing, bundle, lastBundle, cached,
                   applied, skipped, fleetCrashes>>

FleetInit ==
    /\ fleetID \in {"ours", "unknown"}
    /\ identity \in {"none", fleetID}
    /\ keyring \in BOOLEAN
    /\ syncing = [s \in Syncs |-> "idle"]
    /\ bundle = [s \in Syncs |-> NoBundle]
    /\ lastBundle = NoBundle /\ cached = NoBundle
    /\ applied = {} /\ skipped = FALSE
    /\ fleetCrashes = 0

FleetNext ==
    \/ \E s \in Syncs : Sync(s)
    \/ NewFleetSync
    \/ KeyringChanges

FleetSpec == FleetInit /\ [][FleetNext]_fleetvars

FleetTypeOK ==
    /\ fleetID \in {"ours", "unknown"}
    /\ identity \in {"none", "ours", "unknown"}
    /\ syncing \in [Syncs -> {"idle", "verify", "apply", "remember", "save"}]
    /\ bundle \in [Syncs -> {NoBundle} \cup Bundles]
    /\ {lastBundle, cached} \subseteq {NoBundle} \cup Bundles
    /\ applied \in SUBSET Bundles
    /\ {keyring, skipped} \subseteq BOOLEAN
    /\ fleetCrashes \in 0..MaxFleetCrashes

-----------------------------------------------------------------------------
(* What the daemon reports as its policy, and what it will believe after a *)
(* restart without looking, was executed to the end, is not for another    *)
(* fleet, and was signed unless a check was skipped for want of a keyring: *)
(* whichever of two syncs remembers or saves last, and wherever it dies.   *)
PolicyWasApplied ==
    \A b \in {lastBundle, cached} \ {NoBundle} :
        /\ b \in applied
        /\ b.fleet # "other"
        /\ b.signed \/ skipped

=============================================================================
