--------------------------- MODULE ProfileSwitch ---------------------------
(***************************************************************************)
(* What performance.Manager promises of a change of profile: everything is *)
(* switched or nothing is ("The operation is rollback-safe",               *)
(* core/performance/manager.go).  It vouches for the machine only while    *)
(* known: a start of the daemon, a reboot and a setting the kernel refuses *)
(* leave the machine with a tuning that the name of the profile does not   *)
(* describe.                                                               *)
(***************************************************************************)
CONSTANTS
    Profiles,   \* the names of the profiles
    Tunings,    \* what the machine may be set to
    DefOf       \* the tuning of each profile

VARIABLES profile, tuning, known

vars == <<profile, tuning, known>>

Init ==
    /\ profile \in Profiles
    /\ tuning \in Tunings
    /\ known = FALSE

Switch ==
    \E p \in Profiles :
        /\ profile' = p
        /\ tuning' = DefOf[p]
        /\ known' = TRUE

(* The machine may be anywhere, and a restart takes the name from a file.  *)
Lose ==
    /\ profile' \in Profiles
    /\ tuning' \in Tunings
    /\ known' = FALSE

Next == Switch \/ Lose

Spec == Init /\ [][Next]_vars

(* The name is true of the machine, so what reports it reports the tuning. *)
NameIsTrue == known => tuning = DefOf[profile]

=============================================================================
