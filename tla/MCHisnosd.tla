----------------------------- MODULE MCHisnosd ------------------------------
(***************************************************************************)
(* Small instances of Hisnosd for TLC.  The clients are interchangeable:   *)
(* no property names one.                                                  *)
(***************************************************************************)
EXTENDS Hisnosd, FiniteSets, TLC

ClientSymmetry == Permutations(Clients)

=============================================================================
