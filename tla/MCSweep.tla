-------------------------------- MODULE MCSweep --------------------------------
(***************************************************************************)
(* Three attempts and a batch of two; the last attempt belongs to another  *)
(* profile than the first two.                                             *)
(***************************************************************************)
EXTENDS Sweep

CONSTANTS o1, o2

TheFirstTwo == [p \in Attempts |-> IF p <= 2 THEN o1 ELSE o2]
=============================================================================
