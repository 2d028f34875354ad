------------------------------ MODULE MCScreens ------------------------------
(***************************************************************************)
(* A small instance of Screens: an operator who repeats and crosses calls  *)
(* and one who types whatever is known; an integrator who acts and leaves  *)
(* while calls are under way and one who waits; one administrator with two *)
(* calls under way and two with one each.                                  *)
(***************************************************************************)
EXTENDS Screens

CONSTANTS c1, c2, a1, a2

CallsOfEach == [p \in Parts |-> IF p \in {"typing", "bank"} THEN {c1} ELSE {c1, c2}]
FaultsOfEach == [p \in Keys \cup Reviews |-> IF p = "patient" THEN 0 ELSE 1]
TypedByEach == [p \in Connects |-> IF p = "typing" THEN {"test", "live"} ELSE {}]
HurriedByEach == [p \in Keys |-> p = "hasty"]
SecretsOfEach == [p \in Keys |-> IF p = "hasty" THEN 2 ELSE 3]
RequestsOfEach == [p \in Keys |-> IF p = "hasty" THEN 0 ELSE 2]
AdminsOfEach == [p \in Reviews |-> IF p = "desk" THEN {a1} ELSE {a1, a2}]
=============================================================================
