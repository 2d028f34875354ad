------------------------------ MODULE MCPayLink ------------------------------
(***************************************************************************)
(* Small instances of PayLink for TLC: the terms of the links, the bounds  *)
(* that the configurations choose between, and the symmetry of processes.  *)
(***************************************************************************)
EXTENDS PayLinkInv, TLC

Bill    == [NoTerms EXCEPT !.type = "split", !.target = 2, !.maxUses = 2,
                           !.hooked = TRUE, !.expires = TRUE]
OneTime == [NoTerms EXCEPT !.amount = 1, !.maxUses = 1, !.hooked = TRUE]
Reserve == [NoTerms EXCEPT !.amount = 2, !.mode = "authorize", !.maxUses = 1,
                           !.hooked = TRUE]

Bills     == {Bill}
Purchases == {Bill, OneTime}
Reserves  == {Reserve}

AmountsTwo == {1, 2}

\* Handlers are interchangeable, and so are attempts.
Symmetry == Permutations(Handlers) \cup Permutations(Payments)
=============================================================================
