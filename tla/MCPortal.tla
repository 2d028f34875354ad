-------------------------------- MODULE MCPortal --------------------------------
(***************************************************************************)
(* A small instance of Workspace: an operator who leaves screens whose     *)
(* calls are under way, two of which may be reads; an operator and an      *)
(* administrator who share a browser, and an integrator alone, who wait    *)
(* for every answer; a form that is opened twice.                          *)
(***************************************************************************)
EXTENDS Workspace, TLC

CONSTANTS op, dev, adm, l1, l2, r0, r1, r2

PortalDesks == {"hasty", "patient", "alone"}
HastyDesks == {"hasty"}
PortalAccounts ==
    [p \in PortalDesks |->
        CASE p = "hasty" -> {op} [] p = "patient" -> {op, adm} [] p = "alone" -> {dev}]
PortalRoles ==
    [p \in PortalDesks |->
        [a \in PortalAccounts[p] |->
            CASE a = op -> "sales" [] a = dev -> "integrator" [] a = adm -> "admin"]]
PortalLoads == [p \in PortalDesks |-> IF p = "hasty" THEN {r1, r2} ELSE {r0}]
PortalLinks == {l1, l2}
TypedFigures == {1}
TriedTypes == {"static", "dynamic", "split"}
AllCurrencies == {"USD", "KES"}
BillCurrencies == {"USD"}

\* Links are interchangeable, and so are the two reads of one desk.
Symmetry == Permutations(PortalLinks) \cup Permutations({r1, r2})
=============================================================================
