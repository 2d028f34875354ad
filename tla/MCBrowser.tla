------------------------------- MODULE MCBrowser -------------------------------
(***************************************************************************)
(* A small instance of Browser: two calls and three faults on a channel,   *)
(* two and two on a session, whose clocks run in units of 15 seconds; a    *)
(* bill of 3 that several pay, where calls, checkout.js and the operator   *)
(* get in the way, one where nothing does, and a fixed price; signing in   *)
(* alone, with windows of two ticks, and both doors, with windows of one;  *)
(* and two attempts of two operators, of which a sweep takes one at a time. *)
(***************************************************************************)
EXTENDS Browser

CONSTANTS c1, c2, owner, o1, o2

FaultsOfEach ==
    [p \in Parts |-> CASE p = "channel" -> 3
                      [] p \in {"session", "shared", "price", "sweep"} -> 2
                      [] p \in {"clock", "back"} -> 1
                      [] OTHER -> 0]

Price == [type |-> "static", mode |-> "purchase", amount |-> 2, target |-> 0, min |-> 0,
          max |-> 0, maxUses |-> 0, hooked |-> FALSE, expires |-> FALSE]
Bill == [Price EXCEPT !.type = "split", !.amount = 0, !.target = 3]
BillOfEach == [p \in Pages |-> IF p = "price" THEN Price ELSE Bill]
SessionsOfEach == [p \in Pages |-> IF p = "shared" THEN 3 ELSE 2]

DoorsOfEach == [p \in Doors |-> IF p = "signIn" THEN {"signIn"} ELSE {"signIn", "recovery"}]
LimitOfEach == [p \in Doors |-> IF p = "signIn" THEN 3 ELSE 2]
WindowOfEach == [p \in Doors |-> IF p = "signIn" THEN 2 ELSE 1]
ResetsOfEach == [p \in Doors |-> IF p = "signIn" THEN 0 ELSE 1]

Owners == <<o1, o2>>
=============================================================================
