------------------------------ MODULE Billing ------------------------------
(***************************************************************************)
(* What the paywall promises, without processes, sends or crashes: a       *)
(* reveal is written once per (user, fixture) and never rewritten, and     *)
(* the number of credits a user has consumed never exceeds the number of   *)
(* fixtures that were revealed to him against payment.                     *)
(* RevealLedger implements this module.                                    *)
(***************************************************************************)
EXTENDS Naturals, FiniteSets

CONSTANTS Users, Fixtures

VARIABLES
    row,    \* row[u][f]: the reveal of f to u: "none", "free" or "charged"
    spent   \* spent[u]: the credits u has consumed

vars == <<row, spent>>

Charged(u) == {f \in Fixtures : row[u][f] = "charged"}

Init ==
    /\ row = [u \in Users |-> [f \in Fixtures |-> "none"]]
    /\ spent = [u \in Users |-> 0]

(* The first reveal of a fixture to a user decides whether it was paid.    *)
Reveal(u, f) ==
    /\ row[u][f] = "none"
    /\ \E kind \in {"free", "charged"} : row' = [row EXCEPT ![u][f] = kind]
    /\ UNCHANGED spent

(* The counter is a cache of the charged rows that may lag behind them.    *)
Bill(u) ==
    /\ \E n \in 0 .. Cardinality(Charged(u)) : spent' = [spent EXCEPT ![u] = n]
    /\ UNCHANGED row

Next == \E u \in Users : Bill(u) \/ \E f \in Fixtures : Reveal(u, f)

Spec == Init /\ [][Next]_vars
=============================================================================
