--------------------------- MODULE MCRevealLedger ---------------------------
(* Small instances of RevealLedger: one fixture with an early and a late   *)
(* job, a second fixture with an early job, and the bot.                   *)
EXTENDS RevealLedger, TLC

CONSTANTS f1, f2, e1, l1, e2, op

MCFixtureOf == (e1 :> f1) @@ (l1 :> f1) @@ (e2 :> f2)
(* Bounds: the operator is past the trial and has the most he can deposit, *)
(* and one of the users, he or the other, has received no body yet: users  *)
(* share nothing but the loops that serve them.                            *)
OperatorHasFunds == op \in Users => trialOver[op] /\ balance[op] = MaxBalance
OneIsServed == \E u \in Users : Cardinality(Users) > 1 => seen[u] = {}

MCFixtureOfTwo == (e1 :> f1) @@ (e2 :> f2)
=============================================================================
