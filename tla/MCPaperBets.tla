---------------------------- MODULE MCPaperBets ----------------------------
(* Small instances of PaperBets.                                           *)
EXTENDS PaperBets, TLC

Symmetry == Permutations(Fixtures) \cup Permutations(Scorers) \cup Permutations(Settlers)

(* Bound: any two runs overlap, three do not.                              *)
OverlapInPairs ==
    Cardinality({r \in Scorers : scoring[r] # [todo |-> {}, quote |-> None]})
        + Cardinality({s \in Settlers : settling[s].active}) <= 2
=============================================================================
