-------------------------- MODULE MCSalesAndRatings --------------------------
(***************************************************************************)
(* The sales with the trade log, and the feed of the ratings the sales     *)
(* were priced from.  They share no state, so a behaviour takes the steps  *)
(* of one of them, part, and the other stays as it was at the start.       *)
(***************************************************************************)
EXTENDS TradeLog, MCSoldRecord, ClubEloFeed

VARIABLE part

BothInit ==
    /\ part \in {"sales", "ratings"} /\ Init /\ FeedInit
    /\ part = "sales" => site = Never /\ ~flag
    /\ part = "ratings" => ~enabled /\ Fresh /\ match.recent

BothNext ==
    \/ part = "sales" /\ Next /\ UNCHANGED <<part, feedVars>>
    \/ part = "ratings" /\ FeedNext /\ UNCHANGED <<part, vars>>

BothSpec == BothInit /\ [][BothNext]_<<part, vars, feedVars>>
=============================================================================
