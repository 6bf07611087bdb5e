------------------------------- MODULE TradeLog -------------------------------
(***************************************************************************)
(* The mirror of the operator's own trades (BETBOT_TRADE_LOG).  A sync     *)
(* pages through the public activity feed, newest first, while trades go   *)
(* on arriving, and upserts the rows one by one: the facts as first seen,  *)
(* the match with the call he was sold derived anew.  Reports add the rows *)
(* up to positions and lay the live holdings and the results over them.    *)
(*                                                                         *)
(* A share costs 1 USDC, sells for half and redeems for 2 or nothing; a    *)
(* trade moves 2 shares.                                                   *)
(***************************************************************************)
EXTENDS SoldRecord

CONSTANTS
    Operator,       \* the user whose wallet is mirrored
    Markets,        \* markets of the fixture: a team to win, the draw, "other"
    PageLimit,      \* rows of one page
    MaxActivity,    \* bound: rows of the feed
    MaxAborts       \* bound: syncs that break off

VARIABLES
    enabled,    \* the flag is on
    feed,       \* the wallet's activity in the order of its timestamps, with its month
    resolved,   \* how the markets resolved, or None
    mirror,     \* operator_trades: mirror[i] is what was derived for feed[i]
    pull,       \* the sync in flight: its phase, offset, rows still to store, rows it found
    aborts

tradeVars == <<enabled, feed, resolved, mirror, pull, aborts>>
vars == <<soldVars, tradeVars>>

Classes == {"WIN", "NO_OPP", "DRAW_BET", "CONTRARIAN", "UNMATCHED", "CASH"}
Months == 1 .. 2
Idle == [pc |-> "idle", offset |-> 0, got |-> {}, knew |-> 0]

Act == [market : Markets \cup {"cash"}, yes : BOOLEAN, kind : {"BUY", "SELL", "REDEEM", "YIELD"}, month : Months]
Match == [class : Classes, pick : Sides \cup {None}, bound : BOOLEAN]
Pull == [pc : {"idle", "page", "store"}, offset : Nat, got : SUBSET (1 .. MaxActivity), knew : 0 .. MaxActivity]

ASSUME TradeAssumption ==
    /\ Operator \in Users /\ Markets \subseteq Sides \cup {"other"}
    /\ PageLimit \in Nat \ {0} /\ MaxActivity \in Nat /\ MaxAborts \in Nat

TypeOK ==
    /\ SoldTypeOK /\ enabled \in BOOLEAN
    /\ feed \in Seq(Act) /\ Len(feed) <= MaxActivity
    /\ resolved \in Sides \cup {None}
    /\ DOMAIN mirror \subseteq DOMAIN feed /\ \A i \in DOMAIN mirror : mirror[i] \in Match
    /\ pull \in Pull /\ pull.got \subseteq DOMAIN feed /\ pull.knew <= Len(feed)
    /\ aborts \in 0 .. MaxAborts

-----------------------------------------------------------------------------
(* Matching one row                                                        *)

Unbound(class, pick) == [class |-> class, pick |-> pick, bound |-> FALSE]

(* _classify: the held side against the model's pick.                      *)
Classify(market, yes, pick) ==
    IF pick = "DRAW" THEN "CONTRARIAN"
    ELSE IF yes THEN IF market = pick THEN "WIN" ELSE "CONTRARIAN"
         ELSE IF market # pick THEN "NO_OPP" ELSE "CONTRARIAN"

(* _sold_pick: the sold triple, or the freshest row.                       *)
SoldPick == IF SoldCall.p # None THEN SoldCall.p.pick ELSE Latest.p.pick

(* PredictionMatcher.match: a draw market is never bound to a fixture.     *)
Derived(act) ==
    IF act.kind = "YIELD" THEN Unbound("CASH", None)
    ELSE IF act.market = "DRAW"
         THEN Unbound(IF act.yes THEN "DRAW_BET" ELSE "CONTRARIAN", "DRAW")
    ELSE IF act.market = "other" \/ Scoreless THEN Unbound("UNMATCHED", None)
    ELSE [class |-> Classify(act.market, act.yes, SoldPick), pick |-> SoldPick, bound |-> TRUE]

-----------------------------------------------------------------------------
(* Positions: the rows of one token                                        *)

Key(act) == <<act.market, act.yes>>
Rows(k, kinds) == {i \in DOMAIN mirror : Key(feed[i]) = k /\ feed[i].kind \in kinds}
AllKinds == {"BUY", "SELL", "REDEEM", "YIELD"}

(* The first row that was matched speaks for the position.                 *)
Lead(k) ==
    LET telling == {i \in Rows(k, AllKinds) : mirror[i].class \notin {"CASH", "UNMATCHED"}}
    IN  mirror[Min(IF telling = {} THEN Rows(k, AllKinds) ELSE telling)]

Side(k, result) == IF k[2] THEN k[1] = result ELSE k[1] # result

(* What is redeemed for a share, by the result.                            *)
Payout(k) == IF Side(k, resolved) THEN 4 ELSE 0
Redeemed(k) == IF resolved = None THEN 0 ELSE Payout(k) * Cardinality(Rows(k, {"REDEEM"}))
Bought(k) == 2 * Cardinality(Rows(k, {"BUY"}))
Cash(k) == Cardinality(Rows(k, {"SELL"})) + Redeemed(k) - Bought(k)

Held(i, j) == Cardinality(i) - Cardinality(j)
HoldsInMirror(k) == Held(Rows(k, {"BUY"}), Rows(k, {"SELL", "REDEEM"})) > 0 /\ Redeemed(k) = 0

Chain(k, kinds) == {i \in DOMAIN feed : Key(feed[i]) = k /\ feed[i].kind \in kinds}
HoldsOnChain(k) == Held(Chain(k, {"BUY"}), Chain(k, {"SELL", "REDEEM"})) > 0

(* The live feed marks a token above zero until its market resolves        *)
(* against it, and as redeemable once it has resolved.                     *)
Marked(k, live) == live /\ HoldsOnChain(k) /\ (resolved = None \/ Side(k, resolved))
IsOpen(k, live) == Marked(k, live) /\ HoldsInMirror(k) /\ resolved = None
IsPending(k, live) == Marked(k, live) /\ HoldsInMirror(k) /\ resolved # None

Actual(k) == IF Lead(k).bound /\ outcome # None THEN outcome.actual ELSE None

(* Mutant: a redemption proves a win whatever it paid.                     *)
WonByRedeeming(k) ==
    LET lead == Lead(k) IN
    IF Actual(k) # None /\ lead.class = "WIN" THEN Actual(k) = lead.pick
    ELSE IF Rows(k, {"REDEEM"}) # {} THEN TRUE ELSE None

(* Position.won: by the settled result, else only a paid redemption proves *)
(* a win and nothing proves a loss.                                        *)
Won(k) ==
    LET lead == Lead(k)
        opponent == IF lead.pick = "HOME" THEN "AWAY" ELSE "HOME"
    IN  IF Actual(k) # None /\ lead.class = "WIN" THEN Actual(k) = lead.pick
        ELSE IF Actual(k) # None /\ lead.class = "NO_OPP" THEN Actual(k) # opponent
        ELSE IF Redeemed(k) > 0 THEN TRUE ELSE None

(* build_positions: pure cash rows make no position.                       *)
Positions == {k \in {Key(feed[i]) : i \in DOMAIN mirror} : Lead(k).class # "CASH"}

FirstMonth(k) == feed[Min(Rows(k, AllKinds))].month

(* A position belongs to the month of its first fill.                      *)
Bucket(since, until) == {k \in Positions : since <= FirstMonth(k) /\ FirstMonth(k) < until}

CashOf(ks) == SumFunctionOnSet([k \in ks |-> Cash(k)], ks)

(* summarize: a winner that is not redeemed yet is no loss.                *)
Summary(since, until, live) ==
    LET all == Bucket(since, until)
        counted == {k \in all : ~IsPending(k, live)}
        judged == {k \in counted : /\ Lead(k).class \in {"WIN", "NO_OPP", "DRAW_BET"}
                                   /\ ~IsOpen(k, live) /\ Won(k) # None}
    IN  [positions |-> Cardinality(all), pending |-> Cardinality(all \ counted),
         realized |-> CashOf(counted), settled |-> Cardinality(judged),
         hits |-> Cardinality({k \in judged : Won(k)})]

-----------------------------------------------------------------------------
(* The wallet                                                              *)

TradeInit ==
    /\ feed = << >> /\ resolved = None /\ mirror = << >> /\ pull = Idle /\ aborts = 0

(* Rows arrive in the order of time, with a month's end anywhere between.  *)
Acted(market, yes, kind) ==
    /\ Len(feed) < MaxActivity
    /\ \E m \in Months : /\ \A i \in DOMAIN feed : feed[i].month <= m
                        /\ feed' = Append(feed, [market |-> market, yes |-> yes, kind |-> kind, month |-> m])
    /\ UNCHANGED <<soldVars, enabled, resolved, mirror, pull, aborts>>

Buy(k) == resolved = None /\ Acted(k[1], k[2], "BUY")
Sell(k) == resolved = None /\ HoldsOnChain(k) /\ Acted(k[1], k[2], "SELL")
Redeem(k) == resolved # None /\ HoldsOnChain(k) /\ Acted(k[1], k[2], "REDEEM")
Yield == Acted("cash", FALSE, "YIELD")

Resolves(side) ==
    /\ resolved = None /\ ~Scoreless /\ (outcome # None => side = outcome.actual)
    /\ resolved' = side
    /\ UNCHANGED <<soldVars, enabled, feed, mirror, pull, aborts>>

(* What the matching reads: the rows and the reveal to the operator.       *)
(* Whether a triple is anchored makes no difference to it.                 *)
Predicting ==
    /\ \/ \E new \in Rescores : new.anchor = None /\ Rescore(new)
       \/ Command(Operator) \/ Commit(Operator) \/ SendFails(Operator)
       \/ \E side \in Sides : (resolved # None => side = resolved) /\ Settle(side)
    /\ UNCHANGED tradeVars

-----------------------------------------------------------------------------
(* sync                                                                    *)

StartSync ==
    /\ pull = Idle /\ feed # << >> /\ pull' = [Idle EXCEPT !.pc = "page", !.knew = Len(feed)]
    /\ UNCHANGED <<soldVars, enabled, feed, resolved, mirror, aborts>>

(* The rows at offset .. offset + PageLimit - 1, newest first, now.        *)
Page(offset) == {i \in DOMAIN feed : i <= Len(feed) - offset /\ i > Len(feed) - offset - PageLimit}

(* Mutant: the last page is taken to be the first that is not full or is   *)
(* the only one.                                                           *)
LastPageFirst(offset) == TRUE

LastPage(offset) == Cardinality(Page(offset)) < PageLimit

(* fetch_activity                                                          *)
FetchPage ==
    /\ pull.pc = "page"
    /\ pull' = [pull EXCEPT !.got = @ \cup Page(pull.offset),
                            !.offset = @ + PageLimit,
                            !.pc = IF LastPage(pull.offset) THEN "store" ELSE "page"]
    /\ UNCHANGED <<soldVars, enabled, feed, resolved, mirror, aborts>>

(* The sync ends with the last of its rows.                                *)
Without(i) == IF pull.got = {i} THEN Idle ELSE [pull EXCEPT !.got = @ \ {i}]

(* upsert_operator_trade: the newest row that is left, in its own          *)
(* transaction, matched with what is stored at this moment.                *)
StoreRow ==
    /\ pull.pc = "store"
    /\ LET i == Max(pull.got) IN
         /\ mirror' = [j \in DOMAIN mirror \cup {i} |-> IF j = i THEN Derived(feed[i]) ELSE mirror[j]]
         /\ pull' = Without(i)
    /\ UNCHANGED <<soldVars, enabled, feed, resolved, aborts>>

(* A request or a write fails, or the daemon stops: the tick gives up and  *)
(* what was stored stays.                                                  *)
AbortSync ==
    /\ pull # Idle /\ aborts < MaxAborts /\ aborts' = aborts + 1 /\ pull' = Idle
    /\ UNCHANGED <<soldVars, enabled, feed, resolved, mirror>>

Keys == {<<m, yes>> : m \in Markets, yes \in BOOLEAN}

TradeNext ==
    \/ Predicting \/ Yield \/ StartSync \/ FetchPage \/ StoreRow \/ AbortSync
    \/ \E k \in Keys : Buy(k) \/ Sell(k) \/ Redeem(k)
    \/ \E side \in Sides : Resolves(side)

(* A fixture that no run has scored yet, or one that is scored already.    *)
Scored ==
    /\ \E t \in {m \in Model : ~m.poison} :
         rows = [d \in Days |-> IF d = 1 THEN [p |-> t, raw |-> t, anchor |-> None] ELSE None]
    /\ ledger = << >> /\ outcome = None

Init ==
    /\ SoldState /\ TradeInit /\ enabled \in BOOLEAN
    /\ IF enabled THEN match.club /\ match.recent /\ (Fresh \/ Scored) ELSE Fresh \/ Legacy

(* With the flag off the log is never imported; with it on, the wallet's   *)
(* owner is the only user that matters to it.                              *)
Next ==
    \/ ~enabled /\ SoldNext /\ UNCHANGED tradeVars
    \/ enabled /\ TradeNext

Spec == Init /\ [][Next]_vars

-----------------------------------------------------------------------------
(* Properties                                                              *)

(* A sync that comes to its end has mirrored every row that was on the     *)
(* feed when it began, although rows arriving meanwhile shift the pages.   *)
MirrorIsComplete ==
    [][pull # Idle /\ pull' = Idle /\ aborts' = aborts => 1 .. pull.knew \subseteq DOMAIN mirror']_vars

(* The hit rate never fabricates a result: a position counted as a hit or  *)
(* a miss is one whose side has won or lost, whatever the model picked     *)
(* since, however far a sync came and whether or not the marks are live.   *)
HitsAreReal ==
    \A k \in Positions, live \in BOOLEAN :
       Lead(k).class \in {"WIN", "NO_OPP", "DRAW_BET"} /\ ~IsOpen(k, live) /\ Won(k) # None =>
          LET truth == IF outcome # None THEN outcome.actual ELSE resolved
          IN  truth # None /\ Won(k) = Side(k, truth)

(* A winner waiting to be redeemed is reported as pending, never as a      *)
(* realised loss, and the months add up to the all-time report.            *)
MonthsAddUp ==
    \A live \in BOOLEAN :
       LET first == Summary(1, 2, live)
           second == Summary(2, 3, live)
           all == Summary(1, 3, live)
       IN  /\ \A f \in DOMAIN all : all[f] = first[f] + second[f]
           /\ live /\ resolved # None =>
                \A k \in Positions : HoldsInMirror(k) /\ HoldsOnChain(k) /\ Side(k, resolved) =>
                   IsPending(k, live)

(* The report neither makes results up nor loses money between months.     *)
ReportIsHonest == HitsAreReal /\ MonthsAddUp
=============================================================================
