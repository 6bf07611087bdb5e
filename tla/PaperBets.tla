------------------------------ MODULE PaperBets ------------------------------
(***************************************************************************)
(* Paper bets: a scoring run checks the day's exposure, awaits a market    *)
(* quote and logs a bet; settlement awaits the provider, writes the P&L    *)
(* and evaluates the drawdown kill switch.  The daemon's jobs overlap with *)
(* each other and with the command line, which runs in its own process.    *)
(***************************************************************************)
EXTENDS Integers, FiniteSets, Functions

CONSTANTS
    Fixtures,
    Scorers,        \* scoring runs: the start-up tick, the 08:00 job, `run-once`
    Settlers,       \* settlement runs: the daily job, the two-hourly job, `settle`
    None,
    Prices,         \* market prices in percent
    Cap,            \* daily_exposure_cap_usd, in stakes
    KillPct,        \* drawdown_kill_pct, in percent
    MinStaked,      \* drawdown_min_staked_usd, in stakes
    Window,         \* drawdown_window_days
    MaxDay,         \* bound: last day
    MaxFlips        \* bound: times the provider changes a final result

Outcomes == {"HOME", "AWAY"}
Days == 0 .. MaxDay
Bet == [price : Prices \cup {None}, placed : Days, settled : Days \cup {None}, pnl : Int]

ASSUME BetsAssumption ==
    /\ Prices \subseteq 1 .. 99
    /\ None \notin Days /\ None \notin Bet
    /\ {Cap, KillPct, MinStaked, Window, MaxDay, MaxFlips} \subseteq Nat
    /\ IsFiniteSet(Scorers) /\ Scorers # {}

VARIABLES
    day,
    final,      \* final[f]: the winner at the provider, None until the match is over
    bets,       \* bets[f][o]: the paper bet on outcome o of f, None if there is none
    scoring,    \* scoring[r]: fixtures r still has to score, and the quote it awaits
    settling,   \* settling[s]: the bets s still has to settle, and whether s is running
    tripped,    \* kill_switch.tripped_at is set
    flips       \* provider changes used up

vars == <<day, final, bets, scoring, settling, tripped, flips>>

Legs == Fixtures \X Outcomes

TypeOK ==
    /\ day \in Days /\ final \in [Fixtures -> Outcomes \cup {None}]
    /\ bets \in [Fixtures -> [Outcomes -> Bet \cup {None}]]
    /\ scoring \in [Scorers -> [todo : SUBSET Fixtures, quote : Legs \cup {None}]]
    /\ settling \in [Settlers -> [active : BOOLEAN, due : SUBSET Legs]]
    /\ tripped \in BOOLEAN /\ flips \in 0 .. MaxFlips

Init ==
    /\ day = 0 /\ final = [f \in Fixtures |-> None]
    /\ bets = [f \in Fixtures |-> [o \in Outcomes |-> None]]
    /\ scoring = [r \in Scorers |-> [todo |-> {}, quote |-> None]]
    /\ settling = [s \in Settlers |-> [active |-> FALSE, due |-> {}]]
    /\ tripped = FALSE /\ flips = 0

BetOn(leg) == bets[leg[1]][leg[2]]

-----------------------------------------------------------------------------
NextDay ==
    /\ day < MaxDay /\ day' = day + 1
    /\ UNCHANGED <<final, bets, scoring, settling, tripped, flips>>

(* The match ends, or the provider corrects its winner.                    *)
ProviderSays(f, winner) ==
    /\ final[f] # winner
    /\ IF final[f] = None THEN UNCHANGED flips ELSE flips < MaxFlips /\ flips' = flips + 1
    /\ final' = [final EXCEPT ![f] = winner]
    /\ UNCHANGED <<day, bets, scoring, settling, tripped>>

-----------------------------------------------------------------------------
(* Scoring: _score_and_log_one                                             *)

StartScoring(r) ==
    /\ scoring[r] = [todo |-> {}, quote |-> None]
    /\ \E open \in SUBSET {f \in Fixtures : final[f] = None} :
         open # {} /\ scoring' = [scoring EXCEPT ![r].todo = open]
    /\ UNCHANGED <<day, final, bets, settling, tripped, flips>>

PlacedToday == {leg \in Legs : BetOn(leg) # None /\ BetOn(leg).placed = day}

(* Mutant: the gate looks at what is staked, not at what is about to be.   *)
ExposureLeftOffByOne == Cardinality(PlacedToday) <= Cap

(* daily_paper_exposure_usd() + fixed_stake_usd <= cap; all stakes equal.  *)
ExposureLeft == Cardinality(PlacedToday) + 1 <= Cap

(* The gate, read before the quote is awaited.  The favourite may differ   *)
(* from one scoring of the fixture to the next.                            *)
ScoreFixture(r, f, favourite) ==
    /\ scoring[r].quote = None /\ f \in scoring[r].todo
    /\ scoring' = [scoring EXCEPT ![r] = [todo |-> @.todo \ {f},
                                         quote |-> IF ExposureLeft THEN <<f, favourite>> ELSE None]]
    /\ UNCHANGED <<day, final, bets, settling, tripped, flips>>

(* The quote arrives: no edge and the market vetoes, a price, or no market *)
(* and a favourite-only bet.  A leg that has its bet keeps it.             *)
Vetoed(r) ==
    /\ scoring[r].quote # None
    /\ scoring' = [scoring EXCEPT ![r].quote = None]
    /\ UNCHANGED <<day, final, bets, settling, tripped, flips>>

LogBet(r, price) ==
    LET leg == scoring[r].quote
    IN  /\ leg # None
        /\ scoring' = [scoring EXCEPT ![r].quote = None]
        /\ IF BetOn(leg) = None
           THEN /\ bets' = [bets EXCEPT ![leg[1]][leg[2]] =
                              [price |-> price, placed |-> day, settled |-> None, pnl |-> 0]]
           ELSE UNCHANGED bets
        /\ UNCHANGED <<day, final, settling, tripped, flips>>

-----------------------------------------------------------------------------
(* Settlement: settle_due                                                  *)

(* list_unsettled_bets_due; a bet whose match is not over waits.           *)
Due == {leg \in Legs : BetOn(leg) # None /\ BetOn(leg).settled = None}

StartSettling(s) ==
    /\ ~settling[s].active
    /\ settling' = [settling EXCEPT ![s] = [active |-> TRUE, due |-> Due]]
    /\ UNCHANGED <<day, final, bets, scoring, tripped, flips>>

(* Mutant: a favourite-only bet is settled without a P&L.                  *)
PnlMissing(bet, won) ==
    IF bet.price = None THEN None
    ELSE IF ~won THEN -100 ELSE (100 * (100 - bet.price)) \div bet.price

(* Mutant: the P&L is added to what the bet has.                           *)
PnlAdded(bet, won) ==
    IF bet.price = None THEN 0
    ELSE bet.pnl + (IF ~won THEN -100 ELSE (100 * (100 - bet.price)) \div bet.price)

(* compute_pnl for a stake of 100.                                         *)
Pnl(bet, won) ==
    IF bet.price = None THEN 0
    ELSE IF ~won THEN -100 ELSE (100 * (100 - bet.price)) \div bet.price

(* The provider answered for the match of leg; record_settlement does not  *)
(* look whether another run has settled the bet meanwhile.                 *)
SettleBet(s, leg) ==
    /\ leg \in settling[s].due
    /\ settling' = [settling EXCEPT ![s].due = @ \ {leg}]
    /\ bets' = IF final[leg[1]] = None THEN bets
               ELSE [bets EXCEPT ![leg[1]][leg[2]] =
                      [@ EXCEPT !.settled = day, !.pnl = Pnl(BetOn(leg), leg[2] = final[leg[1]])]]
    /\ UNCHANGED <<day, final, scoring, tripped, flips>>

Settled(leg) == BetOn(leg) # None /\ BetOn(leg).settled # None

(* Mutant: favourite-only bets count as staked.                            *)
InWindowUnpriced == {leg \in Legs : Settled(leg) /\ BetOn(leg).settled >= day - Window}

(* settled_pnl_window: market bets settled in the trailing window.         *)
InWindow ==
    {leg \in Legs : Settled(leg) /\ BetOn(leg).settled >= day - Window /\ BetOn(leg).price # None}

PnlOf(legs) == SumFunctionOnSet([leg \in legs |-> BetOn(leg).pnl], legs)

(* _evaluate_kill_switch *)
Drawdown(legs) ==
    /\ Cardinality(legs) >= MinStaked
    /\ PnlOf(legs) < -(KillPct * Cardinality(legs))

FinishSettling(s) ==
    /\ settling[s].active /\ settling[s].due = {}
    /\ settling' = [settling EXCEPT ![s].active = FALSE]
    /\ tripped' = (tripped \/ Drawdown(InWindow))
    /\ UNCHANGED <<day, final, bets, scoring, flips>>

(* reset_kill_switch: the operator, from the command line or the API.      *)
ResetKillSwitch ==
    /\ tripped /\ tripped' = FALSE
    /\ UNCHANGED <<day, final, bets, scoring, settling, flips>>

-----------------------------------------------------------------------------
Scoring(r) ==
    \/ StartScoring(r) \/ Vetoed(r)
    \/ \E f \in Fixtures, o \in Outcomes : ScoreFixture(r, f, o)
    \/ \E price \in Prices \cup {None} : LogBet(r, price)

Settling(s) ==
    \/ StartSettling(s) \/ FinishSettling(s)
    \/ \E leg \in Legs : SettleBet(s, leg)

Next ==
    \/ NextDay \/ ResetKillSwitch
    \/ \E f \in Fixtures, winner \in Outcomes : ProviderSays(f, winner)
    \/ \E r \in Scorers : Scoring(r)
    \/ \E s \in Settlers : Settling(s)

Spec == Init /\ [][Next]_vars

-----------------------------------------------------------------------------
(* Properties                                                              *)

(* Scoring runs overlap: the tick of a daemon started before 08:00 (awaited *)
(* in _main while the scheduler runs), the 08:00 job, `run-once`.  Each     *)
(* reads the day's exposure before it awaits the quote and does not look    *)
(* again, so the cap is a limit for one run only: together they overshoot   *)
(* it, but by at most one stake for every run beyond the first, whatever    *)
(* they repeat, across midnight, and with favourites that change.           *)
OvershootIsBounded ==
    \A d \in Days :
        Cardinality({leg \in Legs : BetOn(leg) # None /\ BetOn(leg).placed = d})
            <= Cap + Cardinality(Scorers) - 1

(* Two settlement runs that both listed a bet settle it like one: it stays *)
(* settled and keeps its P&L, unless the provider changes a result.        *)
SettledOnce ==
    flips' = 0 => \A leg \in Legs : Settled(leg) =>
        LET bet == bets'[leg[1]][leg[2]] IN bet.settled # None /\ bet.pnl = BetOn(leg).pnl

(* The switch trips on money only: at least MinStaked on settled market    *)
(* bets, one of them lost.  Favourite-only bets never trip it.             *)
TripsOnPricedLosses ==
    ~tripped /\ tripped' =>
        LET priced == {leg \in Legs : Settled(leg) /\ BetOn(leg).price # None}
        IN  Cardinality(priced) >= MinStaked /\ \E leg \in priced : BetOn(leg).pnl < 0

(* No step of overlapping settlement runs rewrites what was settled or     *)
(* trips the switch on anything but priced losses.                         *)
SettlementIsSound == [][SettledOnce /\ TripsOnPricedLosses]_vars
=============================================================================
