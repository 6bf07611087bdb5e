--------------------------- MODULE PaperBets_proofs ---------------------------
(***************************************************************************)
(* Machine-checked facts about PaperBets for any fixtures, prices and      *)
(* bounds, and any number of settlement runs.                              *)
(***************************************************************************)
EXTENDS PaperBets, Induction, FiniteSetTheorems, TLAPS

(* The parts of the state that the theorems read.                          *)
BetsTyped ==
    /\ day \in Days
    /\ final \in [Fixtures -> Outcomes \cup {None}]
    /\ bets \in [Fixtures -> [Outcomes -> Bet \cup {None}]]
    /\ scoring \in [Scorers -> [todo : SUBSET Fixtures, quote : Legs \cup {None}]]
    /\ settling \in [Settlers -> [active : BOOLEAN, due : SUBSET Legs]]
    /\ flips \in Nat

(* What a settlement run has listed is a bet, and bets are never removed.  *)
DueIsBet == \A s \in Settlers : \A leg \in settling[s].due : BetOn(leg) # None

TypedInv == BetsTyped /\ DueIsBet

(* As long as no result was changed, a settled bet has the P&L of the      *)
(* result the provider shows.                                              *)
PnlOfResult(leg) ==
    final[leg[1]] # None /\ BetOn(leg).pnl = Pnl(BetOn(leg), leg[2] = final[leg[1]])
PnlIsRight == flips = 0 => \A leg \in Legs : Settled(leg) => PnlOfResult(leg)

SettleInv == TypedInv /\ PnlIsRight

(* The bets placed on day d.                                               *)
PlacedOn(d) == {leg \in Legs : BetOn(leg) # None /\ BetOn(leg).placed = d}

(* Nothing is dated in the future, no day is over the bound, and there is  *)
(* room under it for the bets of all runs that await a quote.              *)
NoneAhead == \A d \in Days : d > day => PlacedOn(d) = {}
Limit == Cap + Cardinality(Scorers) - 1
CapKept == \A d \in Days : Cardinality(PlacedOn(d)) <= Limit
Awaiting == {r \in Scorers : scoring[r].quote # None}
RoomKept == Awaiting # {} => Cap > 0 /\ Cardinality(PlacedOn(day)) + Cardinality(Awaiting) <= Limit

ExposureInv == TypedInv /\ NoneAhead /\ CapKept /\ RoomKept

-----------------------------------------------------------------------------
(* What one assignment to one leg does to the table of bets.               *)
LEMMA OneBetWritten ==
  ASSUME BetsTyped, NEW leg \in Legs, NEW bet \in Bet \cup {None},
         bets' = [bets EXCEPT ![leg[1]][leg[2]] = bet]
  PROVE  /\ bets' \in [Fixtures -> [Outcomes -> Bet \cup {None}]]
         /\ bets'[leg[1]][leg[2]] = bet
         /\ \A other \in Legs \ {leg} : bets'[other[1]][other[2]] = BetOn(other)
<1> DEFINE S == Bet \cup {None}
<1>1. leg[1] \in Fixtures /\ leg[2] \in Outcomes
  BY DEF Legs
<1>2. \A other \in Legs \ {leg} :
        other[1] \in Fixtures /\ other[2] \in Outcomes /\ (other[1] # leg[1] \/ other[2] # leg[2])
  BY DEF Legs
<1>3. bets \in [Fixtures -> [Outcomes -> S]] /\ bet \in S
  BY DEF BetsTyped
<1> HIDE DEF S
<1>4. bets' \in [Fixtures -> [Outcomes -> S]]
  BY <1>1, <1>3
<1>5. bets'[leg[1]][leg[2]] = bet
  BY <1>1, <1>3
<1>6. \A other \in Legs \ {leg} : bets'[other[1]][other[2]] = BetOn(other)
  BY <1>1, <1>2, <1>3 DEF BetOn
<1> QED BY <1>4, <1>5, <1>6 DEF S

(* A new bet goes where there was none.                                    *)
LEMMA LogBetWrites ==
  ASSUME BetsTyped, NEW r \in Scorers, NEW price \in Prices \cup {None}, LogBet(r, price)
  PROVE  /\ BetsTyped'
         /\ scoring[r].quote \in Legs
         /\ \A leg \in Legs \ {scoring[r].quote} : bets'[leg[1]][leg[2]] = BetOn(leg)
         /\ \A leg \in Legs : BetOn(leg) # None => bets'[leg[1]][leg[2]] = BetOn(leg)
         /\ \A leg \in Legs : bets'[leg[1]][leg[2]] = BetOn(leg) \/
              (bets'[leg[1]][leg[2]].placed = day /\ bets'[leg[1]][leg[2]].settled = None)
<1> DEFINE leg == scoring[r].quote
           bet == [price |-> price, placed |-> day, settled |-> None, pnl |-> 0]
<1>1. leg \in Legs
  BY DEF LogBet, BetsTyped
<1>2. /\ UNCHANGED <<day, final, settling, flips>>
      /\ scoring' = [scoring EXCEPT ![r].quote = None]
      /\ (BetOn(leg) = None /\ bets' = [bets EXCEPT ![leg[1]][leg[2]] = bet]) \/ bets' = bets
  BY DEF LogBet
<1>3. bet \in Bet /\ bet.placed = day /\ bet.settled = None
  BY DEF Bet, BetsTyped
<1>4. scoring' \in [Scorers -> [todo : SUBSET Fixtures, quote : Legs \cup {None}]]
  BY <1>2 DEF BetsTyped
<1> HIDE DEF bet, leg
<1>5. CASE bets' = bets
  BY <1>1, <1>2, <1>4, <1>5 DEF BetsTyped, BetOn, leg
<1>6. CASE BetOn(leg) = None /\ bets' = [bets EXCEPT ![leg[1]][leg[2]] = bet]
  <2>1. /\ bets' \in [Fixtures -> [Outcomes -> Bet \cup {None}]]
        /\ bets'[leg[1]][leg[2]] = bet
        /\ \A other \in Legs \ {leg} : bets'[other[1]][other[2]] = BetOn(other)
    BY <1>1, <1>3, <1>6, OneBetWritten
  <2>2. BetsTyped'
    BY <1>2, <1>4, <2>1 DEF BetsTyped
  <2> QED BY <1>1, <1>3, <1>6, <2>1, <2>2 DEF leg
<1> QED BY <1>2, <1>5, <1>6

LEMMA PnlIsInt == ASSUME NEW bet \in Bet, NEW won \in BOOLEAN PROVE Pnl(bet, won) \in Int
<1>1. bet.price \in Prices \cup {None}
  BY DEF Bet
<1>2. CASE bet.price = None
  BY <1>2 DEF Pnl
<1>3. CASE bet.price # None
  <2>1. bet.price \in 1 .. 99
    BY <1>1, <1>3, BetsAssumption
  <2>2. (100 * (100 - bet.price)) \div bet.price \in Int
    BY <2>1
  <2> QED BY <1>3, <2>2 DEF Pnl
<1> QED BY <1>2, <1>3

(* Settlement writes a date and the P&L of the result to one bet, whoever  *)
(* settled it before.                                                      *)
LEMMA SettleBetWrites ==
  ASSUME BetsTyped, DueIsBet, NEW s \in Settlers, NEW leg \in Legs, SettleBet(s, leg)
  PROVE  /\ BetsTyped' /\ DueIsBet'
         /\ \A other \in Legs \ {leg} : bets'[other[1]][other[2]] = BetOn(other)
         /\ \/ bets' = bets
            \/ /\ final[leg[1]] # None /\ BetOn(leg) # None /\ bets'[leg[1]][leg[2]] \in Bet
               /\ LET now == bets'[leg[1]][leg[2]]
                  IN  /\ now.settled = day /\ now.placed = BetOn(leg).placed
                      /\ now.price = BetOn(leg).price
                      /\ now.pnl = Pnl(BetOn(leg), leg[2] = final[leg[1]])
<1> DEFINE old == BetOn(leg)
           gain == Pnl(old, leg[2] = final[leg[1]])
           new == [old EXCEPT !.settled = day, !.pnl = gain]
<1>1. leg \in settling[s].due /\ settling' = [settling EXCEPT ![s].due = @ \ {leg}]
      /\ UNCHANGED <<day, final, scoring, flips>>
  BY DEF SettleBet
<1>2. leg[1] \in Fixtures /\ leg[2] \in Outcomes
  BY DEF Legs
<1>3. old \in Bet
  <2>1. old # None
    BY <1>1 DEF DueIsBet
  <2> QED BY <1>2, <2>1 DEF BetsTyped, BetOn
<1>4. gain \in Int
  BY <1>3, PnlIsInt
<1>5. bets' = bets \/ (final[leg[1]] # None /\ bets' = [bets EXCEPT ![leg[1]][leg[2]] = new])
  BY <1>2 DEF SettleBet, BetOn, BetsTyped
<1> HIDE DEF gain
<1>6. /\ new \in Bet /\ new.settled = day /\ new.placed = old.placed
      /\ new.price = old.price /\ new.pnl = gain
  BY <1>3, <1>4 DEF Bet, BetsTyped
<1>7. /\ settling' \in [Settlers -> [active : BOOLEAN, due : SUBSET Legs]]
      /\ \A t \in Settlers : settling'[t].due \subseteq settling[t].due
      /\ \A t \in Settlers : settling[t].due \subseteq Legs
  BY <1>1 DEF BetsTyped
<1> HIDE DEF new, old
<1>8. CASE bets' = bets
  <2>1. \A other \in Legs : bets'[other[1]][other[2]] = BetOn(other)
    BY <1>8 DEF BetOn
  <2>2. BetsTyped'
    BY <1>1, <1>7, <1>8 DEF BetsTyped
  <2>3. DueIsBet'
    BY <1>7, <1>8 DEF DueIsBet, BetOn
  <2> QED BY <1>8, <2>1, <2>2, <2>3
<1>9. CASE final[leg[1]] # None /\ bets' = [bets EXCEPT ![leg[1]][leg[2]] = new]
  <2>1. /\ bets' \in [Fixtures -> [Outcomes -> Bet \cup {None}]]
        /\ bets'[leg[1]][leg[2]] = new
        /\ \A other \in Legs \ {leg} : bets'[other[1]][other[2]] = BetOn(other)
    BY <1>6, <1>9, OneBetWritten
  <2>2. BetsTyped'
    BY <1>1, <1>7, <2>1 DEF BetsTyped
  <2>3. new # None /\ old # None
    BY <1>3, <1>6, BetsAssumption
  <2>4. DueIsBet'
    <3> SUFFICES ASSUME NEW t \in Settlers, NEW other \in settling'[t].due
                 PROVE  bets'[other[1]][other[2]] # None
      BY DEF DueIsBet, BetOn
    <3>1. other \in Legs /\ BetOn(other) # None
      BY <1>7 DEF DueIsBet
    <3> QED BY <2>1, <2>3, <3>1
  <2> QED BY <1>6, <1>9, <2>1, <2>2, <2>3, <2>4 DEF old, gain
<1> QED BY <1>5, <1>8, <1>9

-----------------------------------------------------------------------------
(* Steps that leave the bets alone.                                        *)
LEMMA QuietKeepsTypes ==
  ASSUME TypedInv, UNCHANGED bets, day' \in Days,
         final' \in [Fixtures -> Outcomes \cup {None}], flips' \in Nat,
         scoring' \in [Scorers -> [todo : SUBSET Fixtures, quote : Legs \cup {None}]],
         settling' \in [Settlers -> [active : BOOLEAN, due : SUBSET Legs]],
         \A s \in Settlers : settling'[s].due \subseteq settling[s].due \/ settling'[s].due = Due
  PROVE  TypedInv'
<1>1. BetsTyped'
  BY DEF TypedInv, BetsTyped
<1>2. DueIsBet'
  BY DEF TypedInv, DueIsBet, Due, BetOn
<1> QED BY <1>1, <1>2 DEF TypedInv

LEMMA TypedInit == Init => TypedInv
<1> SUFFICES ASSUME Init PROVE TypedInv
  OBVIOUS
<1>1. BetsTyped
  BY BetsAssumption DEF Init, BetsTyped, Days
<1>2. DueIsBet
  BY DEF Init, DueIsBet
<1> QED BY <1>1, <1>2 DEF TypedInv

LEMMA TypedStep == TypedInv /\ [Next]_vars => TypedInv'
<1> SUFFICES ASSUME TypedInv, [Next]_vars PROVE TypedInv'
  OBVIOUS
<1>0. BetsTyped /\ DueIsBet
  BY DEF TypedInv
<1>1. CASE NextDay
  <2>1. day' \in Days
    BY <1>0, <1>1, BetsAssumption DEF NextDay, BetsTyped, Days
  <2> QED BY <1>0, <1>1, <2>1, QuietKeepsTypes DEF NextDay, BetsTyped
<1>2. CASE ResetKillSwitch
  BY <1>0, <1>2, QuietKeepsTypes DEF ResetKillSwitch, BetsTyped
<1>3. ASSUME NEW f \in Fixtures, NEW winner \in Outcomes, ProviderSays(f, winner) PROVE TypedInv'
  <2>1. flips' \in Nat
    BY <1>0, <1>3 DEF ProviderSays, BetsTyped
  <2>2. final' \in [Fixtures -> Outcomes \cup {None}]
    BY <1>0, <1>3 DEF ProviderSays, BetsTyped
  <2> QED BY <1>0, <1>3, <2>1, <2>2, QuietKeepsTypes DEF ProviderSays, BetsTyped
<1>4. ASSUME NEW r \in Scorers, Scoring(r) PROVE TypedInv'
  <2>1. ASSUME NEW price \in Prices \cup {None}, LogBet(r, price) PROVE TypedInv'
    <3>1. BetsTyped' /\ \A leg \in Legs : BetOn(leg) # None => bets'[leg[1]][leg[2]] = BetOn(leg)
      BY <1>0, <2>1, LogBetWrites
    <3>2. DueIsBet'
      BY <1>0, <2>1, <3>1 DEF LogBet, DueIsBet, BetsTyped, BetOn
    <3> QED BY <3>1, <3>2 DEF TypedInv
  <2>2. CASE StartScoring(r) \/ Vetoed(r) \/ \E f \in Fixtures, o \in Outcomes : ScoreFixture(r, f, o)
    <3>1. scoring' \in [Scorers -> [todo : SUBSET Fixtures, quote : Legs \cup {None}]]
      <4>1. CASE StartScoring(r)
        BY <1>0, <4>1 DEF StartScoring, BetsTyped
      <4>2. CASE Vetoed(r)
        BY <1>0, <4>2 DEF Vetoed, BetsTyped
      <4>3. ASSUME NEW f \in Fixtures, NEW o \in Outcomes, ScoreFixture(r, f, o)
            PROVE  scoring' \in [Scorers -> [todo : SUBSET Fixtures, quote : Legs \cup {None}]]
        <5> DEFINE q == IF ExposureLeft THEN <<f, o>> ELSE None
        <5>1. q \in Legs \cup {None}
          BY DEF Legs
        <5>2. scoring' = [scoring EXCEPT ![r] = [todo |-> @.todo \ {f}, quote |-> q]]
          BY <4>3 DEF ScoreFixture
        <5> HIDE DEF q
        <5> QED BY <1>0, <5>1, <5>2 DEF BetsTyped
      <4> QED BY <2>2, <4>1, <4>2, <4>3
    <3>2. UNCHANGED <<day, final, bets, settling, flips>>
      BY <2>2 DEF StartScoring, Vetoed, ScoreFixture
    <3> QED BY <1>0, <3>1, <3>2, QuietKeepsTypes DEF BetsTyped
  <2> QED BY <1>4, <2>1, <2>2 DEF Scoring
<1>5. ASSUME NEW s \in Settlers, Settling(s) PROVE TypedInv'
  <2>1. ASSUME NEW leg \in Legs, SettleBet(s, leg) PROVE TypedInv'
    BY <1>0, <2>1, SettleBetWrites DEF TypedInv
  <2>2. CASE StartSettling(s)
    <3>1. Due \subseteq Legs
      BY DEF Due
    <3>2. /\ settling' = [settling EXCEPT ![s] = [active |-> TRUE, due |-> Due]]
          /\ UNCHANGED <<day, final, bets, scoring, flips>>
      BY <2>2 DEF StartSettling
    <3>3. /\ settling' \in [Settlers -> [active : BOOLEAN, due : SUBSET Legs]]
          /\ \A t \in Settlers : settling'[t].due \subseteq settling[t].due \/ settling'[t].due = Due
      BY <1>0, <3>1, <3>2 DEF BetsTyped
    <3> QED BY <1>0, <3>2, <3>3, QuietKeepsTypes DEF BetsTyped
  <2>3. CASE FinishSettling(s)
    <3>1. settling' = [settling EXCEPT ![s].active = FALSE] /\ UNCHANGED <<day, final, bets, scoring, flips>>
      BY <2>3 DEF FinishSettling
    <3>2. /\ settling' \in [Settlers -> [active : BOOLEAN, due : SUBSET Legs]]
          /\ \A t \in Settlers : settling'[t].due \subseteq settling[t].due
      BY <1>0, <3>1 DEF BetsTyped
    <3> QED BY <1>0, <3>1, <3>2, QuietKeepsTypes DEF BetsTyped
  <2> QED BY <1>5, <2>1, <2>2, <2>3 DEF Settling
<1>6. CASE UNCHANGED vars
  BY <1>0, <1>6, QuietKeepsTypes DEF vars, BetsTyped
<1> QED BY <1>1, <1>2, <1>3, <1>4, <1>5, <1>6 DEF Next

-----------------------------------------------------------------------------
(* Of a settled bet, only a changed result changes the P&L.                *)

(* The one step that settles: the date is a day and the P&L the result's.  *)
LEMMA SettleBetIsRight ==
  ASSUME SettleInv, NEW s \in Settlers, NEW leg \in Legs, SettleBet(s, leg)
  PROVE  PnlIsRight' /\ SettledOnce
<1>1. /\ \A other \in Legs \ {leg} : bets'[other[1]][other[2]] = BetOn(other)
      /\ \/ bets' = bets
         \/ /\ final[leg[1]] # None /\ BetOn(leg) # None /\ bets'[leg[1]][leg[2]] \in Bet
            /\ LET now == bets'[leg[1]][leg[2]]
               IN  /\ now.settled = day /\ now.placed = BetOn(leg).placed
                   /\ now.price = BetOn(leg).price
                   /\ now.pnl = Pnl(BetOn(leg), leg[2] = final[leg[1]])
  BY SettleBetWrites DEF SettleInv, TypedInv
<1>2. UNCHANGED <<day, final, flips>> /\ day # None
  BY BetsAssumption DEF SettleBet, SettleInv, TypedInv, BetsTyped
<1>3. \A other \in Legs \ {leg} :
        /\ PnlOfResult(other)' <=> PnlOfResult(other)
        /\ Settled(other)' <=> Settled(other)
  BY <1>1, <1>2 DEF PnlOfResult, Settled, BetOn
<1>4. CASE bets' = bets
  BY <1>2, <1>4 DEF SettleInv, PnlIsRight, PnlOfResult, Settled, BetOn, SettledOnce
<1>5. CASE bets' # bets
  <2> DEFINE new == bets'[leg[1]][leg[2]]
  <2>1. /\ final[leg[1]] # None /\ new.settled = day /\ new.price = BetOn(leg).price
        /\ new.pnl = Pnl(BetOn(leg), leg[2] = final[leg[1]]) /\ new # None
    BY <1>1, <1>5, BetsAssumption
  <2>2. Pnl(new, leg[2] = final[leg[1]]) = Pnl(BetOn(leg), leg[2] = final[leg[1]])
    BY <2>1 DEF Pnl
  <2> HIDE DEF new
  <2>3. PnlOfResult(leg)'
    BY <1>2, <2>1, <2>2 DEF PnlOfResult, BetOn, new
  <2>4. PnlIsRight'
    BY <1>2, <1>3, <2>3 DEF SettleInv, PnlIsRight
  <2>5. SettledOnce
    <3> SUFFICES ASSUME flips' = 0, NEW other \in Legs, Settled(other)
                 PROVE  /\ bets'[other[1]][other[2]].settled # None
                        /\ bets'[other[1]][other[2]].pnl = BetOn(other).pnl
      BY DEF SettledOnce
    <3>1. CASE other = leg
      <4>1. BetOn(leg).pnl = Pnl(BetOn(leg), leg[2] = final[leg[1]])
        BY <1>2, <3>1 DEF SettleInv, PnlIsRight, PnlOfResult
      <4> QED BY <1>2, <2>1, <3>1, <4>1 DEF new
    <3>2. CASE other # leg
      BY <1>1, <3>2 DEF Settled
    <3> QED BY <3>1, <3>2
  <2> QED BY <2>4, <2>5
<1> QED BY <1>4, <1>5

(* Every other step keeps the settled bets, and the results they rest on.  *)
LEMMA OthersKeepSettled ==
  ASSUME SettleInv,
         \A leg \in Legs : Settled(leg) => bets'[leg[1]][leg[2]] = BetOn(leg),
         \A leg \in Legs : Settled(leg)' => bets'[leg[1]][leg[2]] = BetOn(leg),
         flips' = 0 => flips = 0 /\ \A leg \in Legs : final[leg[1]] # None => final'[leg[1]] = final[leg[1]]
  PROVE  PnlIsRight' /\ SettledOnce
<1>1. PnlIsRight'
  <2> SUFFICES ASSUME flips' = 0, NEW leg \in Legs, Settled(leg)' PROVE PnlOfResult(leg)'
    BY DEF PnlIsRight
  <2>1. BetOn(leg)' = BetOn(leg)
    BY DEF BetOn
  <2>2. Settled(leg)
    BY <2>1 DEF Settled
  <2>3. PnlOfResult(leg)
    BY <2>2 DEF SettleInv, PnlIsRight
  <2> QED BY <2>1, <2>3 DEF PnlOfResult
<1>2. SettledOnce
  BY DEF SettledOnce, Settled
<1> QED BY <1>1, <1>2

LEMMA SettleStep == SettleInv /\ [Next]_vars => PnlIsRight' /\ SettledOnce
<1> SUFFICES ASSUME SettleInv, [Next]_vars PROVE PnlIsRight' /\ SettledOnce
  OBVIOUS
<1>0. BetsTyped /\ DueIsBet
  BY DEF SettleInv, TypedInv
<1>1. ASSUME NEW s \in Settlers, NEW leg \in Legs, SettleBet(s, leg) PROVE PnlIsRight' /\ SettledOnce
  BY <1>1, SettleBetIsRight
<1>2. ASSUME NEW r \in Scorers, NEW price \in Prices \cup {None}, LogBet(r, price)
      PROVE  PnlIsRight' /\ SettledOnce
  <2>1. /\ \A leg \in Legs : BetOn(leg) # None => bets'[leg[1]][leg[2]] = BetOn(leg)
        /\ \A leg \in Legs : bets'[leg[1]][leg[2]] = BetOn(leg) \/ bets'[leg[1]][leg[2]].settled = None
    BY <1>0, <1>2, LogBetWrites
  <2>2. UNCHANGED <<final, flips>>
    BY <1>2 DEF LogBet
  <2> QED BY <2>1, <2>2, OthersKeepSettled DEF Settled, BetOn
<1>3. ASSUME NEW f \in Fixtures, NEW winner \in Outcomes, ProviderSays(f, winner)
      PROVE  PnlIsRight' /\ SettledOnce
  <2>1. UNCHANGED bets
    BY <1>3 DEF ProviderSays
  <2>2. ASSUME flips' = 0
        PROVE  flips = 0 /\ \A leg \in Legs : final[leg[1]] # None => final'[leg[1]] = final[leg[1]]
    <3>1. final[f] = None /\ flips = 0
      BY <1>0, <1>3, <2>2 DEF ProviderSays, BetsTyped
    <3>2. \A g \in Fixtures \ {f} : final'[g] = final[g]
      BY <1>0, <1>3 DEF ProviderSays, BetsTyped
    <3> QED BY <3>1, <3>2 DEF Legs
  <2> QED BY <2>1, <2>2, OthersKeepSettled DEF BetOn
<1>4. CASE UNCHANGED <<bets, final, flips>>
  BY <1>4, OthersKeepSettled DEF BetOn
<1>5. ASSUME NEW r \in Scorers, Scoring(r) PROVE PnlIsRight' /\ SettledOnce
  BY <1>2, <1>4, <1>5 DEF Scoring, StartScoring, Vetoed, ScoreFixture
<1>6. ASSUME NEW s \in Settlers, Settling(s) PROVE PnlIsRight' /\ SettledOnce
  BY <1>1, <1>4, <1>6 DEF Settling, StartSettling, FinishSettling
<1> QED BY <1>3, <1>4, <1>5, <1>6 DEF Next, NextDay, ResetKillSwitch, vars

(* For any fixtures, prices, bounds and settlement runs: runs that listed  *)
(* the same bet settle it like one.  A bet stays settled and keeps its     *)
(* P&L, whichever of them writes it again, until the provider changes a    *)
(* result it has given.                                                    *)
THEOREM SettledOnceTheorem == Spec => [][SettledOnce]_vars
<1>1. Init => SettleInv
  BY TypedInit DEF Init, SettleInv, PnlIsRight, Settled, BetOn, Legs
<1>2. SettleInv /\ [Next]_vars => SettleInv' /\ SettledOnce
  BY SettleStep, TypedStep DEF SettleInv
<1> QED BY <1>1, <1>2, PTL DEF Spec

(* Every bet, quote and listing is of its type, and no more results are    *)
(* changed than the bound allows: for any prices, runs and bounds.         *)
THEOREM BetsTypesTheorem == Spec => []TypeOK
<1> DEFINE Inv == TypedInv /\ tripped \in BOOLEAN /\ flips <= MaxFlips
<1>1. Init => Inv
  <2> SUFFICES ASSUME Init PROVE Inv
    OBVIOUS
  <2>1. flips = 0 /\ tripped = FALSE
    BY DEF Init
  <2>2. MaxFlips \in Nat
    BY BetsAssumption
  <2>3. tripped \in BOOLEAN
    BY <2>1, Zenon
  <2>4. flips <= MaxFlips
    BY <2>1, <2>2
  <2>5. TypedInv
    BY TypedInit
  <2> HIDE DEF Inv
  <2> QED BY <2>3, <2>4, <2>5, Zenon DEF Inv
<1>2. Inv /\ [Next]_vars => Inv'
  <2> SUFFICES ASSUME Inv, [Next]_vars PROVE Inv'
    OBVIOUS
  <2>1. TypedInv' /\ flips \in Nat /\ MaxFlips \in Nat
    BY TypedStep, BetsAssumption DEF TypedInv, BetsTyped
  <2>2. tripped' \in BOOLEAN
    <3>1. CASE UNCHANGED tripped
      BY <3>1
    <3>2. ASSUME NEW s \in Settlers, FinishSettling(s) PROVE tripped' \in BOOLEAN
      BY <3>2, Zenon DEF FinishSettling
    <3>3. CASE NextDay \/ ResetKillSwitch
      BY <3>1, <3>3 DEF NextDay, ResetKillSwitch
    <3>4. ASSUME NEW f \in Fixtures, NEW winner \in Outcomes, ProviderSays(f, winner) PROVE UNCHANGED tripped
      BY <3>4 DEF ProviderSays
    <3>5. ASSUME NEW r \in Scorers, Scoring(r) PROVE UNCHANGED tripped
      BY <3>5 DEF Scoring, StartScoring, Vetoed, ScoreFixture, LogBet
    <3>6. ASSUME NEW s \in Settlers, StartSettling(s) \/ \E leg \in Legs : SettleBet(s, leg)
          PROVE  UNCHANGED tripped
      BY <3>6 DEF StartSettling, SettleBet
    <3> QED BY <3>1, <3>2, <3>3, <3>4, <3>5, <3>6 DEF Next, Settling, vars
  <2>3. flips' <= MaxFlips
    <3>1. CASE UNCHANGED flips
      BY <3>1
    <3>2. ASSUME NEW f \in Fixtures, NEW winner \in Outcomes, ProviderSays(f, winner) PROVE flips' <= MaxFlips
      BY <2>1, <3>2 DEF ProviderSays
    <3>3. CASE NextDay \/ ResetKillSwitch
      BY <3>1, <3>3 DEF NextDay, ResetKillSwitch
    <3>4. ASSUME NEW r \in Scorers, Scoring(r) PROVE UNCHANGED flips
      BY <3>4 DEF Scoring, StartScoring, Vetoed, ScoreFixture, LogBet
    <3>5. ASSUME NEW s \in Settlers, Settling(s) PROVE UNCHANGED flips
      BY <3>5 DEF Settling, StartSettling, SettleBet, FinishSettling
    <3> QED BY <3>1, <3>2, <3>3, <3>4, <3>5 DEF Next, vars
  <2> QED BY <2>1, <2>2, <2>3
<1>3. Inv => TypeOK
  BY BetsAssumption DEF TypedInv, BetsTyped, TypeOK
<1> QED BY <1>1, <1>2, <1>3, PTL DEF Spec

-----------------------------------------------------------------------------
(* The exposure cap and the runs that overlap                              *)

LEMMA LegsAreFinite ==
  ASSUME IsFiniteSet(Fixtures), NEW S, S \subseteq Legs
  PROVE  IsFiniteSet(S) /\ Cardinality(S) \in Nat
<1>1. IsFiniteSet({} \cup {"HOME"})
  BY FS_EmptySet, FS_AddElement, Zenon
<1>2. IsFiniteSet(({} \cup {"HOME"}) \cup {"AWAY"})
  BY <1>1, FS_AddElement, Zenon
<1>3. IsFiniteSet(Legs)
  <2>1. Outcomes = ({} \cup {"HOME"}) \cup {"AWAY"}
    BY DEF Outcomes
  <2> QED BY <1>2, <2>1, FS_Product DEF Legs
<1> QED BY <1>3, FS_Subset, FS_CardinalityType

(* Any set of scoring runs is finite and no larger than Scorers.           *)
LEMMA RunsAreFinite ==
  ASSUME NEW R, R \subseteq Scorers
  PROVE  /\ IsFiniteSet(R) /\ Cardinality(R) \in Nat
         /\ Cardinality(R) <= Cardinality(Scorers)
         /\ Cardinality(Scorers) \in Nat /\ Cardinality(Scorers) >= 1
         /\ R # Scorers => Cardinality(R) + 1 <= Cardinality(Scorers)
<1>1. IsFiniteSet(Scorers) /\ Scorers # {} /\ IsFiniteSet(R)
  BY FS_Subset, BetsAssumption
<1>2. /\ Cardinality(R) \in Nat /\ Cardinality(Scorers) \in Nat
      /\ Cardinality(R) <= Cardinality(Scorers) /\ Cardinality(Scorers) # 0
  BY <1>1, FS_CardinalityType, FS_Subset, FS_EmptySet
<1>3. R # Scorers => Cardinality(R) < Cardinality(Scorers)
  <2>1. Cardinality(Scorers) = Cardinality(R) => Scorers = R
    BY <1>1, FS_Subset
  <2> QED BY <1>2, <2>1
<1> QED BY <1>1, <1>2, <1>3

(* One element more, one element less.                                     *)
LEMMA OneMore ==
  ASSUME NEW S, IsFiniteSet(S), NEW x
  PROVE  /\ IsFiniteSet(S \cup {x}) /\ Cardinality(S) \in Nat
         /\ Cardinality(S \cup {x}) \in Nat /\ Cardinality(S \cup {x}) <= Cardinality(S) + 1
         /\ x \in S => IsFiniteSet(S \ {x}) /\ Cardinality(S \ {x}) = Cardinality(S) - 1
<1>1. /\ IsFiniteSet(S \cup {x})
      /\ Cardinality(S \cup {x}) = IF x \in S THEN Cardinality(S) ELSE Cardinality(S) + 1
  BY FS_AddElement, Zenon
<1>2. Cardinality(S) \in Nat
  BY FS_CardinalityType
<1>3. /\ IsFiniteSet(S \ {x})
      /\ Cardinality(S \ {x}) = IF x \in S THEN Cardinality(S) - 1 ELSE Cardinality(S)
  BY FS_RemoveElement, Zenon
<1> QED BY <1>1, <1>2, <1>3

(* Steps that place nothing and await nothing new.                         *)
LEMMA SamePlaces ==
  ASSUME IsFiniteSet(Fixtures), ExposureInv, TypedInv', day' = day,
         \A d \in Days : PlacedOn(d)' = PlacedOn(d), Awaiting' \subseteq Awaiting
  PROVE  ExposureInv'
<1>1. day \in Days
  BY DEF ExposureInv, TypedInv, BetsTyped
<1>2. NoneAhead' /\ CapKept'
  BY DEF ExposureInv, NoneAhead, CapKept, Limit
<1>3. RoomKept'
  <2>1. PlacedOn(day)' = PlacedOn(day)
    BY <1>1
  <2>2. Awaiting \subseteq Scorers /\ Awaiting' \subseteq Scorers
    BY DEF Awaiting
  <2>3. /\ IsFiniteSet(Awaiting) /\ Cardinality(Awaiting) \in Nat
        /\ Cardinality(Awaiting') \in Nat /\ Cardinality(Scorers) \in Nat
    BY <2>2, RunsAreFinite
  <2>4. Cardinality(Awaiting') <= Cardinality(Awaiting)
    BY <2>3, FS_Subset
  <2>5. Cardinality(PlacedOn(day)) \in Nat /\ Cap \in Nat
    BY LegsAreFinite, BetsAssumption DEF PlacedOn
  <2>6. Awaiting' # {} => Cap > 0 /\ Cardinality(PlacedOn(day)) + Cardinality(Awaiting) <= Limit
    BY DEF ExposureInv, RoomKept
  <2>7. Limit \in Int /\ Limit' = Limit
    BY <2>3, <2>5 DEF Limit
  <2> HIDE DEF Awaiting, Limit
  <2> QED BY <1>1, <2>1, <2>3, <2>4, <2>5, <2>6, <2>7 DEF RoomKept
<1> QED BY <1>2, <1>3 DEF ExposureInv

(* After midnight nothing is placed, and all runs may still log.           *)
LEMMA NextDayKeepsCap ==
  ASSUME IsFiniteSet(Fixtures), ExposureInv, TypedInv', NextDay PROVE ExposureInv'
<1>1. /\ day \in Days /\ day' \in Days /\ day' = day + 1 /\ UNCHANGED <<bets, scoring>>
  BY DEF NextDay, ExposureInv, TypedInv, BetsTyped
<1>2. \A d \in Days : PlacedOn(d)' = PlacedOn(d)
  BY <1>1 DEF PlacedOn, BetOn
<1>3. NoneAhead' /\ CapKept'
  BY <1>1, <1>2 DEF ExposureInv, NoneAhead, CapKept, Days, Limit
<1>4. RoomKept'
  <2>1. PlacedOn(day)' = {}
    <3>1. PlacedOn(day + 1) = {}
      BY <1>1 DEF ExposureInv, NoneAhead, Days
    <3> QED BY <1>1, <3>1 DEF PlacedOn, BetOn
  <2>2. Cardinality(PlacedOn(day)') = 0
    BY <2>1, FS_EmptySet
  <2>3. Awaiting' = Awaiting /\ Awaiting \subseteq Scorers
    BY <1>1 DEF Awaiting
  <2>4. /\ Cardinality(Awaiting) \in Nat /\ Cardinality(Scorers) \in Nat
        /\ Cardinality(Awaiting) <= Cardinality(Scorers)
    BY <2>3, RunsAreFinite
  <2>5. Cap \in Nat /\ (Awaiting # {} => Cap > 0)
    BY BetsAssumption DEF ExposureInv, RoomKept
  <2> HIDE DEF Awaiting
  <2> QED BY <2>2, <2>3, <2>4, <2>5 DEF RoomKept, Limit
<1> QED BY <1>3, <1>4 DEF ExposureInv

(* A run that logs is one of those there was room for.                     *)
LEMMA LogBetKeepsCap ==
  ASSUME IsFiniteSet(Fixtures), ExposureInv, TypedInv',
         NEW r \in Scorers, NEW price \in Prices \cup {None}, LogBet(r, price)
  PROVE  ExposureInv'
<1> DEFINE leg == scoring[r].quote
<1>1. /\ leg \in Legs /\ \A other \in Legs \ {leg} : bets'[other[1]][other[2]] = BetOn(other)
      /\ \A other \in Legs : bets'[other[1]][other[2]] = BetOn(other) \/ bets'[other[1]][other[2]].placed = day
  BY LogBetWrites DEF ExposureInv, TypedInv
<1>2. day' = day /\ day \in Days /\ leg # None /\ scoring' = [scoring EXCEPT ![r].quote = None]
  BY DEF LogBet, ExposureInv, TypedInv, BetsTyped
<1>3. r \in Awaiting /\ Awaiting' = Awaiting \ {r} /\ Awaiting \subseteq Scorers
  BY <1>2 DEF ExposureInv, TypedInv, BetsTyped, Awaiting
<1>4. /\ Cardinality(Awaiting) \in Nat /\ Cardinality(Awaiting') = Cardinality(Awaiting) - 1
      /\ Cardinality(Awaiting') \in Nat /\ Cardinality(Scorers) \in Nat
  <2>1. IsFiniteSet(Awaiting) /\ Cardinality(Awaiting) \in Nat /\ Cardinality(Scorers) \in Nat
    BY <1>3, RunsAreFinite
  <2>2. Awaiting' \subseteq Scorers
    BY <1>3
  <2>3. Cardinality(Awaiting') \in Nat
    BY <2>2, RunsAreFinite
  <2> HIDE DEF Awaiting
  <2> QED BY <1>3, <2>1, <2>3, OneMore
<1>5. Cap > 0 /\ Cardinality(PlacedOn(day)) + Cardinality(Awaiting) <= Limit
  BY <1>3 DEF ExposureInv, RoomKept
<1>6. Cap \in Nat /\ Limit \in Int /\ Limit' = Limit
  BY <1>4, BetsAssumption DEF Limit
<1> HIDE DEF leg, Awaiting, Limit
<1>7. \A d \in Days : d # day => PlacedOn(d)' \subseteq PlacedOn(d)
  BY <1>1 DEF PlacedOn, BetOn
<1>8. PlacedOn(day)' \subseteq PlacedOn(day) \cup {leg}
  BY <1>1, <1>2 DEF PlacedOn, BetOn
<1>9. NoneAhead'
  BY <1>2, <1>7 DEF ExposureInv, NoneAhead, Days
<1>10. \A d \in Days : IsFiniteSet(PlacedOn(d)) /\ Cardinality(PlacedOn(d)) \in Nat
  BY LegsAreFinite DEF PlacedOn
<1>11. \A d \in Days : Cardinality(PlacedOn(d)') \in Nat
  BY LegsAreFinite DEF PlacedOn
<1>12. Cardinality(PlacedOn(day)') <= Cardinality(PlacedOn(day)) + 1
  <2> DEFINE S == PlacedOn(day)
             T == PlacedOn(day)'
  <2>1. IsFiniteSet(S) /\ T \subseteq S \cup {leg} /\ Cardinality(T) \in Nat
    BY <1>2, <1>8, <1>10, <1>11
  <2> HIDE DEF S, T
  <2>2. /\ IsFiniteSet(S \cup {leg}) /\ Cardinality(S) \in Nat
        /\ Cardinality(S \cup {leg}) \in Nat /\ Cardinality(S \cup {leg}) <= Cardinality(S) + 1
    BY <2>1, OneMore
  <2>3. Cardinality(T) <= Cardinality(S \cup {leg})
    BY <2>1, <2>2, FS_Subset
  <2>4. Cardinality(T) <= Cardinality(S) + 1
    BY <2>1, <2>2, <2>3
  <2> QED BY <2>4 DEF S, T
<1>13. CapKept'
  <2> SUFFICES ASSUME NEW d \in Days PROVE Cardinality(PlacedOn(d)') <= Limit
    BY <1>6 DEF CapKept
  <2>1. CASE d # day
    <3>1. Cardinality(PlacedOn(d)') <= Cardinality(PlacedOn(d))
      BY <1>7, <1>10, <2>1, FS_Subset
    <3>2. Cardinality(PlacedOn(d)) <= Limit
      BY DEF ExposureInv, CapKept
    <3> QED BY <1>6, <1>10, <1>11, <3>1, <3>2
  <2>2. CASE d = day
    <3>1. PlacedOn(d)' = PlacedOn(day)'
      BY <1>2, <2>2 DEF PlacedOn
    <3>2. Cardinality(Awaiting) >= 1
      BY <1>4
    <3> QED BY <1>2, <1>4, <1>5, <1>6, <1>10, <1>11, <1>12, <2>2, <3>1, <3>2
  <2> QED BY <2>1, <2>2
<1>14. RoomKept'
  <2>1. Cardinality(PlacedOn(day)') \in Nat
    BY LegsAreFinite DEF PlacedOn
  <2>2. Cardinality(PlacedOn(day)') + Cardinality(Awaiting') <= Limit
    BY <1>2, <1>4, <1>5, <1>6, <1>10, <1>12, <2>1
  <2> QED BY <1>5, <1>6, <2>2 DEF RoomKept
<1> QED BY <1>9, <1>13, <1>14 DEF ExposureInv

(* The gate opens only below the cap, and then at most the other runs      *)
(* await a quote besides.                                                  *)
LEMMA GateKeepsRoom ==
  ASSUME IsFiniteSet(Fixtures), ExposureInv, TypedInv', NEW r \in Scorers, NEW f \in Fixtures,
         NEW o \in Outcomes, ScoreFixture(r, f, o)
  PROVE  ExposureInv'
<1> DEFINE q == IF ExposureLeft THEN <<f, o>> ELSE None
           next == [todo |-> scoring[r].todo \ {f}, quote |-> q]
<1>1. /\ scoring' = [scoring EXCEPT ![r] = next] /\ UNCHANGED <<day, bets>>
      /\ scoring[r].quote = None
  BY DEF ScoreFixture
<1>2. ExposureLeft => Cardinality(PlacedOn(day)) + 1 <= Cap
  BY DEF ExposureLeft, PlacedToday, PlacedOn
<1>3. next.quote = q /\ (~ExposureLeft => q = None)
  OBVIOUS
<1> HIDE DEF q, next
<1>4. Awaiting' \subseteq Awaiting \cup {r} /\ r \notin Awaiting /\ Awaiting \subseteq Scorers
  BY <1>1 DEF Awaiting, ExposureInv, TypedInv, BetsTyped
<1>5. \A d \in Days : PlacedOn(d)' = PlacedOn(d)
  BY <1>1 DEF PlacedOn, BetOn
<1>6. CASE q = None
  <2>1. Awaiting' \subseteq Awaiting
    BY <1>1, <1>3, <1>6 DEF Awaiting, ExposureInv, TypedInv, BetsTyped
  <2> QED BY <1>1, <1>5, <2>1, SamePlaces
<1>7. CASE q # None
  <2>1. Cardinality(PlacedOn(day)) + 1 <= Cap
    BY <1>2, <1>3, <1>7
  <2>2. /\ IsFiniteSet(Awaiting) /\ Cardinality(Awaiting) \in Nat /\ Cardinality(Scorers) \in Nat
        /\ Cardinality(Awaiting) + 1 <= Cardinality(Scorers)
    BY <1>4, RunsAreFinite
  <2>3. Cardinality(Awaiting') \in Nat /\ Cardinality(Awaiting') <= Cardinality(Awaiting) + 1
    <3> DEFINE A == Awaiting
               B == Awaiting'
    <3>1. IsFiniteSet(A) /\ B \subseteq A \cup {r} /\ Cardinality(A) \in Nat
      BY <1>4, <2>2
    <3> HIDE DEF A, B
    <3>2. /\ IsFiniteSet(A \cup {r}) /\ Cardinality(A \cup {r}) \in Nat
          /\ Cardinality(A \cup {r}) <= Cardinality(A) + 1
      BY <3>1, OneMore
    <3>3. IsFiniteSet(B) /\ Cardinality(B) <= Cardinality(A \cup {r})
      BY <3>1, <3>2, FS_Subset
    <3>4. Cardinality(B) \in Nat
      BY <3>3, FS_CardinalityType
    <3>5. Cardinality(B) \in Nat /\ Cardinality(B) <= Cardinality(A) + 1
      BY <3>1, <3>2, <3>3, <3>4
    <3> QED BY <3>5 DEF A, B
  <2>4. Cardinality(PlacedOn(day)) \in Nat /\ Cap \in Nat /\ day \in Days
    BY LegsAreFinite, BetsAssumption DEF PlacedOn, ExposureInv, TypedInv, BetsTyped
  <2>5. PlacedOn(day)' = PlacedOn(day)
    BY <1>1 DEF PlacedOn, BetOn
  <2> HIDE DEF Awaiting
  <2>6. Cap > 0 /\ Cardinality(PlacedOn(day)') + Cardinality(Awaiting') <= Limit'
    BY <2>1, <2>2, <2>3, <2>4, <2>5 DEF Limit
  <2>7. RoomKept'
    BY <1>1, <2>6 DEF RoomKept
  <2>8. NoneAhead' /\ CapKept'
    BY <1>1, <1>5 DEF ExposureInv, NoneAhead, CapKept, Limit
  <2> QED BY <2>7, <2>8 DEF ExposureInv
<1> QED BY <1>6, <1>7

LEMMA ExposureStep ==
  ASSUME IsFiniteSet(Fixtures)
  PROVE  ExposureInv /\ [Next]_vars => ExposureInv'
<1> SUFFICES ASSUME ExposureInv, [Next]_vars PROVE ExposureInv'
  OBVIOUS
<1>0. TypedInv' /\ BetsTyped /\ DueIsBet
  BY TypedStep DEF ExposureInv, TypedInv
<1>1. CASE NextDay
  BY <1>0, <1>1, NextDayKeepsCap
<1>2. ASSUME NEW r \in Scorers, NEW price \in Prices \cup {None}, LogBet(r, price) PROVE ExposureInv'
  BY <1>0, <1>2, LogBetKeepsCap
<1>3. ASSUME UNCHANGED <<day, bets>>, Awaiting' \subseteq Awaiting PROVE ExposureInv'
  <2>1. \A d \in Days : PlacedOn(d)' = PlacedOn(d)
    BY <1>3 DEF PlacedOn, BetOn
  <2> QED BY <1>0, <1>3, <2>1, SamePlaces
<1>4. ASSUME NEW r \in Scorers, Scoring(r) PROVE ExposureInv'
  <2>1. CASE StartScoring(r) \/ Vetoed(r)
    <3>1. UNCHANGED <<day, bets>>
      BY <2>1 DEF StartScoring, Vetoed
    <3>2. Awaiting' \subseteq Awaiting
      BY <1>0, <2>1 DEF StartScoring, Vetoed, BetsTyped, Awaiting
    <3> QED BY <1>3, <3>1, <3>2
  <2>2. ASSUME NEW f \in Fixtures, NEW o \in Outcomes, ScoreFixture(r, f, o) PROVE ExposureInv'
    BY <1>0, <2>2, GateKeepsRoom
  <2> QED BY <1>2, <1>4, <2>1, <2>2 DEF Scoring
<1>5. ASSUME NEW s \in Settlers, Settling(s) PROVE ExposureInv'
  <2>1. CASE StartSettling(s) \/ FinishSettling(s)
    BY <1>3, <2>1 DEF StartSettling, FinishSettling, Awaiting
  <2>2. ASSUME NEW leg \in Legs, SettleBet(s, leg) PROVE ExposureInv'
    <3>1. /\ \A other \in Legs \ {leg} : bets'[other[1]][other[2]] = BetOn(other)
          /\ bets' = bets \/ (/\ BetOn(leg) # None /\ bets'[leg[1]][leg[2]] # None
                             /\ bets'[leg[1]][leg[2]].placed = BetOn(leg).placed)
      BY <1>0, <2>2, SettleBetWrites, BetsAssumption
    <3>2. UNCHANGED <<day, scoring>>
      BY <2>2 DEF SettleBet
    <3>3. \A d \in Days : PlacedOn(d)' = PlacedOn(d)
      BY <3>1 DEF PlacedOn, BetOn
    <3>4. Awaiting' \subseteq Awaiting
      BY <3>2 DEF Awaiting
    <3> QED BY <1>0, <3>2, <3>3, <3>4, SamePlaces
  <2> QED BY <1>5, <2>1, <2>2 DEF Settling
<1>6. CASE ResetKillSwitch \/ (\E f \in Fixtures, winner \in Outcomes : ProviderSays(f, winner)) \/ UNCHANGED vars
  <2>1. UNCHANGED <<day, bets, scoring>>
    BY <1>6 DEF ResetKillSwitch, ProviderSays, vars
  <2> QED BY <1>3, <2>1 DEF Awaiting
<1> QED BY <1>1, <1>4, <1>5, <1>6 DEF Next

(* For any finite set of fixtures, any cap, prices and settlement runs,    *)
(* and any finite number of overlapping scoring runs: the day's bets       *)
(* exceed the cap by at most one stake for every run beyond the first,     *)
(* although the gate is read before the quote is awaited and midnight may  *)
(* pass in between.                                                        *)
THEOREM OvershootIsBoundedTheorem ==
  ASSUME IsFiniteSet(Fixtures)
  PROVE  Spec => []OvershootIsBounded
<1>1. Init => ExposureInv
  <2> SUFFICES ASSUME Init PROVE ExposureInv
    OBVIOUS
  <2>1. \A d \in Days : PlacedOn(d) = {}
    BY DEF Init, PlacedOn, BetOn, Legs
  <2>2. CapKept
    <3>1. Cap \in Nat /\ Cardinality(Scorers) \in Nat /\ Cardinality(Scorers) >= 1
      BY RunsAreFinite, BetsAssumption
    <3>2. \A d \in Days : Cardinality(PlacedOn(d)) = 0
      BY <2>1, FS_EmptySet
    <3> QED BY <3>1, <3>2 DEF CapKept, Limit
  <2>3. Awaiting = {}
    BY DEF Init, Awaiting
  <2> QED BY <2>1, <2>2, <2>3, TypedInit DEF ExposureInv, NoneAhead, RoomKept
<1>2. ExposureInv /\ [Next]_vars => ExposureInv'
  BY ExposureStep
<1>3. ExposureInv => OvershootIsBounded
  BY DEF ExposureInv, CapKept, PlacedOn, OvershootIsBounded, Limit
<1> QED BY <1>1, <1>2, <1>3, PTL DEF Spec

-----------------------------------------------------------------------------
(* The kill switch trips on money that was lost                            *)

(* A sum below zero has a term below zero.                                 *)
LEMMA NegativeSumHasLoss ==
  ASSUME NEW S, IsFiniteSet(S), NEW fun, \A x \in S : fun[x] \in Int,
         SumFunctionOnSet(fun, S) < 0
  PROVE  \E x \in S : fun[x] < 0
<1> SUFFICES ASSUME \A x \in S : ~(fun[x] < 0) PROVE FALSE
  OBVIOUS
<1>1. \A x \in S : fun[x] \in Int /\ fun[x] >= 0
  OBVIOUS
<1>2. SumFunctionOnSet(fun, S) \in Int /\ SumFunctionOnSet(fun, S) >= 0
  BY <1>1, SumNonNegative, SumIsInt
<1> QED BY <1>2

(* A drawdown of the bets in the window is staked on priced bets, and one  *)
(* of them is lost.                                                        *)
LEMMA DrawdownHasLoss ==
  ASSUME IsFiniteSet(Fixtures), BetsTyped, Drawdown(InWindow)
  PROVE  LET priced == {leg \in Legs : Settled(leg) /\ BetOn(leg).price # None}
         IN  Cardinality(priced) >= MinStaked /\ \E leg \in priced : BetOn(leg).pnl < 0
<1> DEFINE priced == {leg \in Legs : Settled(leg) /\ BetOn(leg).price # None}
           pnl == [leg \in InWindow |-> BetOn(leg).pnl]
<1>1. InWindow \subseteq priced /\ priced \subseteq Legs
  BY DEF InWindow
<1>2. /\ IsFiniteSet(InWindow) /\ Cardinality(InWindow) \in Nat
      /\ IsFiniteSet(priced) /\ Cardinality(priced) \in Nat
  BY <1>1, LegsAreFinite
<1>3. Cardinality(InWindow) <= Cardinality(priced)
  BY <1>1, <1>2, FS_Subset
<1>4. /\ Cardinality(InWindow) >= MinStaked
      /\ SumFunctionOnSet(pnl, InWindow) < -(KillPct * Cardinality(InWindow))
  BY DEF Drawdown, PnlOf
<1>5. \A leg \in InWindow : pnl[leg] = BetOn(leg).pnl /\ pnl[leg] \in Int
  <2> SUFFICES ASSUME NEW leg \in InWindow PROVE BetOn(leg).pnl \in Int
    OBVIOUS
  <2>1. leg[1] \in Fixtures /\ leg[2] \in Outcomes /\ BetOn(leg) # None
    BY DEF InWindow, Settled, Legs
  <2>2. BetOn(leg) \in Bet
    BY <2>1 DEF BetsTyped, BetOn
  <2> QED BY <2>2 DEF Bet
<1> HIDE DEF pnl
<1>6. SumFunctionOnSet(pnl, InWindow) < 0
  <2> DEFINE stake == KillPct * Cardinality(InWindow)
             total == SumFunctionOnSet(pnl, InWindow)
  <2>1. KillPct \in Nat /\ Cardinality(InWindow) \in Nat
    BY <1>2, BetsAssumption
  <2>2. stake \in Int /\ stake >= 0
    BY <2>1
  <2>3. total \in Int
    BY <1>2, <1>5, SumIsInt
  <2>4. total < -stake
    BY <1>4
  <2> HIDE DEF stake, total
  <2>5. total < 0
    BY <2>2, <2>3, <2>4
  <2> QED BY <2>5 DEF total
<1>7. \E leg \in InWindow : pnl[leg] < 0
  BY <1>2, <1>5, <1>6, NegativeSumHasLoss
<1>8. \E leg \in priced : BetOn(leg).pnl < 0
  BY <1>1, <1>5, <1>7
<1>9. Cardinality(priced) >= MinStaked
  BY <1>2, <1>3, <1>4, BetsAssumption
<1> HIDE DEF priced
<1> QED BY <1>8, <1>9 DEF priced

(* Only the end of a settlement run trips the switch.                      *)
LEMMA TripStep ==
  ASSUME IsFiniteSet(Fixtures), BetsTyped, [Next]_vars
  PROVE  TripsOnPricedLosses
<1>1. ASSUME NEW s \in Settlers, FinishSettling(s) PROVE TripsOnPricedLosses
  <2>1. tripped' = (tripped \/ Drawdown(InWindow))
    BY <1>1 DEF FinishSettling
  <2>2. ASSUME ~tripped, tripped' PROVE Drawdown(InWindow)
    BY <2>1, <2>2, Zenon
  <2> QED BY <2>2, DrawdownHasLoss, Zenon DEF TripsOnPricedLosses
<1>2. CASE UNCHANGED tripped
  BY <1>2, Zenon DEF TripsOnPricedLosses
<1>3. CASE ResetKillSwitch
  BY <1>3, Zenon DEF ResetKillSwitch, TripsOnPricedLosses
<1>4. CASE NextDay
  BY <1>2, <1>4, Zenon DEF NextDay
<1>5. ASSUME NEW f \in Fixtures, NEW winner \in Outcomes, ProviderSays(f, winner) PROVE UNCHANGED tripped
  BY <1>5 DEF ProviderSays
<1>6. ASSUME NEW r \in Scorers, Scoring(r) PROVE UNCHANGED tripped
  BY <1>6 DEF Scoring, StartScoring, Vetoed, ScoreFixture, LogBet
<1>7. ASSUME NEW s \in Settlers, StartSettling(s) \/ \E leg \in Legs : SettleBet(s, leg)
      PROVE  UNCHANGED tripped
  BY <1>7 DEF StartSettling, SettleBet
<1> QED BY <1>1, <1>2, <1>3, <1>4, <1>5, <1>6, <1>7 DEF Next, Settling, vars

(* For any finite set of fixtures, any prices, thresholds, windows and     *)
(* overlapping settlement runs: no step rewrites what was settled, and the *)
(* switch trips only with the minimum staked on settled market bets and a  *)
(* loss among them.                                                        *)
THEOREM SettlementIsSoundTheorem ==
  ASSUME IsFiniteSet(Fixtures)
  PROVE  Spec => SettlementIsSound
<1>1. Init => SettleInv
  BY TypedInit DEF Init, SettleInv, PnlIsRight, Settled, BetOn, Legs
<1>2. SettleInv /\ [Next]_vars => SettleInv' /\ SettledOnce
  BY SettleStep, TypedStep DEF SettleInv
<1>3. SettleInv /\ [Next]_vars => TripsOnPricedLosses
  BY TripStep DEF SettleInv, TypedInv
<1> QED BY <1>1, <1>2, <1>3, PTL DEF Spec, SettlementIsSound
==============================================================================
