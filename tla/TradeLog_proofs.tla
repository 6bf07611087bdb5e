--------------------------- MODULE TradeLog_proofs ---------------------------
(***************************************************************************)
(* Machine-checked facts about SoldRecord and TradeLog for any users,      *)
(* triples, markets, size of a page and bounds.                            *)
(***************************************************************************)
EXTENDS TradeLog, SequenceTheorems, Induction

-----------------------------------------------------------------------------
(* The record                                                              *)

(* An anchor is kept with a reveal only if the triple had a quote in it.   *)
LedgerFits ==
    \A i \in DOMAIN ledger : ledger[i].anchor # None => ledger[i].p # None /\ ledger[i].p.by = "quote"

(* A settled fixture keeps the row it was settled with, and whatever is    *)
(* still on a screen shows it.                                             *)
RowIsSettled ==
    outcome # None =>
        /\ ~Scoreless /\ Latest.p = outcome.p
        /\ \A u \in Users : onScreen[u] # None => onScreen[u] = outcome.p

(* The triple a result alert was about.                                    *)
Meant == IF told.shown = None THEN outcome.p ELSE told.shown

(* A result that was told had the pick, the verdict and the badge of the   *)
(* sold triple, or of the settled one as long as nothing was sold; what is *)
(* sold afterwards is the settled triple.                                  *)
ToldFits ==
    told # None =>
        /\ outcome # None /\ ~outcome.pending
        /\ told.pick = Meant.pick /\ (told.right <=> Right(Meant))
        /\ told.badge # None => (told.badge = "market" <=> Meant.by = "quote")
        /\ told.shown # None => Sold # None
        /\ Sold # None => Sold.p = Meant

SoldInv == SoldTypeOK /\ LedgerFits /\ RowIsSettled /\ ToldFits

LEMMA NoneIsNoData ==
  /\ None \notin Triples /\ None \notin StoredRow /\ None \notin Reveal /\ None \notin Settled
  /\ None \notin Body /\ None \notin Sides /\ None # "quote" /\ None # "market" /\ None # "model"
BY SoldAssumption

LEMMA TripleIsTyped ==
  ASSUME NEW t \in Triples
  PROVE  t.pick \in Sides /\ t.high \in BOOLEAN /\ t.by \in {"model", "quote"} /\ t.poison \in BOOLEAN
BY SoldAssumption

(* An anchor that is found among the rows is that of the triple.           *)
LEMMA ResolveFits ==
  ASSUME SoldTypeOK, NEW t \in Triples
  PROVE  /\ Resolve(t).anchor \in Quotes /\ Resolve(t).known \in BOOLEAN
         /\ Resolve(t).anchor # None => t.by = "quote"
         /\ Resolve(t).known => (Resolve(t).anchor # None <=> t.by = "quote")
<1>1. \A r \in Kept : r.p \in Triples /\ r.raw \in Model /\ r.anchor \in Quotes
                      /\ r.anchor = IF r.p.by = "quote" THEN "quote" ELSE None
  BY DEF SoldTypeOK, Kept, Fits, StoredRow
<1>2. None # "quote"
  BY NoneIsNoData
<1>3. CASE \E r \in Kept : r.p = t
  <2> DEFINE r == CHOOSE r \in Kept : r.p = t
  <2>1. r \in Kept /\ r.p = t
    BY <1>3
  <2>2. Resolve(t).anchor = r.anchor /\ Resolve(t).known = TRUE
    BY <1>3 DEF Resolve
  <2> HIDE DEF r
  <2> QED BY <1>1, <1>2, <2>1, <2>2
<1>4. CASE ~\E r \in Kept : r.p = t
  <2>1. Resolve(t).anchor = None /\ Resolve(t).known = (\E r \in Kept : r.raw = t)
    BY <1>4 DEF Resolve
  <2>2. ASSUME \E r \in Kept : r.raw = t PROVE t.by # "quote"
    BY <1>1, <2>2 DEF Model
  <2> QED BY <2>1, <2>2 DEF Quotes
<1> QED BY <1>3, <1>4

(* The sold reveal, for any ledger.                                        *)
LEMMA SoldIs ==
  ASSUME ledger \in Seq(Reveal)
  PROVE  /\ WithTriple = {} => Sold = None
         /\ WithTriple # {} => /\ Min(WithTriple) \in WithTriple /\ Sold = ledger[Min(WithTriple)]
                               /\ \A i \in WithTriple : Min(WithTriple) <= i
         /\ Sold # None => Sold \in Reveal /\ Sold.p \in Triples
                           /\ \E i \in DOMAIN ledger : Sold = ledger[i]
         /\ Sold = None => WithTriple = {}
<1> HIDE DEF Reveal
<1>1. DOMAIN ledger = 1 .. Len(ledger) /\ Len(ledger) \in Nat /\ \A i \in 1 .. Len(ledger) : ledger[i] \in Reveal
  BY LenProperties, ElementOfSeq
<1>2. WithTriple \in SUBSET Nat
  BY <1>1 DEF WithTriple
<1>3. WithTriple # {} => Min(WithTriple) \in WithTriple /\ \A i \in WithTriple : Min(WithTriple) <= i
  BY <1>2, MinIsLeast
<1>4. \A i \in WithTriple : i \in DOMAIN ledger /\ ledger[i] \in Reveal /\ ledger[i].p # None
  BY <1>1 DEF WithTriple
<1>5. \A i \in WithTriple : ledger[i] # None /\ ledger[i].p \in Triples
  BY <1>4, NoneIsNoData DEF Reveal
<1>6. CASE WithTriple = {}
  BY <1>6 DEF Sold
<1>7. CASE WithTriple # {}
  <2>1. Sold = ledger[Min(WithTriple)]
    BY <1>7 DEF Sold
  <2> QED BY <1>3, <1>4, <1>5, <1>7, <2>1
<1> QED BY <1>6, <1>7

(* A new reveal is sold only if nothing was.                               *)
LEMMA SoldOnce ==
  ASSUME ledger \in Seq(Reveal), NEW e \in Reveal, ledger' = Append(ledger, e)
  PROVE  /\ Sold # None => Sold' = Sold
         /\ Sold = None => Sold' = IF e.p = None THEN None ELSE e
<1> HIDE DEF Reveal
<1> DEFINE n == Len(ledger)
<1>1. /\ n \in Nat /\ DOMAIN ledger = 1 .. n /\ ledger' \in Seq(Reveal) /\ Len(ledger') = n + 1
      /\ DOMAIN ledger' = 1 .. n + 1 /\ ledger'[n + 1] = e /\ \A i \in 1 .. n : ledger'[i] = ledger[i]
  BY LenProperties, AppendProperties
<1> HIDE DEF n
<1>2. WithTriple' = WithTriple \cup (IF e.p = None THEN {} ELSE {n + 1})
  BY <1>1 DEF WithTriple
<1>3. WithTriple \in SUBSET (1 .. n) /\ WithTriple' \in SUBSET Nat
  BY <1>1, <1>2 DEF WithTriple
<1>4. CASE Sold # None
  <2>1. /\ Min(WithTriple) \in WithTriple /\ Sold = ledger[Min(WithTriple)]
        /\ \A i \in WithTriple : Min(WithTriple) <= i
    BY <1>4, SoldIs
  <2> DEFINE least == Min(WithTriple)  new == WithTriple'
  <2>0. least \in 1 .. n /\ \A i \in new : i \in WithTriple \/ i = n + 1
    BY <1>2, <1>3, <2>1
  <2>2. least \in Nat /\ least \in new /\ \A i \in new : least <= i
    BY <1>1, <1>2, <2>0, <2>1
  <2> HIDE DEF least, new
  <2>3. new \in SUBSET Nat /\ new # {} /\ Min(new) \in new /\ \A i \in new : Min(new) <= i
    <3>1. new \in SUBSET Nat /\ new # {}
      BY <1>3, <2>2 DEF new
    <3> QED BY <3>1, MinIsLeast
  <2>4. Min(new) = least
    <3>1. Min(new) \in Nat /\ Min(new) <= least /\ least <= Min(new)
      BY <2>2, <2>3
    <3> QED BY <2>2, <3>1
  <2>5. Sold' = ledger'[Min(new)]
    BY <2>3 DEF Sold, new
  <2> QED BY <1>1, <1>3, <1>4, <2>1, <2>4, <2>5 DEF least
<1>5. CASE Sold = None
  <2>1. WithTriple = {}
    BY <1>5, SoldIs
  <2>2. CASE e.p = None
    BY <1>2, <1>5, <2>1, <2>2 DEF Sold
  <2>3. CASE e.p # None
    <3>1. WithTriple' = {n + 1}
      BY <1>2, <2>1, <2>3
    <3>2. Min({n + 1}) = n + 1
      BY <1>1 DEF Min
    <3>3. Sold' = ledger'[Min(WithTriple')]
      BY <3>1 DEF Sold
    <3>4. Sold' = e
      BY <1>1, <3>1, <3>2, <3>3
    <3> QED BY <1>5, <2>3, <3>4
  <2> QED BY <2>2, <2>3
<1> QED BY <1>4, <1>5

(* What sold_call says fits the triple.                                    *)
LEMMA SoldCallFits ==
  ASSUME SoldTypeOK, LedgerFits
  PROVE  /\ SoldCall.p = IF Sold = None THEN None ELSE Sold.p
         /\ SoldCall.anchor \in Quotes /\ SoldCall.known \in BOOLEAN
         /\ SoldCall.known => Sold # None /\ (SoldCall.anchor # None <=> Sold.p.by = "quote")
<1>1. /\ Sold # None => Sold \in Reveal /\ Sold.p \in Triples /\ \E i \in DOMAIN ledger : Sold = ledger[i]
      /\ ledger \in Seq(Reveal)
  BY SoldIs DEF SoldTypeOK
<1>2. CASE Sold = None
  BY <1>2 DEF SoldCall, Quotes
<1>3. CASE Sold # None
  <2>1. Sold.p \in Triples /\ Sold.anchor \in Quotes /\ (Sold.anchor # None => Sold.p.by = "quote")
    BY <1>1, <1>3 DEF LedgerFits, Reveal
  <2>2. CASE Sold.anchor # None
    BY <1>3, <2>1, <2>2 DEF SoldCall
  <2>3. CASE Sold.anchor = None
    <3> DEFINE r == Resolve(Sold.p)
    <3>1. r.anchor \in Quotes /\ r.known \in BOOLEAN /\ (r.known => (r.anchor # None <=> Sold.p.by = "quote"))
      BY <2>1, ResolveFits
    <3>2. SoldCall.p = Sold.p /\ SoldCall.anchor = r.anchor /\ SoldCall.known = r.known
      BY <1>3, <2>3 DEF SoldCall
    <3> HIDE DEF r
    <3> QED BY <1>3, <3>1, <3>2
  <2> QED BY <2>2, <2>3
<1> QED BY <1>2, <1>3

-----------------------------------------------------------------------------
(* The steps of the record, those under the log included: there a match    *)
(* may also end in a draw.                                                 *)
SoldStep ==
    \/ NextDay \/ Boot \/ NewSeason \/ ConsumeResult \/ DayEnds
    \/ \E new \in Rescores : Rescore(new) \/ \E s \in Stages : Fire(s, new)
    \/ \E u \in Users : Command(u) \/ Commit(u) \/ SendFails(u)
    \/ \E side \in Sides : Settle(side)
    \/ \E delivered \in BOOLEAN : AlertResult(delivered)

LEMMA NextIsSoldStep == [Next]_vars => SoldStep \/ UNCHANGED soldVars
<1> SUFFICES ASSUME [Next]_vars PROVE SoldStep \/ UNCHANGED soldVars
  OBVIOUS
<1>1. CASE UNCHANGED vars
  BY <1>1 DEF vars
<1>2. CASE SoldNext
  <2>1. \A side \in {"HOME", "AWAY"} : side \in Sides
    BY DEF Sides
  <2> QED BY <1>2, <2>1 DEF SoldNext, SoldStep
<1>3. CASE Predicting
  BY <1>3, TradeAssumption DEF Predicting, SoldStep
<1>4. CASE TradeNext /\ ~Predicting
  BY <1>4 DEF TradeNext, Yield, StartSync, FetchPage, StoreRow, AbortSync, Buy, Sell, Redeem, Acted, Resolves
<1> QED BY <1>1, <1>2, <1>3, <1>4 DEF Next

LEMMA UpsertedFits ==
  ASSUME NEW old \in StoredRow \cup {None}, old # None => Fits(old), NEW new \in Rescores
  PROVE  Upserted(old, new) \in StoredRow /\ Fits(Upserted(old, new))
<1>1. new \in StoredRow /\ Fits(new)
  <2>1. CASE new \in {[p |-> m, raw |-> m, anchor |-> None] : m \in Model}
    <3>1. PICK m \in Model : new = [p |-> m, raw |-> m, anchor |-> None]
      BY <2>1
    <3>2. m \in Triples /\ m.by = "model"
      BY DEF Model
    <3> QED BY <3>1, <3>2 DEF StoredRow, Fits, Quotes
  <2>2. CASE new \in {[p |-> t, raw |-> m, anchor |-> "quote"] : m \in Model, t \in Triples \ Model}
    <3>1. PICK m \in Model, t \in Triples \ Model : new = [p |-> t, raw |-> m, anchor |-> "quote"]
      BY <2>2
    <3>2. t.by = "quote"
      BY TripleIsTyped DEF Model
    <3> QED BY <3>1, <3>2 DEF StoredRow, Fits, Quotes
  <2> QED BY <2>1, <2>2 DEF Rescores
<1> QED BY <1>1 DEF Upserted

LEMMA SoldTyped ==
  ASSUME SoldTypeOK
  PROVE  /\ rows \in [Days -> StoredRow \cup {None}] /\ ledger \in Seq(Reveal) /\ drift \in Seq(Observation)
         /\ onScreen \in [Users -> Triples \cup {None}] /\ outcome \in Settled \cup {None}
         /\ told \in Body \cup {None} /\ day \in Days /\ day \in {1, 2}
         /\ ~Scoreless => Latest \in StoredRow /\ Fits(Latest) /\ Latest.p \in Triples
<1>1. Days = {1, 2}
  BY DEF Days
<1>2. ASSUME ~Scoreless PROVE Latest \in StoredRow /\ Fits(Latest)
  BY <1>1, <1>2 DEF Scoreless, Latest, SoldTypeOK
<1> QED BY <1>1, <1>2 DEF SoldTypeOK, StoredRow

(* Steps before the result: nothing is settled or told.                    *)
LEMMA BeforeResult ==
  ASSUME SoldInv, outcome = None, outcome' = None, UNCHANGED <<told, ledger>>, SoldTypeOK'
  PROVE  SoldInv'
<1>1. told' = None
  BY DEF SoldInv, ToldFits
<1> QED BY <1>1 DEF SoldInv, LedgerFits, RowIsSettled, ToldFits

LEMMA RescoreKeeps ==
  ASSUME SoldInv, NEW new \in Rescores, Rescore(new)
  PROVE  SoldInv'
<1>1. rows' = [rows EXCEPT ![day] = Upserted(rows[day], new)]
      /\ outcome = None /\ UNCHANGED <<match, day, ledger, onScreen, drift, outcome, told, season>>
      /\ used.rescores < MaxRescores /\ used' = [used EXCEPT !.rescores = @ + 1]
  BY DEF Rescore
<1> DEFINE row == Upserted(rows[day], new)
<1>2. row \in StoredRow /\ Fits(row)
  <2>1. rows[day] \in StoredRow \cup {None} /\ (rows[day] # None => Fits(rows[day]))
    BY DEF SoldInv, SoldTypeOK
  <2> QED BY <2>1, UpsertedFits
<1>3. rows' = [rows EXCEPT ![day] = row]
  BY <1>1
<1> HIDE DEF row
<1>4. rows' \in [Days -> StoredRow \cup {None}] /\ \A d \in Days : rows'[d] # None => Fits(rows'[d])
  BY <1>2, <1>3 DEF SoldInv, SoldTypeOK
<1>5. used' \in [rescores : 0 .. MaxRescores, passes : 0 .. MaxPasses]
  BY <1>1, SoldAssumption DEF SoldInv, SoldTypeOK
<1>6. SoldTypeOK'
  BY <1>1, <1>4, <1>5 DEF SoldInv, SoldTypeOK, Fits
<1> QED BY <1>1, <1>6, BeforeResult

LEMMA FireKeeps ==
  ASSUME SoldInv, NEW new \in Rescores, NEW stage \in Stages, Fire(stage, new)
  PROVE  SoldInv'
<1> DEFINE row == Upserted(rows[day], new)
<1>1. rows' = [rows EXCEPT ![day] = row]
      /\ outcome = None /\ UNCHANGED <<match, day, ledger, outcome, told, season, used>>
  BY DEF Fire
<1>2. row \in StoredRow /\ Fits(row)
  <2>1. rows[day] \in StoredRow \cup {None} /\ (rows[day] # None => Fits(rows[day]))
    BY DEF SoldInv, SoldTypeOK
  <2> QED BY <2>1, UpsertedFits
<1> HIDE DEF row
<1>3. rows' \in [Days -> StoredRow \cup {None}] /\ \A d \in Days : rows'[d] # None => Fits(rows'[d])
  BY <1>1, <1>2 DEF SoldInv, SoldTypeOK
<1>4. rows'[day].p \in Triples
  BY <1>1, <1>2 DEF SoldInv, SoldTypeOK, StoredRow
<1>5. onScreen' \in [Users -> Triples \cup {None}]
  BY <1>4 DEF Fire, SoldInv, SoldTypeOK
<1>6. drift' \in Seq(Observation)
  <2>1. [stage |-> stage, p |-> rows'[day].p] \in Observation
    BY <1>4 DEF Observation
  <2>2. drift' = Append(drift, [stage |-> stage, p |-> rows'[day].p]) /\ drift \in Seq(Observation)
    BY DEF Fire, SoldInv, SoldTypeOK
  <2> HIDE DEF Observation
  <2> QED BY <2>1, <2>2, AppendProperties
<1>7. SoldTypeOK'
  BY <1>1, <1>3, <1>5, <1>6 DEF SoldInv, SoldTypeOK, Fits
<1> QED BY <1>1, <1>7, BeforeResult

LEMMA SettleKeeps ==
  ASSUME SoldInv, NEW side \in Sides, Settle(side)
  PROVE  SoldInv'
<1> DEFINE result == [p |-> Latest.p, anchor |-> Latest.anchor, actual |-> side,
                      dated |-> TRUE, pending |-> TRUE, today |-> TRUE]
<1>1. /\ outcome = None /\ ~Scoreless /\ \A u \in Users : onScreen[u] = None
      /\ outcome' = result
      /\ UNCHANGED <<match, day, rows, ledger, onScreen, drift, told, season, used>>
  BY DEF Settle
<1>2. Latest \in StoredRow /\ Fits(Latest)
  BY <1>1, SoldTyped DEF SoldInv
<1>3. result \in Settled /\ Fits(result) /\ result.p = Latest.p
  BY <1>2 DEF Settled, StoredRow, Fits
<1> HIDE DEF result
<1>4. told' = None
  BY <1>1 DEF SoldInv, ToldFits
<1>5. SoldTypeOK'
  BY <1>1, <1>3 DEF SoldInv, SoldTypeOK, Fits
<1>6. RowIsSettled'
  BY <1>1, <1>3 DEF RowIsSettled, Scoreless, Latest
<1> QED BY <1>1, <1>4, <1>5, <1>6 DEF SoldInv, LedgerFits, ToldFits

(* Steps that touch neither the ledger nor the rows nor what was settled   *)
(* and told.                                                               *)
LEMMA AsideKeeps ==
  ASSUME SoldInv, SoldTypeOK', UNCHANGED <<rows, ledger, told>>,
         outcome' = outcome \/ (outcome # None /\ outcome' # None /\ outcome'.p = outcome.p
                                 /\ outcome'.actual = outcome.actual /\ (outcome'.pending => outcome.pending)),
         RowIsSettled'
  PROVE  SoldInv'
<1>1. LedgerFits'
  BY DEF SoldInv, LedgerFits
<1>2. Sold' = Sold
  BY DEF Sold, WithTriple
<1>3. ASSUME told # None PROVE /\ outcome # None /\ ~outcome.pending
                              /\ outcome' # None /\ ~outcome'.pending /\ outcome'.p = outcome.p
                              /\ outcome'.actual = outcome.actual
  <2>1. outcome # None /\ ~outcome.pending
    BY <1>3 DEF SoldInv, ToldFits
  <2> QED BY <2>1
<1>4. ASSUME told # None PROVE Meant' = Meant /\ \A t \in Triples : Right(t)' <=> Right(t)
  BY <1>3, <1>4 DEF Meant, Right
<1>5. ToldFits'
  <2>1. CASE told = None
    BY <2>1 DEF ToldFits
  <2>2. CASE told # None
    <3>1. Meant' = Meant /\ outcome'.actual = outcome.actual
      BY <1>4, <1>3, <2>2
    <3>2. (Right(Meant))' <=> Right(Meant)
      BY <3>1 DEF Right
    <3> QED BY <1>2, <1>3, <2>2, <3>1, <3>2 DEF SoldInv, ToldFits
  <2> QED BY <2>1, <2>2
<1> QED BY <1>1, <1>5 DEF SoldInv

LEMMA NextDayKeeps == ASSUME SoldInv, NextDay PROVE SoldInv'
<1>1. outcome = None /\ outcome' = None /\ day' = 2
      /\ UNCHANGED <<match, rows, ledger, onScreen, drift, outcome, told, season, used>>
  BY DEF NextDay
<1>2. SoldTypeOK'
  BY <1>1 DEF SoldInv, SoldTypeOK, Fits, Days
<1> QED BY <1>1, <1>2, BeforeResult

LEMMA CommandKeeps == ASSUME SoldInv, NEW u \in Users, Command(u) PROVE SoldInv'
<1>1. /\ ~Scoreless /\ onScreen' = [onScreen EXCEPT ![u] = Latest.p]
      /\ UNCHANGED <<match, day, rows, ledger, drift, outcome, told, season, used>>
  BY DEF Command
<1>2. Latest.p \in Triples
  BY <1>1, SoldTyped DEF SoldInv
<1>3. onScreen' \in [Users -> Triples \cup {None}]
  BY <1>1, <1>2 DEF SoldInv, SoldTypeOK
<1>4. SoldTypeOK'
  BY <1>1, <1>3 DEF SoldInv, SoldTypeOK, Fits
<1>5. RowIsSettled'
  BY <1>1, SoldTyped DEF SoldInv, SoldTypeOK, RowIsSettled, Scoreless, Latest
<1> QED BY <1>1, <1>4, <1>5, AsideKeeps

LEMMA SendFailsKeeps == ASSUME SoldInv, NEW u \in Users, SendFails(u) PROVE SoldInv'
<1>1. /\ onScreen' = [onScreen EXCEPT ![u] = None]
      /\ UNCHANGED <<match, day, rows, ledger, drift, outcome, told, season, used>>
  BY DEF SendFails
<1>2. SoldTypeOK'
  BY <1>1 DEF SoldInv, SoldTypeOK, Fits
<1>3. RowIsSettled'
  BY <1>1 DEF SoldInv, SoldTypeOK, RowIsSettled, Scoreless, Latest
<1> QED BY <1>1, <1>2, <1>3, AsideKeeps

LEMMA CommitKeeps == ASSUME SoldInv, NEW u \in Users, Commit(u) PROVE SoldInv'
<1> DEFINE e == [user |-> u, p |-> onScreen[u], anchor |-> Resolve(onScreen[u]).anchor]
<1>1. /\ onScreen[u] # None /\ onScreen' = [onScreen EXCEPT ![u] = None]
      /\ ledger' = IF \E i \in DOMAIN ledger : ledger[i].user = u THEN ledger ELSE Append(ledger, e)
      /\ UNCHANGED <<match, day, rows, drift, outcome, told, season, used>>
  BY DEF Commit
<1>2. onScreen' \in [Users -> Triples \cup {None}]
  BY <1>1 DEF SoldInv, SoldTypeOK
<1>3. RowIsSettled'
  BY <1>1 DEF SoldInv, SoldTypeOK, RowIsSettled, Scoreless, Latest
<1>4. CASE \E i \in DOMAIN ledger : ledger[i].user = u
  <2>1. ledger' = ledger
    BY <1>1, <1>4
  <2>2. SoldTypeOK'
    BY <1>1, <1>2, <2>1 DEF SoldInv, SoldTypeOK, Fits
  <2> QED BY <1>1, <1>3, <2>1, <2>2, AsideKeeps
<1>5. CASE \A i \in DOMAIN ledger : ledger[i].user # u
  <2>1. onScreen[u] \in Triples
    BY <1>1 DEF SoldInv, SoldTypeOK
  <2>2. /\ e \in Reveal /\ e.user = u /\ e.p = onScreen[u] /\ e.p # None
        /\ e.anchor # None => e.p.by = "quote"
    <3>1. Resolve(onScreen[u]).anchor \in Quotes /\ (Resolve(onScreen[u]).anchor # None => onScreen[u].by = "quote")
      BY <2>1, ResolveFits DEF SoldInv
    <3> QED BY <1>1, <2>1, <3>1 DEF Reveal
  <2>3. ledger \in Seq(Reveal) /\ ledger' = Append(ledger, e)
    BY <1>1, <1>5 DEF SoldInv, SoldTypeOK
  <2> HIDE DEF e
  <2> DEFINE n == Len(ledger)
  <2>4. /\ n \in Nat /\ ledger' \in Seq(Reveal) /\ DOMAIN ledger = 1 .. n /\ DOMAIN ledger' = 1 .. n + 1
        /\ ledger'[n + 1] = e /\ \A i \in 1 .. n : ledger'[i] = ledger[i]
    <3> HIDE DEF Reveal
    <3> QED BY <2>2, <2>3, LenProperties, AppendProperties
  <2> HIDE DEF n
  <2>5. \A i, j \in DOMAIN ledger' : ledger'[i].user = ledger'[j].user => i = j
    <3>1. \A i \in 1 .. n + 1 : i \in 1 .. n \/ i = n + 1
      BY <2>4
    <3>2. \A i, j \in 1 .. n : ledger[i].user = ledger[j].user => i = j
      BY <2>4 DEF SoldInv, SoldTypeOK
    <3> QED BY <1>5, <2>2, <2>4, <3>1, <3>2
  <2>6. SoldTypeOK'
    BY <1>1, <1>2, <2>4, <2>5 DEF SoldInv, SoldTypeOK, Fits
  <2>7. LedgerFits'
    <3>1. \A i \in 1 .. n + 1 : i \in 1 .. n \/ i = n + 1
      BY <2>4
    <3> QED BY <2>2, <2>4, <3>1 DEF SoldInv, LedgerFits
  <2>8. /\ Sold # None => Sold' = Sold
        /\ Sold = None => Sold' = e
    BY <2>2, <2>3, SoldOnce
  <2>9. ToldFits'
    <3>1. CASE told = None
      BY <1>1, <3>1 DEF ToldFits
    <3>2. CASE told # None
      <4>1. Meant' = Meant
        BY <1>1 DEF Meant
      <4>2. (Right(Meant))' <=> Right(Meant)
        BY <1>1, <4>1 DEF Right
      <4>3. outcome # None /\ (Sold = None => Meant = outcome.p) /\ onScreen[u] = outcome.p
        BY <1>1, <3>2 DEF SoldInv, ToldFits, RowIsSettled, Meant
      <4>4. Sold' # None
        <5>1. e # None
          BY <2>2, NoneIsNoData
        <5> QED BY <2>8, <5>1
      <4>5. Sold'.p = Meant
        BY <2>2, <2>8, <3>2, <4>3 DEF SoldInv, ToldFits
      <4> QED BY <1>1, <3>2, <4>1, <4>2, <4>4, <4>5 DEF SoldInv, ToldFits
    <3> QED BY <3>1, <3>2
  <2> QED BY <1>3, <2>6, <2>7, <2>9 DEF SoldInv
<1> QED BY <1>4, <1>5

LEMMA NewSeasonKeeps == ASSUME SoldInv, NewSeason PROVE SoldInv'
<1>1. season' = 1 /\ UNCHANGED <<match, day, rows, ledger, onScreen, drift, outcome, told, used>>
  BY DEF NewSeason
<1>2. SoldTypeOK'
  BY <1>1 DEF SoldInv, SoldTypeOK, Fits
<1>3. RowIsSettled'
  BY <1>1 DEF SoldInv, RowIsSettled, Scoreless, Latest
<1> QED BY <1>1, <1>2, <1>3, AsideKeeps

(* A step that only ticks something off the settled fixture.               *)
LEMMA TickedOff ==
  ASSUME SoldInv, NEW d, outcome # None, outcome' = d, d \in Settled,
         d.p = outcome.p, d.anchor = outcome.anchor, d.actual = outcome.actual,
         d.pending => outcome.pending,
         UNCHANGED <<match, day, rows, ledger, onScreen, drift, told, season, used>>
  PROVE  SoldInv'
<1>1. d # None
  BY NoneIsNoData
<1>2. SoldTypeOK'
  BY <1>1 DEF SoldInv, SoldTypeOK, Fits
<1>3. RowIsSettled'
  BY <1>1 DEF SoldInv, RowIsSettled, Scoreless, Latest
<1> QED BY <1>1, <1>2, <1>3, AsideKeeps

LEMMA ConsumeKeeps == ASSUME SoldInv, ConsumeResult PROVE SoldInv'
<1> DEFINE d == [outcome EXCEPT !.pending = FALSE]
<1>1. outcome # None /\ outcome' = d /\ outcome \in Settled
      /\ UNCHANGED <<match, day, rows, ledger, onScreen, drift, told, season, used>>
  BY DEF ConsumeResult, SoldInv, SoldTypeOK
<1>2. /\ d \in Settled /\ d.p = outcome.p /\ d.anchor = outcome.anchor /\ d.actual = outcome.actual
      /\ ~d.pending
  BY <1>1 DEF Settled
<1> HIDE DEF d
<1> QED BY <1>1, <1>2, TickedOff

LEMMA DayEndsKeeps == ASSUME SoldInv, DayEnds PROVE SoldInv'
<1> DEFINE d == [outcome EXCEPT !.today = FALSE]
<1>1. outcome # None /\ outcome' = d /\ outcome \in Settled
      /\ UNCHANGED <<match, day, rows, ledger, onScreen, drift, told, season, used>>
  BY DEF DayEnds, SoldInv, SoldTypeOK
<1>2. /\ d \in Settled /\ d.p = outcome.p /\ d.anchor = outcome.anchor /\ d.actual = outcome.actual
      /\ d.pending = outcome.pending
  BY <1>1 DEF Settled
<1> HIDE DEF d
<1> QED BY <1>1, <1>2, TickedOff

LEMMA BootKeeps == ASSUME SoldInv, Boot PROVE SoldInv'
<1> DEFINE d == [outcome EXCEPT !.dated = TRUE]
<1>1. outcome # None /\ outcome' = d /\ outcome \in Settled
      /\ UNCHANGED <<match, day, rows, ledger, onScreen, drift, told, season, used>>
  BY DEF Boot, SoldInv, SoldTypeOK
<1>2. /\ d \in Settled /\ d.p = outcome.p /\ d.anchor = outcome.anchor /\ d.actual = outcome.actual
      /\ d.pending = outcome.pending
  BY <1>1 DEF Settled
<1> HIDE DEF d
<1> QED BY <1>1, <1>2, TickedOff

(* What a result alert says is well-formed and about the triple it means.  *)
LEMMA ResultBodyFits ==
  ASSUME SoldInv, outcome # None, NEW b, b = ResultBody
  PROVE  /\ b \in Body /\ b.shown = SoldCall.p
         /\ LET t == IF b.shown = None THEN outcome.p ELSE b.shown
            IN  /\ b.pick = t.pick /\ b.right = Right(t)
                /\ b.badge # None => (b.badge = "market" <=> t.by = "quote")
<1> DEFINE t == IF SoldCall.p = None THEN outcome.p ELSE SoldCall.p
           g == IF SoldCall.p = None THEN Badge(outcome.anchor)
                ELSE IF SoldCall.known THEN Badge(SoldCall.anchor) ELSE None
           r == t.pick = outcome.actual
<1>1. outcome \in Settled /\ outcome.p \in Triples /\ Fits(outcome) /\ ledger \in Seq(Reveal)
  BY DEF SoldInv, SoldTypeOK, Settled
<1>2. /\ SoldCall.p = IF Sold = None THEN None ELSE Sold.p
      /\ SoldCall.known => Sold # None /\ (SoldCall.anchor # None <=> Sold.p.by = "quote")
  BY SoldCallFits DEF SoldInv
<1>3. Sold # None => Sold.p \in Triples
  BY <1>1, SoldIs
<1>4. t \in Triples /\ SoldCall.p \in Triples \cup {None} /\ t.pick \in Sides
  BY <1>1, <1>2, <1>3, TripleIsTyped
<1>5. g \in {"market", "model", None} /\ (g # None => (g = "market" <=> t.by = "quote"))
  BY <1>1, <1>2, <1>3, <1>4, NoneIsNoData DEF Badge, Fits
<1>6. r \in BOOLEAN /\ r = Right(t)
  BY DEF Right
<1>7. b = [pick |-> t.pick, right |-> r, shown |-> SoldCall.p, badge |-> g]
  BY DEF ResultBody, Right
<1>8. t = IF SoldCall.p = None THEN outcome.p ELSE SoldCall.p
  OBVIOUS
<1> HIDE DEF t, g, r
<1>9. b \in Body /\ b.shown = SoldCall.p /\ b.pick = t.pick /\ b.right = r /\ b.badge = g
  BY <1>4, <1>5, <1>6, <1>7 DEF Body
<1>10. t = IF b.shown = None THEN outcome.p ELSE b.shown
  BY <1>8, <1>9
<1>11. b.right = Right(t)
  BY <1>6, <1>9
<1>12. b.badge # None => (b.badge = "market" <=> t.by = "quote")
  BY <1>5, <1>9
<1> QED BY <1>9, <1>10, <1>11, <1>12

LEMMA AlertResultKeeps ==
  ASSUME SoldInv, NEW delivered \in BOOLEAN, AlertResult(delivered)
  PROVE  SoldInv'
<1> DEFINE d == [outcome EXCEPT !.pending = ~delivered]
           o == [stage |-> "result", p |-> outcome.p]
<1>1. /\ outcome # None /\ outcome.pending /\ outcome' = d /\ outcome \in Settled
      /\ drift' = Append(drift, o) /\ drift \in Seq(Observation)
      /\ told' = IF delivered THEN ResultBody ELSE None
      /\ used' = IF delivered THEN used ELSE [used EXCEPT !.passes = @ + 1]
      /\ delivered \/ used.passes < MaxPasses
      /\ UNCHANGED <<match, day, rows, ledger, onScreen, season>>
  BY DEF AlertResult, SoldInv, SoldTypeOK
<1>2. /\ d \in Settled /\ d.p = outcome.p /\ d.anchor = outcome.anchor /\ d.actual = outcome.actual
      /\ d.pending = ~delivered /\ d # None
  BY <1>1, NoneIsNoData DEF Settled
<1>3. o \in Observation
  BY <1>1 DEF Observation, Stages, Settled
<1> HIDE DEF d, o
<1>4. drift' \in Seq(Observation)
  <2> HIDE DEF Observation
  <2> QED BY <1>1, <1>3, AppendProperties
<1>5. used' \in [rescores : 0 .. MaxRescores, passes : 0 .. MaxPasses]
  <2>1. used \in [rescores : 0 .. MaxRescores, passes : 0 .. MaxPasses]
    BY DEF SoldInv, SoldTypeOK
  <2>2. CASE delivered
    BY <1>1, <2>1, <2>2
  <2>3. CASE ~delivered
    <3>1. used.passes < MaxPasses /\ used' = [used EXCEPT !.passes = @ + 1]
      BY <1>1, <2>3
    <3> QED BY <2>1, <3>1, SoldAssumption
  <2> QED BY <2>2, <2>3
<1> DEFINE b == ResultBody
<1>6. /\ b \in Body /\ b.shown = SoldCall.p
      /\ LET t == IF b.shown = None THEN outcome.p ELSE b.shown
         IN  /\ b.pick = t.pick /\ b.right = Right(t)
             /\ b.badge # None => (b.badge = "market" <=> t.by = "quote")
  BY <1>1, ResultBodyFits
<1>7. told' = IF delivered THEN b ELSE None
  BY <1>1
<1> HIDE DEF b
<1>8. Fits(d)
  BY <1>1, <1>2 DEF SoldInv, SoldTypeOK, Fits
<1>9. SoldTypeOK'
  BY <1>1, <1>2, <1>4, <1>5, <1>6, <1>7, <1>8 DEF SoldInv, SoldTypeOK, Fits
<1>10. RowIsSettled'
  BY <1>1, <1>2 DEF SoldInv, RowIsSettled, Scoreless, Latest
<1>11. LedgerFits'
  BY <1>1 DEF SoldInv, LedgerFits
<1>12. ToldFits'
  <2>1. CASE ~delivered
    BY <1>7, <2>1 DEF ToldFits
  <2>2. CASE delivered
    <3>1. told' = b /\ ~outcome'.pending /\ outcome' # None
      BY <1>1, <1>2, <1>7, <2>2
    <3>2. Meant' = IF b.shown = None THEN outcome.p ELSE b.shown
      BY <1>1, <1>2, <3>1 DEF Meant
    <3> DEFINE t == Meant'
    <3>3. b.pick = t.pick /\ b.right = Right(t) /\ (b.badge # None => (b.badge = "market" <=> t.by = "quote"))
      BY <1>6, <3>2
    <3>4. Right(t) <=> (Right(Meant))'
      BY <1>1, <1>2 DEF Right
    <3>5. b.shown = IF Sold = None THEN None ELSE Sold.p
      BY <1>6, SoldCallFits DEF SoldInv
    <3>6. Sold' = Sold /\ (Sold # None => Sold.p \in Triples /\ Sold.p # None)
      BY <1>1, SoldIs, NoneIsNoData DEF SoldInv, SoldTypeOK, Sold, WithTriple
    <3>7. (b.shown # None => Sold' # None) /\ (Sold' # None => Sold'.p = Meant')
      BY <3>2, <3>5, <3>6
    <3> QED BY <3>1, <3>3, <3>4, <3>7 DEF ToldFits
  <2> QED BY <2>1, <2>2
<1> QED BY <1>9, <1>10, <1>11, <1>12 DEF SoldInv

LEMMA SoldInitFits ==
  ASSUME SoldState, Fresh \/ Legacy \/ Scored
  PROVE  SoldInv
<1>1. /\ match \in Matches /\ day = 1 /\ onScreen = [u \in Users |-> None] /\ drift = << >>
      /\ told = None /\ season = 0 /\ used = [rescores |-> 0, passes |-> 0]
  BY DEF SoldState
<1>2. /\ day \in Days /\ onScreen \in [Users -> Triples \cup {None}] /\ drift \in Seq(Observation)
      /\ season \in 0 .. 1 /\ used \in [rescores : 0 .. MaxRescores, passes : 0 .. MaxPasses]
      /\ \A u \in Users : onScreen[u] = None
  <2> HIDE DEF Observation
  <2> QED BY <1>1, SoldAssumption, EmptySeq DEF Days
<1>3. \A t \in Model : [p |-> t, raw |-> t, anchor |-> None] \in StoredRow
                       /\ Fits([p |-> t, raw |-> t, anchor |-> None])
  BY NoneIsNoData DEF StoredRow, Model, Quotes, Fits
<1>4. CASE Fresh
  <2>1. rows = [d \in Days |-> None] /\ ledger = << >> /\ outcome = None
    BY <1>4 DEF Fresh
  <2>2. ledger \in Seq(Reveal)
    <3> HIDE DEF Reveal
    <3> QED BY <2>1, EmptySeq
  <2> QED BY <1>1, <1>2, <2>1, <2>2 DEF SoldInv, SoldTypeOK, LedgerFits, RowIsSettled, ToldFits
<1>5. CASE Scored
  <2>1. PICK t \in {m \in Model : ~m.poison} :
           rows = [d \in Days |-> IF d = 1 THEN [p |-> t, raw |-> t, anchor |-> None] ELSE None]
    BY <1>5 DEF Scored
  <2>2. ledger = << >> /\ outcome = None
    BY <1>5 DEF Scored
  <2>3. ledger \in Seq(Reveal)
    <3> HIDE DEF Reveal
    <3> QED BY <2>2, EmptySeq
  <2> DEFINE r == [p |-> t, raw |-> t, anchor |-> None]
  <2>4. r \in StoredRow /\ Fits(r) /\ rows = [d \in Days |-> IF d = 1 THEN r ELSE None]
    BY <1>3, <2>1
  <2> HIDE DEF r
  <2>5. rows \in [Days -> StoredRow \cup {None}] /\ \A d \in Days : rows[d] # None => Fits(rows[d])
    BY <2>4
  <2> QED BY <1>1, <1>2, <2>2, <2>3, <2>5 DEF SoldInv, SoldTypeOK, LedgerFits, RowIsSettled, ToldFits
<1>6. CASE Legacy
  <2>1. PICK t \in Model, u \in Users, side \in {"HOME", "AWAY"} :
      /\ rows = [d \in Days |-> IF d = 1 THEN [p |-> t, raw |-> t, anchor |-> None] ELSE None]
      /\ ledger = <<[user |-> u, p |-> None, anchor |-> None]>>
      /\ outcome = [p |-> t, anchor |-> None, actual |-> side,
                    dated |-> FALSE, pending |-> FALSE, today |-> FALSE]
    BY <1>6 DEF Legacy
  <2> DEFINE r == [p |-> t, raw |-> t, anchor |-> None]
             e == [user |-> u, p |-> None, anchor |-> None]
             d == [p |-> t, anchor |-> None, actual |-> side, dated |-> FALSE, pending |-> FALSE, today |-> FALSE]
  <2>2. /\ r \in StoredRow /\ Fits(r) /\ r.p = t /\ rows = [x \in Days |-> IF x = 1 THEN r ELSE None]
        /\ e \in Reveal /\ e.anchor = None /\ ledger = <<e>>
        /\ d \in Settled /\ d.p = t /\ outcome = d
    BY <1>3, <2>1 DEF Reveal, Quotes, Settled, Sides, Model
  <2>3. Fits(d)
    BY NoneIsNoData DEF Fits, Model
  <2> HIDE DEF r, e, d
  <2>4. rows \in [Days -> StoredRow \cup {None}] /\ \A x \in Days : rows[x] # None => Fits(rows[x])
    BY <2>2
  <2>5. ledger \in Seq(Reveal) /\ DOMAIN ledger = {1} /\ ledger[1] = e
    <3> HIDE DEF Reveal
    <3> QED BY <2>2
  <2>6. \A i, j \in DOMAIN ledger : i = j
    BY <2>5
  <2>7. SoldTypeOK
    BY <1>1, <1>2, <2>2, <2>3, <2>4, <2>5, <2>6 DEF SoldTypeOK
  <2>8. ~Scoreless /\ Latest = r
    <3>1. rows[1] = r /\ rows[2] = None /\ r # None
      BY <2>2, NoneIsNoData DEF Days
    <3> QED BY <3>1 DEF Scoreless, Latest, Days
  <2> QED BY <1>1, <1>2, <2>2, <2>5, <2>7, <2>8 DEF SoldInv, LedgerFits, RowIsSettled, ToldFits
<1> QED BY <1>4, <1>5, <1>6

LEMMA SoldStepKeeps == ASSUME SoldInv, SoldStep PROVE SoldInv'
BY NextDayKeeps, BootKeeps, NewSeasonKeeps, ConsumeKeeps, DayEndsKeeps, RescoreKeeps, FireKeeps,
   CommandKeeps, CommitKeeps, SendFailsKeeps, SettleKeeps, AlertResultKeeps DEF SoldStep

LEMMA SoldStays == ASSUME SoldInv, UNCHANGED soldVars PROVE SoldInv'
<1>1. UNCHANGED <<match, day, rows, ledger, onScreen, drift, outcome, told, season, used>>
  BY DEF soldVars
<1>2. SoldTypeOK'
  BY <1>1 DEF SoldInv, SoldTypeOK, Fits
<1>3. RowIsSettled'
  BY <1>1 DEF SoldInv, RowIsSettled, Scoreless, Latest
<1> QED BY <1>1, <1>2, <1>3, AsideKeeps

(* The invariant of the record: how rows, reveals, screens, the settled    *)
(* triple and the result that was told hang together, whatever is scored,  *)
(* sold, settled or told in between.                                       *)
THEOREM RecordInvariant == Spec => []SoldInv
<1>1. Init => SoldInv
  BY SoldInitFits DEF Init
<1>2. SoldInv /\ [Next]_vars => SoldInv'
  BY NextIsSoldStep, SoldStepKeeps, SoldStays
<1> QED BY <1>1, <1>2, PTL DEF Spec

(* A line of the record, taken apart.                                      *)
LEMMA LineIs ==
  ASSUME SoldInv, NEW l, l = RecordLine, l # None
  PROVE  /\ InScope /\ outcome # None
         /\ \/ /\ Sold # None /\ l.basis = "sold" /\ HighConf(Sold.p) /\ match.recent
               /\ l.pick = Sold.p.pick /\ l.right = Right(Sold.p)
               /\ l.anchored # None => SoldCall.known /\ l.anchored = (SoldCall.anchor # None)
            \/ /\ Sold = None /\ l.basis = "stored"
               /\ l.pick = outcome.p.pick /\ l.right = Right(outcome.p)
               /\ l.anchored = (outcome.anchor # None)
<1>1. InScope /\ outcome # None
  BY DEF RecordLine, InScope
<1>2. CASE Sold # None
  <2> DEFINE a == IF SoldCall.known THEN SoldCall.anchor # None ELSE None
             r == Right(Sold.p)
  <2>1. l = IF HighConf(Sold.p) /\ match.recent
            THEN [pick |-> Sold.p.pick, right |-> r, anchored |-> a, basis |-> "sold"] ELSE None
    BY <1>1, <1>2 DEF RecordLine, Call
  <2>2. r = Right(Sold.p) /\ (a # None => SoldCall.known /\ a = (SoldCall.anchor # None))
    OBVIOUS
  <2> HIDE DEF a, r
  <2>3. HighConf(Sold.p) /\ match.recent
    BY <2>1
  <2>4. l.pick = Sold.p.pick /\ l.right = r /\ l.anchored = a /\ l.basis = "sold"
    BY <2>1
  <2> QED BY <1>1, <1>2, <2>2, <2>3, <2>4, Zenon
<1>3. CASE Sold = None
  <2> DEFINE a == outcome.anchor # None
             r == Right(outcome.p)
  <2>1. l = IF HighConf(outcome.p) /\ match.recent
            THEN [pick |-> outcome.p.pick, right |-> r, anchored |-> a, basis |-> "stored"] ELSE None
    BY <1>1, <1>3 DEF RecordLine, Call
  <2>2. r = Right(outcome.p) /\ a = (outcome.anchor # None)
    OBVIOUS
  <2> HIDE DEF a, r
  <2>4. l.pick = outcome.p.pick /\ l.right = r /\ l.anchored = a /\ l.basis = "stored"
    BY <2>1
  <2> QED BY <1>1, <1>3, <2>2, <2>4, Zenon
<1> QED BY <1>2, <1>3

LEMMA BadgeFits == SoldInv => BadgeIsHonest
<1> SUFFICES ASSUME SoldInv PROVE BadgeIsHonest
  OBVIOUS
<1>1. SoldCall.known => (SoldCall.anchor # None <=> SoldCall.p.by = "quote")
  BY SoldCallFits DEF SoldInv
<1>2. ASSUME told # None, told.badge = "market", told.shown # None PROVE told.shown.by = "quote"
  BY <1>2, NoneIsNoData DEF SoldInv, ToldFits, Meant
<1> QED BY <1>1, <1>2 DEF BadgeIsHonest

LEMMA LineAgrees == SoldInv => RecordAgreesWithResult
<1> SUFFICES ASSUME SoldInv PROVE RecordAgreesWithResult
  OBVIOUS
<1> DEFINE l == RecordLine
<1>1. ASSUME told # None, l # None
      PROVE  /\ l.pick = told.pick /\ l.right = told.right
             /\ told.badge # None /\ l.anchored # None => l.anchored = (told.badge = "market")
  <2>1. /\ outcome # None /\ told.pick = Meant.pick /\ (told.right <=> Right(Meant)) /\ told.right \in BOOLEAN
        /\ told.badge # None => (told.badge = "market" <=> Meant.by = "quote")
        /\ told.shown # None => Sold # None
        /\ Sold # None => Sold.p = Meant
    BY <1>1 DEF SoldInv, SoldTypeOK, Body, ToldFits
  <2>2. \/ /\ Sold # None /\ l.pick = Sold.p.pick /\ l.right = Right(Sold.p)
           /\ l.anchored # None => SoldCall.known /\ l.anchored = (SoldCall.anchor # None)
        \/ /\ Sold = None /\ l.pick = outcome.p.pick /\ l.right = Right(outcome.p)
           /\ l.anchored = (outcome.anchor # None)
    BY <1>1, LineIs
  <2>3. SoldCall.known => (SoldCall.anchor # None <=> Sold.p.by = "quote")
    BY SoldCallFits DEF SoldInv
  <2>4. outcome.anchor # None <=> outcome.p.by = "quote"
    BY <2>1, NoneIsNoData DEF SoldInv, SoldTypeOK, Fits
  <2> HIDE DEF l
  <2>5. Right(Meant) = told.right
    <3>1. Right(Meant) \in BOOLEAN
      BY DEF Right
    <3> QED BY <2>1, <3>1
  <2>6. CASE Sold # None
    <3>1. l.pick = told.pick /\ l.right = told.right
      BY <2>1, <2>2, <2>5, <2>6
    <3>2. ASSUME told.badge # None, l.anchored # None PROVE l.anchored = (told.badge = "market")
      <4>1. l.anchored = (SoldCall.anchor # None) /\ SoldCall.known
        BY <2>2, <2>6, <3>2
      <4>2. SoldCall.anchor # None <=> told.badge = "market"
        BY <2>1, <2>3, <2>6, <3>2, <4>1
      <4> QED BY <4>1, <4>2
    <3> QED BY <3>1, <3>2
  <2>7. CASE Sold = None
    <3>1. Meant = outcome.p
      BY <2>1, <2>7 DEF Meant
    <3>2. l.pick = told.pick /\ l.right = told.right
      BY <2>1, <2>2, <2>5, <2>7, <3>1
    <3>3. ASSUME told.badge # None PROVE l.anchored = (told.badge = "market")
      <4>1. l.anchored = (outcome.anchor # None)
        BY <2>2, <2>7
      <4>2. outcome.anchor # None <=> told.badge = "market"
        BY <2>1, <2>4, <3>1, <3>3
      <4> QED BY <4>1, <4>2
    <3> QED BY <3>2, <3>3
  <2> QED BY <2>6, <2>7
<1>2. ASSUME l # None, l.basis = "sold"
      PROVE  AlertTally = [n |-> 1, hits |-> IF l.right THEN 1 ELSE 0]
  <2>1. InScope /\ Sold # None /\ HighConf(Sold.p) /\ l.right = Right(Sold.p)
    BY <1>2, LineIs
  <2> HIDE DEF l
  <2>2. BandTallySold = [n |-> 1, hits |-> IF l.right THEN 1 ELSE 0]
    BY <2>1 DEF BandTallySold
  <2>3. BandTallySold.n > 0
    BY <2>2
  <2> QED BY <2>2, <2>3 DEF AlertTally
<1> QED BY <1>1, <1>2 DEF RecordAgreesWithResult

(* A badge that is given is true of the triple it stands under, and the    *)
(* record, the tally of an alert and the result alert agree about the pick,*)
(* the verdict and the badge of a sold call.                               *)
THEOREM RecordHonest == Spec => []RecordIsHonest
<1>1. SoldInv => RecordIsHonest
  BY BadgeFits, LineAgrees DEF RecordIsHonest
<1> QED BY <1>1, RecordInvariant, PTL

(* Once a fixture is in the record its line is a function of what stays.   *)
LEMMA LineStays ==
  ASSUME InScope, Sold # None, Sold' = Sold, UNCHANGED <<match, rows, season>>,
         outcome' # None, outcome'.p = outcome.p, outcome'.actual = outcome.actual, outcome'.dated = outcome.dated
  PROVE  RecordLine' = RecordLine
<1>1. InScope'
  BY DEF InScope
<1>2. SoldCall' = SoldCall
  BY DEF SoldCall, Resolve, Kept
<1>3. Right(Sold.p)' = Right(Sold.p)
  BY DEF Right
<1> DEFINE s == Sold  a == IF SoldCall.known THEN SoldCall.anchor # None ELSE None
<1>4. /\ RecordLine = Call(s.p, a, "sold")
      /\ RecordLine' = Call(s.p, a, "sold")'
      /\ s' = s /\ a' = a
  BY <1>1, <1>2 DEF RecordLine
<1>5. Right(s.p)' = Right(s.p)
  BY <1>3
<1> HIDE DEF s, a
<1>6. Call(s.p, a, "sold")' = Call(s.p, a, "sold")
  BY <1>4, <1>5 DEF Call
<1> QED BY <1>4, <1>6

LEMMA SaleKept == SoldInv /\ (SoldStep \/ UNCHANGED soldVars) => SaleStays
<1> SUFFICES ASSUME SoldInv, SoldStep \/ UNCHANGED soldVars,
                    RecordLine # None, RecordLine.basis = "sold", season' = season
             PROVE  RecordLine' = RecordLine
  BY DEF SaleStays
<1>1. InScope /\ outcome # None /\ Sold # None /\ outcome.dated
  BY LineIs DEF InScope
<1>2. outcome \in Settled /\ season \in 0 .. 1 /\ ledger \in Seq(Reveal)
  BY <1>1 DEF SoldInv, SoldTypeOK
<1>3. CASE UNCHANGED soldVars
  BY <1>1, <1>3, LineStays DEF soldVars, Sold, WithTriple
<1>4. CASE \E u \in Users : Command(u) \/ SendFails(u)
  BY <1>1, <1>4, LineStays DEF Command, SendFails, Sold, WithTriple
<1>5. ASSUME NEW u \in Users, Commit(u) PROVE RecordLine' = RecordLine
  <2> DEFINE e == [user |-> u, p |-> onScreen[u], anchor |-> Resolve(onScreen[u]).anchor]
  <2>1. /\ onScreen[u] # None /\ ledger' = (IF \E i \in DOMAIN ledger : ledger[i].user = u THEN ledger ELSE Append(ledger, e))
        /\ UNCHANGED <<match, day, rows, drift, outcome, told, season, used>>
    BY <1>5 DEF Commit
  <2>2. e \in Reveal
    <3>1. onScreen[u] \in Triples
      BY <2>1 DEF SoldInv, SoldTypeOK
    <3>2. Resolve(onScreen[u]).anchor \in Quotes
      BY <3>1, ResolveFits DEF SoldInv
    <3> QED BY <3>1, <3>2 DEF Reveal
  <2> HIDE DEF e
  <2>3. Sold' = Sold
    <3>1. CASE ledger' = ledger
      BY <3>1 DEF Sold, WithTriple
    <3>2. CASE ledger' = Append(ledger, e)
      BY <1>1, <1>2, <2>2, <3>2, SoldOnce
    <3> QED BY <2>1, <3>1, <3>2
  <2> QED BY <1>1, <2>1, <2>3, LineStays
<1>6. ASSUME ConsumeResult \/ DayEnds \/ \E delivered \in BOOLEAN : AlertResult(delivered)
      PROVE  RecordLine' = RecordLine
  <2>1. Sold' = Sold /\ UNCHANGED <<match, rows, season>>
    BY <1>6 DEF ConsumeResult, DayEnds, AlertResult, Sold, WithTriple
  <2>2. outcome' \in Settled /\ outcome'.p = outcome.p /\ outcome'.actual = outcome.actual /\ outcome'.dated = outcome.dated
    <3>1. CASE ConsumeResult
      BY <1>2, <3>1 DEF ConsumeResult, Settled
    <3>2. CASE DayEnds
      BY <1>2, <3>2 DEF DayEnds, Settled
    <3>3. CASE \E delivered \in BOOLEAN : AlertResult(delivered)
      <4>1. PICK delivered \in BOOLEAN : outcome' = [outcome EXCEPT !.pending = ~delivered]
        BY <3>3 DEF AlertResult
      <4> QED BY <1>2, <4>1 DEF Settled
    <3> QED BY <1>6, <3>1, <3>2, <3>3
  <2>3. outcome' # None
    BY <2>2, NoneIsNoData
  <2> QED BY <1>1, <2>1, <2>2, <2>3, LineStays
<1>7. CASE NewSeason
  BY <1>2, <1>7 DEF NewSeason
<1> QED BY <1>1, <1>3, <1>4, <1>5, <1>6, <1>7 DEF SoldStep, NextDay, Boot, Rescore, Fire, Settle

(* The first observation of a stage stays the first.                       *)
LEMMA FirstStays ==
  ASSUME drift \in Seq(Observation), NEW o \in Observation, drift' = Append(drift, o), NEW s, FirstOf(s) # 0
  PROVE  /\ FirstOf(s)' = FirstOf(s)
         /\ FirstOf(s) \in 1 .. Len(drift) /\ drift'[FirstOf(s)] = drift[FirstOf(s)]
         /\ drift'[1] = drift[1]
<1> HIDE DEF Observation
<1> DEFINE n == Len(drift)  at == {i \in DOMAIN drift : drift[i].stage = s}
<1>1. /\ n \in Nat /\ DOMAIN drift = 1 .. n /\ DOMAIN drift' = 1 .. n + 1
      /\ \A i \in 1 .. n : drift'[i] = drift[i]
  BY LenProperties, AppendProperties
<1>2. FirstOf(s) = IF at = {} THEN 0 ELSE Min(at)
  BY DEF FirstOf
<1>3. (FirstOf(s))' = IF at' = {} THEN 0 ELSE Min(at')
  BY DEF FirstOf
<1>4. at # {} /\ at \in SUBSET (1 .. n) /\ at' \in SUBSET (1 .. n + 1)
      /\ at \subseteq at' /\ \A i \in at' : i \in at \/ i = n + 1
  BY <1>1, <1>2
<1> HIDE DEF at, n
<1> DEFINE new == at'
<1>5. new \in SUBSET Nat /\ at \in SUBSET Nat /\ new # {}
  <2>1. \A i \in 1 .. n + 1 : i \in Nat
    BY <1>1
  <2>2. \A i \in 1 .. n : i \in Nat
    BY <1>1
  <2>3. new \in SUBSET Nat
    BY <1>4, <2>1
  <2>4. at \in SUBSET Nat
    BY <1>4, <2>2
  <2> QED BY <1>4, <2>3, <2>4
<1> HIDE DEF new
<1>6. Min(at) \in at /\ \A i \in at : Min(at) <= i
  BY <1>4, <1>5, MinIsLeast
<1>7. Min(new) \in new /\ \A i \in new : Min(new) <= i
  BY <1>5, MinIsLeast
<1>8. Min(new) = Min(at)
  <2>1. Min(new) \in at \/ Min(new) = n + 1
    BY <1>4, <1>7 DEF new
  <2>2. Min(at) \in new /\ Min(at) \in 1 .. n
    BY <1>4, <1>6 DEF new
  <2>3. Min(new) <= Min(at) /\ Min(at) <= Min(new) /\ Min(new) \in Nat
    BY <1>1, <1>5, <1>6, <1>7, <2>1, <2>2
  <2> QED BY <2>2, <2>3
<1>9. (FirstOf(s))' = Min(at) /\ FirstOf(s) = Min(at) /\ Min(at) \in 1 .. n
  BY <1>2, <1>3, <1>4, <1>6, <1>8, <1>5 DEF new
<1> QED BY <1>1, <1>9 DEF n

LEMMA DriftKept == SoldInv /\ (SoldStep \/ UNCHANGED soldVars) => DriftStays
<1> SUFFICES ASSUME SoldInv, SoldStep \/ UNCHANGED soldVars, drift' # drift,
                    NEW s \in DOMAIN DriftStats
             PROVE  s \in DOMAIN DriftStats' /\ DriftStats'[s] = DriftStats[s]
  BY DEF DriftStays
<1>1. drift \in Seq(Observation)
  BY DEF SoldInv, SoldTypeOK
<1>2. PICK o \in Observation : drift' = Append(drift, o)
  <2>1. ASSUME NEW stage \in Stages, NEW new \in Rescores, Fire(stage, new)
        PROVE  \E o \in Observation : drift' = Append(drift, o)
    <3>1. rows' = [rows EXCEPT ![day] = Upserted(rows[day], new)]
          /\ drift' = Append(drift, [stage |-> stage, p |-> rows'[day].p])
      BY <2>1 DEF Fire
    <3>2. rows[day] \in StoredRow \cup {None} /\ (rows[day] # None => Fits(rows[day]))
          /\ rows \in [Days -> StoredRow \cup {None}] /\ day \in Days
      BY DEF SoldInv, SoldTypeOK
    <3>3. rows'[day] \in StoredRow
      BY <3>1, <3>2, UpsertedFits
    <3>4. [stage |-> stage, p |-> rows'[day].p] \in Observation
      BY <3>3 DEF StoredRow, Observation
    <3> QED BY <3>1, <3>4
  <2>2. ASSUME NEW delivered \in BOOLEAN, AlertResult(delivered)
        PROVE  \E o \in Observation : drift' = Append(drift, o)
    <3>1. drift' = Append(drift, [stage |-> "result", p |-> outcome.p]) /\ outcome \in Settled
      BY <2>2 DEF AlertResult, SoldInv, SoldTypeOK
    <3>2. [stage |-> "result", p |-> outcome.p] \in Observation
      BY <3>1 DEF Settled, Observation, Stages
    <3> QED BY <3>1, <3>2
  <2>3. ASSUME NextDay \/ Boot \/ NewSeason \/ ConsumeResult \/ DayEnds \/ UNCHANGED soldVars
               \/ (\E new \in Rescores : Rescore(new)) \/ (\E side \in Sides : Settle(side))
               \/ \E u \in Users : Command(u) \/ Commit(u) \/ SendFails(u)
        PROVE  FALSE
    BY <2>3 DEF NextDay, Boot, NewSeason, ConsumeResult, DayEnds, soldVars, Rescore, Settle, Command, Commit, SendFails
  <2> QED BY <2>1, <2>2, <2>3 DEF SoldStep
<1>3. s \in Stages /\ FirstOf(s) # 0 /\ s # Baseline.stage /\ DriftStats[s] = Moved(s)
  BY DEF DriftStats, Observed
<1>4. /\ FirstOf(s)' = FirstOf(s) /\ drift'[FirstOf(s)] = drift[FirstOf(s)] /\ drift'[1] = drift[1]
  BY <1>1, <1>2, <1>3, FirstStays
<1>5. Baseline' = Baseline /\ s \in Observed'
  BY <1>3, <1>4 DEF Baseline, Observed
<1>6. Moved(s)' = Moved(s)
  BY <1>4, <1>5 DEF Moved, Level
<1> QED BY <1>3, <1>5, <1>6 DEF DriftStats

(* Once a sold call is in the record no reveal, restart or rescore takes it*)
(* out or turns its verdict within the season, and a drift once measured is*)
(* not measured anew.                                                      *)
THEOREM SaleIsKept == Spec => RecordKeepsTheSale
<1>1. SoldInv /\ [Next]_vars => [SaleStays /\ DriftStays]_soldVars
  BY NextIsSoldStep, SaleKept, DriftKept
<1> QED BY <1>1, RecordInvariant, PTL DEF Spec, RecordKeepsTheSale

-----------------------------------------------------------------------------
(* The log of trades                                                       *)

(* A sync in flight has found, or will still find, every row that was on   *)
(* the feed when it began: rows arriving meanwhile only push what it has   *)
(* not seen yet towards the pages to come.                                 *)
PullSees ==
    /\ pull.pc = "idle" => pull = Idle
    /\ pull.pc # "idle" => pull.knew >= 1
    /\ pull.pc = "page" => \A i \in 1 .. pull.knew : i \in pull.got \/ i <= Len(feed) - pull.offset
    /\ pull.pc = "store" => pull.got # {} /\ \A i \in 1 .. pull.knew : i \in pull.got \cup DOMAIN mirror

(* What was derived for a row says which side of which market it holds.    *)
Tells(m, act) ==
    /\ m.class = "WIN" => act.yes /\ act.market = m.pick /\ m.bound
    /\ m.class = "NO_OPP" =>
         ~act.yes /\ m.pick \in {"HOME", "AWAY"} /\ act.market \in {"HOME", "AWAY"} /\ act.market # m.pick /\ m.bound
    /\ m.class = "DRAW_BET" => act.yes /\ act.market = "DRAW" /\ ~m.bound

MirrorFits == \A i \in DOMAIN mirror : Tells(mirror[i], feed[i])

CashIsYield == \A i \in DOMAIN feed : feed[i].market = "cash" <=> feed[i].kind = "YIELD"

(* The markets and the settlement saw the same match.                      *)
OneResult ==
    /\ outcome # None /\ resolved # None => resolved = outcome.actual
    /\ ~enabled => resolved = None

TradeInv == TypeOK /\ SoldInv /\ PullSees /\ MirrorFits /\ CashIsYield /\ OneResult

LEMMA SoldPickFits ==
  ASSUME SoldInv, ~Scoreless
  PROVE  SoldPick \in Sides
<1>1. SoldCall.p = IF Sold = None THEN None ELSE Sold.p
  BY SoldCallFits DEF SoldInv
<1>2. Sold # None => Sold.p \in Triples
  BY SoldIs DEF SoldInv, SoldTypeOK
<1>3. Latest.p \in Triples
  BY SoldTyped DEF SoldInv
<1>4. \A t \in Triples : t.pick \in Sides
  BY TripleIsTyped
<1> QED BY <1>1, <1>2, <1>3, <1>4 DEF SoldPick

(* What a row is matched with fits the row.                                *)
LEMMA DerivedFits ==
  ASSUME SoldInv, NEW act \in Act, act.market = "cash" <=> act.kind = "YIELD"
  PROVE  Derived(act) \in Match /\ Tells(Derived(act), act)
<1> DEFINE m == Derived(act)
<1>1. act.market \in Markets \cup {"cash"} /\ act.yes \in BOOLEAN /\ Markets \subseteq Sides \cup {"other"}
  BY TradeAssumption DEF Act
<1>2. CASE act.kind = "YIELD"
  <2>1. m = [class |-> "CASH", pick |-> None, bound |-> FALSE]
    BY <1>2 DEF Derived, Unbound
  <2> HIDE DEF m
  <2> QED
    <3>1. m \in Match /\ Tells(m, act)
      BY <2>1 DEF Match, Classes, Tells
    <3> QED BY <3>1 DEF m
<1>3. CASE act.kind # "YIELD" /\ act.market = "DRAW"
  <2>1. m = [class |-> IF act.yes THEN "DRAW_BET" ELSE "CONTRARIAN", pick |-> "DRAW", bound |-> FALSE]
    BY <1>3 DEF Derived, Unbound
  <2> HIDE DEF m
  <2> QED
    <3>1. m \in Match /\ Tells(m, act)
      BY <1>1, <1>3, <2>1 DEF Match, Classes, Sides, Tells
    <3> QED BY <3>1 DEF m
<1>4. CASE act.kind # "YIELD" /\ act.market # "DRAW" /\ (act.market = "other" \/ Scoreless)
  <2>1. m = [class |-> "UNMATCHED", pick |-> None, bound |-> FALSE]
    BY <1>4 DEF Derived, Unbound
  <2> HIDE DEF m
  <2> QED
    <3>1. m \in Match /\ Tells(m, act)
      BY <2>1 DEF Match, Classes, Tells
    <3> QED BY <3>1 DEF m
<1>5. CASE act.kind # "YIELD" /\ act.market # "DRAW" /\ act.market # "other" /\ ~Scoreless
  <2> DEFINE p == SoldPick
  <2>1. p \in Sides
    BY <1>5, SoldPickFits
  <2>2. act.market \in {"HOME", "AWAY"}
    BY <1>1, <1>5 DEF Sides
  <2> DEFINE c == Classify(act.market, act.yes, p)
  <2>3. m = [class |-> c, pick |-> p, bound |-> TRUE]
    BY <1>5 DEF Derived
  <2> HIDE DEF p, m
  <2>4. /\ c \in {"WIN", "NO_OPP", "CONTRARIAN"}
        /\ c = "WIN" => act.yes /\ act.market = p
        /\ c = "NO_OPP" => ~act.yes /\ act.market # p /\ p \in {"HOME", "AWAY"}
    BY <2>1 DEF Classify, Sides
  <2> HIDE DEF c
  <2> QED
    <3>1. m \in Match /\ Tells(m, act)
      BY <2>1, <2>2, <2>3, <2>4 DEF Match, Classes, Tells
    <3> QED BY <3>1 DEF m
<1> QED BY <1>1, <1>2, <1>3, <1>4, <1>5

(* The bounds a step of the record leaves alone.                           *)
LEMMA RecordStepKeeps ==
  ASSUME TradeInv, SoldInv', UNCHANGED tradeVars, OneResult'
  PROVE  TradeInv'
<1>1. UNCHANGED <<enabled, feed, resolved, mirror, pull, aborts>>
  BY DEF tradeVars
<1>2. TypeOK'
  BY <1>1 DEF TradeInv, TypeOK, SoldInv
<1>3. PullSees' /\ MirrorFits' /\ CashIsYield'
  BY <1>1 DEF TradeInv, PullSees, MirrorFits, CashIsYield
<1> QED BY <1>2, <1>3 DEF TradeInv

LEMMA PredictingKeeps == ASSUME TradeInv, Predicting PROVE TradeInv'
<1>1. SoldInv' /\ UNCHANGED tradeVars
  <2>1. SoldStep
    BY TradeAssumption DEF Predicting, SoldStep
  <2> QED BY <2>1, SoldStepKeeps DEF TradeInv, Predicting
<1>2. OneResult'
  <2>1. CASE outcome' = outcome
    BY <1>1, <2>1 DEF TradeInv, OneResult, tradeVars
  <2>2. CASE \E side \in Sides : (resolved # None => side = resolved) /\ Settle(side)
    <3>1. PICK side \in Sides : (resolved # None => side = resolved) /\ Settle(side)
      BY <2>2
    <3>2. outcome'.actual = side
      BY <3>1 DEF Settle
    <3> QED BY <1>1, <3>1, <3>2 DEF TradeInv, OneResult, tradeVars
  <2> QED BY <2>1, <2>2 DEF Predicting, Rescore, Command, Commit, SendFails
<1> QED BY <1>1, <1>2, RecordStepKeeps

LEMMA SoldNextKeeps == ASSUME TradeInv, ~enabled, SoldNext, UNCHANGED tradeVars PROVE TradeInv'
<1>1. SoldStep
  <2>1. \A side \in {"HOME", "AWAY"} : side \in Sides
    BY DEF Sides
  <2> QED BY <2>1 DEF SoldNext, SoldStep
<1>2. SoldInv'
  BY <1>1, SoldStepKeeps DEF TradeInv
<1>3. OneResult'
  BY DEF TradeInv, OneResult, tradeVars
<1> QED BY <1>2, <1>3, RecordStepKeeps

(* Steps of the log leave the record alone.                                *)
LEMMA LogKeepsRecord ==
  ASSUME TradeInv, UNCHANGED <<soldVars, enabled>>
  PROVE  SoldInv' /\ SoldTypeOK' /\ enabled' \in BOOLEAN
BY SoldStays DEF TradeInv, TypeOK, SoldInv

LEMMA FeedIs ==
  ASSUME TradeInv
  PROVE  /\ feed \in Seq(Act) /\ Len(feed) \in 0 .. MaxActivity /\ DOMAIN feed = 1 .. Len(feed)
         /\ DOMAIN feed \subseteq 1 .. MaxActivity
         /\ pull \in Pull /\ pull.offset \in Nat /\ pull.knew \in Nat /\ pull.knew <= Len(feed)
         /\ pull.got \subseteq DOMAIN feed /\ PageLimit \in Nat \ {0} /\ MaxActivity \in Nat
         /\ DOMAIN mirror \subseteq DOMAIN feed /\ aborts \in 0 .. MaxAborts
<1>1. feed \in Seq(Act) /\ Len(feed) <= MaxActivity /\ MaxActivity \in Nat /\ PageLimit \in Nat \ {0}
  BY TradeAssumption DEF TradeInv, TypeOK
<1>2. DOMAIN feed = 1 .. Len(feed) /\ Len(feed) \in Nat
  <2> HIDE DEF Act
  <2> QED BY <1>1, LenProperties
<1>3. pull \in Pull /\ pull.offset \in Nat /\ pull.knew \in Nat /\ pull.knew <= Len(feed)
      /\ pull.got \subseteq DOMAIN feed /\ DOMAIN mirror \subseteq DOMAIN feed /\ aborts \in 0 .. MaxAborts
  BY <1>1 DEF TradeInv, TypeOK, Pull
<1> QED BY <1>1, <1>2, <1>3

LEMMA ActedKeeps ==
  ASSUME TradeInv, NEW market \in Markets \cup {"cash"}, NEW yes \in BOOLEAN,
         NEW kind \in {"BUY", "SELL", "REDEEM", "YIELD"}, market = "cash" <=> kind = "YIELD",
         Acted(market, yes, kind)
  PROVE  TradeInv'
<1>1. PICK m \in Months : feed' = Append(feed, [market |-> market, yes |-> yes, kind |-> kind, month |-> m])
  BY DEF Acted
<1> DEFINE a == [market |-> market, yes |-> yes, kind |-> kind, month |-> m]
           n == Len(feed)
<1>2. a \in Act /\ a.market = market /\ a.kind = kind /\ feed' = Append(feed, a)
      /\ n < MaxActivity /\ UNCHANGED <<soldVars, enabled, resolved, mirror, pull, aborts>>
  BY <1>1 DEF Act, Acted
<1> HIDE DEF a
<1>3. /\ n \in Nat /\ DOMAIN feed = 1 .. n /\ feed' \in Seq(Act) /\ Len(feed') = n + 1 /\ DOMAIN feed' = 1 .. n + 1
      /\ feed'[n + 1] = a /\ \A i \in 1 .. n : feed'[i] = feed[i]
  <2>1. feed \in Seq(Act)
    BY DEF TradeInv, TypeOK
  <2> HIDE DEF Act
  <2> QED BY <1>2, <2>1, LenProperties, AppendProperties
<1> HIDE DEF n
<1>4. MaxActivity \in Nat /\ n + 1 <= MaxActivity
  BY <1>2, <1>3, TradeAssumption DEF n
<1>5. 1 .. n \subseteq 1 .. n + 1 /\ \A i \in 1 .. n + 1 : i \in 1 .. n \/ i = n + 1
  BY <1>3
<1>6. DOMAIN mirror \subseteq 1 .. n /\ pull \in Pull /\ pull.got \subseteq 1 .. n /\ pull.knew <= n
      /\ \A i \in DOMAIN mirror : mirror[i] \in Match
  BY <1>3 DEF TradeInv, TypeOK, n
<1>7. SoldInv' /\ SoldTypeOK' /\ enabled' \in BOOLEAN
  BY <1>2, LogKeepsRecord
<1>8. TypeOK'
  <2>1. pull.knew <= n + 1
    BY <1>3, <1>6 DEF Pull
  <2>2. resolved' \in Sides \cup {None} /\ aborts' \in 0 .. MaxAborts
    BY <1>2 DEF TradeInv, TypeOK
  <2> QED BY <1>2, <1>3, <1>4, <1>5, <1>6, <1>7, <2>1, <2>2 DEF TypeOK
<1>9. PullSees'
  <2>1. ASSUME NEW i \in 1 .. pull.knew, i <= n - pull.offset PROVE i <= n + 1 - pull.offset
    BY <1>3, <1>6, <2>1 DEF Pull
  <2>2. ASSUME pull.pc = "page", NEW i \in 1 .. pull.knew, i \notin pull.got
        PROVE  i <= Len(feed') - pull.offset
    <3>1. i <= n - pull.offset
      BY <2>2 DEF TradeInv, PullSees, n
    <3>2. i <= n + 1 - pull.offset
      BY <2>1, <3>1
    <3>3. Len(feed') = n + 1 /\ n \in Nat /\ pull.offset \in Nat
      BY <1>3, FeedIs
    <3> DEFINE len == Len(feed')
    <3>4. len = n + 1
      BY <3>3
    <3> HIDE DEF len
    <3>5. i <= len - pull.offset
      BY <3>2, <3>3, <3>4
    <3> QED BY <3>5 DEF len
  <2> QED BY <1>2, <2>2 DEF TradeInv, PullSees
<1>10. MirrorFits'
  BY <1>2, <1>3, <1>6 DEF TradeInv, MirrorFits
<1>11. CashIsYield'
  BY <1>2, <1>3, <1>5 DEF TradeInv, CashIsYield
<1>12. OneResult'
  BY <1>2 DEF TradeInv, OneResult, soldVars
<1> QED BY <1>7, <1>8, <1>9, <1>10, <1>11, <1>12 DEF TradeInv

(* Steps of the log that keep the feed.                                    *)
LEMMA FeedStays ==
  ASSUME TradeInv, UNCHANGED <<soldVars, enabled, feed>>
  PROVE  /\ SoldInv' /\ SoldTypeOK' /\ enabled' \in BOOLEAN /\ CashIsYield'
         /\ feed' \in Seq(Act) /\ Len(feed') <= MaxActivity
<1>1. CashIsYield' /\ feed' \in Seq(Act) /\ Len(feed') <= MaxActivity
  BY DEF TradeInv, TypeOK, CashIsYield
<1> QED BY <1>1, LogKeepsRecord

LEMMA ResolvesKeeps == ASSUME TradeInv, enabled, NEW side \in Sides, Resolves(side) PROVE TradeInv'
<1>1. /\ resolved' = side /\ (outcome # None => side = outcome.actual)
      /\ UNCHANGED <<soldVars, enabled, feed, mirror, pull, aborts>>
  BY DEF Resolves
<1>2. TypeOK'
  BY <1>1, FeedStays DEF TradeInv, TypeOK
<1>3. OneResult'
  BY <1>1 DEF OneResult, soldVars
<1>4. MirrorFits' /\ PullSees'
  BY <1>1 DEF TradeInv, MirrorFits, PullSees
<1> QED BY <1>1, <1>2, <1>3, <1>4, FeedStays DEF TradeInv

(* Steps of a sync that leave the mirror alone.                            *)
LEMMA PullMoves ==
  ASSUME TradeInv, UNCHANGED <<soldVars, enabled, feed, resolved, mirror>>,
         pull' \in Pull, pull'.got \subseteq DOMAIN feed, pull'.knew <= Len(feed), aborts' \in 0 .. MaxAborts,
         PullSees'
  PROVE  TradeInv'
<1>1. TypeOK'
  BY FeedStays DEF TradeInv, TypeOK
<1>2. OneResult' /\ MirrorFits'
  BY DEF TradeInv, OneResult, MirrorFits, soldVars
<1> QED BY <1>1, <1>2, FeedStays DEF TradeInv

LEMMA IdleFits == Idle \in Pull /\ Idle.got = {} /\ Idle.knew = 0 /\ Idle.pc = "idle" /\ Idle.offset = 0
BY TradeAssumption DEF Idle, Pull

LEMMA StartKeeps == ASSUME TradeInv, StartSync PROVE TradeInv'
<1> DEFINE p == [Idle EXCEPT !.pc = "page", !.knew = Len(feed)]
<1>1. feed # << >> /\ pull' = p /\ UNCHANGED <<soldVars, enabled, feed, resolved, mirror, aborts>>
  BY DEF StartSync
<1>2. /\ p \in Pull /\ p.pc = "page" /\ p.got = {} /\ p.knew = Len(feed) /\ p.offset = 0
  BY FeedIs DEF Idle, Pull
<1> HIDE DEF p
<1>3. Len(feed) \in Nat /\ Len(feed) >= 1
  <2>1. feed \in Seq(Act) /\ Len(feed) \in Nat
    BY FeedIs
  <2>2. Len(feed) # 0
    <3> HIDE DEF Act
    <3> QED BY <1>1, <2>1, EmptySeq
  <2> QED BY <2>1, <2>2
<1>4. PullSees'
  BY <1>1, <1>2, <1>3 DEF PullSees
<1> QED BY <1>1, <1>2, <1>3, <1>4, FeedIs, PullMoves

LEMMA AbortKeeps == ASSUME TradeInv, AbortSync PROVE TradeInv'
<1>1. /\ aborts < MaxAborts /\ aborts' = aborts + 1 /\ pull' = Idle
      /\ UNCHANGED <<soldVars, enabled, feed, resolved, mirror>>
  BY DEF AbortSync
<1>2. aborts' \in 0 .. MaxAborts
  BY <1>1, FeedIs, TradeAssumption
<1>3. PullSees'
  BY <1>1, IdleFits DEF PullSees
<1> QED BY <1>1, <1>2, <1>3, IdleFits, FeedIs, PullMoves

(* A page that is not full holds the oldest row.                           *)
LEMMA LastPageIsAll ==
  ASSUME TradeInv, LastPage(pull.offset), NEW i \in DOMAIN feed, i <= Len(feed) - pull.offset
  PROVE  i \in Page(pull.offset)
<1> DEFINE top == Len(feed) - pull.offset
<1>0. /\ Len(feed) \in Nat /\ pull.offset \in Nat /\ PageLimit \in Nat /\ PageLimit >= 1 /\ DOMAIN feed = 1 .. Len(feed)
      /\ top \in Int /\ top <= Len(feed)
  BY FeedIs
<1>1. Page(pull.offset) = {j \in DOMAIN feed : j <= top /\ j > top - PageLimit}
  BY DEF Page
<1> HIDE DEF top
<1>2. CASE i > top - PageLimit
  BY <1>1, <1>2 DEF top
<1>3. CASE i <= top - PageLimit
  <2> DEFINE a == top - PageLimit + 1
  <2>1. a \in Int /\ a >= 1 /\ a <= top
    BY <1>0, <1>3
  <2>2. Page(pull.offset) = a .. top
    BY <1>0, <1>1, <2>1
  <2>3. Cardinality(a .. top) = top - a + 1
    BY <1>0, <2>1, FS_Interval
  <2>4. top - a + 1 = PageLimit
    BY <1>0
  <2> QED BY <1>0, <2>2, <2>3, <2>4 DEF LastPage
<1> QED BY <1>0, <1>2, <1>3

LEMMA FetchKeeps == ASSUME TradeInv, FetchPage PROVE TradeInv'
<1> DEFINE page == Page(pull.offset)
           last == LastPage(pull.offset)
           pc == IF last THEN "store" ELSE "page"
           p == [pull EXCEPT !.got = pull.got \cup page, !.offset = pull.offset + PageLimit, !.pc = pc]
           o == pull.offset
<1>1. pull.pc = "page" /\ pull' = p /\ UNCHANGED <<soldVars, enabled, feed, resolved, mirror, aborts>>
  BY DEF FetchPage
<1>2. /\ o \in Nat /\ Len(feed) \in Nat /\ DOMAIN feed = 1 .. Len(feed) /\ DOMAIN feed \subseteq 1 .. MaxActivity
      /\ pull.knew \in Nat /\ pull.knew <= Len(feed) /\ pull.got \subseteq DOMAIN feed
      /\ PageLimit \in Nat \ {0} /\ pull \in Pull
  BY FeedIs
<1>3. page \subseteq DOMAIN feed /\ page = {i \in DOMAIN feed : i <= Len(feed) - o /\ i > Len(feed) - o - PageLimit}
  BY DEF Page
<1>4. /\ p \in Pull /\ p.got = pull.got \cup page /\ p.offset = o + PageLimit /\ p.knew = pull.knew
      /\ p.pc = IF LastPage(o) THEN "store" ELSE "page"
  <2>1. pull.got \cup page \subseteq 1 .. MaxActivity /\ o + PageLimit \in Nat /\ pc \in {"page", "store"}
    BY <1>2, <1>3
  <2>2. pc = IF LastPage(o) THEN "store" ELSE "page"
    OBVIOUS
  <2> HIDE DEF page, pc
  <2>3. p \in Pull /\ p.got = pull.got \cup page /\ p.offset = pull.offset + PageLimit /\ p.knew = pull.knew /\ p.pc = pc
    BY <1>2, <2>1 DEF Pull
  <2> QED BY <2>2, <2>3
<1>5. pull.knew >= 1 /\ \A i \in 1 .. pull.knew : i \in pull.got \/ i <= Len(feed) - o
  BY <1>1 DEF TradeInv, PullSees
<1>6. LastPage(o) => \A i \in DOMAIN feed : i <= Len(feed) - o => i \in page
  BY LastPageIsAll
<1> HIDE DEF o, page, p
<1>7. PullSees'
  <2>1. CASE LastPage(o)
    <3>1. \A i \in 1 .. pull.knew : i \in DOMAIN feed
      BY <1>2
    <3>2. \A i \in 1 .. pull.knew : i \in p.got
      BY <1>4, <1>5, <1>6, <2>1, <3>1
    <3>3. 1 \in 1 .. pull.knew
      BY <1>2, <1>5
    <3> QED BY <1>1, <1>4, <1>5, <2>1, <3>2, <3>3 DEF PullSees
  <2>2. CASE ~LastPage(o)
    <3>1. ASSUME NEW i \in 1 .. pull.knew, i \notin p.got PROVE i <= Len(feed) - (o + PageLimit)
      <4>1. i \in DOMAIN feed /\ i <= Len(feed) - o /\ i \notin page
        BY <1>2, <1>4, <1>5, <3>1
      <4>2. ~(i > Len(feed) - o - PageLimit)
        BY <1>3, <4>1
      <4> QED BY <1>2, <4>2
    <3> QED BY <1>1, <1>4, <1>5, <2>2, <3>1 DEF PullSees
  <2> QED BY <2>1, <2>2
<1>8. p.got \subseteq DOMAIN feed
  BY <1>2, <1>3, <1>4
<1> QED BY <1>1, <1>2, <1>4, <1>7, <1>8, FeedIs, PullMoves

LEMMA StoreKeeps ==
  ASSUME TradeInv, StoreRow
  PROVE  /\ TradeInv'
         /\ pull' = Idle => 1 .. pull.knew \subseteq DOMAIN mirror'
<1> DEFINE i == Max(pull.got)
           new == Derived(feed[i])
           p == Without(i)
<1>1. /\ pull.pc = "store" /\ mirror' = [j \in DOMAIN mirror \cup {i} |-> IF j = i THEN new ELSE mirror[j]]
      /\ pull' = p /\ UNCHANGED <<soldVars, enabled, feed, resolved, aborts>>
  BY DEF StoreRow
<1>2. /\ pull \in Pull /\ pull.knew >= 1 /\ pull.got # {} /\ pull.got \subseteq DOMAIN feed
      /\ DOMAIN feed = 1 .. Len(feed) /\ Len(feed) \in Nat /\ pull.knew <= Len(feed) /\ DOMAIN mirror \subseteq DOMAIN feed
      /\ \A j \in 1 .. pull.knew : j \in pull.got \cup DOMAIN mirror
  BY <1>1, FeedIs DEF TradeInv, PullSees
<1>3. i \in pull.got
  <2>1. pull.got \in SUBSET (0 .. Len(feed))
    BY <1>2
  <2> QED BY <1>2, <2>1, MaxIsGreatest
<1>4. new \in Match /\ Tells(new, feed[i])
  <2>1. feed[i] \in Act
    <3>1. feed \in Seq(Act) /\ i \in 1 .. Len(feed)
      BY <1>2, <1>3, FeedIs
    <3> HIDE DEF Act, i
    <3> QED BY <3>1, ElementOfSeq
  <2>2. feed[i].market = "cash" <=> feed[i].kind = "YIELD"
    BY <1>2, <1>3 DEF TradeInv, CashIsYield
  <2> QED BY <2>1, <2>2, DerivedFits DEF TradeInv
<1>5. CASE pull.got = {i}
  <2>1. p = Idle
    BY <1>5 DEF Without
  <2> HIDE DEF i, new, p
  <2>2. \A j \in 1 .. pull.knew : j \in DOMAIN mirror'
    BY <1>1, <1>2, <1>5
  <2>3. pull' = Idle
    BY <1>1, <2>1
  <2>4. PullSees'
    BY <2>3, IdleFits DEF PullSees
  <2>5. TypeOK'
    BY <1>1, <1>2, <1>3, <1>4, <2>3, IdleFits, FeedStays DEF TradeInv, TypeOK
  <2>6. MirrorFits'
    BY <1>1, <1>4 DEF TradeInv, MirrorFits
  <2>7. OneResult'
    BY <1>1 DEF TradeInv, OneResult, soldVars
  <2> QED BY <1>1, <2>2, <2>4, <2>5, <2>6, <2>7, FeedStays DEF TradeInv
<1>6. CASE pull.got # {i}
  <2>1. p = [pull EXCEPT !.got = @ \ {i}]
    BY <1>6 DEF Without
  <2> HIDE DEF i, new, p
  <2>2. /\ p \in Pull /\ p.got = pull.got \ {i} /\ p.knew = pull.knew /\ p.pc = "store" /\ p.got # {}
        /\ p.got \subseteq DOMAIN feed
    BY <1>1, <1>2, <1>3, <1>6, <2>1 DEF Pull
  <2>3. PullSees'
    BY <1>1, <1>2, <2>2 DEF PullSees
  <2>4. TypeOK'
    BY <1>1, <1>2, <1>3, <1>4, <2>2, FeedStays DEF TradeInv, TypeOK
  <2>5. MirrorFits'
    BY <1>1, <1>4 DEF TradeInv, MirrorFits
  <2>6. OneResult'
    BY <1>1 DEF TradeInv, OneResult, soldVars
  <2>7. pull' # Idle
    BY <1>1, <2>2, IdleFits
  <2> QED BY <1>1, <2>3, <2>4, <2>5, <2>6, <2>7, FeedStays DEF TradeInv
<1> QED BY <1>5, <1>6

LEMMA WalletKeeps == ASSUME TradeInv, Yield \/ \E k \in Keys : Buy(k) \/ Sell(k) \/ Redeem(k) PROVE TradeInv'
<1>1. CASE Yield
  <2>1. Acted("cash", FALSE, "YIELD")
    BY <1>1 DEF Yield
  <2> QED BY <2>1, ActedKeeps
<1>2. CASE \E k \in Keys : Buy(k) \/ Sell(k) \/ Redeem(k)
  <2>1. PICK k \in Keys : Buy(k) \/ Sell(k) \/ Redeem(k)
    BY <1>2
  <2>2. k[1] \in Markets /\ k[2] \in BOOLEAN /\ k[1] # "cash"
    BY TradeAssumption DEF Keys, Sides
  <2>3. CASE Buy(k)
    <3>1. Acted(k[1], k[2], "BUY")
      BY <2>3 DEF Buy
    <3> QED BY <2>2, <3>1, ActedKeeps
  <2>4. CASE Sell(k)
    <3>1. Acted(k[1], k[2], "SELL")
      BY <2>4 DEF Sell
    <3> QED BY <2>2, <3>1, ActedKeeps
  <2>5. CASE Redeem(k)
    <3>1. Acted(k[1], k[2], "REDEEM")
      BY <2>5 DEF Redeem
    <3> QED BY <2>2, <3>1, ActedKeeps
  <2> QED BY <2>1, <2>3, <2>4, <2>5
<1> QED BY <1>1, <1>2

LEMMA TradeInitFits == Init => TradeInv
<1> SUFFICES ASSUME Init PROVE TradeInv
  OBVIOUS
<1>1. /\ feed = << >> /\ resolved = None /\ mirror = << >> /\ pull = Idle /\ aborts = 0 /\ enabled \in BOOLEAN
  BY DEF Init, TradeInit
<1>2. SoldInv
  BY SoldInitFits DEF Init
<1>3. feed \in Seq(Act) /\ Len(feed) = 0 /\ DOMAIN feed = {} /\ DOMAIN mirror = {} /\ MaxActivity \in Nat
  <2> HIDE DEF Act
  <2> QED BY <1>1, EmptySeq, TradeAssumption
<1>4. Len(feed) <= MaxActivity /\ aborts \in 0 .. MaxAborts
  BY <1>1, <1>3, TradeAssumption
<1>5. pull \in Pull /\ pull.got \subseteq DOMAIN feed /\ pull.knew <= Len(feed)
  BY <1>1, <1>3, IdleFits
<1>6. TypeOK
  BY <1>1, <1>2, <1>3, <1>4, <1>5 DEF TypeOK, SoldInv
<1>7. PullSees
  BY <1>1, IdleFits DEF PullSees
<1> QED BY <1>1, <1>2, <1>3, <1>6, <1>7 DEF TradeInv, MirrorFits, CashIsYield, OneResult

LEMMA TradeStays == ASSUME TradeInv, UNCHANGED vars PROVE TradeInv'
<1>1. UNCHANGED <<soldVars, tradeVars>>
  BY DEF vars
<1>2. OneResult'
  BY <1>1 DEF TradeInv, OneResult, tradeVars, soldVars
<1>3. SoldInv'
  BY <1>1, SoldStays DEF TradeInv
<1> QED BY <1>1, <1>2, <1>3, RecordStepKeeps

LEMMA TradeStepKeeps == TradeInv /\ [Next]_vars => TradeInv'
<1> SUFFICES ASSUME TradeInv, [Next]_vars PROVE TradeInv'
  OBVIOUS
<1>1. CASE UNCHANGED vars
  BY <1>1, TradeStays
<1>2. CASE ~enabled /\ SoldNext /\ UNCHANGED tradeVars
  BY <1>2, SoldNextKeeps
<1>3. CASE enabled /\ TradeNext
  BY <1>3, PredictingKeeps, WalletKeeps, StartKeeps, FetchKeeps, StoreKeeps, AbortKeeps, ResolvesKeeps DEF TradeNext
<1> QED BY <1>1, <1>2, <1>3 DEF Next

(* The invariant of the record, the mirror and a sync in flight holds of   *)
(* every state, whatever the wallet does and wherever a sync breaks off.   *)
THEOREM TradeInvariant == Spec => []TradeInv
BY TradeInitFits, TradeStepKeeps, PTL DEF Spec

(* The rows, reveals and results of the record and the trades, the mirror  *)
(* and the sync of the log have their types.                               *)
THEOREM TradesAreTyped == Spec => []TypeOK
<1>1. TradeInv => TypeOK
  BY DEF TradeInv
<1> QED BY <1>1, TradeInvariant, PTL

LEMMA SyncIsComplete ==
  ASSUME TradeInv, Next, pull # Idle, pull' = Idle, aborts' = aborts
  PROVE  1 .. pull.knew \subseteq DOMAIN mirror'
<1>1. CASE StoreRow
  BY <1>1, StoreKeeps
<1>2. CASE AbortSync
  <2>1. aborts' = aborts + 1 /\ aborts \in 0 .. MaxAborts
    BY <1>2, FeedIs DEF AbortSync
  <2> QED BY <2>1, TradeAssumption
<1>3. CASE FetchPage
  <2>1. pull' = [pull EXCEPT !.got = @ \cup Page(pull.offset), !.offset = @ + PageLimit,
                             !.pc = IF LastPage(pull.offset) THEN "store" ELSE "page"]
    BY <1>3 DEF FetchPage
  <2>2. pull'.pc # "idle"
    BY <2>1, FeedIs DEF Pull
  <2> QED BY <2>2, IdleFits
<1>4. CASE StartSync
  BY <1>4 DEF StartSync
<1>5. CASE (Predicting \/ (~enabled /\ SoldNext /\ UNCHANGED tradeVars) \/ \E side \in Sides : Resolves(side))
  BY <1>5 DEF Predicting, tradeVars, Resolves
<1>6. CASE Yield \/ \E k \in Keys : Buy(k) \/ Sell(k) \/ Redeem(k)
  BY <1>6 DEF Yield, Buy, Sell, Redeem, Acted
<1> QED BY <1>1, <1>2, <1>3, <1>4, <1>5, <1>6 DEF Next, TradeNext

(* A sync that comes to its end has mirrored every row that was on the feed*)
(* when it began, whatever arrived meanwhile and however large a page is.  *)
THEOREM SyncMirrorsAll == Spec => MirrorIsComplete
<1>1. TradeInv /\ [Next]_vars
        => [pull # Idle /\ pull' = Idle /\ aborts' = aborts => 1 .. pull.knew \subseteq DOMAIN mirror']_vars
  BY SyncIsComplete
<1> QED BY <1>1, TradeInvariant, PTL DEF Spec, MirrorIsComplete

-----------------------------------------------------------------------------
(* The report                                                              *)

(* The tokens of the wallet, the idle cash included.                       *)
Tokens == (Sides \cup {"other", "cash"}) \X BOOLEAN

LEMMA TokensAreFinite == IsFiniteSet(Tokens)
<1>1. IsFiniteSet({"HOME", "DRAW", "AWAY", "other", "cash"}) /\ IsFiniteSet(BOOLEAN)
  <2>1. IsFiniteSet({"HOME"}) /\ IsFiniteSet({TRUE})
    BY FS_Singleton
  <2>2. IsFiniteSet({"HOME"} \cup {"DRAW"}) /\ IsFiniteSet({TRUE} \cup {FALSE})
    BY <2>1, FS_AddElement
  <2>3. IsFiniteSet({"HOME"} \cup {"DRAW"} \cup {"AWAY"})
    BY <2>2, FS_AddElement
  <2>4. IsFiniteSet({"HOME"} \cup {"DRAW"} \cup {"AWAY"} \cup {"other"})
    BY <2>3, FS_AddElement
  <2>5. IsFiniteSet({"HOME"} \cup {"DRAW"} \cup {"AWAY"} \cup {"other"} \cup {"cash"})
    BY <2>4, FS_AddElement
  <2>6. BOOLEAN = {TRUE} \cup {FALSE}
    OBVIOUS
  <2>7. {"HOME", "DRAW", "AWAY", "other", "cash"} = {"HOME"} \cup {"DRAW"} \cup {"AWAY"} \cup {"other"} \cup {"cash"}
    OBVIOUS
  <2> QED BY <2>2, <2>5, <2>6, <2>7
<1>2. Sides \cup {"other", "cash"} = {"HOME", "DRAW", "AWAY", "other", "cash"}
  BY DEF Sides
<1> QED BY <1>1, <1>2, FS_Product DEF Tokens

(* Rows of the mirror, counted.                                            *)
LEMMA RowsAre ==
  ASSUME TradeInv, NEW k, NEW kinds
  PROVE  /\ Rows(k, kinds) \in SUBSET Nat /\ IsFiniteSet(Rows(k, kinds))
         /\ Cardinality(Rows(k, kinds)) \in Nat
         /\ \A i \in Rows(k, kinds) : i \in DOMAIN mirror /\ i \in DOMAIN feed /\ Key(feed[i]) = k
<1>1. DOMAIN feed = 1 .. Len(feed) /\ Len(feed) \in Nat /\ DOMAIN mirror \subseteq DOMAIN feed
  BY FeedIs
<1>2. Rows(k, kinds) \in SUBSET (1 .. Len(feed))
  BY <1>1 DEF Rows
<1>3. IsFiniteSet(1 .. Len(feed))
  BY <1>1, FS_Interval
<1>4. IsFiniteSet(Rows(k, kinds))
  BY <1>2, <1>3, FS_Subset
<1>5. \A i \in 1 .. Len(feed) : i \in Nat
  BY <1>1
<1>6. Rows(k, kinds) \in SUBSET Nat
  BY <1>2, <1>5
<1> QED BY <1>1, <1>4, <1>6, FS_CardinalityType DEF Rows

(* A position is led by a row of its own.                                  *)
LEMMA LeadIs ==
  ASSUME TradeInv, NEW k \in Positions
  PROVE  /\ k \in Tokens /\ Min(Rows(k, AllKinds)) \in Rows(k, AllKinds)
         /\ \E i \in DOMAIN mirror : Lead(k) = mirror[i] /\ i \in DOMAIN feed /\ Key(feed[i]) = k
<1>1. PICK j \in DOMAIN mirror : k = Key(feed[j])
  BY DEF Positions
<1>2. feed \in Seq(Act) /\ DOMAIN mirror \subseteq DOMAIN feed /\ DOMAIN feed = 1 .. Len(feed)
  BY FeedIs
<1>3. feed[j] \in Act
  <2> HIDE DEF Act
  <2> QED BY <1>1, <1>2, ElementOfSeq
<1>4. j \in Rows(k, AllKinds)
  BY <1>1, <1>3 DEF Rows, Act, AllKinds
<1>5. k \in Tokens
  BY <1>1, <1>3, TradeAssumption DEF Key, Act, Tokens
<1> DEFINE all == Rows(k, AllKinds)
           telling == {i \in all : mirror[i].class \notin {"CASH", "UNMATCHED"}}
           t == IF telling = {} THEN all ELSE telling
<1>6. all \in SUBSET Nat /\ \A i \in all : i \in DOMAIN mirror /\ i \in DOMAIN feed /\ Key(feed[i]) = k
  BY RowsAre
<1>7. Lead(k) = mirror[Min(t)]
  BY DEF Lead
<1>8. t \in SUBSET Nat /\ t # {} /\ t \subseteq all /\ all # {}
  BY <1>4, <1>6
<1> HIDE DEF t, all
<1>9. Min(t) \in t /\ Min(all) \in all
  BY <1>6, <1>8, MinIsLeast
<1>10. Min(t) \in DOMAIN mirror /\ Min(t) \in DOMAIN feed /\ Key(feed[Min(t)]) = k
  BY <1>6, <1>8, <1>9
<1> QED BY <1>5, <1>7, <1>9, <1>10 DEF all

(* Only a winner redeems for something.                                    *)
LEMMA RedeemedIs ==
  ASSUME TradeInv, NEW k
  PROVE  /\ Redeemed(k) \in Nat
         /\ Redeemed(k) > 0 => resolved # None /\ Side(k, resolved)
<1> DEFINE n == Cardinality(Rows(k, {"REDEEM"}))
<1>1. n \in Nat
  BY RowsAre
<1>2. Redeemed(k) = IF resolved = None THEN 0 ELSE (IF Side(k, resolved) THEN 4 ELSE 0) * n
  BY DEF Redeemed, Payout
<1> HIDE DEF n
<1>3. CASE resolved # None /\ Side(k, resolved)
  <2>1. Redeemed(k) = 4 * n
    BY <1>2, <1>3
  <2> QED BY <1>1, <1>3, <2>1
<1>4. CASE ~(resolved # None /\ Side(k, resolved))
  <2>1. Redeemed(k) = 0
    BY <1>1, <1>2, <1>4
  <2> QED BY <2>1
<1> QED BY <1>3, <1>4

LEMMA HitsFit ==
  ASSUME TradeInv, NEW k \in Positions, Lead(k).class \in {"WIN", "NO_OPP", "DRAW_BET"}, Won(k) # None
  PROVE  LET truth == IF outcome # None THEN outcome.actual ELSE resolved
         IN  truth # None /\ Won(k) = Side(k, truth)
<1> DEFINE m == Lead(k)
           truth == IF outcome # None THEN outcome.actual ELSE resolved
<1>1. PICK i \in DOMAIN mirror : m = mirror[i] /\ i \in DOMAIN feed /\ Key(feed[i]) = k
  BY LeadIs
<1>2. Tells(m, feed[i]) /\ k = <<feed[i].market, feed[i].yes>> /\ m.bound \in BOOLEAN
  BY <1>1 DEF TradeInv, TypeOK, Match, MirrorFits, Key
<1>3. k[1] = feed[i].market /\ (k[2] <=> feed[i].yes)
  BY <1>2
<1>4. outcome # None => outcome.actual \in Sides /\ outcome.actual # None
  BY NoneIsNoData DEF TradeInv, SoldInv, SoldTypeOK, Settled
<1>5. Actual(k) = IF m.bound /\ outcome # None THEN outcome.actual ELSE None
  BY DEF Actual
<1>6. m.class \in {"WIN", "NO_OPP", "DRAW_BET"}
  OBVIOUS
<1>7. Won(k) = IF Actual(k) # None /\ m.class = "WIN" THEN Actual(k) = m.pick
               ELSE IF Actual(k) # None /\ m.class = "NO_OPP"
                    THEN Actual(k) # (IF m.pick = "HOME" THEN "AWAY" ELSE "HOME")
               ELSE IF Redeemed(k) > 0 THEN TRUE ELSE None
  BY DEF Won
<1>8. Side(k, truth) = IF k[2] THEN k[1] = truth ELSE k[1] # truth
  BY DEF Side
<1> HIDE DEF m
<1>9. CASE Actual(k) # None /\ m.class = "WIN"
  <2>1. outcome # None /\ Actual(k) = truth /\ truth # None /\ Won(k) = (truth = m.pick)
    BY <1>4, <1>5, <1>7, <1>9
  <2>2. k[2] /\ k[1] = m.pick
    BY <1>2, <1>3, <1>9 DEF Tells
  <2>3. Side(k, truth) = (m.pick = truth)
    BY <1>8, <2>2
  <2> HIDE DEF truth
  <2> QED
    <3>1. truth # None /\ Won(k) = Side(k, truth)
      BY <2>1, <2>3
    <3> QED BY <3>1 DEF truth
<1>10. CASE Actual(k) # None /\ m.class = "NO_OPP"
  <2>1. outcome # None /\ Actual(k) = truth /\ truth # None
    BY <1>4, <1>5, <1>10
  <2>2. ~k[2] /\ k[1] = IF m.pick = "HOME" THEN "AWAY" ELSE "HOME"
    BY <1>2, <1>3, <1>10 DEF Tells
  <2>3. Won(k) = (truth # k[1])
    BY <1>7, <1>10, <2>1, <2>2
  <2>4. Side(k, truth) = (k[1] # truth)
    BY <1>8, <2>2
  <2> HIDE DEF truth
  <2> QED
    <3>1. truth # None /\ Won(k) = Side(k, truth)
      BY <2>1, <2>3, <2>4
    <3> QED BY <3>1 DEF truth
<1>11. CASE ~(Actual(k) # None /\ m.class = "WIN") /\ ~(Actual(k) # None /\ m.class = "NO_OPP")
  <2>1. Redeemed(k) > 0 /\ Won(k) = TRUE
    BY <1>7, <1>11
  <2>2. resolved # None /\ Side(k, resolved)
    BY <2>1, RedeemedIs
  <2>3. truth = resolved
    BY <2>2 DEF TradeInv, OneResult
  <2>4. Side(k, truth) = TRUE
    BY <2>2, <2>3 DEF Side
  <2> HIDE DEF truth
  <2> QED
    <3>1. truth # None /\ Won(k) = Side(k, truth)
      BY <2>1, <2>2, <2>3, <2>4
    <3> QED BY <3>1 DEF truth
<1> QED BY <1>9, <1>10, <1>11

LEMMA HitsHold == TradeInv => HitsAreReal
BY HitsFit DEF HitsAreReal

LEMMA CashIsInt ==
  ASSUME TradeInv, NEW k
  PROVE  Cash(k) \in Int
<1> DEFINE b == Cardinality(Rows(k, {"BUY"}))  s == Cardinality(Rows(k, {"SELL"}))  r == Redeemed(k)
<1>1. b \in Nat /\ s \in Nat /\ r \in Nat
  BY RowsAre, RedeemedIs
<1>2. Cash(k) = s + r - 2 * b
  BY DEF Cash, Bought
<1> HIDE DEF b, s, r
<1> QED BY <1>1, <1>2

(* The positions of both months are those of the one and of the other.     *)
LEMMA BucketsSplit ==
  ASSUME TradeInv
  PROVE  /\ Bucket(1, 3) = Bucket(1, 2) \cup Bucket(2, 3)
         /\ Bucket(1, 2) \cap Bucket(2, 3) = {}
         /\ IsFiniteSet(Bucket(1, 2)) /\ IsFiniteSet(Bucket(2, 3))
<1>1. \A k \in Positions : k \in Tokens /\ FirstMonth(k) \in {1, 2}
  <2> TAKE k \in Positions
  <2> DEFINE i == Min(Rows(k, AllKinds))
  <2>1. k \in Tokens /\ i \in Rows(k, AllKinds)
    BY LeadIs
  <2>2. i \in DOMAIN feed
    BY <2>1, RowsAre
  <2>3. feed \in Seq(Act) /\ DOMAIN feed = 1 .. Len(feed)
    BY FeedIs
  <2>4. FirstMonth(k) = feed[i].month
    BY DEF FirstMonth
  <2> HIDE DEF i
  <2>5. feed[i] \in Act
    <3> HIDE DEF Act
    <3> QED BY <2>2, <2>3, ElementOfSeq
  <2> QED BY <2>1, <2>4, <2>5 DEF Act, Months
<1>2. Bucket(1, 2) = {k \in Positions : FirstMonth(k) = 1}
  BY <1>1 DEF Bucket
<1>3. Bucket(2, 3) = {k \in Positions : FirstMonth(k) = 2}
  BY <1>1 DEF Bucket
<1>4. Bucket(1, 3) = Positions
  BY <1>1 DEF Bucket
<1>5. Bucket(1, 2) \subseteq Tokens /\ Bucket(2, 3) \subseteq Tokens
  BY <1>1, <1>2, <1>3
<1>6. IsFiniteSet(Bucket(1, 2)) /\ IsFiniteSet(Bucket(2, 3))
  BY <1>5, TokensAreFinite, FS_Subset
<1> QED BY <1>1, <1>2, <1>3, <1>4, <1>6

LEMMA CountSplit ==
  ASSUME NEW A, NEW B, IsFiniteSet(A), IsFiniteSet(B), A \cap B = {}
  PROVE  Cardinality(A \cup B) = Cardinality(A) + Cardinality(B)
<1>1. Cardinality(A \cup B) = Cardinality(A) + Cardinality(B) - Cardinality(A \cap B)
  BY FS_Union
<1>2. Cardinality({}) = 0 /\ Cardinality(A) \in Nat /\ Cardinality(B) \in Nat
  BY FS_EmptySet, FS_CardinalityType
<1>3. Cardinality(A \cap B) = 0
  BY <1>2
<1> DEFINE u == Cardinality(A \cup B)  a == Cardinality(A)  b == Cardinality(B)
<1>4. u = a + b - 0 /\ a \in Nat /\ b \in Nat
  BY <1>1, <1>2, <1>3
<1> HIDE DEF u, a, b
<1>5. u = a + b
  BY <1>4
<1> QED BY <1>5 DEF u, a, b

LEMMA CashSplit ==
  ASSUME TradeInv, NEW A, NEW B, IsFiniteSet(A), IsFiniteSet(B), A \cap B = {}
  PROVE  CashOf(A \cup B) = CashOf(A) + CashOf(B)
<1> DEFINE f == [k \in A \cup B |-> Cash(k)]
           fa == [k \in A |-> Cash(k)]
           fb == [k \in B |-> Cash(k)]
<1>1. \A k : Cash(k) \in Int
  BY CashIsInt
<1>2. /\ \A k \in A \cup B : f[k] \in Int
      /\ \A k \in A : f[k] \in Int /\ fa[k] = f[k]
      /\ \A k \in B : f[k] \in Int /\ fb[k] = f[k]
  BY <1>1
<1>3. CashOf(A \cup B) = SumFunctionOnSet(f, A \cup B) /\ CashOf(A) = SumFunctionOnSet(fa, A)
      /\ CashOf(B) = SumFunctionOnSet(fb, B)
  BY DEF CashOf
<1> HIDE DEF f, fa, fb
<1>4. SumFunctionOnSet(f, A \cup B) = SumFunctionOnSet(f, A) + SumFunctionOnSet(f, B)
  BY <1>2, SumDisjoint
<1>5. SumFunctionOnSet(fa, A) = SumFunctionOnSet(f, A)
  BY <1>2, SumExt
<1>6. SumFunctionOnSet(fb, B) = SumFunctionOnSet(f, B)
  BY <1>2, SumExt
<1> QED BY <1>3, <1>4, <1>5, <1>6

(* What a summary counts, of a set of positions.                           *)
Counted(ks, live) == {k \in ks : ~IsPending(k, live)}
Judged(ks, live) ==
    {k \in Counted(ks, live) : /\ Lead(k).class \in {"WIN", "NO_OPP", "DRAW_BET"}
                               /\ ~IsOpen(k, live) /\ Won(k) # None}
Hits(ks, live) == {k \in Judged(ks, live) : Won(k)}

LEMMA SummaryIs ==
  ASSUME NEW since, NEW until, NEW live
  PROVE  LET ks == Bucket(since, until)
         IN  Summary(since, until, live) =
               [positions |-> Cardinality(ks), pending |-> Cardinality(ks \ Counted(ks, live)),
                realized |-> CashOf(Counted(ks, live)), settled |-> Cardinality(Judged(ks, live)),
                hits |-> Cardinality(Hits(ks, live))]
BY DEF Summary, Counted, Judged, Hits

LEMMA SummariesAdd ==
  ASSUME TradeInv, NEW live \in BOOLEAN
  PROVE  \A f \in DOMAIN Summary(1, 3, live) :
            Summary(1, 3, live)[f] = Summary(1, 2, live)[f] + Summary(2, 3, live)[f]
<1> DEFINE A == Bucket(1, 2)  B == Bucket(2, 3)  C == Bucket(1, 3)
<1>1. C = A \cup B /\ A \cap B = {} /\ IsFiniteSet(A) /\ IsFiniteSet(B)
  BY BucketsSplit
<1>2. /\ Summary(1, 3, live) =
           [positions |-> Cardinality(C), pending |-> Cardinality(C \ Counted(C, live)),
            realized |-> CashOf(Counted(C, live)), settled |-> Cardinality(Judged(C, live)),
            hits |-> Cardinality(Hits(C, live))]
      /\ Summary(1, 2, live) =
           [positions |-> Cardinality(A), pending |-> Cardinality(A \ Counted(A, live)),
            realized |-> CashOf(Counted(A, live)), settled |-> Cardinality(Judged(A, live)),
            hits |-> Cardinality(Hits(A, live))]
      /\ Summary(2, 3, live) =
           [positions |-> Cardinality(B), pending |-> Cardinality(B \ Counted(B, live)),
            realized |-> CashOf(Counted(B, live)), settled |-> Cardinality(Judged(B, live)),
            hits |-> Cardinality(Hits(B, live))]
  BY SummaryIs
<1> HIDE DEF A, B, C
<1>3. Counted(C, live) = Counted(A, live) \cup Counted(B, live) /\ Counted(A, live) \subseteq A /\ Counted(B, live) \subseteq B
  BY <1>1 DEF Counted
<1>4. Judged(C, live) = Judged(A, live) \cup Judged(B, live)
      /\ Judged(A, live) \subseteq A /\ Judged(B, live) \subseteq B
  BY <1>3 DEF Judged
<1>5. Hits(C, live) = Hits(A, live) \cup Hits(B, live) /\ Hits(A, live) \subseteq A /\ Hits(B, live) \subseteq B
  BY <1>4 DEF Hits
<1>6. C \ Counted(C, live) = (A \ Counted(A, live)) \cup (B \ Counted(B, live))
  BY <1>1 DEF Counted
<1>7. \A X \in SUBSET A, Y \in SUBSET B :
         IsFiniteSet(X) /\ IsFiniteSet(Y) /\ X \cap Y = {}
  <2> TAKE X \in SUBSET A, Y \in SUBSET B
  <2>1. IsFiniteSet(X) /\ IsFiniteSet(Y)
    BY <1>1, FS_Subset
  <2>2. X \cap Y = {}
    BY <1>1
  <2> QED BY <2>1, <2>2
<1>8. \A X \in SUBSET A, Y \in SUBSET B : Cardinality(X \cup Y) = Cardinality(X) + Cardinality(Y)
  BY <1>7, CountSplit
<1>9. Cardinality(C) = Cardinality(A) + Cardinality(B)
  BY <1>1, <1>8
<1>10. Cardinality(C \ Counted(C, live)) = Cardinality(A \ Counted(A, live)) + Cardinality(B \ Counted(B, live))
  BY <1>6, <1>8
<1>11. CashOf(Counted(C, live)) = CashOf(Counted(A, live)) + CashOf(Counted(B, live))
  BY <1>3, <1>7, CashSplit
<1>12. Cardinality(Judged(C, live)) = Cardinality(Judged(A, live)) + Cardinality(Judged(B, live))
  BY <1>4, <1>8
<1>13. Cardinality(Hits(C, live)) = Cardinality(Hits(A, live)) + Cardinality(Hits(B, live))
  BY <1>5, <1>8
<1> QED BY <1>2, <1>9, <1>10, <1>11, <1>12, <1>13

LEMMA MonthsHold == TradeInv => MonthsAddUp
<1> SUFFICES ASSUME TradeInv, NEW live \in BOOLEAN
             PROVE  /\ \A f \in DOMAIN Summary(1, 3, live) :
                          Summary(1, 3, live)[f] = Summary(1, 2, live)[f] + Summary(2, 3, live)[f]
                    /\ live /\ resolved # None =>
                         \A k \in Positions : HoldsInMirror(k) /\ HoldsOnChain(k) /\ Side(k, resolved) =>
                            IsPending(k, live)
  BY DEF MonthsAddUp
<1>1. live /\ resolved # None =>
         \A k \in Positions : HoldsInMirror(k) /\ HoldsOnChain(k) /\ Side(k, resolved) => IsPending(k, live)
  BY DEF IsPending, Marked
<1> QED BY <1>1, SummariesAdd

(* A position counted as a hit or a miss is one whose side has won or lost,*)
(* and the months of a report add up to the whole of it, for any trades,   *)
(* any rescores and a sync that came however far.                          *)
THEOREM ReportsAreHonest == Spec => []ReportIsHonest
<1>1. TradeInv => ReportIsHonest
  BY HitsHold, MonthsHold DEF ReportIsHonest
<1> QED BY <1>1, TradeInvariant, PTL
==============================================================================
