------------------------------ MODULE SoldRecord ------------------------------
(***************************************************************************)
(* What one fixture was sold as, and what is said about it afterwards.     *)
(* The stored triple is overwritten by every rescore, so the result alert, *)
(* the band tally of an alert and the all-time record go back to the       *)
(* reveal ledger for the triple that was on screen, and recover whether    *)
(* that triple was anchored by finding it again among the stored rows.     *)
(*                                                                         *)
(* A triple is its top pick, whether the pick clears the alert bar, what   *)
(* it was made from, and whether it is one of the 0/0/100 rows of the      *)
(* rating bug: blending with a quote never leaves a model triple as it was.*)
(***************************************************************************)
EXTENDS Integers, Sequences, FiniteSetsExt

CONSTANTS
    Users,
    Triples,        \* [pick, high, by, poison]; by is "model" or "quote"
    Matches,        \* [club, epoch, recent]: the facts that scope a row in or out
    None,
    MaxRescores,    \* bound: rescores outside the alerts
    MaxPasses       \* bound: passes over a result whose sends fail

Sides == {"HOME", "DRAW", "AWAY"}
Days == 1 .. 2
Quotes == {None, "quote"}
Stages == {"early_fire", "kickoff_60", "result"}

VARIABLES
    match,      \* what the scope filters read of the fixture
    day,        \* today's run_date
    rows,       \* predictions: one row per run_date, or None
    ledger,     \* prediction_reveals of the fixture in the order of their ids
    onScreen,   \* onScreen[u]: the triple sent to u whose reveal is not committed yet
    drift,      \* rescore_drift_log of the fixture in the order of its ids
    outcome,    \* prediction_outcomes, or None
    told,       \* the body of the result alert, or None
    season,     \* club seasons that have begun since the match was played
    used        \* rescores and failed result passes so far

soldVars == <<match, day, rows, ledger, onScreen, drift, outcome, told, season, used>>

Model == {t \in Triples : t.by = "model"}

StoredRow == [p : Triples, raw : Model, anchor : Quotes]
Reveal == [user : Users, p : Triples \cup {None}, anchor : Quotes]
Observation == [stage : Stages, p : Triples]
Settled ==
    [p : Triples, anchor : Quotes, actual : Sides, dated : BOOLEAN, pending : BOOLEAN, today : BOOLEAN]
Body ==
    [pick : Sides, right : BOOLEAN, shown : Triples \cup {None}, badge : {"market", "model", None}]

ASSUME SoldAssumption ==
    /\ Triples \subseteq [pick : Sides, high : BOOLEAN, by : {"model", "quote"}, poison : BOOLEAN]
    /\ None \notin Triples \cup StoredRow \cup Reveal \cup Settled \cup Body \cup Sides
    /\ None \notin {"quote", "market", "model"}
    /\ MaxRescores \in Nat /\ MaxPasses \in Nat

(* How a stored or settled triple was anchored shows in what it is made    *)
(* from.                                                                   *)
Fits(r) == r.anchor = IF r.p.by = "quote" THEN "quote" ELSE None

SoldTypeOK ==
    /\ match \in Matches /\ day \in Days
    /\ rows \in [Days -> StoredRow \cup {None}] /\ \A d \in Days : rows[d] # None => Fits(rows[d])
    /\ ledger \in Seq(Reveal)
    /\ \A i, j \in DOMAIN ledger : ledger[i].user = ledger[j].user => i = j
    /\ onScreen \in [Users -> Triples \cup {None}]
    /\ drift \in Seq(Observation)
    /\ outcome \in Settled \cup {None} /\ (outcome # None => Fits(outcome))
    /\ told \in Body \cup {None}
    /\ season \in 0 .. 1
    /\ used \in [rescores : 0 .. MaxRescores, passes : 0 .. MaxPasses]

-----------------------------------------------------------------------------
(* Stored rows                                                             *)

(* The row a scoring pass stores: the model triple as it is, or blended    *)
(* with a bookmaker or exchange quote and kept beside it.                  *)
Rescores ==
    {[p |-> m, raw |-> m, anchor |-> None] : m \in Model}
        \cup {[p |-> t, raw |-> m, anchor |-> "quote"] : m \in Model, t \in Triples \ Model}

(* Mutant: the new triple is written under the old anchor.                 *)
UpsertedUnderAnchor(old, new) ==
    IF old # None /\ new.anchor = None /\ old.anchor # None THEN [new EXCEPT !.anchor = old.anchor]
    ELSE new

(* upsert_prediction: no quote never blanks an anchored row.               *)
Upserted(old, new) ==
    IF old # None /\ new.anchor = None /\ old.anchor # None THEN old ELSE new

Scoreless == \A d \in Days : rows[d] = None

(* prediction_for_fixture: the latest run_date.                            *)
Latest == IF rows[2] # None THEN rows[2] ELSE rows[1]

(* high_conf_alert_passes                                                  *)
HighConf(t) == t.high /\ t.pick # "DRAW"

-----------------------------------------------------------------------------
(* The sold call                                                           *)

WithTriple == {i \in DOMAIN ledger : ledger[i].p # None}

(* Mutant: the last reveal speaks for the fixture.                         *)
SoldLast ==
    IF WithTriple = {} THEN None
    ELSE ledger[Max(WithTriple)]

(* The earliest reveal that stored a triple.                               *)
Sold ==
    IF WithTriple = {} THEN None
    ELSE ledger[Min(WithTriple)]

Kept == {rows[d] : d \in Days} \ {None}

(* Mutant: the state of the freshest row is taken for the state shown.     *)
ResolveLatest(t) == [anchor |-> Latest.anchor, known |-> TRUE]

(* _resolve_shown_anchor: a row that shows the triple says how it was      *)
(* anchored; a row that was computed from it says it was not.              *)
Resolve(t) ==
    IF \E r \in Kept : r.p = t
    THEN [anchor |-> (CHOOSE r \in Kept : r.p = t).anchor, known |-> TRUE]
    ELSE [anchor |-> None, known |-> \E r \in Kept : r.raw = t]

(* sold_call: the anchor stored with the reveal, or recovered.             *)
SoldCall ==
    IF Sold = None THEN [p |-> None, anchor |-> None, known |-> FALSE]
    ELSE LET found == IF Sold.anchor # None THEN [anchor |-> Sold.anchor, known |-> TRUE]
                      ELSE Resolve(Sold.p)
         IN  [p |-> Sold.p, anchor |-> found.anchor, known |-> found.known]

-----------------------------------------------------------------------------
(* The reads                                                               *)

(* prediction_outcomes_since: settled in the ledger's epoch, not a row of  *)
(* the rating bug, club football, kicked off this season.                  *)
InScope ==
    /\ outcome # None /\ match.epoch /\ ~outcome.p.poison /\ match.club
    /\ outcome.dated /\ season = 0

Right(t) == t.pick = outcome.actual

(* track_record: accuracy of the triple that was settled.                  *)
TrackRecord == IF InScope THEN [n |-> 1, hits |-> IF Right(outcome.p) THEN 1 ELSE 0]
               ELSE [n |-> 0, hits |-> 0]

(* high_conf_band_tally: the same row, if it clears the bar.               *)
BandTally == IF InScope /\ HighConf(outcome.p) THEN TrackRecord ELSE [n |-> 0, hits |-> 0]

(* high_conf_band_tally_sold: bar and verdict are those of the sold triple.*)
BandTallySold ==
    IF InScope /\ Sold # None /\ HighConf(Sold.p)
    THEN [n |-> 1, hits |-> IF Right(Sold.p) THEN 1 ELSE 0]
    ELSE [n |-> 0, hits |-> 0]

(* The tally an alert prints: what was sold, or what was stored.           *)
AlertTally == IF BandTallySold.n > 0 THEN BandTallySold ELSE BandTally

Call(t, anchored, basis) ==
    IF HighConf(t) /\ match.recent
    THEN [pick |-> t.pick, right |-> Right(t), anchored |-> anchored, basis |-> basis]
    ELSE None

(* high_conf_record_all: the fixture's line in /record all, or None.       *)
RecordLine ==
    IF ~InScope THEN None
    ELSE IF Sold # None
         THEN Call(Sold.p, IF SoldCall.known THEN SoldCall.anchor # None ELSE None, "sold")
         ELSE IF ledger # << >> THEN Call(outcome.p, outcome.anchor # None, "stored")
              ELSE None

(* anchor_badge                                                            *)
Badge(anchor) == IF anchor # None THEN "market" ELSE "model"

(* format_result as run_result_alerts calls it.                            *)
ResultBody ==
    LET t == IF SoldCall.p = None THEN outcome.p ELSE SoldCall.p
    IN  [pick |-> t.pick, right |-> Right(t), shown |-> SoldCall.p,
         badge |-> IF SoldCall.p = None THEN Badge(outcome.anchor)
                   ELSE IF SoldCall.known THEN Badge(SoldCall.anchor) ELSE None]

-----------------------------------------------------------------------------
(* rescore_drift_stats                                                     *)

(* The first observation of a stage, 0 if there is none.                   *)
FirstOf(stage) ==
    LET at == {i \in DOMAIN drift : drift[i].stage = stage}
    IN  IF at = {} THEN 0 ELSE Min(at)

Observed == {s \in Stages : FirstOf(s) # 0}

(* The first observation of all is what the others are compared with.      *)
Baseline == drift[1]

(* How sure a triple is of a pick.                                         *)
Level(t, pick) == IF t.pick # pick THEN 0 ELSE IF t.high THEN 2 ELSE 1

Moved(stage) ==
    LET was == Baseline.p
        now == drift[FirstOf(stage)].p
        by == Level(now, was.pick) - Level(was, was.pick)
    IN  IF by > 0 THEN "up" ELSE IF by < 0 THEN "down" ELSE "flat"

DriftStats == [s \in {r \in Observed : r # Baseline.stage} |-> Moved(s)]

-----------------------------------------------------------------------------
(* Behaviour                                                               *)

(* A fresh fixture, or one played before the columns for the triple, the   *)
(* anchor and the kickoff existed.                                         *)
Fresh == rows = [d \in Days |-> None] /\ ledger = << >> /\ outcome = None

Legacy ==
    \E t \in Model, u \in Users, side \in {"HOME", "AWAY"} :
      /\ rows = [d \in Days |-> IF d = 1 THEN [p |-> t, raw |-> t, anchor |-> None] ELSE None]
      /\ ledger = <<[user |-> u, p |-> None, anchor |-> None]>>
      /\ outcome = [p |-> t, anchor |-> None, actual |-> side,
                    dated |-> FALSE, pending |-> FALSE, today |-> FALSE]

SoldState ==
    /\ match \in Matches /\ day = 1
    /\ onScreen = [u \in Users |-> None] /\ drift = << >> /\ told = None /\ season = 0
    /\ used = [rescores |-> 0, passes |-> 0]

SoldInit == SoldState /\ (Fresh \/ Legacy)

NextDay ==
    /\ day = 1 /\ outcome = None /\ day' = 2
    /\ UNCHANGED <<match, rows, ledger, onScreen, drift, outcome, told, season, used>>

(* The daily run and the odds-retry pass.                                  *)
Rescore(new) ==
    /\ outcome = None /\ used.rescores < MaxRescores
    /\ rows' = [rows EXCEPT ![day] = Upserted(@, new)]
    /\ used' = [used EXCEPT !.rescores = @ + 1]
    /\ UNCHANGED <<match, day, ledger, onScreen, drift, outcome, told, season>>

(* An alert re-scores, logs the triple now in force and sends it to the    *)
(* users to whom it is new.                                                *)
Fire(stage, new) ==
    /\ outcome = None /\ ~Scoreless /\ stage # "result" /\ FirstOf(stage) = 0
    /\ rows' = [rows EXCEPT ![day] = Upserted(@, new)]
    /\ LET t == rows'[day].p IN
         /\ drift' = Append(drift, [stage |-> stage, p |-> t])
         /\ onScreen' = [u \in Users |->
              IF HighConf(t) /\ \A i \in DOMAIN ledger : ledger[i].user # u THEN t ELSE onScreen[u]]
    /\ UNCHANGED <<match, day, ledger, outcome, told, season, used>>

(* /predictions shows today's fixtures, those already played included.     *)
Command(u) ==
    /\ ~Scoreless /\ onScreen[u] = None /\ HighConf(Latest.p)
    /\ outcome # None => outcome.today
    /\ \A i \in DOMAIN ledger : ledger[i].user # u
    /\ onScreen' = [onScreen EXCEPT ![u] = Latest.p]
    /\ UNCHANGED <<match, day, rows, ledger, drift, outcome, told, season, used>>

SendFails(u) ==
    /\ onScreen[u] # None /\ onScreen' = [onScreen EXCEPT ![u] = None]
    /\ UNCHANGED <<match, day, rows, ledger, drift, outcome, told, season, used>>

(* commit_reveals: the anchor is looked up now, not when it was rendered.  *)
Commit(u) ==
    /\ onScreen[u] # None /\ onScreen' = [onScreen EXCEPT ![u] = None]
    /\ ledger' = IF \E i \in DOMAIN ledger : ledger[i].user = u THEN ledger
                 ELSE Append(ledger, [user |-> u, p |-> onScreen[u],
                                      anchor |-> Resolve(onScreen[u]).anchor])
    /\ UNCHANGED <<match, day, rows, drift, outcome, told, season, used>>

(* The match is played long after its alerts were sent, and settlement     *)
(* scores the freshest row.                                                *)
Settle(actual) ==
    /\ outcome = None /\ ~Scoreless /\ \A u \in Users : onScreen[u] = None
    /\ outcome' = [p |-> Latest.p, anchor |-> Latest.anchor, actual |-> actual,
                   dated |-> TRUE, pending |-> TRUE, today |-> TRUE]
    /\ UNCHANGED <<match, day, rows, ledger, onScreen, drift, told, season, used>>

(* A result nobody was promised is consumed in silence.                    *)
Owed == HighConf(Latest.p) \/ ledger # << >>

(* run_result_alerts: every pass logs the settled triple before it sends.  *)
AlertResult(delivered) ==
    /\ outcome # None /\ outcome.pending /\ Owed
    /\ delivered \/ used.passes < MaxPasses
    /\ drift' = Append(drift, [stage |-> "result", p |-> outcome.p])
    /\ told' = IF delivered THEN ResultBody ELSE None
    /\ outcome' = [outcome EXCEPT !.pending = ~delivered]
    /\ used' = IF delivered THEN used ELSE [used EXCEPT !.passes = @ + 1]
    /\ UNCHANGED <<match, day, rows, ledger, onScreen, season>>

ConsumeResult ==
    /\ outcome # None /\ outcome.pending /\ ~Owed
    /\ outcome' = [outcome EXCEPT !.pending = FALSE]
    /\ UNCHANGED <<match, day, rows, ledger, onScreen, drift, told, season, used>>

(* Midnight: /predictions no longer lists the match.                       *)
DayEnds ==
    /\ outcome # None /\ outcome.today /\ \A u \in Users : onScreen[u] = None
    /\ outcome' = [outcome EXCEPT !.today = FALSE]
    /\ UNCHANGED <<match, day, rows, ledger, onScreen, drift, told, season, used>>

(* A restart backfills the kickoff of an undated outcome from its row.     *)
Boot ==
    /\ outcome # None /\ ~outcome.dated /\ ~Scoreless
    /\ outcome' = [outcome EXCEPT !.dated = TRUE]
    /\ UNCHANGED <<match, day, rows, ledger, onScreen, drift, told, season, used>>

(* 1 August                                                                *)
NewSeason ==
    /\ season = 0 /\ outcome # None /\ ~outcome.today /\ season' = 1
    /\ UNCHANGED <<match, day, rows, ledger, onScreen, drift, outcome, told, used>>

SoldNext ==
    \/ NextDay \/ Boot \/ NewSeason \/ ConsumeResult \/ DayEnds
    \/ \E new \in Rescores : Rescore(new) \/ \E s \in Stages : Fire(s, new)
    \/ \E u \in Users : Command(u) \/ Commit(u) \/ SendFails(u)
    \/ \E side \in {"HOME", "AWAY"} : Settle(side)
    \/ \E delivered \in BOOLEAN : AlertResult(delivered)

SoldSpec == SoldInit /\ [][SoldNext]_soldVars

-----------------------------------------------------------------------------
(* Properties                                                              *)

(* Whatever was rescored before, between or after the reveals, a badge     *)
(* that is given describes the triple it stands under: sold_call never     *)
(* calls a model triple anchored, nor the reverse.                         *)
BadgeIsHonest ==
    /\ SoldCall.known => (SoldCall.anchor # None <=> SoldCall.p.by = "quote")
    /\ told # None /\ told.badge = "market" => (told.shown # None => told.shown.by = "quote")

(* The message that ended a match and the record kept of it never part:    *)
(* a call in /record all has the pick, the verdict and the badge that the  *)
(* result alert gave, and the tally of the next alert counts it the same.  *)
RecordAgreesWithResult ==
    LET line == RecordLine IN
    /\ told # None /\ line # None =>
         /\ line.pick = told.pick /\ line.right = told.right
         /\ told.badge # None /\ line.anchored # None => line.anchored = (told.badge = "market")
    /\ line # None /\ line.basis = "sold" =>
         AlertTally = [n |-> 1, hits |-> IF line.right THEN 1 ELSE 0]

(* Once a sold call is in the record, no reveal, restart or rescore takes  *)
(* it out or turns its verdict within the season.                          *)
SaleStays ==
    RecordLine # None /\ RecordLine.basis = "sold" /\ season' = season => RecordLine' = RecordLine

(* A drift once measured is not measured anew: alerts of a later stage and *)
(* retried result passes add to the statistics and never change them.      *)
DriftStays ==
    drift' # drift => \A s \in DOMAIN DriftStats : s \in DOMAIN DriftStats' /\ DriftStats'[s] = DriftStats[s]

(* What is on record about a sold call is not rewritten by what follows.   *)
RecordKeepsTheSale == [][SaleStays /\ DriftStays]_soldVars

(* "As shown to you" in a result is what that user was shown.              *)
AsShownIsTrue ==
    told # None /\ told.shown # None =>
        \A i \in WithTriple : ledger[i].p = told.shown

(* What a sold call was, and how it went, is told alike everywhere.        *)
RecordIsHonest == BadgeIsHonest /\ RecordAgreesWithResult
=============================================================================
