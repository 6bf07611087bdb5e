------------------------------ MODULE OddsAnchor ------------------------------
(***************************************************************************)
(* One run date of odds anchoring.  The daily scoring run, the pre-match   *)
(* alerts and the odds-retry pass share one OddsService, a cache with a    *)
(* time to live and a floor between requests, and store into the same      *)
(* prediction rows.  The free odds card lands after the daily run, so the  *)
(* rows are stored raw and the retry pass has to anchor them.              *)
(***************************************************************************)
EXTENDS Integers, FiniteSets

CONSTANTS
    Fixtures,       \* big-5 fixtures of the day whose names resolve
    Past,           \* stands for the rows of a card that is over
    Nil,
    MaxBreaks       \* bound: football-data calls that fail, and restarts

ASSUME OddsAssumption == MaxBreaks \in Nat

Jobs == {"daily", "alert", "retry"}

VARIABLES
    feed,       \* the odds file: reachable, and the in-scope rows it lists
    index,      \* OddsService._index
    loaded,     \* _loaded_at is set and within the time to live
    recent,     \* the last request is less than the floor ago
    lock,       \* the job that holds OddsService._lock across a request
    stored,     \* stored[f]: Nil, or the anchor_source of today's row: "raw" or "odds"
    kicked,     \* fixtures that have kicked off
    job,        \* job[j]: where j stands, with which fixture, and what it still has to do
    failures    \* used up

oddsVars == <<feed, index, loaded, recent, lock, stored, kicked, job, failures>>

Rows == Fixtures \cup {Past}
Idle == [pc |-> "idle", f |-> Nil, todo |-> {}, anchored |-> FALSE]

OddsTypeOK ==
    /\ feed \in [up : BOOLEAN, card : SUBSET Rows]
    /\ index \subseteq Rows /\ loaded \in BOOLEAN /\ recent \in BOOLEAN
    /\ stored \in [Fixtures -> {Nil, "raw", "odds"}] /\ kicked \subseteq Fixtures
    /\ job \in [Jobs -> [pc : {"idle", "pick", "form", "prime", "fetch", "close"},
                         f : Fixtures \cup {Nil}, todo : SUBSET Fixtures, anchored : BOOLEAN]]
    /\ lock = Nil \/ (lock \in Jobs /\ job[lock].pc = "fetch")
    /\ failures \in 0 .. MaxBreaks

OddsInit ==
    /\ feed = [up |-> TRUE, card |-> {Past}]
    /\ index = {} /\ loaded = FALSE /\ recent = FALSE /\ lock = Nil
    /\ stored = [f \in Fixtures |-> Nil] /\ kicked = {}
    /\ job = [j \in Jobs |-> Idle] /\ failures = 0

cached == <<index, loaded, recent, lock>>

-----------------------------------------------------------------------------
(* The world                                                               *)

(* Nothing can be read of a file that is down.                             *)
FileDown == [up |-> FALSE, card |-> {}]

(* The file goes down, comes back, regresses or gets its new card.         *)
FeedChanges ==
    /\ \E file \in {FileDown} \cup [up : {TRUE}, card : {{}, {Past}, Fixtures}] : file # feed /\ feed' = file
    /\ UNCHANGED <<cached, stored, kicked, job, failures>>

KickOff(f) ==
    /\ f \notin kicked /\ kicked' = kicked \cup {f}
    /\ UNCHANGED <<feed, cached, stored, job, failures>>

MinutePasses ==
    /\ recent /\ recent' = FALSE
    /\ UNCHANGED <<feed, index, loaded, lock, stored, kicked, job, failures>>

TtlPasses ==
    /\ loaded /\ loaded' = FALSE
    /\ UNCHANGED <<feed, index, recent, lock, stored, kicked, job, failures>>

-----------------------------------------------------------------------------
(* The jobs                                                                *)

(* _score_once over the scheduled matches.                                 *)
StartDaily ==
    /\ job["daily"] = Idle /\ Fixtures \ kicked # {}
    /\ job' = [job EXCEPT !["daily"] = [Idle EXCEPT !.pc = "pick", !.todo = Fixtures \ kicked]]
    /\ UNCHANGED <<feed, cached, stored, kicked, failures>>

(* A pre-match alert re-scores the fixture it is about.                    *)
RescoreForAlert(f) ==
    /\ job["alert"] = Idle /\ f \notin kicked /\ stored[f] # Nil
    /\ job' = [job EXCEPT !["alert"] = [Idle EXCEPT !.pc = "form", !.f = f]]
    /\ UNCHANGED <<feed, cached, stored, kicked, failures>>

(* unanchored_anchorable_fixtures                                          *)
Unanchored == {f \in Fixtures \ kicked : stored[f] = "raw"}

(* Mutant: the retry pass trusts the cache.                                *)
InvalidatedNot == loaded

Invalidated == FALSE

(* The retry pass primes once before it looks at any fixture.              *)
StartRetry ==
    /\ job["retry"] = Idle /\ Unanchored # {}
    /\ loaded' = Invalidated
    /\ job' = [job EXCEPT !["retry"] = [Idle EXCEPT !.pc = "prime", !.todo = Unanchored]]
    /\ UNCHANGED <<feed, index, recent, lock, stored, kicked, failures>>

Pick(j) ==
    /\ job[j].pc = "pick"
    /\ IF job[j].todo = {} THEN job' = [job EXCEPT ![j] = Idle]
       ELSE \E f \in job[j].todo :
              job' = [job EXCEPT ![j] = [job[j] EXCEPT !.pc = "form", !.f = f, !.todo = @ \ {f}]]
    /\ UNCHANGED <<feed, cached, stored, kicked, failures>>

(* The job is done with its fixture.                                       *)
Onward(j) == [job[j] EXCEPT !.pc = IF j = "alert" THEN "idle" ELSE "pick",
                            !.f = Nil, !.anchored = FALSE]

(* The match and the form are read and the engine predicts, or a call      *)
(* fails and the fixture is passed over.                                   *)
ReadForm(j) ==
    /\ job[j].pc = "form"
    /\ job' = [job EXCEPT ![j].pc = "prime"]
    /\ UNCHANGED <<feed, cached, stored, kicked, failures>>

FormFails(j) ==
    /\ job[j].pc = "form" /\ failures < MaxBreaks
    /\ job' = [job EXCEPT ![j] = Onward(j)] /\ failures' = failures + 1
    /\ UNCHANGED <<feed, cached, stored, kicked>>

-----------------------------------------------------------------------------
(* OddsService.prime, then what the caller does with the cache             *)

(* Mutant: the source of a row without an anchor is stored as text.        *)
UpsertedText(f, anchored) ==
    [stored EXCEPT ![f] = IF anchored \/ @ = "odds" THEN "odds" ELSE "none"]

(* upsert_prediction: a row that is anchored never goes back to raw.       *)
Upserted(f, anchored) ==
    [stored EXCEPT ![f] = IF anchored \/ @ = "odds" THEN "odds" ELSE "raw"]

(* With rows in the cache: the retry pass looks for a forward card, the    *)
(* others for their quote.  The daily run stores at once; the others close *)
(* their client first.                                                     *)
Use(j, rows) ==
    LET f == job[j].f
    IN  IF f = Nil
        THEN /\ job' = [job EXCEPT ![j] = IF rows \cap Fixtures = {} THEN Idle ELSE Onward(j)]
             /\ stored' = stored
        ELSE IF j = "daily"
        THEN job' = [job EXCEPT ![j] = Onward(j)] /\ stored' = Upserted(f, f \in rows)
        ELSE job' = [job EXCEPT ![j] = [@ EXCEPT !.pc = "close", !.anchored = f \in rows]] /\ stored' = stored

(* A fresh cache, or one that may not be refreshed yet, is used as it is.  *)
PrimeFromCache(j) ==
    /\ job[j].pc = "prime" /\ lock = Nil
    /\ loaded \/ recent
    /\ Use(j, index)
    /\ UNCHANGED <<feed, cached, kicked, failures>>

Request(j) ==
    /\ job[j].pc = "prime" /\ lock = Nil /\ ~loaded /\ ~recent
    /\ lock' = j /\ recent' = TRUE
    /\ job' = [job EXCEPT ![j].pc = "fetch"]
    /\ UNCHANGED <<feed, index, loaded, stored, kicked, failures>>

(* Mutant: a file without rows for us counts as a refresh.                 *)
RefreshedByAny == feed.up

(* An unreachable or empty file leaves the cache and its stamp alone.      *)
Refreshed == feed.up /\ feed.card # {}

Answer(j) ==
    /\ job[j].pc = "fetch"
    /\ lock' = Nil
    /\ index' = IF Refreshed THEN feed.card ELSE index
    /\ loaded' = (loaded \/ Refreshed)
    /\ Use(j, index')
    /\ UNCHANGED <<feed, recent, kicked, failures>>

(* The alert stores what it has; the retry pass only an anchored one.      *)
Store(j) ==
    /\ job[j].pc = "close"
    /\ stored' = IF j = "retry" /\ ~job[j].anchored THEN stored ELSE Upserted(job[j].f, job[j].anchored)
    /\ job' = [job EXCEPT ![j] = Onward(j)]
    /\ UNCHANGED <<feed, cached, kicked, failures>>

OddsRestart ==
    /\ failures < MaxBreaks /\ failures' = failures + 1
    /\ index' = {} /\ loaded' = FALSE /\ recent' = FALSE /\ lock' = Nil
    /\ job' = [j \in Jobs |-> Idle]
    /\ UNCHANGED <<feed, stored, kicked>>

-----------------------------------------------------------------------------
Step(j) ==
    Pick(j) \/ ReadForm(j) \/ PrimeFromCache(j) \/ Request(j) \/ Answer(j) \/ Store(j)

OddsNext ==
    \/ FeedChanges \/ MinutePasses \/ TtlPasses \/ OddsRestart
    \/ StartDaily \/ StartRetry
    \/ \E f \in Fixtures : KickOff(f) \/ RescoreForAlert(f)
    \/ \E j \in Jobs : Step(j) \/ FormFails(j)

OddsSpec == OddsInit /\ [][OddsNext]_oddsVars

(* Minutes pass, the retry pass keeps its cron, and a job that can go on   *)
(* does; the lock of asyncio is first come, first served.                  *)
OddsFairSpec ==
    /\ OddsSpec
    /\ WF_oddsVars(MinutePasses) /\ WF_oddsVars(StartRetry)
    /\ \A j \in Jobs : WF_oddsVars(Step(j)) /\ SF_oddsVars(PrimeFromCache(j) \/ Request(j))

-----------------------------------------------------------------------------
(* Properties                                                              *)

(* A card that stays in the file is not missed: a fixture it lists does    *)
(* not stay stored raw until its kickoff, whatever the cache held before,  *)
(* which jobs refreshed it meanwhile and however the floor fell.           *)
CardReachesStore ==
    \A f \in Fixtures :
        ~<>[](feed.up /\ f \in feed.card /\ stored[f] = "raw" /\ f \notin kicked)
=============================================================================
