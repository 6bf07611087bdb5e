# A verification project for The Football Nutmeg (`betbot`)

TLA+ modules that model the concurrent core of the tipster in `src/src/betbot`, TLC
configurations that check them on small instances, and TLAPS
proofs of nearly every safety property among them, for all values of the constants.
All paths below are relative to `src/src/betbot` unless they begin with `src/`.

## 1. The system

Three systemd units share one SQLite file and nothing else:

| process | what runs in it |
|---|---|
| `tfsm-daemon` | one asyncio loop with APScheduler jobs: scoring, morning notice, scheduling pass, pre-match alerts, sweeps, settlement, result and verification passes, watchdogs, odds retry, ClubElo ticks |
| `tfsm-bot` | the Telegram bot; updates are handled one at a time |
| `tfsm-api` | a read-only HTTP API |

An operator may also run `tfsm settle`, `tfsm run-once`, `tfsm kill-switch reset` in a process
of its own. Inside a process coroutines interleave **only at awaits**; between processes the
interleaving is per SQL statement, because the driver begins a transaction at the first write,
not at the first read. Jobs, asyncio locks, cooldowns and caches live in memory and are gone
after a restart; rows and two sidecar files survive.

### Inventory

| component | state it keeps | operations | what is hard | what makes it correct |
|---|---|---|---|---|
| Entitlement and reveal ledger (`entitlement.py`, `daily_jobs.py`, `storage/repos.py`) | `prediction_reveals`, `users.predictions_consumed`, the `list_users()` snapshot of a running alert | render for a user, send, `commit_reveals` | two alert jobs and the bot serve one user; lost answers; crashes inside the commit; two processes on one counter | nobody billed twice, first reveal wins, nothing recorded that was not delivered |
| Morning, drop and promotion notices (`daily_jobs.py`) | `matchday_notice_runs`, `morning_notice_listings`, promotions, two asyncio locks | 06:00 notice, drop pass, promotion pass, fire-time hook, recovery line | four kinds of callers of one pass, sends and re-scores in the middle, restarts, the day's border | each fixture told once, no promotion of what was named, a dropped call is told |
| Alert scheduling (`main.py`, `reschedule.py`) | in-memory one-off jobs, kickoffs in `predictions` | resync, register, fire, upstream check, watchdog | moved and dead fixtures, a scoring run or an alert's own re-score between two resyncs, midnight | jobs agree with upstream, one alert per slot, no false alarm |
| Results (`settlement.py`, `daily_jobs.py`) | `prediction_outcomes`, ratings | settle, result alert, re-verification, correction | provider changes a final score; sends that fail for some; overlap with the command line | ratings learn once, each user told once, the last word is the record |
| Operator pages (`notify.py`) | `_last_sent` in memory | `notify_operator` | overlapping watchdogs, refused markdown, lost answers | a cooldown only on something delivered |
| Paper bets (`main.py`, `settlement.py`) | `paper_bets`, `kill_switch` | place, settle, evaluate drawdown, reset | gate read before an await; two settlement runs | exposure within one stake per overlapping run, settled once, trips on money only |
| ClubElo feed (`clubelo_alerts.py`, `cl_fallback_alert.py`, `data/clubelo.py`, `strategy/cl_engine.py`) | site snapshot, alerter state with sidecar, fallback episode file | scrape tick, page, recovery, fallback announcement | restarts, failed saves, a start's own tick beside the scheduled one | pages spaced, every outage told, every fallback told |
| Odds anchor (`data/odds.py`, `strategy/odds_anchor.py`) | cache with TTL and request floor, `anchor_source` of the rows | prime, quote, anchor, retry pass | a shared cache that is fresh with an old card; a feed that goes down | the card that stays in the file reaches the rows |
| Prediction store (`storage/repos.py`) | `predictions`, one row per fixture and run date | upsert, freshest row | several writers, several run dates | anchored rows stay anchored |
| Sold calls and the record (`storage/repos.py`, `tips.py`) | the triple in each reveal, `rescore_drift_log`, `prediction_outcomes` | sold call, its badge, the tally of an alert, `/record all`, drift statistics | rescores overwrite the row a sale came from; several users buy at several times | the message that ends a match, the record and the next alert tell the same story |
| Trade log (`trade_log.py`, `exchanges/pm_activity.py`) | `operator_trades` | paged sync, matching, positions, reports | pages shift while they are read, syncs break off, marks go stale | a finished sync is complete, no result is made up, months add up |
| Market discovery (`exchanges/*`) | the events of one run | paged listing of three sources, choice of the market, quote | events open and close between pages, sources fail | a price is that of a head-to-head match and of the right side |
| Football clients (`data/football_data.py`, `data/api_football.py`, `utils/cache.py`) | window of sent requests, cache | get with limiter, cache and retry | retries inside the limiter, quotas | the limit holds |
| Line-ups and minutes (`data/lineup_service.py`, `data/highlightly.py`) | day list, ids, answers, minutes files | fixture id, line-up, backfill | what may be cached and what must not | a miss has a cause of its own; every league gets a file with teams |
| Migrations (`storage/db.py`) | the schema | create, alter, backfill | services boot together on one file | they come up, and the schema is whole |
| Telegram bot (`telegram_bot.py`) | none of its own | commands | `/predictions` overlaps with the alerts | as the reveal ledger |
| Ratings merge (`storage/repos.py`, `strategy/glicko.py`) | `team_ratings` | nightly seed, nudge, merge by freshness | seed and live nudges | the fresher one wins (not modelled) |
| Model and simulators (`strategy/*`) | none | Dixon-Coles, ensemble, Monte Carlo | floating point | outside a finite-state model |
| Chat, wallet, config, reports, backtest, API, frontend, scripts | – | – | no shared state that races | not modelled |

How they interact: the scoring run writes `predictions`; the scheduling pass reads them and
registers jobs, and calls the drop and promotion passes; an alert job re-scores, anchors, stores
and reveals; settlement writes outcomes, ratings and bets; the result and verification passes read
them; the record, the tally and the trade log go back to the reveals for what was sold; every
watchdog pages through `notify_operator`; every process brings the schema up to date before it does
anything else.

## 2. Modules

| module | lines of code it stands for | how state and actions correspond |
|---|---|---|
| `RevealLedger` | `render_user_predictions`, `commit_reveals`, `send_prediction_alert`, `record_reveal`, `increment_predictions_consumed`, `evaluate` | `ledger` and `consumed` are the two tables; `task[t]` is the local state of a handler, its `pc` the await it is at. One action from one await to the next, except in the commit, where every SQL statement is an action because the other process can come in between; `LoopFree` keeps the other coroutines of the same process out. |
| `Billing` | the promise of `entitlement.py` | abstract: a row is written once, the counter never exceeds the charged rows |
| `MorningNotices` | `run_matchday_notice`, the drop and promotion passes, `_fire_prediction_alert`'s gate and what follows it, the listing helpers of `repos.py` | `pass[p]` is a coroutine: waiting for a lock, sending, or between; `listing` folds `notified` and `drop_notice_sent_at` into pending, consumed, sent; `job[f]` is the slot of the registered late alert, `alert[f]` one that fired: `check` until upstream, line-up and re-score have answered and the row is stored, `send` until the row of the reveal is written. Sweeps, hooks and scoring runs go on in between. |
| `AlertSchedule` | `_schedule_today_alerts`, `resync_kickoffs`, `alert_still_valid`, the coverage watchdog | `rows[f][d]` are the stored rows by run date, `job[f][tag]` the scheduler's jobs; `StartPass`/`FinishPass` are the two halves of the locked pass around its upstream reads; `firing[f][tag]` is an alert at one of its awaits (upstream check, line-up, re-score), whose re-score stores the kickoff it read; `hidden` are the fixtures of which such a store, or a scoring run's, was ahead of the pass |
| `ResultRecord` | the promise of `prediction_outcomes` and `_update_ratings_for_result` | abstract: a result is entered once, its winner and age are final, its flag only rises, its goals move in at most three checks and only to credible ones, the ratings learn it once and in time |
| `ResultLoop` | `settle_pending`, `update_outcomes`, `send_result_alerts`, `reverify_recent_scores` | `settle[s]`, `result`, `verify` are the open passes; `told[c][f]` is what a chat received, in order |
| `OperatorNotify` | `notify_operator`, `send_telegram` | `call[w]` is an open call with the instant it read before the send |
| `PaperBets` | `_score_and_log_one`, `settle_pending`, `evaluate_kill_switch`, `record_settlement` | `scoring[r].quote` is the awaited market route, `settling[s].due` the listed bets |
| `ClubEloFeed` | `ClubEloAlerter`, the ClubElo ticks, `maybe_alert_fallback`, the fallback decision of `cl_engine` | `mem` and `disk` are the alerter and its sidecar, `marker` the episode file, `tick[l]` and `run[p]` where a tick and a scoring run stand: the ticks are those of the 08:00 job and of the start, which runs a whole one of its own; `sentLately` is the six-hour cooldown of the fallback page, in memory |
| `OddsAnchor` | `OddsService`, `anchor_prediction`, `upsert_prediction`, `_odds_retry_tick` | `index`, `loaded`, `recent`, `lock` are the cache, its freshness, its request floor and its lock; `stored[f]` is today's `anchor_source`, `job[j]` where a job stands |
| `SoldRecord` | the sold call and its badge, `_resolve_shown_anchor`, the band tallies, `/record all`, `track_record`, the result body, the drift statistics | one fixture over two days and a new season: `rows` are its predictions by run date, `ledger` and `drift` its reveals and drift rows in the order of their ids, `told` the body of its result. The reads are operators over that state. |
| `TradeLog` | `pm_activity.py`, `trade_log.py`, `operator_trades` | extends `SoldRecord`, because a trade is matched with the call its fixture was sold as; `feed` is the wallet's activity, `pull` a sync between two pages or rows, `mirror` what was stored |
| `ApiClient` | the rate limiter, the cache and the retry of `football_data.py` and `api_football.py` | `client[j]` is the client a job opened, with the instants of its requests in the window |
| `LineupFeed` | `lineup_service.py`, the line-up part of an alert, the minutes backfill | `dayList` and `ids` are kept for the life of the process, `answers` for a time to live; `source` is what the provider lists and has posted, and since when; `minutes` are the files of the leagues: none, empty, partial or complete |
| `MarketRoute` | Gamma discovery, `_classify_event`, `find_market`, the quote | `scan` is the listing between two pages, `known` the events kept for the run, `bet[i]` what came of fixture i |
| `SchemaBoot` | `init_engine`, `_apply_additive_migrations`, the kickoff backfill | `boot[s]` is how far service s is, one action per DDL statement, since SQLite commits each on its own |
| `EloSnapshot` | the ranking-page scrape, `_build_csv_from_scrape`, the API pin | `work[s]` is a scrape between its reads and its `os.replace`; the two naming passes are recursive functions over the reference |
| `Induction` | – | induction and recursion over numbers, in the form the provers can use, and what `Min`, `Max` and sums over sets are |
| `RevealLedger_proofs`, `MorningNotices_proofs`, `AlertSchedule_proofs`, `ResultLoop_proofs`, `PaperBets_proofs` | – | theorems about the module of that name |
| `TradeLog_proofs` | – | theorems about `SoldRecord` and `TradeLog` |
| `Services_proofs` | – | theorems about the parts of `MCServices` and about `ClubEloFeed`, a section for each |
| `MCServices` | – | composes `OddsAnchor`, `OperatorNotify`, `ApiClient`, `LineupFeed`, `MarketRoute`, `SchemaBoot` and `EloSnapshot`: it extends all of them, `part` picks one at the start and the others keep their initial state |
| `MCSalesAndRatings` | – | composes `TradeLog` (with `SoldRecord`) and `ClubEloFeed` in the same way |

`MC*` modules give the constants of the supporting parts and of `RevealLedger`, `AlertSchedule`, `ResultLoop`, `PaperBets`,
`SoldRecord` and `TradeLog` their values; `MorningNotices` and `ClubEloFeed` take theirs from the
configuration. `PROJECT.json` maps each definition to its lines.

The parts of `MCServices` share no state in the code either (their only link is what they hand
to the scoring run and to the alerts, which is input there), so no interleaving is lost by running them
one at a time; the alerts and the minutes backfill of `LineupFeed` are parts of their own for the same
reason. Two components that do share
state are in one module or extend each other: `TradeLog` extends `SoldRecord`, settlement, result pass
and verification are `ResultLoop`, the failsafes and the alert's gate are `MorningNotices`.

The `*Not`, `*Always`, ... operators marked "Mutant:" in the modules are the plausible mistakes
each property was tried against; no specification uses them.

## 3. Runs, and what they show

| run | bounds | what it shows |
|---|---|---|
| `ledger_overlap` | a user and the operator, two fixtures, the early and late job of one and the early job of the other, the bot; 1 USDC; one fault; two handlers in flight; the operator is past the trial and has funds (`OperatorHasFunds`), and one of the two has received no body yet (`OneIsServed`) | No overlap of alerts and commands bills twice, rewrites what was sold or records what was not delivered; the operator, and a body that was rendered in the trial, are never charged, although funds are there and the trial ends before the commit; the path implements `Billing`. The rows and counters of users never meet, so it is enough that one of the two is served; three jobs make two of one fixture meet one of another. |
| `ledger_overspend` | two jobs, 1 USDC | **violated**: see finding 1 |
| `notices_day` | one fixture, two days of three slots, one pass of each kind, an alert with its awaits, three rescores, one move, one fault | Notices are sent once, promotions are news, the recovery line is true, and a dropped call is told in the end, although the alert and all passes interleave. Three rescores are what a call needs to drop, recover and drop again; two days let the listing of one meet the promotion of the other. |
| `notices_both` | as `notices_day` | **violated**: see finding 4 |
| `schedule_alerts` | one fixture, eight slots of six hours, kickoffs in the last slot of either day and just after midnight, two upstream changes, two scored rows, two faults; every alert may store the row its re-score made | Jobs agree with upstream after a pass, but for a move it could not see; no slot fires twice, the watchdog does not cry wolf. Fixtures share the pass only, and each is read on its own; two changes let a match move and come back. |
| `results_jobs` | one match, two users, daemon and command line, four entries of the provider, two changes, one failure, one restart | Ratings learn once, a user is told once, flags are honest; whatever passes overlap, the three of them implement `ResultRecord` |
| `results_corrections` | one user and the group, two verification passes, entries without goals, contradictory and awarded | Corrections are credible, follow a result, and make the last word the record; a pending result does not stay pending |
| `results_race` | one user, no faults, both passes open | **violated**: see finding 2 |
| `bets_settled` | two fixtures, one price, cap 1, two scoring runs, two settlement runs, two days, one flip; any two of these runs overlap, three do not (`OverlapInPairs`) | Scoring runs overshoot the cap by one stake for each beyond the first and no more, a bet that two runs listed is settled once, the switch trips on priced losses only. Two runs of each kind are the least that race. |
| `sales_and_ratings` | sales: one fixture; two users; four triples (a call, the same with a quote, a flip below the bar, a row of the rating bug), this season's club football and the weeks of the rating bug; one rescore outside the alerts, one failed result pass; two markets, a feed of two rows with pages of one, one sync that breaks off. Ratings: three days of four parts, alert after 0 days and stale after 1, one command-line run, one fault (a lost send, a failed save or a restart) | Badge, result, tally and record agree about a sale, nothing that follows rewrites it, a finished sync has every row, and the report makes no result up. Two users are needed for a second buyer, two pages for one that shifts. Pages of the ratings feed are a day apart, every outage and every fallback is told, one recovery note per outage; a restart whose tick overlaps the scheduled one repeats at most one message. |
| `result_as_shown` | two users, one rescore | **violated**: see finding 3 |
| `services` | odds: one fixture and the rows of a past card, one failure. Pages: two watchdogs, cooldown 2, three instants, two failures, one unconfirmed send, one restart. Client: two jobs, limit 2 and window 2 over three calls, a provider that grants one request a window. Line-ups: two matches, two leagues whose files are fetched whole, in part or not at all, time to live 1, one error. Route: four events (the derby under an alias, a prop on it, an outright, a cup match of three outcomes), with two clubs that the matcher takes for each other, pages of one, one event that moves or request that fails. Schema: two services, two tables, three columns, two locks or restarts. Ratings: six rows of the page against three of the reference, two scrapers, two troubles. | The seven supporting components keep their promises: a listed card reaches the store, a standing fault is told, the limit holds, a miss of a line-up has a cause, every league gets a file with teams, a price is that of a match of two clubs taken for the teams, services come up together, and a club is rated by its own row. Each bound is the least at which its mutant shows: one failure lets a cache hold a bad answer and outlive it, a page of one makes every listing cross a page. |

The type invariant of each module is checked in one run (`FeedTypeOK` for `ClubEloFeed`; `TypeOK` of
`MCServices` is that of whichever part runs). `CHECK_DEADLOCK FALSE` is stated for the runs whose
bounded days, passes and requests end: `results_*`, `result_as_shown`, `sales_and_ratings` and
`services`; all other runs must not deadlock.

### Fairness

* `notices_day`: the scheduler starts the sweeps again and again and a coroutine that can go on
  does (WF `StartSweep`, `PassStep`, `Alert`); asyncio locks are first come, first served, so a
  pass that waits gets its lock (SF `AcquireDrop`); Telegram does not refuse one notice for
  ever (SF `DropDelivered`) - the sweep repeats it every 15 minutes.
* `results_corrections`: the two-hourly job fires and its coroutines run to their end (WF).
* `services`, pages: a watchdog that still sees its fault calls again (SF `Notifying(k)`: the
  cooldown disables it again and again), and an open send ends (WF `Send`), since it has a
  timeout.
* `services`, odds: minutes pass, the retry pass is on a cron (WF), coroutines proceed (WF `Step`),
  and the lock is first come, first served (SF).
* `services`, minutes: the backfill ticks every day and does not meet a spent quota for ever (SF
  of the `Backfill` that writes a file with teams, whole or in part): one league a day is chosen to stay under the quota.
* `MCServices` states some of these as one condition on a disjunction of steps of several parts. Since
  `part` never changes, only the steps of one part are ever enabled in a behaviour, and the
  condition says for that part what it would say alone.
* The ledger, the schedule, the bets, the ClubElo feed, the record and the trade log are checked for
  safety only.

## 4. Findings

1. **Overlapping alerts overdraw a credit** (`daily_jobs.py:1311`, run `ledger_overspend`).
   `send_prediction_alert` serves every user from the `list_users()` snapshot it took before its
   sends. Two alert jobs that overlap both find the last credit unspent, both reveal, and both charge:
   the counter exceeds what the user deposited, against "1 USDC = 1 prediction reveal"
   (`entitlement.py:5`). The ledger itself stays right: two fixtures were sold, two were counted.
2. **A correction can get lost** (`daily_jobs.py:1726`, run `results_race`). The verification pass
   changes the stored goals and leaves the announcement to the result alert when the row was not
   yet notified; a result alert already on its way carries the old goals. The next verification
   finds nothing to correct.
3. **A buyer is told what another was shown** (`daily_jobs.py:1563`, run `result_as_shown`). The
   body of a result alert is made once per fixture, from the triple of the earliest reveal, and sent
   to everyone who is owed it. A user who bought after a rescore reads under "As shown to you" a
   triple, and a verdict, that were shown to somebody else; `tips.py:298` says the triple is the one
   "ACTUALLY SOLD to the user". The record of the fixture uses the same triple, so the two agree
   (`RecordAgreesWithResult`).

4. **A fixture can be the subject of both failsafes** (`daily_jobs.py:871`, run `notices_both`). The promotion
   pass looks whether the fixture is on a morning list *now*, and the morning notice never looks at
   promotions. A fixture promoted on one day and moved to the next is named by the next notice; when it
   falls below the bar its audience, told yesterday that the call was on, gets a drop notice. `repos.py:2437` says that
   the look-up "keeps the two failsafes from ever both firing for one fixture" and
   `daily_jobs.py:814` that "the two never both fire". On one day it holds (`ToldOnceAndTruly`).

### Known limits seen while modelling

Behaviour of the code that a reader of the properties should know of, because their statements step around
it. Four of these points contradict a document of the repository, which is quoted there (schedule, bets,
line-ups, markets); of the others no document speaks, or what it says is quoted as well:

* Money: `increment_predictions_consumed` reads and writes in two statements; the daemon and the
  bot can lose one charge between them (`BillingIsExact` is about the daemon alone).
* Notices: a listing consumed by a recovery stays consumed, so a second drop is silent
  (`daily_jobs.py:660`); a listing write that fails is swallowed and its fixture, named in the morning, is
  promoted as news later (`daily_jobs.py:475`); the group copy is not retried.
* Schedule: a scoring run, or the re-score of an alert, that stores a moved kickoff before the next pass looks hides the move
  from it (`main.py:1492`): the stored kickoff is already that of upstream, and the job at the dead time stays, unless the new
  time is planned for the same day. `main.py:1483` says "Any fixture that moved has its old jobs pulled". The fire-time
  check drops the alert of such a job, unless that check itself fails. `SchedulerAgreesWithUpstream` asks of these
  fixtures, `hidden`, only that a dead match loses its jobs. Once today's row
  has the new kickoff and an earlier run date's row the old one, the fixture is planned by both:
  `predictions_for_kickoff_range` takes the freshest row *of the range*, so an old kickoff brings back a job, or a coverage
  alarm, for a slot at which nothing is played; `NoAlarmForLiveFixture` is about rows that agree. The watchdog reports
  postponed matches, which the pass leaves out (`main.py:1629`); the early alert of a match shortly after midnight
  belongs to a day no pass plans (`main.py:628`); a restart at the minute of an alert loses it, since the
  next pass plans the future only (`main.py:1952`).
* Results: a user whose result message failed while another's arrived still gets the correction;
  the group copy goes first and is repeated with every retry of a result whose private copies all failed
  (`daily_jobs.py:1588`); a crash between the outcome row and the rating update loses the
  update (`settlement.py:85`), so ratings learn at most once, not exactly once.
* Pages: two overlapping calls page twice, and the slower one moves the cooldown's start back
  (`notify.py:435`).
* Bets: the exposure is read before the market route is awaited and not looked at again (`main.py:462`). The tick of a
  daemon started before 08:00 (`main.py:1952`), the 08:00 job and `run-once` can each pass the gate before the others log,
  so that "Daily exposure cap limits per-day stake" (`src/deploy/GO-LIVE.md:49`) holds of one run only; the excess
  is at most one stake for each run beyond the first (`OvershootIsBounded`). A provider flip between two settlement runs that hold one bet rewrites its P&L (`repos.py:263`), which
  `SettlementIsSound` allows; a tripped kill switch does not stop the scoring loop: `_score_and_log_one`
  (`main.py:462`) never reads it, though `storage/models.py:146` says it "refuses to log new bets". A comment at
  `main.py:459` says that nothing gates the recommendations any more, so that sentence has stayed behind.
* Record: `/predictions` lists today's fixtures that are already played, so a triple can be sold after
  its match; the "all time" record is scoped to the season, so a new one empties it; the rows of
  an undated outcome join the record when a restart dates them.
* Trades: a first sync that breaks off has stored the newest rows only, a sale without its buy, and
  overstates the P&L until the next; two identical fills in one transaction are one row.
* ClubElo: a page that could not be sent is retried at the next reminder only, a recovery note
  not at all; a fallback page counts as sent even when it was not; switching the flag off
  during an episode announces "a fresh scrape has returned"; alerter and engine have thresholds of
  3 and 14 days, so for days the engine prices on data the operator was told is stale. Every
  start runs a whole tick (`main.py:1943`) that can overlap the one of 08:00, and both may announce one fallback
  episode, although `cl_fallback_alert.py:8` says "Fire ONCE per staleness EPISODE"; `FallbackToldOnce` allows one message more
  for each restart. The instant between the answer of the ranking page and the replacement of the file is not a step
  of its own in `ClubEloFeed` (it is in `EloSnapshot`).
* Odds: a row of a new run date starts raw even when yesterday's was anchored.
* Line-ups: a fixture missing from a day's list that has others is pinned as unresolved until
  a restart; a league whose quota or budget ends in the middle leaves a file with some teams
  (`fetch_player_minutes.py:104`), which counts as populated (`daily_jobs.py:1910`) and is never resumed, so "the four domestic
  leagues self-complete over ~4 days" (`daily_jobs.py:1921`) is true of files with teams, not of all their minutes:
  `TeamsOfAllArrive` claims no more.
* Markets: `same_team` (`exchanges/matcher.py:158`) takes two names for one team from a similarity of 80, and
  "Manchester City" against "Manchester United" has 81.25. While the event of the one is not listed, its fixture is
  priced at the event of the other against the same opponent; a derby of the two gets no market, since both legs are taken
  for the home team. `exchanges/matcher.py:40` says that the threshold is "rejecting different clubs", and
  `src/tests/test_polymarket_h2h_routing.py:22` that "a false H2H match is worse than a miss"; the board of `services` has such
  a pair, and `RouteIsHeadToHead` claims no more than a likeness. `find_market` does not look at the kickoff, so a return leg listed beside the first would be
  a candidate; the title is searched for the names themselves, so under an alias only the draw scores; a
  page of the generic tag that fails sinks the whole listing of that fixture, which then gets a
  favourite bet without a price.
* Schema: a service that finds a table made by another in the middle of `create_all` skips the rest of
  them, so it may run before the other has made them. `BootsTogether` therefore asks for the whole
  schema once all services run, not once each does.

## 5. Proofs

Every safety property of a passing run is a theorem, the two refinements included, for every value of
the constants that satisfies the assumption its module names. An invariant is rarely inductive as it
stands; each paragraph says what had to be added, and why.

`RevealLedger_proofs` proves, for any finite sets of users, fixtures and jobs, any assignment of
jobs to fixtures and any bounds (`LedgerAssumption` in `RevealLedger` is the only assumption):

* `TypeCorrect`: `TypeOK` with `Serving`: a handler between a render and the end of its
  commit serves a user. `Serving` makes it inductive: without it a commit could index the ledger with nobody.
* `NeverOverBilledTheorem`. The bound `consumed[u] <= |Charged(u)|` is not inductive: between the
  row and the counter a handler owes one increment, and a handler that has read the counter writes
  back a number read earlier. The invariant counts both. `Counted`: a user's counter plus the
  handlers that owe him one (`Pending(u)`) is covered by his charged rows; `ReadBounded`: so is
  the number a handler has read, plus the same. Per-action lemmas (`CalmStep`,
  `RecordKeepsBooks`, `ReadKeepsBooks`, `WriteKeepsBooks`) are combined in `StepKeepsBooks`. The
  proof does not need the event loop: lost increments only bill less.
* `FirstRevealWinsTheorem`: from the type invariant and `RowStep`, which says how a step may
  change a row.
* `DeliveredTheorem`: strengthened with `Arrived`, what a handler is about to commit is in its user's
  chat, and the lemma `SeenGrows`, what reached a chat stays there.
* `FreeUsersTheorem`: a fixture is charged only in the commit of a body that was rendered to a payer, whatever the
  trial does meanwhile. It is an action property: a later state cannot tell when the body was rendered.
  Strengthened with `Paying`: a handler that is going to charge serves a user who is not the operator and whose trial
  was over when the body was rendered.
* `ImplementsBillingTheorem`: every step of the ledger maps to `Reveal`, `Bill` or a stutter of
  `Billing`, with `row <- ledger`, `spent <- consumed`; `NeverOverBilledTheorem` gives the bound of
  `Bill`.
* `BillingIsExactTheorem`. That a counter equals the charged rows between two commits needs what no single
  action shows: commits of one event loop never overlap. The invariant has three parts. `Exclusive`:
  of all handlers of the daemon at most one is inside its commit. `ReadFresh`: what it has
  read is still the counter. `Settled`: counter plus the increment it owes equals the charged rows. Here
  the proof does use the event loop (`LoopFree`), and stops at the first fault or command, as the
  property does.

`ResultLoop_proofs` proves, for any fixtures, users, provider entries and settling processes
(`ResultAssumption`):

* `RatingsLearnOnceTheorem` and `WinnerIsFinalTheorem`, from one invariant: the stored rows are
  well typed (`RowsTyped`), what the result and the verification pass hold in memory belongs to a scored
  fixture with the same winner (`ResultHolds`, `VerifyHolds`), and a rating update is owed by one
  run only, for a fixture of which none was made (`LearnsOnce`). The lemmas `FlagKeepsRows`,
  `VerifyKeepsRows` and `ScoreKeepsRows` say what each kind of writer may do to a row
  (`RowsKept`); every other step is `SameRows`.

The second half of the module is about what the messages say. Its
invariant `ToldInv` is kept by every step of the two passes, of settlement and of the provider; the lemma
`StepKinds` first reduces a step to one of fifteen kinds of effect, so that each part of the
invariant is looked at once per effect:

* `ResultToldOnceTheorem`. A result may take several attempts, each with several sends, and the flag is
  written after the last of them. `ResultPass` says what the open pass holds: rows that are not flagged, and a mailing
  of one of them to users of its audience. `FlagsHonest`: a flag is up only if a send was confirmed or
  nobody was to be told. `OnceOnly`, while no confirmation is lost: whoever has the result has it flagged, or is
  no longer among the chats of an open mailing in which a send was confirmed. Without that last
  clause the invariant does not survive a crash or a second attempt.
* `CorrectionsAreSoundTheorem`. A correction is decided in one stretch of the verification pass and sent in
  a later one. `GoodCorrections`: what the pass has queued, what it is sending and what was sent agrees with
  the winner on record, which never changes. `Heard`, without faults: a chat's first message about a match
  is its result, and who may get a correction, from the flag, the open mailing or the queue, has had it. It
  holds for passes that overlap.
* `LastWordTheorem` has the hypothesis `MaxInFlight <= 1`: the passes do not overlap. `LastOrComing` says
  that the last message of a chat is the recorded scoreline, or a correction to it is queued or being
  sent. `results_race` shows that without the hypothesis the formula fails.
* `ImplementsRecordTheorem`: each of the passes is a sequence of steps of the life of one result. A step is
  mapped by what it writes, not by its name: `FlagIsNotify`, `ScoreIsEnter`, `RecheckIsCheck` and
  `UpdateIsLearn` show that the write is one `ResultRecord` allows. That the flag is raised from a list read
  before the sends, and that a score is corrected on a row read before a request, is harmless only because of
  what `ToldInv` says of a pass in flight: its rows are still unflagged and have the winner it read.

`AlertSchedule_proofs` proves, for any fixtures, kickoffs and bounds, from the invariant `PlanInv`:

* `FiresOnceTheorem`. A job is registered again by every pass, restart and move, and nothing stores
  that an alert was sent. What keeps it single is the clock: no job lies in the past
  (`JobsAhead`), a job that fires is not planned for the same slot again (`FiredIsGone`), and what is due or on its
  way was sent, if ever, in earlier slots (`DueIsUnsent`, `SentByNow`).
* `SchedulerAgreesTheorem`: scoring runs and alerts that store what they read interleave with the pass at will. A fixture
  the last pass covered has the jobs its stored kickoff calls for (`Covered`); all rows of a fixture that is not in
  `hidden`, what the pass has read of it before its await, and its jobs have one kickoff, which is
  that of upstream once a pass has read it (`Followed`, from `Agreed`); and a dead match has no job, hidden move or
  not (`DeadPulled`). `UpsertStep` and `PassAgrees` show it for the store and for the end of the pass.
* `NoFalseAlarmTheorem`: the watchdog compares the rows of `Covered`, so it is quiet.

`MorningNotices_proofs` proves, for any finite set of fixtures and any passes of each kind (`NoticesAssumption`; a lost
listing write is counted as a fault, and an infinite set has no count):

* `ToldOnceAndTrulyTheorem` has two invariants. That no drop is told twice is a fact about the lock across an await. The invariant
  `NoticesInv` says: the pass that sends is the pass that holds the lock (`DropLocked`,
  `PromoLocked`); what it sends, and what it still has to look at, is pending (`DropSending`,
  `PromoSending`); a fixture was told exactly if its row says sent, and an alert whose body has the recovery line, sent
  awaits later, is one of these (`DropExact`); it was cheered only if it has a
  row (`PromoExact`). `DropAdvanceKeeps` and `PromoAdvanceKeeps` show it for the stretch from the lock
  to the next send, which every action that enters or resumes a pass shares; `DropSideStep` and
  `PromoSideStep` say that the two failsafes do not disturb each other. A crash empties locks and passes together,
  so the invariant survives it: it is about confirmed notices.
  That a promotion is news, and that one day has one failsafe, is about the past: a pass that began before the
  06:00 notice may record its promotion after it. The
  invariant `NewsInv` therefore dates things: a promotion row, and what a pass is about to record, belongs
  to a day whose notice has run (`PromotedIsFresh`, `SendIsFresh`), notices name only on a day on which
  none has run, and without faults they list whom they name (`NamedIsListed`). Rows are never unlisted, so the
  steps of the drop passes are calm (`CalmKeepsNews`).
* `NoticesTypes`.

`PaperBets_proofs` proves, for any fixtures, prices and bounds and any number of scoring and settlement runs
(`BetsAssumption`):

* `OvershootIsBoundedTheorem`, for any finite sets of fixtures and scoring runs. The gate is read before an await, by each
  run for itself, so the bound alone is not inductive. `RoomKept` counts the runs that await a quote
  (`Awaiting`) beside the day's bets: one that has just passed the gate found the cap not reached, so that
  the others in flight are all that can go beyond it (`GateKeepsRoom`). `NoneAhead`, that no bet is
  dated in the future, carries it across midnight.
* `SettlementIsSoundTheorem`, for finitely many fixtures. Runs that listed the same bet settle it like
  one: `record_settlement` does not look whether the bet is settled; what saves it is that every run
  computes the P&L of the result the provider shows (`PnlIsRight`), until a result is changed. And the switch
  trips on losses: a drawdown is a sum over the window, and a negative sum has a negative term
  (`NegativeSumHasLoss`, from the induction over finite sets in `Induction`), which is a settled bet with a price.

`TradeLog_proofs` proves, for any users, triples, markets and size of a page (`SoldAssumption`,
`TradeAssumption`):

* `RecordHonest`. Four readers (badge, record, tally, result alert) compute the same sold call each in its own
  way, at different times. `SoldInv` says what keeps them together: a reveal keeps an anchor only if its triple
  had a quote (`LedgerFits`), a settled fixture keeps the row it was settled with, also on the
  screens still open (`RowIsSettled`), and the result that was told is that of the sold triple
  or, as long as nothing was sold, of the settled one (`ToldFits`): what is sold afterwards is the settled triple, so
  the message stays true.
* `SaleIsKept`: from `SoldInv`, and that the first row of a sequence of reveals or of drifts stays the
  first when the sequence grows.
* `SyncMirrorsAll`. A feed is read newest first, by offset, while rows arrive: whatever a sync has not seen is
  pushed towards the pages to come, never behind it. `PullSees` says so of every row that was there when
  the sync began.
* `ReportsAreHonest`: what was derived for a row says which side of which market it holds (`MirrorFits`); the market and
  the settlement saw the same match (`OneResult`); the months of the report are a partition of the trades, so
  that their sums add up.

`Services_proofs` has a section for each supporting component. `EachIsItself` shows that a behaviour of
`MCServices` is a behaviour of each of its parts, so `ServicesAreTyped` and `ServicesAreSound` carry their
theorems over to the specification that the run checks.

`LineupFeed`, for any matches and time to live (`LineupAssumption`):

* `LineupMissTheorem`: an alert without a line-up has one of the listed causes. The property speaks
  of one step, but whether an answer kept long ago is still true is a fact about the past; the
  invariant (`MissesExplained`) therefore says that a fixture pinned as unresolved was passed over, and
  that a kept list without a fixture, or a kept answer without a line-up, is no older than the listing or the
  posting it lacks; it carries the cause from the request to the alert.

`SchemaBoot`, for any services, tables and later columns (`SchemaAssumption`):

* `ServicesBootTogether`. A service that starts later may find half of the work of another. `SchemaInv` says who
  will do the rest: while a table is missing there is a service that will make it (`SomebodyMakesThem`), no
  service is done with the columns of a table that lacks one (`ColumnsToCome`), what a service believes to
  be there is there (`SeenIsThere`), and one that found the schema complete has nothing to do (`CleanStaysIdle`).

`ApiClient`, for any jobs, calls, limit, window and quota (`ClientAssumption`):

* `ClientKeepsItsLimit`: every request of the window has its stamp (`Stamped`), the stamps are in order of age,
  and a stamp leaves no earlier than its request; a refused request is stamped again when it is repeated.

`EloSnapshot`, for any page, aliases, likenesses and countries, and a reference whose clubs have names of
their own (`EloAssumption`):

* `SnapshotIsOwnRating`. The two naming passes are recursive functions over the reference, so the argument is an
  induction along it (`ExactPass`, `PassKeeps`): what is assigned so far gives no row to two clubs and none to a club
  of another country (`Rowed`), every club that the page shows by its own name has that row when the exact pass
  ends (`ExactUpTo`), and the fuzzy pass takes none away. `EloInv` says it of the file
  on disk and of every file a scraper is about to put there (`Sound`).

`MarketRoute`, for any board, fixtures and size of a page (`RouteAssumption`):

* `RouteIsHeadToHeadTheorem`, whatever names the matcher takes for each other (`Alike` is any relation). What is proved is that
  control - pages, sources, failures, the list kept for the run, the choice of the event and of the leg - never
  prices a fixture at an outright or a prop, takes both clubs of the event for its teams (`Likened`), and reads the leg of the
  one taken for the side that is bet on; that they may be other clubs than the teams is among the known limits. Assumed is
  `BoardIsHonest`: an event without the words of a prop, with a draw or both clubs in its title, is the match of these
  clubs, which the code trusts the exchange for; and `ClubsDiffer`. `RouteInv` says that a list under way
  repeats no event (`Distinct`, from `BatchIsDistinct` and `MergedIsDistinct`) and that a quote belongs to the
  market found for its fixture (`QuotedIsRouted`).

`OperatorNotify` and `OddsAnchor` (`PagesAssumption`, `OddsAssumption`):

* `CooldownIsEarned`: a cooldown never runs on a page that did not reach the operator, however calls overlap,
  fail or are restarted. It is proved only; no run checks it. `OddsAreTyped` says of the odds, among the types, that
  the lock is free or held by a job that awaits a request.

`ClubEloFeed`, for any thresholds, runs and faults (`FeedAssumption`): `OperatorHearsTheorem`. Its
invariant has two halves:

* `AlarmInv`, for the pages. The cadence is decided from a memory that a restart replaces by the
  sidecar: without a lost save the two agree, and the memory is active exactly during an outage
  (`MemoryKept`). No page is later than the last alert, so one that is about to go out is a day
  after every other (`PageIsDue`); without losses the last alert is itself a page that arrived, and its
  age is bounded at each stage of a tick (`PagedInTime`); an outage that has just ended owes one note
  (`NotesCounted`).
* `FallbackInv`, for the engage messages. The marker has three writers - the scheduled tick, that of a start, a
  command-line run - that read it before a send and write it after, so it is no invariant that a marked episode was
  announced once. `Budget` counts instead: an episode was announced at most as often as runs, lost saves and
  restarts allow, plus one while the main tick (`Main`: the scheduled one until it is done) has a reason to be quiet
  about it (`Quiet`); the first tick of a restart and a command-line run hold back the message they may still cause,
  or cause another to send, by overwriting the marker (`BootOwes`, `CliOwes`). `AgedOut` says that an announced snapshot stays
  too old and, once replaced, never returns, so a "clear" in between does not open the episode again.

The type invariants are theorems too (`TypeCorrect`, `NoticesTypes`, `ScheduleTypes`, `ResultTypes`,
`BetsTypesTheorem`, `TradesAreTyped`, `FeedTypesTheorem`, `ServicesAreTyped`).

The provers cannot use a library theorem that takes an operator as a parameter, so `Induction` states what
is needed with sets: a set of numbers that is closed under successor has all of them
(`InductOnNumbers`), a recursive function up to a bound exists, a finite set is reached by adding one element at a
time. What the sums, the naming passes and the merged listings compute is proved from these.

Hypotheses beyond the named assumptions: finitely many fixtures for `ToldOnceAndTrulyTheorem`, `NoticesTypes`,
`OvershootIsBoundedTheorem` (and scoring runs) and `SettlementIsSoundTheorem` - a set of losses or a sum must be countable -
and one open pass for `LastWordTheorem`, which is what its property speaks of; `results_race` shows what
happens without it.

Only model-checked: liveness, because fairness and `ENABLED` are outside the prover. These are
the promise that a dropped call is told (`DroppedIsTold`) in `notices_day`, that a pending result does not
stay pending (`PendingIsHandled`) in `results_corrections`, and in `services` `CardReachesStore`, `StandingFaultIsTold` and
`TeamsOfAllArrive`. `SpendWithinCredit`, `AsShownIsTrue`, `NeverBothFailsafes` and, with overlapping
passes, `LastWordIsRecord` are not theorems: they are refuted.

## 6. What is left out

Probabilities, ratings and stakes are abstracted to what the control tests: clears the gate or
not, priced or not, won or lost. Message texts, formatting and logging are left out.
Time is in slots, each run's slots fine enough to put every deadline the code compares on
either side of an event. The status of each component, with its reason, is in `PROJECT.json`.

Not modelled:

* The probability models and simulators, the Glicko arithmetic and the merge of its rows: floating
  point, and one row per club guarded by its date.
* The language-model chat, which only reads; wallet and treasury tables, which nothing in this code
  writes but their own helpers; configuration, backtest, reports, API, frontend and scripts.
* Of partly modelled components: the anchor-coverage guard and the dual log of the scoring run, parsing and
  name resolution of the odds feeds and the Champions League anchor from Polymarket, the shadow log
  and the weekly self-built build of ClubElo, the bot commands that only read, the splits, fees and
  early exits of the trade report.
* An XI posted by one club only, which the service still takes as confirmed: the model's line-up is
  posted by both clubs at once.

## 7. Plan

The order was: what a user pays for, what a user is told, what the operator is told, then the
stores underneath. What would come next:

1. **The ratings merge** (`upsert_rating_if_fresher`, the weekly seed, `glicko.py`): the fresher
   rating wins whatever the order of seed and nudges.
2. **The Champions League anchor** and the anchor-coverage guard, which would complete the scoring run.
3. **The self-built ratings build** beside the scrape, two writers of one snapshot.
4. **Proofs**: for `OperatorNotify`, how many pages a cooldown lets through when calls overlap; for
   `MorningNotices`, a specification of one fixture's notices that the passes implement, as `ResultRecord`
   is for results.
