---------------------------- MODULE AlertSchedule ----------------------------
(***************************************************************************)
(* The daemon's one-off alert jobs.  A scheduling pass (at boot, at 05:00  *)
(* and hourly) re-reads the upstream kickoffs, pulls the jobs of every     *)
(* fixture that moved or died and registers an early and a late job for    *)
(* each scored fixture of today that clears the gate.  The jobs live in    *)
(* memory; the prediction rows, one per fixture and run date, in SQLite.   *)
(* A scoring run and the alerts interleave with the pass at its awaits,    *)
(* and both store the kickoff they have read upstream.                     *)
(***************************************************************************)
EXTENDS Integers, FiniteSets, Sequences, Functions

CONSTANTS
    Fixtures,
    None,         \* no kickoff, no job, no row
    Kickoffs,     \* the slots at which matches are played
    MaxTime,      \* bound: last slot
    MaxChanges,   \* bound: upstream moves, postponements and revivals
    MaxScores,    \* bound: fixtures stored by scoring runs
    MaxFaults     \* bound: restarts and upstream calls that fail

(* Slots of six hours stand for the minutes of the code: the early alert   *)
(* comes two slots before the kickoff, the late one a single slot before.  *)
DaySlots == 4
Day(slot) == slot \div DaySlots
Days == 0 .. Day(MaxTime)
Tags == {"early", "late"}
Lead(tag) == IF tag = "early" THEN 2 ELSE 1
Horizon == 3    \* ALERT_WATCHDOG_HORIZON_HOURS
Slots == 0 .. MaxTime

Prediction == [ko : Kickoffs, pass : BOOLEAN]
Row == Prediction \cup {None}

ASSUME ScheduleAssumption ==
    /\ Kickoffs \subseteq 0 .. MaxTime
    /\ {MaxTime, MaxChanges, MaxScores, MaxFaults} \subseteq Nat
    /\ None \notin Nat /\ None \notin Prediction

VARIABLES
    now,
    up,         \* up[f]: the match at football-data, its kickoff and whether it is dead
    rows,       \* rows[f][d]: the prediction row of run date d
    job,        \* job[f][tag]: run date of predict_<tag>_<f>, None if not registered
    firing,     \* firing[f][tag]: how far an alert has come that passed the gate, and the
                \* kickoff its re-score has read
    resync,     \* the pass: whether it awaits upstream, and the kickoffs it read before
    scoring,    \* scoring[f]: the kickoff a scoring run has read but not yet stored
    planned,    \* a pass was completed in this slot, since the last boot
    sent,       \* sent[f][tag]: the slots at which the alert went out
    fresh,      \* fixtures whose upstream entry the last pass read, that has not changed
                \* since and of which no row was stored since
    hidden,     \* fixtures of which a scoring run or an alert stored another kickoff
                \* than the one the jobs were planned by: the pass sees no move
    groundless, \* fixtures reported as a gap while in fresh, going ahead and with rows
                \* that agree on the kickoff
    spent       \* [changes, scores, faults] used up

vars == <<now, up, rows, job, firing, resync, scoring, planned, sent, fresh,
          hidden, groundless, spent>>

(* An alert awaits the upstream check, then the line-up, then what its     *)
(* re-score needs besides the match.                                       *)
Idle == [stage |-> "idle", ko |-> None]
Alerting ==
    [stage : {"idle", "check", "lineup"}, ko : {None}] \cup [stage : {"score"}, ko : Kickoffs]

Quiet == [active |-> FALSE, stored |-> [f \in Fixtures |-> None]]

TypeOK ==
    /\ now \in Slots
    /\ up \in [Fixtures -> [ko : Kickoffs, dead : BOOLEAN]]
    /\ rows \in [Fixtures -> [Days -> Row]]
    /\ job \in [Fixtures -> [Tags -> Slots \cup {None}]]
    /\ firing \in [Fixtures -> [Tags -> Alerting]]
    /\ resync \in [active : BOOLEAN, stored : [Fixtures -> Kickoffs \cup {None}]]
    /\ scoring \in [Fixtures -> Kickoffs \cup {None}]
    /\ planned \in BOOLEAN
    /\ sent \in [Fixtures -> [Tags -> Seq(Slots)]]
    /\ fresh \subseteq Fixtures /\ hidden \subseteq Fixtures /\ groundless \subseteq Fixtures
    /\ spent \in [changes : Nat, scores : Nat, faults : Nat]

Init ==
    /\ now = 0
    /\ up \in [Fixtures -> [ko : Kickoffs, dead : {FALSE}]]
    /\ \E pass \in [Fixtures -> BOOLEAN] :
         rows = [f \in Fixtures |-> [d \in Days |->
                   IF d = 0 THEN [ko |-> up[f].ko, pass |-> pass[f]] ELSE None]]
    /\ job = [f \in Fixtures |-> [tag \in Tags |-> None]]
    /\ firing = [f \in Fixtures |-> [tag \in Tags |-> Idle]]
    /\ resync = Quiet /\ scoring = [f \in Fixtures |-> None]
    /\ planned = FALSE
    /\ sent = [f \in Fixtures |-> [tag \in Tags |-> <<>>]]
    /\ fresh = {} /\ hidden = {} /\ groundless = {}
    /\ spent = [changes |-> 0, scores |-> 0, faults |-> 0]

-----------------------------------------------------------------------------
(* Reading the prediction rows                                             *)

Freshest(f, ds) == CHOOSE d \in ds : \A e \in ds : e <= d
RowDays(f) == {d \in Days : rows[f][d] # None}
HasRow(f) == RowDays(f) # {}

(* prediction_for_fixture: the latest run date.                            *)
Stored(f) == rows[f][Freshest(f, RowDays(f))]

(* Scoring runs and alerts store a moved kickoff in the day's row only.    *)
RowsAgree(f) == \A d \in RowDays(f) : rows[f][d].ko = Stored(f).ko

(* predictions_for_kickoff_range: the latest run date among the rows whose *)
(* own kickoff lies in the range, which need not be the fixture's latest.  *)
InRange(table, from, to) ==
    [f \in {g \in Fixtures : \E d \in Days : table[g][d] # None /\ table[g][d].ko \in from .. to}
        |-> table[f][Freshest(f, {d \in Days : table[f][d] # None /\ table[f][d].ko \in from .. to})]]

(* Mutant: a job due right now is planned again.                           *)
InFutureOrNow(slot) == slot >= now

InFuture(slot) == slot > now

(* plan_kickoff_alert_jobs over preds.                                     *)
Planned(preds, f, tag) ==
    f \in DOMAIN preds /\ preds[f].pass /\ InFuture(preds[f].ko - Lead(tag))

DayStart == Day(now) * DaySlots
DayEnd == DayStart + DaySlots - 1
Smaller(a, b) == IF a < b THEN a ELSE b

-----------------------------------------------------------------------------
(* The world: upstream, the clock                                          *)

UpstreamChanges(f) ==
    /\ spent.changes < MaxChanges
    /\ \E entry \in [ko : Kickoffs, dead : BOOLEAN] :
        /\ entry # up[f] /\ entry.ko >= now
        /\ up' = [up EXCEPT ![f] = entry]
    /\ spent' = [spent EXCEPT !.changes = @ + 1]
    /\ fresh' = fresh \ {f}
    /\ UNCHANGED <<now, rows, job, firing, resync, scoring, planned, sent, hidden,
                   groundless>>

DueNow(f, tag) == job[f][tag] = now

(* A slot ends when its alerts have fired and its hourly pass has run; the *)
(* next day's fixtures are for the next day's passes.                      *)
Tick ==
    /\ now < MaxTime /\ planned /\ ~resync.active
    /\ \A f \in Fixtures, tag \in Tags : ~DueNow(f, tag) /\ firing[f][tag].stage = "idle"
    /\ now' = now + 1 /\ planned' = FALSE
    /\ fresh' = IF Day(now + 1) = Day(now) THEN fresh ELSE {}
    /\ UNCHANGED <<up, rows, job, firing, resync, scoring, sent, hidden, groundless, spent>>

-----------------------------------------------------------------------------
(* The scheduling pass, under _schedule_lock                               *)

(* resync_kickoffs reads the stored kickoffs, then awaits the leagues.     *)
StartPass ==
    /\ ~resync.active
    /\ resync' = [active |-> TRUE,
                  stored |-> [f \in Fixtures |-> IF HasRow(f) THEN Stored(f).ko ELSE None]]
    /\ UNCHANGED <<now, up, rows, job, firing, scoring, planned, sent, fresh,
                   hidden, groundless, spent>>

(* Mutant: postponed fixtures stay in the plan.                            *)
DeadOfNone(changed) == {f \in changed : FALSE}

(* KickoffChange.is_dead *)
DeadOf(changed) == {f \in changed : up[f].dead}

(* Mutant: the jobs of a moved fixture are left on the scheduler.          *)
JobsLeft(changed) == job

(* Mutant: the pulled job is kept as a job without a time.                 *)
JobsAfterDropHalf(changed) ==
    [f \in Fixtures |-> IF f \in changed THEN [tag \in Tags |-> -1] ELSE job[f]]

(* drop_alert_jobs *)
JobsAfterDrop(changed) ==
    [f \in Fixtures |-> IF f \in changed THEN [tag \in Tags |-> None] ELSE job[f]]

(* plan_kickoff_changes over the fixtures that were read: dead ones always *)
(* differ, live ones when the time does.                                   *)
Changed(seen) ==
    {f \in seen : resync.stored[f] # None /\ (up[f].dead \/ up[f].ko # resync.stored[f])}

(* Upstream has answered for the fixtures in seen (the call for a league,  *)
(* or for all, may fail): apply, drop, plan and register, with no await.   *)
FinishPass(seen) ==
    /\ resync.active
    /\ seen = Fixtures \/ spent.faults < MaxFaults
    /\ LET changed == Changed(seen)
           dead == DeadOf(changed)
           table == [f \in Fixtures |-> [d \in Days |->
                       IF f \in changed /\ ~up[f].dead /\ rows[f][d] # None
                       THEN [rows[f][d] EXCEPT !.ko = up[f].ko] ELSE rows[f][d]]]
           today == InRange(table, DayStart, DayEnd)
           preds == [f \in DOMAIN today \ dead |-> today[f]]
           kept == JobsAfterDrop(changed)
       IN  /\ rows' = table
           /\ job' = [f \in Fixtures |-> [tag \in Tags |->
                        IF Planned(preds, f, tag) THEN preds[f].ko - Lead(tag) ELSE kept[f][tag]]]
           /\ hidden' = hidden \ {f \in changed : ~up[f].dead \/ RowsAgree(f)}
    /\ resync' = Quiet /\ planned' = TRUE
    /\ fresh' = {f \in seen : resync.stored[f] # None}
    /\ spent' = [spent EXCEPT !.faults = IF seen = Fixtures THEN @ ELSE @ + 1]
    /\ UNCHANGED <<now, up, firing, scoring, sent, groundless>>

(* Mutant: no clamp to the end of the day.                                 *)
AuditEndUnclamped(slot) == slot + Horizon - 1

AuditEnd(slot) == Smaller(slot + Horizon - 1, DayEnd)

(* _alert_coverage_watchdog measures before it heals: planned jobs that    *)
(* are not registered are reported to the operator.                        *)
Watchdog ==
    /\ planned /\ ~resync.active
    /\ LET preds == InRange(rows, now, AuditEnd(now))
           missing == {f \in Fixtures : \E tag \in Tags : Planned(preds, f, tag) /\ job[f][tag] = None}
       IN  groundless' = groundless \cup {f \in missing \cap fresh : ~up[f].dead /\ RowsAgree(f)}
    /\ resync' = [active |-> TRUE,
                  stored |-> [f \in Fixtures |-> IF HasRow(f) THEN Stored(f).ko ELSE None]]
    /\ UNCHANGED <<now, up, rows, job, firing, scoring, planned, sent, fresh, hidden, spent>>

-----------------------------------------------------------------------------
(* Scoring runs                                                            *)

(* list_scheduled_matches has returned the fixture; form, engine and       *)
(* market are still awaited.                                               *)
ScoreFetch(f) ==
    /\ spent.scores < MaxScores /\ scoring[f] = None
    /\ ~up[f].dead /\ now <= up[f].ko
    /\ scoring' = [scoring EXCEPT ![f] = up[f].ko]
    /\ spent' = [spent EXCEPT !.scores = @ + 1]
    /\ UNCHANGED <<now, up, rows, job, firing, resync, planned, sent, fresh, hidden, groundless>>

(* upsert_prediction writes today's row, with the kickoff that was read    *)
(* upstream some awaits before.                                            *)
UpsertsRow(f, ko) ==
    /\ \E pass \in BOOLEAN : rows' = [rows EXCEPT ![f][Day(now)] = [ko |-> ko, pass |-> pass]]
    /\ fresh' = fresh \ {f}
    /\ hidden' = IF HasRow(f) /\ Stored(f).ko # ko THEN hidden \cup {f} ELSE hidden

ScoreStore(f) ==
    /\ scoring[f] # None
    /\ UpsertsRow(f, scoring[f])
    /\ scoring' = [scoring EXCEPT ![f] = None]
    /\ UNCHANGED <<now, up, job, firing, resync, planned, sent, groundless, spent>>

-----------------------------------------------------------------------------
(* Firing                                                                  *)

(* alert_still_valid, in slots: not dead, not past, not before the lead.   *)
StillValid(f, tag) == ~up[f].dead /\ up[f].ko - now \in 0 .. Lead(tag)

(* The job leaves the scheduler; the stored row must still clear the gate. *)
FireAlert(f, tag) ==
    /\ DueNow(f, tag)
    /\ job' = [job EXCEPT ![f][tag] = None]
    /\ firing' = IF HasRow(f) /\ ~Stored(f).pass THEN firing
                 ELSE [firing EXCEPT ![f][tag] = [stage |-> "check", ko |-> None]]
    /\ UNCHANGED <<now, up, rows, resync, scoring, planned, sent, fresh, hidden, groundless, spent>>

(* _alert_matches_upstream answered: the alert goes on or is dropped.      *)
CheckedAlert(f, tag) ==
    /\ firing[f][tag].stage = "check"
    /\ firing' = [firing EXCEPT ![f][tag] =
                    IF StillValid(f, tag) /\ HasRow(f) THEN [stage |-> "lineup", ko |-> None] ELSE Idle]
    /\ UNCHANGED <<now, up, rows, job, resync, scoring, planned, sent, fresh, hidden, groundless, spent>>

(* The check could not be made: it fails open and the alert goes on.       *)
UncheckedAlert(f, tag) ==
    /\ firing[f][tag].stage = "check" /\ spent.faults < MaxFaults
    /\ firing' = [firing EXCEPT ![f][tag] = IF HasRow(f) THEN [stage |-> "lineup", ko |-> None] ELSE Idle]
    /\ spent' = [spent EXCEPT !.faults = @ + 1]
    /\ UNCHANGED <<now, up, rows, job, resync, scoring, planned, sent, fresh, hidden, groundless>>

(* The line-up has come, or not; the re-score reads the match, whether it  *)
(* is dead or not, and awaits form and market.                             *)
RescoreFetch(f, tag) ==
    /\ firing[f][tag].stage = "lineup"
    /\ firing' = [firing EXCEPT ![f][tag] = [stage |-> "score", ko |-> up[f].ko]]
    /\ UNCHANGED <<now, up, rows, job, resync, scoring, planned, sent, fresh, hidden, groundless, spent>>

GoesOut(f, tag) ==
    /\ firing' = [firing EXCEPT ![f][tag] = Idle]
    /\ sent' = [sent EXCEPT ![f][tag] = Append(@, now)]

(* The re-scored row is stored, then the alert goes out, even when that    *)
(* row does not clear the gate any more.                                   *)
RescoredAlert(f, tag) ==
    /\ firing[f][tag].stage = "score"
    /\ UpsertsRow(f, firing[f][tag].ko)
    /\ GoesOut(f, tag)
    /\ UNCHANGED <<now, up, job, resync, scoring, planned, groundless, spent>>

(* The re-score failed: the alert goes out with the stored row.            *)
BaselineAlert(f, tag) ==
    /\ firing[f][tag].stage \in {"lineup", "score"} /\ spent.faults < MaxFaults
    /\ GoesOut(f, tag)
    /\ spent' = [spent EXCEPT !.faults = @ + 1]
    /\ UNCHANGED <<now, up, rows, job, resync, scoring, planned, fresh, hidden, groundless>>

(* The daemon restarts: jobs and coroutines are gone, the rows stay.       *)
Restart ==
    /\ spent.faults < MaxFaults
    /\ spent' = [spent EXCEPT !.faults = @ + 1]
    /\ job' = [f \in Fixtures |-> [tag \in Tags |-> None]]
    /\ firing' = [f \in Fixtures |-> [tag \in Tags |-> Idle]]
    /\ resync' = Quiet /\ scoring' = [f \in Fixtures |-> None]
    /\ planned' = FALSE /\ fresh' = {} /\ hidden' = {f \in hidden : ~RowsAgree(f)}
    /\ UNCHANGED <<now, up, rows, sent, groundless>>

-----------------------------------------------------------------------------
Alert(f, tag) ==
    \/ FireAlert(f, tag) \/ CheckedAlert(f, tag) \/ UncheckedAlert(f, tag)
    \/ RescoreFetch(f, tag) \/ RescoredAlert(f, tag) \/ BaselineAlert(f, tag)

Next ==
    \/ Tick \/ StartPass \/ Watchdog \/ Restart
    \/ \E seen \in SUBSET Fixtures : FinishPass(seen)
    \/ \E f \in Fixtures : UpstreamChanges(f) \/ ScoreFetch(f) \/ ScoreStore(f)
    \/ \E f \in Fixtures, tag \in Tags : Alert(f, tag)

Spec == Init /\ [][Next]_vars

-----------------------------------------------------------------------------
(* Properties                                                              *)

(* Once a pass has read the fixture, and until upstream or a stored row    *)
(* changes it, no job is left for a dead match; and the scheduler holds    *)
(* exactly the jobs of the kickoff upstream has, none pinned to one the    *)
(* match no longer has, whatever scoring runs, alerts, failing calls and   *)
(* restarts came before.  The one exception is a move that a scoring run   *)
(* or an alert stored ahead of the pass: it is hidden from the pass, which *)
(* leaves the old jobs where they are.                                     *)
SchedulerAgreesWithUpstream ==
    \A f \in fresh, tag \in Tags :
        LET due == up[f].ko - Lead(tag)
        IN  /\ up[f].dead => job[f][tag] = None
            /\ ~up[f].dead /\ f \notin hidden =>
                 /\ job[f][tag] \in {None, due}
                 /\ (/\ Day(up[f].ko) = Day(now) /\ due > now
                     /\ HasRow(f) /\ Stored(f).pass) => job[f][tag] = due

(* The early and the late alert of a fixture never fire twice for one      *)
(* slot, however often hourly passes, restarts, moves back and forth and   *)
(* scoring runs re-register the job.                                       *)
FiresOncePerSlot == \A f \in Fixtures, tag \in Tags : IsInjective(sent[f][tag])

(* The watchdog never reports a gap for a match that is going ahead and    *)
(* that the last pass has covered.  (It does for a postponed one, which    *)
(* the pass leaves out and the watchdog does not, and for one of which the *)
(* row of an earlier run date still has a kickoff that has moved.)         *)
NoAlarmForLiveFixture == groundless = {}
=============================================================================
