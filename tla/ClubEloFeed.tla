----------------------------- MODULE ClubEloFeed -----------------------------
(***************************************************************************)
(* The Champions League ratings feed.  Three ticks a day scrape the        *)
(* ranking page into the site snapshot and page the operator when it ages  *)
(* (ClubEloAlerter, whose cadence is kept in memory and in a sidecar       *)
(* file); so does the tick every start of the daemon begins with, which    *)
(* may overlap the one that is due.  Every scoring run, the daemon's and   *)
(* the command line's, falls back to self-built ratings when the snapshot  *)
(* is too old, and announces it, the episode kept in another file.  Left   *)
(* out: which fallback is served, which nothing here depends on, the pin   *)
(* of the dead API, which feeds a shadow log only, and the moment between  *)
(* the answer of the page and the replacement of the file.                 *)
(***************************************************************************)
EXTENDS Integers, FiniteSets, FiniteSetsExt

CONSTANTS
    Never,
    AlertAfter,     \* clubelo.STALE_AFTER_DAYS: age beyond which the operator is paged
    StaleAfter,     \* cl_engine.STALE_AFTER_DAYS: age beyond which the fallback engages
    MaxFeedDay,         \* bound: last day
    MaxRuns,        \* bound: scoring runs from the command line
    MaxFaults       \* bound: sends and saves that fail, and restarts

(* The parts of a day begin at midnight, when nothing is due, and at the   *)
(* ticks of 08:00, 12:00 and 16:00.                                        *)
DayParts == 4
FeedDays == 0 .. MaxFeedDay
Slots == 0 .. DayParts * (MaxFeedDay + 1) - 1
Day(slot) == slot \div DayParts

(* The tick a start begins with and the scheduled one, in one process; a   *)
(* scoring run may also come from the command line.                        *)
Loops == {"boot", "cron"}
Runners == Loops \cup {"cli"}

Dates == FeedDays \cup {Never}
Alerter == [active : BOOLEAN, last : Slots \cup {Never}]
Episode == [engaged : BOOLEAN, from : Dates]
Kinds == {"engage", "clear"}
Message == [kind : Kinds, key : Dates, cur : Episode, arrived : BOOLEAN]
TickStages == {"due", "scrape", "look", "old", "fresh", "stale", "recovered", "score", "done"}

ASSUME FeedAssumption ==
    /\ {AlertAfter, StaleAfter, MaxFeedDay, MaxRuns, MaxFaults} \subseteq Nat
    /\ Never \notin Nat /\ Never \notin Message

VARIABLES
    now,
    web,        \* the ranking page: its date, and whether it can be fetched and parsed
    site,       \* newest From date of the site snapshot, Never without one
    flag,       \* cl_selfbuilt_fallback_enabled
    tick,       \* tick[l]: where the tick l of this slot stands
    mem, disk,  \* the alerter: active, and the slot of its last alert
    run,        \* run[r]: the alert a scoring run of r awaits, Never outside
    marker,     \* cl_fallback_state.json: the episode last seen
    sentLately, \* notify._last_sent of the daemon: fallback messages of the last six hours
    outage,     \* [pages, ticks, ended]: stale pages that arrived and stale ticks in the
                \* current outage, and outages that are over
    recovered,  \* recovery notes that arrived
    engaged,    \* engaged[k]: ENGAGED messages for the episode k that arrived
    degraded,   \* episodes in which a scoring run has priced
    spent       \* [runs, sends, saves, restarts] used up

feedVars == <<now, web, site, flag, tick, mem, disk, run, marker, sentLately, outage, recovered,
          engaged, degraded, spent>>

FeedTypeOK ==
    /\ now \in Slots /\ web \in [date : FeedDays, ok : BOOLEAN] /\ site \in Dates
    /\ flag \in BOOLEAN /\ tick \in [Loops -> TickStages]
    /\ mem \in Alerter /\ disk \in Alerter /\ marker \in Episode
    /\ mem.last # Never => mem.active
    /\ run \in [Runners -> Message \cup {Never}]
    /\ sentLately \subseteq [kind : Kinds, key : Dates, slot : Slots]
    /\ outage \in [pages : SUBSET Slots, ticks : Nat, ended : Nat] /\ recovered \in Nat
    /\ engaged \in [Dates -> Nat] /\ degraded \subseteq Dates
    /\ spent \in [runs : Nat, sends : Nat, saves : Nat, restarts : Nat]

(* The first start, after midnight.                                        *)
FeedInit ==
    /\ now = 0 /\ web = [date |-> 0, ok |-> TRUE]
    /\ site \in {Never, 0} /\ flag \in BOOLEAN
    /\ tick = [l \in Loops |-> IF l = "boot" THEN "due" ELSE "done"]
    /\ mem = [active |-> FALSE, last |-> Never] /\ disk = mem
    /\ run = [r \in Runners |-> Never]
    /\ marker = [engaged |-> FALSE, from |-> Never] /\ sentLately = {}
    /\ outage = [pages |-> {}, ticks |-> 0, ended |-> 0] /\ recovered = 0
    /\ engaged = [k \in Dates |-> 0] /\ degraded = {}
    /\ spent = [runs |-> 0, sends |-> 0, saves |-> 0, restarts |-> 0]

alarm == <<mem, disk, outage, recovered>>
fallback == <<run, marker, sentLately, engaged, degraded>>
feeds == <<web, site, flag>>

Faults == spent.sends + spent.saves + spent.restarts

(* One of the bounded faults happens, or it does not.                      *)
Cost(sends, saves) ==
    /\ Faults + sends + saves <= MaxFaults
    /\ spent' = [spent EXCEPT !.sends = @ + sends, !.saves = @ + saves]

-----------------------------------------------------------------------------
(* Outside: the page goes down, comes back, is re-dated                    *)

PageChanges ==
    /\ \E page \in [date : web.date .. Day(now), ok : BOOLEAN] : page # web /\ web' = page
    /\ UNCHANGED <<now, site, flag, tick, alarm, fallback, spent>>

(* A send takes seconds and a slot hours: none is awaited across slots.  A *)
(* message sent more than two slots ago is older than six hours.           *)
NextSlot ==
    /\ \A l \in Loops : tick[l] = "done"
    /\ (\A r \in Runners : run[r] = Never) /\ now + 1 \in Slots
    /\ now' = now + 1
    /\ tick' = [tick EXCEPT !["cron"] = IF (now + 1) % DayParts = 0 THEN "done" ELSE "due"]
    /\ sentLately' = {t \in sentLately : now + 1 - t.slot <= 2}
    /\ UNCHANGED <<feeds, alarm, run, marker, engaged, degraded, spent>>

-----------------------------------------------------------------------------
(* The ticks                                                               *)

Night == now % DayParts = 0
Morning == now % DayParts = 1
Age(date) == Day(now) - date

(* snapshot_status on the site snapshot                                    *)
Stale == site # Never => Age(site) > AlertAfter

Moves(l, stage) == tick' = [tick EXCEPT ![l] = stage]

(* The midday ticks leave a fresh snapshot alone.                          *)
RetryChecks ==
    /\ tick["cron"] = "due" /\ ~Morning
    /\ Moves("cron", IF Stale THEN "scrape" ELSE "done")
    /\ UNCHANGED <<now, feeds, alarm, fallback, spent>>

(* scrape_latest: a page that cannot be fetched, parsed or validated       *)
(* leaves the old file in place.                                           *)
Scrape(l) ==
    /\ tick[l] = "scrape" \/ (tick[l] = "due" /\ (l = "boot" \/ Morning))
    /\ site' = IF web.ok THEN web.date ELSE site
    /\ Moves(l, "look")
    /\ UNCHANGED <<now, web, flag, alarm, fallback, spent>>

(* The status is read in a thread and decided on by the event loop.        *)
ReadStatus(l) ==
    /\ tick[l] = "look"
    /\ Moves(l, IF Stale THEN "old" ELSE "fresh")
    /\ UNCHANGED <<now, feeds, alarm, fallback, spent>>

(* The stale half of _decide.                                              *)
Advanced(page) == [active |-> TRUE, last |-> IF page THEN now ELSE mem.last]

(* In the same part of the next day 24 hours may have passed or not.       *)
Reminder(page) ==
    IF mem.last = Never \/ now - mem.last > DayParts THEN page
    ELSE now - mem.last < DayParts => ~page

(* The full tick goes on to score, the midday one does not.                *)
AfterTick(l) == IF l = "boot" \/ Morning THEN "score" ELSE "done"

(* ClubEloAlerter.decide: advance the state, then save it; a save may fail. *)
DecideStale(l, page, saved) ==
    /\ tick[l] = "old" /\ Reminder(page)
    /\ mem' = Advanced(page)
    /\ disk' = IF saved THEN mem' ELSE disk
    /\ Moves(l, IF page THEN "stale" ELSE AfterTick(l))
    /\ outage' = [outage EXCEPT !.ticks = @ + 1]
    /\ Cost(0, IF saved THEN 0 ELSE 1)
    /\ UNCHANGED <<now, feeds, recovered, fallback>>

(* Mutant: the alerter forgets the outage but not when it last paged.      *)
ClearedButStamped == [active |-> FALSE, last |-> mem.last]

(* Mutant: the end of an outage is announced and not recorded.             *)
ClearedNever == mem

(* The fresh half of _decide, after an outage.                             *)
Cleared == [active |-> FALSE, last |-> Never]

DecideFresh(l, saved) ==
    /\ tick[l] = "fresh"
    /\ mem' = IF mem.active THEN Cleared ELSE mem
    /\ disk' = IF saved THEN mem' ELSE disk
    /\ Moves(l, IF mem.active THEN "recovered" ELSE AfterTick(l))
    /\ outage' = IF outage.ticks = 0 THEN outage
                 ELSE [pages |-> {}, ticks |-> 0, ended |-> outage.ended + 1]
    /\ Cost(0, IF saved THEN 0 ELSE 1)
    /\ UNCHANGED <<now, feeds, recovered, fallback>>

(* run_clubelo_alert: what became of the send is not looked at.  A page    *)
(* that arrives when the other tick has seen the outage end belongs to     *)
(* none that goes on.                                                      *)
PageSent(l, arrived) ==
    /\ tick[l] \in {"stale", "recovered"}
    /\ outage' = IF arrived /\ tick[l] = "stale" /\ outage.ticks > 0
                 THEN [outage EXCEPT !.pages = @ \cup {now}] ELSE outage
    /\ recovered' = IF arrived /\ tick[l] = "recovered" THEN recovered + 1 ELSE recovered
    /\ Moves(l, AfterTick(l))
    /\ Cost(IF arrived THEN 0 ELSE 1, 0)
    /\ UNCHANGED <<now, feeds, mem, disk, fallback>>

-----------------------------------------------------------------------------
(* Scoring runs                                                            *)

(* assess_site and decide_active: degraded whenever the snapshot is not    *)
(* fresh, whatever is served then.                                         *)
SiteFresh == site # Never /\ Age(site) <= StaleAfter
Current == [engaged |-> flag /\ ~SiteFresh, from |-> site]

(* Mutant: a new outage that follows the old one at once is not noticed.   *)
NewEpisodeIfIdle(cur) == cur.engaged /\ ~marker.engaged

(* decide_alert: engaged now, and not before or for another snapshot.      *)
NewEpisode(cur) == cur.engaged /\ (~marker.engaged \/ marker.from # cur.from)
Ends(cur) == marker.engaged /\ ~cur.engaged

Alert(cur) ==
    [kind |-> IF Ends(cur) THEN "clear" ELSE "engage",
     key |-> IF Ends(cur) THEN marker.from ELSE cur.from, cur |-> cur, arrived |-> FALSE]

(* notify_operator: within six hours the same message is not sent again,   *)
(* by the same process.                                                    *)
Cooling(alert) == \E t \in sentLately : t.kind = alert.kind /\ t.key = alert.key

(* The marker is saved, the run prices.                                    *)
Settles(r, cur, saved) ==
    /\ marker' = IF saved THEN cur ELSE marker
    /\ degraded' = IF cur.engaged THEN degraded \cup {cur.from} ELSE degraded
    /\ tick' = IF r \in Loops THEN [tick EXCEPT ![r] = "done"] ELSE tick
    /\ run' = [run EXCEPT ![r] = Never]

(* A scoring run begins, of the daemon when its tick has come to it.       *)
Begins(r) == run[r] = Never /\ IF r = "cli" THEN spent.runs < MaxRuns ELSE tick[r] = "score"
Counted(r) == IF r = "cli" THEN 1 ELSE 0

(* maybe_alert_cl_fallback: the engine is built, the marker read and the   *)
(* alert decided without an await.  The run has something to say.          *)
StartRun(r) ==
    /\ Begins(r)
    /\ NewEpisode(Current) \/ Ends(Current)
    /\ run' = [run EXCEPT ![r] = Alert(Current)]
    /\ spent' = [spent EXCEPT !.runs = @ + Counted(r)]
    /\ UNCHANGED <<now, feeds, tick, alarm, marker, sentLately, engaged, degraded>>

(* It has nothing to say, or the cooldown swallows it.  It keeps the       *)
(* marker current if that has changed.                                     *)
QuietRun(r, saved) ==
    /\ Begins(r)
    /\ NewEpisode(Current) \/ Ends(Current) => r # "cli" /\ Cooling(Alert(Current))
    /\ ~saved => marker # Current /\ Faults < MaxFaults
    /\ Settles(r, Current, saved)
    /\ spent' = [spent EXCEPT !.runs = @ + Counted(r), !.saves = @ + IF saved THEN 0 ELSE 1]
    /\ UNCHANGED <<now, feeds, alarm, sentLately, engaged>>

FallbackArrives(r) ==
    /\ run[r] # Never /\ ~run[r].arrived
    /\ run' = [run EXCEPT ![r].arrived = TRUE]
    /\ engaged' = IF run[r].kind = "engage" THEN [engaged EXCEPT ![run[r].key] = @ + 1] ELSE engaged
    /\ UNCHANGED <<now, feeds, tick, alarm, marker, sentLately, degraded, spent>>

(* The send is over, and the episode is saved whether or not the message   *)
(* arrived; only one that did is stamped.                                  *)
FallbackSent(r, saved) ==
    /\ run[r] # Never
    /\ sentLately' = IF run[r].arrived /\ r # "cli"
                   THEN sentLately \cup {[kind |-> run[r].kind, key |-> run[r].key, slot |-> now]}
                   ELSE sentLately
    /\ Settles(r, run[r].cur, saved)
    /\ Cost(IF run[r].arrived THEN 0 ELSE 1, IF saved THEN 0 ELSE 1)
    /\ UNCHANGED <<now, feeds, alarm, engaged>>

(* Mutant: the sidecar is not read at start.                               *)
LoadedNothing == [active |-> FALSE, last |-> Never]

Loaded == disk

(* The daemon restarts, perhaps with another setting.  The ticks under way *)
(* are gone, one that was not due yet is not, and the start begins with a  *)
(* full tick of its own.                                                   *)
FeedRestart ==
    /\ Faults < MaxFaults
    /\ spent' = [spent EXCEPT !.restarts = @ + 1]
    /\ mem' = Loaded /\ sentLately' = {}
    /\ run' = [r \in Runners |-> IF r \in Loops THEN Never ELSE run[r]]
    /\ tick' = [l \in Loops |-> IF l = "boot" \/ tick[l] = "due" THEN "due" ELSE "done"]
    /\ flag' \in BOOLEAN
    /\ UNCHANGED <<now, web, site, disk, marker, outage, recovered, engaged, degraded>>

-----------------------------------------------------------------------------
FeedNext ==
    \/ PageChanges \/ NextSlot
    \/ RetryChecks \/ FeedRestart
    \/ \E l \in Loops : Scrape(l)
    \/ \E l \in Loops : ReadStatus(l)
    \/ \E l \in Loops, page \in BOOLEAN, saved \in BOOLEAN : DecideStale(l, page, saved)
    \/ \E l \in Loops, saved \in BOOLEAN : DecideFresh(l, saved)
    \/ \E l \in Loops, arrived \in BOOLEAN : PageSent(l, arrived)
    \/ \E r \in Runners : StartRun(r)
    \/ \E r \in Runners, saved \in BOOLEAN : QuietRun(r, saved)
    \/ \E r \in Runners : FallbackArrives(r)
    \/ \E r \in Runners, saved \in BOOLEAN : FallbackSent(r, saved)

FeedSpec == FeedInit /\ [][FeedNext]_feedVars

-----------------------------------------------------------------------------
(* Properties                                                              *)

(* An outage pages at most once a day, across restarts and whichever of    *)
(* two overlapping ticks notices it, unless the state could not be saved.  *)
PagesAreSpaced ==
    spent.saves = 0 => \A s, t \in outage.pages : s < t => t - s >= DayParts

(* Without a lost send or a restart an outage pages at its first tick and  *)
(* is never quiet for more than a day and a tick.                          *)
OutageIsPaged ==
    /\ spent.sends + spent.restarts = 0 /\ outage.ticks > 0 /\ (now > 0 => ~Night)
    /\ \A l \in Loops : tick[l] \in {"score", "done"}
    => outage.pages # {} /\ now - Max(outage.pages) <= DayParts

(* Never more recovery notes than outages that ended, and, if nothing was  *)
(* lost, as many: one each.                                                *)
RecoveryPerOutage ==
    spent.saves = 0 =>
        /\ recovered <= outage.ended
        /\ spent.sends + spent.restarts = 0 /\ (\A l \in Loops : tick[l] # "recovered")
           => recovered = outage.ended

(* "Fire ONCE per staleness EPISODE": before a run prices in fallback the  *)
(* operator has been told of that episode, unless a send failed.  He is    *)
(* told once, and once more for a restart, which may come between message  *)
(* and save and whose first tick may overlap the scheduled one, for a run  *)
(* from the command line and for a failed save.                            *)
FallbackToldOnce ==
    /\ spent.sends = 0 => \A k \in degraded : engaged[k] > 0
    /\ \A k \in Dates : engaged[k] <= 1 + spent.restarts + spent.runs + spent.saves

(* The operator hears of every outage, of its end and of every fallback,   *)
(* and not more often than the cadence says.                               *)
OperatorHears == PagesAreSpaced /\ OutageIsPaged /\ RecoveryPerOutage /\ FallbackToldOnce
=============================================================================
