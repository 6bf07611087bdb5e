--------------------------- MODULE MorningNotices ---------------------------
(***************************************************************************)
(* The morning notice names the fixtures that clear the confidence gate;   *)
(* a fixture that later falls below it owes the audience a drop notice,    *)
(* one that was not named and rises above it a promotion notice.  The      *)
(* notices are sent by passes (the hourly scheduling pass, the fire-time   *)
(* hook, the 15-minute sweeps) that run as coroutines of the daemon: they  *)
(* interleave at the Telegram sends and while waiting for an asyncio.Lock. *)
(* So do the alerts, which await upstream, the line-up and a re-score.     *)
(* Every action below runs from one await to the next.                     *)
(***************************************************************************)
EXTENDS Naturals, FiniteSets

CONSTANTS
    Fixtures,
    Nobody,       \* no pass, no fixture
    Plans,        \* scheduling passes: resync, jobs, drop hook, promotion hook
    Sweeps,       \* periodic drop-notice passes
    PromoSweeps,  \* periodic promotion passes
    Hooks,        \* fire-time drop hooks
    MaxTime,      \* bound: last time slot
    MaxRescores,  \* bound: times a stored triple crosses the gate
    MaxMoves,     \* bound: fixtures moved to the next day upstream
    MaxFaults     \* bound: crashes, failed writes

Passes == Plans \cup Sweeps \cup PromoSweeps \cup Hooks

ASSUME NoticesAssumption ==
    /\ Nobody \notin Passes \cup Fixtures \cup Nat
    /\ {MaxTime, MaxRescores, MaxMoves, MaxFaults} \subseteq Nat
    /\ MaxTime >= 1

(* A day has three slots: the morning (cron, early alerts), the slot that  *)
(* begins at KO minus the late lead, and the evening.                      *)
DaySlots == 3
Day(slot) == slot \div DaySlots
KickoffSlots == {k \in 0 .. MaxTime : k % DaySlots = 1}

VARIABLES
    now,        \* the current slot
    kickoff,    \* kickoff[f]: the slot of the stored kickoff, less the late lead
    passes,     \* fixtures whose stored triple clears the gate
    revealed,   \* fixtures with a prediction_reveals row of some user
    job,        \* job[f]: the slot of the late alert job on the scheduler, Nobody if none
    alert,      \* alert[f]: how far the alert of f has come that passed the gate
    planned,    \* a scheduling pass has begun in this slot, since the last boot
    ran,        \* days with a matchday_notice_runs row
    named,      \* <<f, day>>: f was named in the notice of that day
    listing,    \* morning_notice_listings: none, pending, consumed or sent
    listedFor,  \* listedFor[f]: the kickoff copied into the listing
    listedOn,   \* listedOn[f]: notice_day of the listing
    promoted,   \* promoted[f]: 1 + notice_day of the promotion row, 0 if none
    dropLock, promoLock,    \* _DROP_NOTICE_LOCK, _PROMOTION_NOTICE_LOCK
    pass,       \* pass[p]: the in-memory state of a pass
    told,       \* told[f]: confirmed drop notices
    cheered,    \* cheered[f]: confirmed promotion notices
    recovery,   \* fixtures whose late alert carried the recovery line
    audience,   \* somebody is there to be told (users or the group)
    spent       \* [rescores, moves, faults] used up

listings == <<listing, listedFor, listedOn>>
outcome == <<told, cheered, recovery, audience>>
vars == <<now, kickoff, passes, revealed, job, alert, planned, ran, named, listings, promoted,
          dropLock, promoLock, pass, outcome, spent>>

(* An alert awaits the upstream check, the line-up and the re-score, then  *)
(* the sends; late tells the two alerts apart, noted that the body carries *)
(* the recovery line.                                                      *)
NoAlert == [pc |-> "idle", late |-> FALSE, noted |-> FALSE]
Idle == [pc |-> "idle", ids |-> {}, at |-> 0, todo |-> {}, cur |-> Nobody, later |-> {}]

TypeOK ==
    /\ now \in 0 .. MaxTime
    /\ kickoff \in [Fixtures -> KickoffSlots]
    /\ passes \subseteq Fixtures /\ revealed \subseteq Fixtures
    /\ job \in [Fixtures -> 0 .. MaxTime \cup {Nobody}]
    /\ alert \in [Fixtures -> [pc : {"idle", "check", "send"}, late : BOOLEAN, noted : BOOLEAN]]
    /\ planned \in BOOLEAN
    /\ ran \subseteq 0 .. Day(MaxTime)
    /\ named \subseteq Fixtures \X (0 .. Day(MaxTime))
    /\ listing \in [Fixtures -> {"none", "pending", "consumed", "sent"}]
    /\ listedFor \in [Fixtures -> 0 .. MaxTime] /\ listedOn \in [Fixtures -> 0 .. Day(MaxTime)]
    /\ promoted \in [Fixtures -> 0 .. 1 + Day(MaxTime)]
    /\ dropLock \in Passes \cup {Nobody} /\ promoLock \in Passes \cup {Nobody}
    /\ pass \in [Passes -> [pc : {"idle", "waitDrop", "sendDrop", "promo", "waitPromo", "sendPromo"},
                            ids : SUBSET Fixtures, at : 0 .. MaxTime, todo : SUBSET Fixtures,
                            cur : Fixtures \cup {Nobody}, later : SUBSET Fixtures]]
    /\ told \in [Fixtures -> Nat] /\ cheered \in [Fixtures -> Nat]
    /\ recovery \subseteq Fixtures /\ audience \in BOOLEAN
    /\ spent \in [rescores : Nat, moves : Nat, faults : Nat]

Init ==
    /\ now = 0
    /\ kickoff \in [Fixtures -> {1}]
    /\ passes \in SUBSET Fixtures
    /\ revealed = {} /\ job = [f \in Fixtures |-> Nobody] /\ alert = [f \in Fixtures |-> NoAlert]
    /\ planned = FALSE /\ ran = {} /\ named = {}
    /\ listing = [f \in Fixtures |-> "none"]
    /\ listedFor = [f \in Fixtures |-> 0]
    /\ listedOn = [f \in Fixtures |-> 0]
    /\ promoted = [f \in Fixtures |-> 0]
    /\ dropLock = Nobody /\ promoLock = Nobody
    /\ pass = [p \in Passes |-> Idle]
    /\ told = [f \in Fixtures |-> 0] /\ cheered = [f \in Fixtures |-> 0]
    /\ recovery = {}
    /\ audience \in BOOLEAN
    /\ spent = [rescores |-> 0, moves |-> 0, faults |-> 0]

-----------------------------------------------------------------------------
(* The drop pass, from one await to the next                               *)

(* The call went out, or still may: the gate passes now or it was revealed. *)
Honoured(f) == f \in passes \cup revealed

(* mark_morning_drop_notified: the flag only, never drop_notice_sent_at.   *)
Consumed(base, fs) ==
    [f \in Fixtures |-> IF f \in fs /\ base[f] # "sent" THEN "consumed" ELSE base[f]]

(* Pass p, holding the lock, consumes what needs no notice and goes on to  *)
(* its next send, or leaves the lock when nothing is left.  base is the    *)
(* listing table after the mark of the send that has just been answered.   *)
DropAdvance(p, todo, base, later) ==
    LET silent == {f \in todo : Honoured(f) \/ ~audience}
        since == IF pass[p].pc = "idle" THEN now ELSE pass[p].at
    IN  \/ /\ silent = todo
           /\ listing' = Consumed(base, todo)
           /\ dropLock' = Nobody
           /\ pass' = [pass EXCEPT ![p] =
                IF p \in Plans THEN [Idle EXCEPT !.pc = "promo", !.at = since, !.later = later] ELSE Idle]
        \/ \E f \in todo \ silent, done \in SUBSET silent :
             /\ listing' = Consumed(base, done)
             /\ dropLock' = p
             /\ pass' = [pass EXCEPT ![p] = [Idle EXCEPT !.pc = "sendDrop", !.cur = f, !.at = since,
                              !.todo = todo \ (done \cup {f}), !.later = later]]

(* morning_listings_pending_drop_notice: the listing's own kickoff, not    *)
(* the stored one, has reached the late lead, and not more than a day ago. *)
SweepWindow(at) == {f \in Fixtures : listedFor[f] <= at /\ at <= listedFor[f] + DaySlots}

(* The rows a pass reads as pending when it gets the lock.                 *)
PendingOf(p, ids, at) ==
    {f \in IF p \in Sweeps THEN SweepWindow(at) ELSE ids : listing[f] = "pending"}

(* Entering the lock suspends only when another pass holds it.             *)
EnterDrop(p, ids, later) ==
    IF dropLock = Nobody
    THEN DropAdvance(p, PendingOf(p, ids, now), listing, later)
    ELSE /\ pass' = [pass EXCEPT ![p] = [Idle EXCEPT !.pc = "waitDrop", !.ids = ids,
                                              !.at = now, !.later = later]]
         /\ UNCHANGED <<listing, dropLock>>

(* Mutant: no lock.                                                        *)
AcquireDropUnlocked(p) ==
    /\ pass[p].pc = "waitDrop"
    /\ DropAdvance(p, PendingOf(p, pass[p].ids, pass[p].at), listing, pass[p].later)
    /\ UNCHANGED <<now, kickoff, passes, revealed, job, alert, planned, ran, named, listedFor, listedOn,
                   promoted, promoLock, outcome, spent>>

AcquireDrop(p) ==
    /\ pass[p].pc = "waitDrop" /\ dropLock = Nobody
    /\ DropAdvance(p, PendingOf(p, pass[p].ids, pass[p].at), listing, pass[p].later)
    /\ UNCHANGED <<now, kickoff, passes, revealed, job, alert, planned, ran, named, listedFor, listedOn,
                   promoted, promoLock, outcome, spent>>

(* At least one copy was confirmed: flag and drop_notice_sent_at at once.  *)
DropDelivered(p) ==
    /\ pass[p].pc = "sendDrop"
    /\ told' = [told EXCEPT ![pass[p].cur] = @ + 1]
    /\ DropAdvance(p, pass[p].todo, [listing EXCEPT ![pass[p].cur] = "sent"], pass[p].later)
    /\ UNCHANGED <<now, kickoff, passes, revealed, job, alert, planned, ran, named, listedFor, listedOn,
                   promoted, promoLock, cheered, recovery, audience, spent>>

(* Mutant: flagged whatever the sends answered.                            *)
DropFailedFlagged(p) ==
    /\ pass[p].pc = "sendDrop"
    /\ DropAdvance(p, pass[p].todo, [listing EXCEPT ![pass[p].cur] = "consumed"], pass[p].later)
    /\ UNCHANGED <<now, kickoff, passes, revealed, job, alert, planned, ran, named, listedFor, listedOn,
                   promoted, promoLock, outcome, spent>>

(* Every copy failed: the listing stays pending for a later pass.          *)
DropFailed(p) ==
    /\ pass[p].pc = "sendDrop"
    /\ DropAdvance(p, pass[p].todo, listing, pass[p].later)
    /\ UNCHANGED <<now, kickoff, passes, revealed, job, alert, planned, ran, named, listedFor, listedOn,
                   promoted, promoLock, outcome, spent>>

-----------------------------------------------------------------------------
(* The promotion pass                                                      *)

Today(at) == {f \in Fixtures : Day(kickoff[f]) = Day(at)}

Promotable(f, base, at) ==
    /\ base[f] = 0 /\ listing[f] = "none"
    /\ f \in passes \ revealed /\ at <= kickoff[f]

(* Mutant: the row is dated tomorrow.                                      *)
RecordedTomorrow(base, fs, day) == [f \in Fixtures |-> IF f \in fs THEN 2 + day ELSE base[f]]

(* record_promotion_notice_sent, with the notice_day the pass began on.    *)
Recorded(base, fs, day) == [f \in Fixtures |-> IF f \in fs THEN 1 + day ELSE base[f]]

(* As DropAdvance: on to the next send, or out of the lock.                *)
PromoAdvance(p, todo, base, at) ==
    LET due == {f \in todo : Promotable(f, base, at)}
    IN  \/ /\ due = {} \/ ~audience
           /\ promoted' = Recorded(base, due, Day(at))
           /\ promoLock' = Nobody
           /\ pass' = [pass EXCEPT ![p] = Idle]
        \/ /\ audience
           /\ \E f \in due, done \in SUBSET (todo \ due) :
                pass' = [pass EXCEPT ![p] = [Idle EXCEPT !.pc = "sendPromo", !.cur = f, !.at = at,
                                                  !.todo = todo \ (done \cup {f})]]
           /\ promoted' = base
           /\ promoLock' = p

NoticeHasRun(at) == Day(at) \in ran

(* Nothing is promoted before the notice has run; then as EnterDrop.       *)
EnterPromo(p, ids) ==
    IF ~NoticeHasRun(now)
    THEN pass' = [pass EXCEPT ![p] = Idle] /\ UNCHANGED <<promoted, promoLock>>
    ELSE IF promoLock = Nobody
    THEN PromoAdvance(p, IF p \in PromoSweeps THEN Today(now) ELSE ids, promoted, now)
    ELSE /\ pass' = [pass EXCEPT ![p] = [Idle EXCEPT !.pc = "waitPromo", !.ids = ids, !.at = now]]
         /\ UNCHANGED <<promoted, promoLock>>

(* The promotion hook of a scheduling pass, after its drop hook.           *)
PromotionHook(p) ==
    /\ pass[p].pc = "promo"
    /\ IF pass[p].later = {}
       THEN pass' = [pass EXCEPT ![p] = Idle] /\ UNCHANGED <<promoted, promoLock>>
       ELSE EnterPromo(p, pass[p].later)
    /\ UNCHANGED <<now, kickoff, passes, revealed, job, alert, planned, ran, named, listings, dropLock,
                   outcome, spent>>

(* Mutant: no lock.                                                        *)
AcquirePromoUnlocked(p) ==
    /\ pass[p].pc = "waitPromo"
    /\ PromoAdvance(p, IF p \in PromoSweeps THEN Today(pass[p].at) ELSE pass[p].ids,
                    promoted, pass[p].at)
    /\ UNCHANGED <<now, kickoff, passes, revealed, job, alert, planned, ran, named, listings, dropLock,
                   outcome, spent>>

AcquirePromo(p) ==
    /\ pass[p].pc = "waitPromo" /\ promoLock = Nobody
    /\ PromoAdvance(p, IF p \in PromoSweeps THEN Today(pass[p].at) ELSE pass[p].ids,
                    promoted, pass[p].at)
    /\ UNCHANGED <<now, kickoff, passes, revealed, job, alert, planned, ran, named, listings, dropLock,
                   outcome, spent>>

PromoDelivered(p) ==
    /\ pass[p].pc = "sendPromo"
    /\ cheered' = [cheered EXCEPT ![pass[p].cur] = @ + 1]
    /\ PromoAdvance(p, pass[p].todo, Recorded(promoted, {pass[p].cur}, Day(pass[p].at)), pass[p].at)
    /\ UNCHANGED <<now, kickoff, passes, revealed, job, alert, planned, ran, named, listings, dropLock,
                   told, recovery, audience, spent>>

PromoFailed(p) ==
    /\ pass[p].pc = "sendPromo"
    /\ PromoAdvance(p, pass[p].todo, promoted, pass[p].at)
    /\ UNCHANGED <<now, kickoff, passes, revealed, job, alert, planned, ran, named, listings, dropLock,
                   outcome, spent>>

-----------------------------------------------------------------------------
(* What starts the passes                                                  *)

(* A fixture whose late alert is being fired in this very slot.            *)
Due(f) == job[f] = now

(* _schedule_kickoff_alerts_locked: the resync moves kickoffs and drops    *)
(* their jobs, the passing fixtures of today get jobs, the hooks follow.   *)
StartPlan(p) ==
    /\ \A q \in Plans : pass[q].pc = "idle"
    /\ \E moved \in SUBSET {f \in Fixtures : now <= kickoff[f] /\ kickoff[f] + DaySlots <= MaxTime} :
        /\ spent.moves + Cardinality(moved) <= MaxMoves
        /\ spent' = [spent EXCEPT !.moves = @ + Cardinality(moved)]
        /\ kickoff' = [f \in Fixtures |-> IF f \in moved THEN kickoff[f] + DaySlots ELSE kickoff[f]]
        /\ LET today == {f \in Fixtures : Day(kickoff'[f]) = Day(now)}
           IN  /\ job' = [f \in Fixtures |->
                            IF f \in today \cap passes /\ now < kickoff'[f] THEN kickoff'[f]
                            ELSE IF f \in moved THEN Nobody ELSE job[f]]
               /\ planned' = TRUE
               /\ IF today \subseteq passes
                  THEN /\ pass' = [pass EXCEPT ![p] = [Idle EXCEPT !.pc = "promo", !.at = now, !.later = today]]
                       /\ UNCHANGED <<listing, dropLock>>
                  ELSE EnterDrop(p, today \ passes, today \cap passes)
    /\ UNCHANGED <<now, passes, revealed, alert, ran, named, listedFor, listedOn, promoted, promoLock,
                   outcome>>

StartSweep(p) ==
    /\ pass[p].pc = "idle"
    /\ EnterDrop(p, {}, {})
    /\ UNCHANGED <<now, kickoff, passes, revealed, job, alert, planned, ran, named, listedFor, listedOn,
                   promoted, promoLock, outcome, spent>>

StartPromoSweep(p) ==
    /\ pass[p].pc = "idle"
    /\ EnterPromo(p, {})
    /\ UNCHANGED <<now, kickoff, passes, revealed, job, alert, planned, ran, named, listings, dropLock,
                   outcome, spent>>

(* A re-scored row is stored, by a scoring run or by an alert: the triple  *)
(* may cross the gate, and a match that has moved gets its new kickoff     *)
(* without the resync and its jobs knowing.                                *)
UpsertsRow(f) ==
    \E crossed, moved \in {0, 1} :
        /\ spent.rescores + crossed <= MaxRescores /\ spent.moves + moved <= MaxMoves
        /\ kickoff[f] + moved * DaySlots <= MaxTime
        /\ spent' = [spent EXCEPT !.rescores = @ + crossed, !.moves = @ + moved]
        /\ kickoff' = [kickoff EXCEPT ![f] = @ + moved * DaySlots]
        /\ passes' = IF crossed = 0 THEN passes
                     ELSE IF f \in passes THEN passes \ {f} ELSE passes \cup {f}

(* The early alert fires in a slot before the one of the late alert.       *)
JobLeaves(f) ==
    /\ job[f] # Nobody /\ now <= job[f] /\ alert[f] = NoAlert
    /\ job' = IF Due(f) THEN [job EXCEPT ![f] = Nobody] ELSE job

(* _fire_prediction_alert: the gate failed at fire time, the hook runs.    *)
AlertSuppressed(p, f) ==
    /\ pass[p].pc = "idle"
    /\ f \notin passes /\ JobLeaves(f)
    /\ EnterDrop(p, {f}, {})
    /\ UNCHANGED <<now, kickoff, passes, revealed, alert, planned, ran, named, listedFor, listedOn,
                   promoted, promoLock, outcome, spent>>

(* The stored row clears the gate; upstream is asked next.                 *)
AlertFires(f) ==
    /\ f \in passes /\ JobLeaves(f)
    /\ alert' = [alert EXCEPT ![f] = [pc |-> "check", late |-> Due(f), noted |-> FALSE]]
    /\ UNCHANGED <<now, kickoff, passes, revealed, planned, ran, named, listings, promoted, dropLock,
                   promoLock, pass, outcome, spent>>

(* The late alert, when the triple it is rendered from clears the gate,    *)
(* carries the recovery line if drop_notice_sent_at is set now.            *)
Noted(f, clears) == alert[f].late /\ clears /\ listing[f] = "sent"

(* The body is rendered and its first copy sent, also when the triple is   *)
(* below the bar.  The re-scored row was stored first; without one the     *)
(* body has the row as it was read before these awaits.                    *)
AlertRescored(f) ==
    /\ alert[f].pc = "check"
    /\ \E clears \in BOOLEAN :
         /\ \/ UpsertsRow(f) /\ clears = (f \in passes')
            \/ UNCHANGED <<kickoff, passes, spent>>
         /\ alert' = [alert EXCEPT ![f] =
                         [pc |-> "send", late |-> alert[f].late, noted |-> Noted(f, clears)]]
    /\ UNCHANGED <<now, revealed, job, planned, ran, named, listings, promoted, dropLock, promoLock,
                   pass, outcome>>

(* A copy is confirmed and revealed.                                       *)
AlertRevealed(f) ==
    /\ alert[f].pc = "send"
    /\ alert' = [alert EXCEPT ![f] = NoAlert]
    /\ revealed' = revealed \cup {f}
    /\ recovery' = IF alert[f].noted THEN recovery \cup {f} ELSE recovery
    /\ UNCHANGED <<now, kickoff, passes, job, planned, ran, named, listings, promoted, dropLock, promoLock,
                   pass, told, cheered, audience, spent>>

(* Upstream says the match is not due, or no copy is confirmed, or         *)
(* everybody is locked out.                                                *)
AlertReachesNobody(f) ==
    /\ alert[f].pc # "idle"
    /\ alert' = [alert EXCEPT ![f] = NoAlert]
    /\ UNCHANGED <<now, kickoff, passes, revealed, job, planned, ran, named, listings, promoted, dropLock,
                   promoLock, pass, outcome, spent>>

(* run_matchday_notice: the marker and the listings are written before the *)
(* first send, without an await; a listing write that fails is swallowed.  *)
MatchdayNotice ==
    /\ now % DaySlots = 0 /\ Day(now) \notin ran
    /\ ran' = ran \cup {Day(now)}
    /\ LET shown == Today(now) \cap passes
       IN  \E lost \in SUBSET shown :
             /\ spent.faults + Cardinality(lost) <= MaxFaults
             /\ spent' = [spent EXCEPT !.faults = @ + Cardinality(lost)]
             /\ named' = named \cup (shown \X {Day(now)})
             /\ LET new == {f \in shown \ lost : listing[f] = "none"}
                IN  /\ listing' = [f \in Fixtures |-> IF f \in new THEN "pending" ELSE listing[f]]
                    /\ listedFor' = [f \in Fixtures |-> IF f \in new THEN kickoff[f] ELSE listedFor[f]]
                    /\ listedOn' = [f \in Fixtures |-> IF f \in new THEN Day(now) ELSE listedOn[f]]
    /\ UNCHANGED <<now, kickoff, passes, revealed, job, alert, planned, promoted, dropLock, promoLock,
                   pass, outcome>>

(* A scoring run stores a match still to come.                             *)
Rescore(f) ==
    /\ now <= kickoff[f]
    /\ UpsertsRow(f)
    /\ UNCHANGED <<now, revealed, job, alert, planned, ran, named, listings, promoted, dropLock,
                   promoLock, pass, outcome>>

(* Time passes once the alerts of the slot have fired and a scheduling     *)
(* pass has run; a pass may run past the end of the slot it began in.      *)
Tick ==
    /\ now < MaxTime /\ planned /\ \A f \in Fixtures : ~Due(f) /\ alert[f] = NoAlert
    /\ \A p \in Passes : pass[p].pc # "idle" => pass[p].at = now
    /\ now' = now + 1 /\ planned' = FALSE
    /\ UNCHANGED <<kickoff, passes, revealed, job, alert, ran, named, listings, promoted, dropLock,
                   promoLock, pass, outcome, spent>>

(* The daemon restarts: jobs, locks and passes are gone, the rows stay.    *)
Crash ==
    /\ spent.faults < MaxFaults
    /\ spent' = [spent EXCEPT !.faults = @ + 1]
    /\ pass' = [p \in Passes |-> Idle]
    /\ dropLock' = Nobody /\ promoLock' = Nobody /\ planned' = FALSE
    /\ job' = [f \in Fixtures |-> Nobody] /\ alert' = [f \in Fixtures |-> NoAlert]
    /\ UNCHANGED <<now, kickoff, passes, revealed, ran, named, listings, promoted, outcome>>

-----------------------------------------------------------------------------
PassStep(p) ==
    \/ AcquireDrop(p) \/ DropDelivered(p) \/ DropFailed(p)
    \/ PromotionHook(p) \/ AcquirePromo(p) \/ PromoDelivered(p) \/ PromoFailed(p)

Alert(f) ==
    \/ AlertFires(f) \/ AlertRescored(f) \/ AlertRevealed(f) \/ AlertReachesNobody(f)
    \/ \E p \in Hooks : AlertSuppressed(p, f)

Next ==
    \/ Tick \/ MatchdayNotice \/ Crash
    \/ \E f \in Fixtures : Alert(f) \/ Rescore(f)
    \/ \E p \in Plans : StartPlan(p)
    \/ \E p \in Sweeps : StartSweep(p)
    \/ \E p \in PromoSweeps : StartPromoSweep(p)
    \/ \E p \in Passes : PassStep(p)

Spec == Init /\ [][Next]_vars

(* The scheduler keeps starting the sweep and the loop runs every pass on; *)
(* Telegram does not refuse one notice for ever.                           *)
Fairness ==
    /\ \A p \in Sweeps : WF_vars(StartSweep(p)) /\ SF_vars(AcquireDrop(p))
    /\ \A p \in Passes : WF_vars(PassStep(p)) /\ SF_vars(DropDelivered(p))
    /\ \A f \in Fixtures : WF_vars(Alert(f))

FairSpec == Spec /\ Fairness

-----------------------------------------------------------------------------
(* Properties                                                              *)

(* The hook of the scheduling pass, the hook at fire time and the sweep    *)
(* never tell the audience twice that the same fixture was dropped, nor do *)
(* two passes cheer one promotion twice: each lock covers read, send and   *)
(* mark.                                                                   *)
ToldOnce ==
    spent.faults = 0 => \A f \in Fixtures : told[f] <= 1 /\ cheered[f] <= 1

(* The late alert says "below our bar in the earlier notice" only when     *)
(* such a notice was really confirmed for that fixture.                    *)
RecoveryNoteTruthful == \A f \in recovery : told[f] > 0

(* "This was NOT on this morning's list" is never said of a fixture that   *)
(* the notice of that day named, also when the pass crosses the cron.      *)
PromotionIsNews ==
    spent.faults = 0 => \A f \in Fixtures : promoted[f] # 0 => <<f, promoted[f] - 1>> \notin named

(* The two failsafes take a fixture on one day never both: one that was    *)
(* promoted gets to the drop path only by the notice of a later day.       *)
OneFailsafePerDay ==
    \A f \in Fixtures : (promoted[f] # 0 /\ listing[f] # "none" /\ spent.faults = 0)
                            => listedOn[f] > promoted[f] - 1

(* A pending listing that is below the bar at its late-alert time is told  *)
(* to the audience in the end, however many sends fail in between, unless  *)
(* the call comes back or a day passes.                                    *)
DroppedIsTold ==
    \A f \in Fixtures :
        (listing[f] = "pending" /\ listedFor[f] <= now /\ ~Honoured(f) /\ audience)
            ~> (told[f] > 0 \/ Honoured(f) \/ now > listedFor[f] + DaySlots)

(* What the audience is told is told once, a promotion is news, what the   *)
(* late alert says was told before was, also when the alert, a scoring run *)
(* and the notices cross at their awaits; and one day has one failsafe.    *)
ToldOnceAndTruly ==
    ToldOnce /\ RecoveryNoteTruthful /\ PromotionIsNews /\ OneFailsafePerDay

(* What the documentation of both failsafes says: a fixture is never the   *)
(* subject of both, on whatever days.                                      *)
NeverBothFailsafes == \A f \in Fixtures : told[f] = 0 \/ cheered[f] = 0
=============================================================================
