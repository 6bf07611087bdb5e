----------------------------- MODULE ResultLoop -----------------------------
(***************************************************************************)
(* After the final whistle.  Settlement writes one outcome row per         *)
(* fixture and nudges the ratings; the result pass tells the users who saw *)
(* the call; a daily pass re-reads the provider, corrects a provisional    *)
(* scoreline in place and announces the correction.  The jobs share a loop *)
(* and interleave at every fetch and send; the CLI settles in a process of *)
(* its own.  The provider may correct itself at any time.                  *)
(***************************************************************************)
EXTENDS Integers, FiniteSets, Sequences, SequencesExt

CONSTANTS
    Fixtures,
    Users,          \* everyone with a private chat, the operator included
    Operator,       \* {} or the singleton of the configured operator
    Group,          \* {} or the singleton of the configured broadcast chat
    None,
    Settlers,       \* processes that settle: the daemon and the command line
    Entries,        \* what the provider may say of a finished match
    MaxInFlight,    \* passes of result/verify that may be open at once
    MaxChanges,     \* bound: provider updates
    MaxFailures,    \* bound: fetches and sends that fail
    MaxTimeouts,    \* bound: sends that are delivered but not confirmed
    MaxRestarts,    \* bound: daemon restarts
    MaxPasses       \* bound: verification passes, one per day

Winners == {"HOME", "DRAW", "AWAY"}
Goals == (0 .. 2) \X (0 .. 2)

Rows == [winner : Winners, goals : Goals \cup {None}, notified : BOOLEAN, stale : BOOLEAN, checks : Nat]

Chats == Users \cup Group

(* A broadcast under way: the group first, then the private chats.         *)
Mailing == [f : Fixtures, goals : Goals, chats : SUBSET Chats, ok : BOOLEAN]

ASSUME ResultAssumption ==
    /\ Operator \subseteq Users /\ Users \cap Group = {} /\ Settlers \subseteq {"daemon", "cli"}
    /\ Entries \subseteq [winner : Winners \cup {None}, goals : Goals \cup {None}, awarded : BOOLEAN]
    /\ None \notin Rows /\ None \notin Mailing
    /\ {MaxInFlight, MaxChanges, MaxFailures, MaxTimeouts, MaxRestarts, MaxPasses} \subseteq Nat

MaxChecks == 3          \* reverify_recent_scores(max_checks=3)

VARIABLES
    source,     \* source[f]: the provider's entry, None until the match is final
    outcome,    \* outcome[f]: the row of prediction_outcomes, None if not scored
    late,       \* fixtures whose kickoff is more than 48 h old
    closed,     \* fixtures settled more than 72 h ago: outside both windows
    saw,        \* saw[f]: users with a reveal row
    clears,     \* clears[f]: the stored prediction clears the bar (it may have drifted)
    strict,     \* high_conf_alerts_only, read when the daemon starts
    settle,     \* settle[s]: the fixtures s still has to fetch, and which it took as late
    nudging,    \* <<s, f>>: scored by s, ratings not yet written
    nudges,     \* nudges[f]: rating updates made for f
    result,     \* the result pass
    verify,     \* the verification pass
    told,       \* told[c][f]: what reached chat c about f, in order
    confirmed,  \* fixtures whose result some user is confirmed to have received
    hushed,     \* fixtures the result pass suppressed or had no audience for
    spent       \* [changes, failures, timeouts, restarts, passes] used up

vars == <<source, outcome, late, closed, saw, clears, strict, settle, nudging, nudges, result,
          verify, told, confirmed, hushed, spent>>
world == <<saw, clears>>

Outcome == [winner : Winners, goals : Goals, notified : BOOLEAN, stale : BOOLEAN, checks : 0 .. MaxChecks]
Message == [kind : {"result", "correction"}, goals : Goals]

Correction == [f : Fixtures, goals : Goals, notified : BOOLEAN, stale : BOOLEAN]

IdleResult == [active |-> FALSE, rows |-> [f \in Fixtures |-> None], mail |-> None]
IdleVerify == [active |-> FALSE, rows |-> [f \in Fixtures |-> None], fixed |-> {}, mail |-> None]
IdleSettle == [s \in Settlers |-> [due |-> {}, late |-> {}]]

TypeOK ==
    /\ source \in [Fixtures -> Entries \cup {None}]
    /\ outcome \in [Fixtures -> Outcome \cup {None}]
    /\ late \subseteq Fixtures /\ closed \subseteq Fixtures
    /\ saw \in [Fixtures -> SUBSET Users] /\ clears \in [Fixtures -> BOOLEAN] /\ strict \in BOOLEAN
    /\ settle \in [Settlers -> [due : SUBSET Fixtures, late : SUBSET Fixtures]]
    /\ nudging \subseteq Settlers \X Fixtures /\ nudges \in [Fixtures -> Nat]
    /\ result \in [active : BOOLEAN, rows : [Fixtures -> Goals \cup {None}], mail : Mailing \cup {None}]
    /\ verify \in [active : BOOLEAN, rows : [Fixtures -> Outcome \cup {None}],
                   fixed : SUBSET Correction, mail : Mailing \cup {None}]
    /\ told \in [Chats -> [Fixtures -> Seq(Message)]]
    /\ confirmed \subseteq Fixtures /\ hushed \subseteq Fixtures
    /\ spent \in [changes : Nat, failures : Nat, timeouts : Nat, restarts : Nat, passes : Nat]

Init ==
    /\ source = [f \in Fixtures |-> None] /\ outcome = [f \in Fixtures |-> None]
    /\ late = {} /\ closed = {}
    /\ saw \in [Fixtures -> SUBSET Users] /\ clears \in [Fixtures -> BOOLEAN] /\ strict \in BOOLEAN
    /\ settle = IdleSettle /\ nudging = {} /\ nudges = [f \in Fixtures |-> 0]
    /\ result = IdleResult /\ verify = IdleVerify
    /\ told = [c \in Chats |-> [f \in Fixtures |-> <<>>]]
    /\ confirmed = {} /\ hushed = {}
    /\ spent = [changes |-> 0, failures |-> 0, timeouts |-> 0, restarts |-> 0, passes |-> 0]

-----------------------------------------------------------------------------
(* The provider and the calendar                                           *)

ProviderUpdates(f) ==
    /\ spent.changes < MaxChanges
    /\ \E entry \in Entries : entry # source[f] /\ source' = [source EXCEPT ![f] = entry]
    /\ spent' = [spent EXCEPT !.changes = @ + 1]
    /\ UNCHANGED <<world, outcome, late, closed, strict, settle, nudging, nudges, result, verify, told,
                   confirmed, hushed>>

TwoDaysPass(f) ==
    /\ f \notin late /\ outcome[f] = None
    /\ late' = late \cup {f}
    /\ UNCHANGED <<world, source, outcome, closed, strict, settle, nudging, nudges, result, verify,
                   told, confirmed, hushed, spent>>

WindowCloses(f) ==
    /\ f \notin closed /\ outcome[f] # None
    /\ closed' = closed \cup {f}
    /\ UNCHANGED <<world, source, outcome, late, strict, settle, nudging, nudges, result, verify, told,
                   confirmed, hushed, spent>>

-----------------------------------------------------------------------------
(* Settlement: _score_outcomes                                             *)

(* list_unsettled_predictions_due, read once per run.                      *)
StartSettle(s) ==
    /\ settle[s].due = {} /\ ~\E f \in Fixtures : <<s, f>> \in nudging
    /\ LET due == {f \in Fixtures : outcome[f] = None}
       IN  due # {} /\ settle' = [settle EXCEPT ![s] = [due |-> due, late |-> due \cap late]]
    /\ UNCHANGED <<world, source, outcome, late, closed, strict, nudging, nudges, result, verify, told,
                   confirmed, hushed, spent>>

Fetched(s, f) == settle' = [settle EXCEPT ![s] = [due |-> @.due \ {f}, late |-> @.late \ {f}]]

(* Mutant: a missing score block is stored as it is.                       *)
FinalGoalsRaw(entry) == entry.goals

(* _final_goals: a missing score block reads as 0-0.                       *)
FinalGoals(entry) == IF entry.goals = None THEN <<0, 0>> ELSE entry.goals

Decided(entry) == entry # None /\ entry.winner # None

(* Mutant: whoever scored the row, this run nudges the ratings.            *)
NewlyAlways(f) == TRUE

(* record_prediction_outcome is INSERT-OR-IGNORE.                          *)
Newly(f) == outcome[f] = None

(* The match arrived: not final, already scored, or scored now.            *)
ScoreOutcome(s, f) ==
    /\ f \in settle[s].due /\ Fetched(s, f)
    /\ LET scores == Decided(source[f])
           stale == f \in settle[s].late
       IN  /\ outcome' = IF scores /\ outcome[f] = None
                         THEN [outcome EXCEPT ![f] =
                                [winner |-> source[f].winner, goals |-> FinalGoals(source[f]),
                                 notified |-> stale, stale |-> stale, checks |-> 0]]
                         ELSE outcome
           /\ nudging' = IF scores /\ Newly(f) /\ ~stale THEN nudging \cup {<<s, f>>} ELSE nudging
    /\ UNCHANGED <<world, source, late, closed, strict, nudges, result, verify, told, confirmed,
                   hushed, spent>>

FetchFails(s, f) ==
    /\ f \in settle[s].due /\ spent.failures < MaxFailures
    /\ Fetched(s, f)
    /\ spent' = [spent EXCEPT !.failures = @ + 1]
    /\ UNCHANGED <<world, source, outcome, late, closed, strict, nudging, nudges, result, verify, told,
                   confirmed, hushed>>

(* _update_ratings_for_result: skipped for unrated competitions, unknown   *)
(* teams and on any error.                                                 *)
UpdateRatings(s, f) ==
    /\ <<s, f>> \in nudging
    /\ nudging' = nudging \ {<<s, f>>}
    /\ \E known \in BOOLEAN : nudges' = IF known THEN [nudges EXCEPT ![f] = @ + 1] ELSE nudges
    /\ UNCHANGED <<world, source, outcome, late, closed, strict, settle, result, verify, told, confirmed,
                   hushed, spent>>

-----------------------------------------------------------------------------
(* Broadcasts                                                              *)

InFlight == (IF result.active THEN 1 ELSE 0) + (IF verify.active THEN 1 ELSE 0)

(* The high-confidence gate on the live row, or an earlier reveal.         *)
Publishable(f) == ~strict \/ clears[f] \/ saw[f] # {}

Audience(f) == Operator \cup saw[f]

(* The next chat of a broadcast.                                           *)
NextChat(mail, c) == c \in mail.chats /\ (c \in Users => mail.chats \cap Group = {})

(* One send.  It lands or not, and the code is told so or not: a send that *)
(* timed out may have been delivered.  Only private chats count as ok.     *)
SendOne(mail, c, kind, landed, ack) ==
    /\ NextChat(mail, c)
    /\ ack => landed
    /\ \/ ack /\ spent' = spent
       \/ ~ack /\ landed /\ spent.timeouts < MaxTimeouts
          /\ spent' = [spent EXCEPT !.timeouts = @ + 1]
       \/ ~landed /\ spent.failures < MaxFailures
          /\ spent' = [spent EXCEPT !.failures = @ + 1]
    /\ told' = IF landed THEN [told EXCEPT ![c][mail.f] = Append(@, [kind |-> kind, goals |-> mail.goals])]
               ELSE told

After(mail, c, ack) == [mail EXCEPT !.chats = @ \ {c}, !.ok = @ \/ (ack /\ c \in Users)]

-----------------------------------------------------------------------------
(* The result pass: run_result_alerts                                      *)

Pending(f) == outcome[f] # None /\ ~outcome[f].notified /\ f \notin closed

(* outcomes_pending_result_alert, read once, with the goals of that time.  *)
StartResults ==
    /\ ~result.active /\ InFlight < MaxInFlight
    /\ \E f \in Fixtures : Pending(f)
    /\ result' = [IdleResult EXCEPT !.active = TRUE,
                    !.rows = [f \in Fixtures |-> IF Pending(f) THEN outcome[f].goals ELSE None]]
    /\ UNCHANGED <<world, source, outcome, late, closed, strict, settle, nudging, nudges, verify, told,
                   confirmed, hushed, spent>>

MarkNotified(f) == outcome' = [outcome EXCEPT ![f].notified = TRUE]

(* Mutant: a suppressed fixture is left pending.                           *)
ConsumeForgotten(f) == UNCHANGED outcome

Consume(f) == MarkNotified(f)

(* Gate and audience of the next pending fixture.  A fixture that fails    *)
(* the gate, or that has nobody to tell, is consumed.                      *)
PickResult(f) ==
    /\ result.active /\ result.mail = None /\ result.rows[f] # None
    /\ LET chats == Audience(f) \cup Group
           consumed == ~Publishable(f) \/ chats = {}
       IN  /\ result' = [result EXCEPT !.rows[f] = None,
                           !.mail = IF consumed THEN None
                                    ELSE [f |-> f, goals |-> result.rows[f], chats |-> chats, ok |-> FALSE]]
           /\ IF consumed THEN Consume(f) ELSE UNCHANGED outcome
           /\ hushed' = IF ~Publishable(f) \/ Audience(f) = {} THEN hushed \cup {f} ELSE hushed
    /\ UNCHANGED <<world, source, late, closed, strict, settle, nudging, nudges, verify, told, confirmed,
                   spent>>

SendResult(c, landed, ack) ==
    /\ result.mail # None
    /\ SendOne(result.mail, c, "result", landed, ack)
    /\ result' = [result EXCEPT !.mail = After(@, c, ack)]
    /\ confirmed' = IF ack /\ c \in Users THEN confirmed \cup {result.mail.f} ELSE confirmed
    /\ UNCHANGED <<world, source, outcome, late, closed, strict, settle, nudging, nudges, verify, hushed>>

(* Mutant: the batch is flagged whatever became of it.                     *)
FlagAlways(mail) == TRUE

(* Mutant: flagged only when everybody got it.                             *)
FlagIfAll(mail) == \A c \in Audience(mail.f) : told[c][mail.f] # <<>>

(* any_success, or nobody to send to.                                      *)
FlagIf(mail) == mail.ok \/ Audience(mail.f) = {}

FinishResult ==
    /\ result.mail # None /\ result.mail.chats = {}
    /\ IF FlagIf(result.mail) THEN MarkNotified(result.mail.f) ELSE UNCHANGED outcome
    /\ result' = [result EXCEPT !.mail = None]
    /\ UNCHANGED <<world, source, late, closed, strict, settle, nudging, nudges, verify, told, confirmed,
                   hushed, spent>>

EndResults ==
    /\ result.active /\ result.mail = None /\ \A f \in Fixtures : result.rows[f] = None
    /\ result' = IdleResult
    /\ UNCHANGED <<world, source, outcome, late, closed, strict, settle, nudging, nudges, verify, told,
                   confirmed, hushed, spent>>

-----------------------------------------------------------------------------
(* The verification pass: reverify_recent_scores, then the corrections     *)

(* outcomes_settled_since, read once.                                      *)
StartVerify ==
    /\ ~verify.active /\ InFlight < MaxInFlight /\ spent.passes < MaxPasses
    /\ LET rows == [f \in Fixtures |->
                      IF outcome[f] # None /\ f \notin closed /\ outcome[f].checks < MaxChecks
                      THEN outcome[f] ELSE None]
       IN  /\ \E f \in Fixtures : rows[f] # None
           /\ verify' = [IdleVerify EXCEPT !.active = TRUE, !.rows = rows]
    /\ spent' = [spent EXCEPT !.passes = @ + 1]
    /\ UNCHANGED <<world, source, outcome, late, closed, strict, settle, nudging, nudges, result, told,
                   confirmed, hushed>>

Implied(goals) ==
    IF goals[1] > goals[2] THEN "HOME" ELSE IF goals[1] < goals[2] THEN "AWAY" ELSE "DRAW"

(* Mutant: any two numbers will do.                                        *)
CredibleAnyGoals(entry) == entry.goals # None

(* Concrete goals that agree with the winner, unless awarded.              *)
Credible(entry) == entry.goals # None /\ (entry.awarded \/ Implied(entry.goals) = entry.winner)

(* Mutant: a changed winner is written over the recorded one.              *)
VerifiedRewritesWinner(row, entry) ==
    [row EXCEPT !.checks = @ + 1, !.winner = entry.winner,
                !.goals = IF entry.goals = None THEN @ ELSE entry.goals]

(* refresh_outcome_goals and mark_outcome_verified on the stored row.      *)
Verified(row, entry) ==
    [row EXCEPT !.checks = @ + 1, !.goals = IF row.winner = entry.winner THEN entry.goals ELSE @]

(* Mutant: a row whose goals were corrected is not reported.               *)
FixForgotten(f, row, entry) == {}

(* CorrectedScore, with the notified flag of the row read at the start.    *)
Fix(f, row, entry) ==
    IF entry.goals = row.goals THEN {}
    ELSE {[f |-> f, goals |-> entry.goals, notified |-> row.notified, stale |-> row.stale]}

VerifyRow(f) ==
    /\ verify.rows[f] # None
    /\ LET row == verify.rows[f]
           entry == source[f]
           flipped == Decided(entry) /\ entry.winner # row.winner
           sound == Decided(entry) /\ ~flipped /\ Credible(entry)
       IN  /\ outcome' = IF flipped \/ sound THEN [outcome EXCEPT ![f] = Verified(@, entry)] ELSE outcome
           /\ verify' = [verify EXCEPT !.rows[f] = None,
                           !.fixed = IF sound THEN @ \cup Fix(f, row, entry) ELSE @]
    /\ UNCHANGED <<world, source, late, closed, strict, settle, nudging, nudges, result, told, confirmed,
                   hushed, spent>>

VerifyFetchFails(f) ==
    /\ verify.rows[f] # None /\ spent.failures < MaxFailures
    /\ verify' = [verify EXCEPT !.rows[f] = None]
    /\ spent' = [spent EXCEPT !.failures = @ + 1]
    /\ UNCHANGED <<world, source, outcome, late, closed, strict, settle, nudging, nudges, result, told,
                   confirmed, hushed>>

(* Mutant: corrections ignore whether the result went out.                 *)
AnnouncedEvenIfPending(fix) == ~fix.stale /\ Publishable(fix.f)

(* Deferred while the result is pending, silent for stale and unpublished. *)
Announced(fix) == fix.notified /\ ~fix.stale /\ Publishable(fix.f)

PickCorrection(fix) ==
    /\ verify.active /\ verify.mail = None /\ \A f \in Fixtures : verify.rows[f] = None
    /\ fix \in verify.fixed
    /\ verify' = [verify EXCEPT !.fixed = @ \ {fix},
                    !.mail = IF Announced(fix)
                             THEN [f |-> fix.f, goals |-> fix.goals, chats |-> Audience(fix.f) \cup Group,
                                   ok |-> FALSE]
                             ELSE None]
    /\ UNCHANGED <<world, source, outcome, late, closed, strict, settle, nudging, nudges, result, told,
                   confirmed, hushed, spent>>

(* Forward only: a correction that fails is not retried.                   *)
SendCorrection(c, landed, ack) ==
    /\ verify.mail # None
    /\ SendOne(verify.mail, c, "correction", landed, ack)
    /\ verify' = [verify EXCEPT !.mail = After(@, c, ack)]
    /\ UNCHANGED <<world, source, outcome, late, closed, strict, settle, nudging, nudges, result,
                   confirmed, hushed>>

FinishCorrection ==
    /\ verify.mail # None /\ verify.mail.chats = {}
    /\ verify' = [verify EXCEPT !.mail = None]
    /\ UNCHANGED <<world, source, outcome, late, closed, strict, settle, nudging, nudges, result, told,
                   confirmed, hushed, spent>>

EndVerify ==
    /\ verify.active /\ verify.mail = None /\ verify.fixed = {}
    /\ \A f \in Fixtures : verify.rows[f] = None
    /\ verify' = IdleVerify
    /\ UNCHANGED <<world, source, outcome, late, closed, strict, settle, nudging, nudges, result, told,
                   confirmed, hushed, spent>>

(* The daemon restarts, with whatever settings the operator left.          *)
Restart ==
    /\ spent.restarts < MaxRestarts
    /\ spent' = [spent EXCEPT !.restarts = @ + 1]
    /\ strict' \in BOOLEAN
    /\ settle' = [s \in Settlers |-> IF s = "daemon" THEN IdleSettle[s] ELSE settle[s]]
    /\ nudging' = {n \in nudging : n[1] # "daemon"}
    /\ result' = IdleResult /\ verify' = IdleVerify
    /\ UNCHANGED <<world, source, outcome, late, closed, nudges, told, confirmed, hushed>>

-----------------------------------------------------------------------------
Settling == \E s \in Settlers : StartSettle(s) \/ \E f \in Fixtures :
                ScoreOutcome(s, f) \/ FetchFails(s, f) \/ UpdateRatings(s, f)

ResultStep ==
    \/ FinishResult \/ EndResults
    \/ \E f \in Fixtures : PickResult(f)
    \/ \E c \in Chats, landed, ack \in BOOLEAN : SendResult(c, landed, ack)

Verifying ==
    \/ StartVerify \/ FinishCorrection \/ EndVerify
    \/ \E f \in Fixtures : VerifyRow(f) \/ VerifyFetchFails(f)
    \/ \E fix \in verify.fixed : PickCorrection(fix)
    \/ \E c \in Chats, landed, ack \in BOOLEAN : SendCorrection(c, landed, ack)

Next ==
    \/ \E f \in Fixtures : ProviderUpdates(f) \/ TwoDaysPass(f) \/ WindowCloses(f)
    \/ Settling \/ StartResults \/ ResultStep \/ Verifying \/ Restart

Spec == Init /\ [][Next]_vars

(* The two-hourly job fires for ever and its coroutine runs to its end.    *)
FairSpec == Spec /\ WF_vars(StartResults) /\ WF_vars(ResultStep)
                 /\ WF_vars(Verifying)

-----------------------------------------------------------------------------
(* Properties                                                              *)

(* A finished match moves the ratings at most once and a backlog match not *)
(* at all, whatever runs of settlement overlap or die: old results are in  *)
(* the weekly re-seed already.                                             *)
RatingsLearnOnce ==
    \A f \in Fixtures : nudges[f] <= 1 /\ (nudges[f] = 1 => ~outcome[f].stale)

(* The winner the record, the ratings and the result alerts rest on is     *)
(* never rewritten, even when the provider changes its mind.               *)
WinnerIsFinal ==
    [][\A f \in Fixtures : outcome[f] # None =>
         outcome'[f] # None /\ outcome'[f].winner = outcome[f].winner]_vars

(* result_notified never lies: the row is stale, suppressed or without an  *)
(* audience, or a user is confirmed to have received the result.           *)
NotifiedIsHonest ==
    \A f \in Fixtures : outcome[f] # None /\ outcome[f].notified =>
        outcome[f].stale \/ f \in confirmed \cup hushed

(* No correction announces a scoreline the recorded winner contradicts,    *)
(* unless the match was awarded.                                           *)
CorrectionsAreCredible ==
    \A c \in Chats, f \in Fixtures : \A m \in ToSet(told[c][f]) :
        m.kind = "correction" =>
            Implied(m.goals) = outcome[f].winner \/ \E e \in Entries : e.awarded /\ e.goals = m.goals

Messages(c, f, kind) == {i \in DOMAIN told[c][f] : told[c][f][i].kind = kind}

(* A user is told a result once, however many others could not be reached, *)
(* unless a restart or a lost confirmation comes between send and flag.    *)
UserToldOnce ==
    spent.restarts + spent.timeouts = 0 =>
        \A c \in Users, f \in Fixtures : Cardinality(Messages(c, f, "result")) <= 1

Faultless == spent.failures + spent.timeouts + spent.restarts = 0

(* With the passes at rest, the last scoreline a chat was told is the one  *)
(* on record: a wrong score that went out has been corrected.  Corrections *)
(* that fail are given up, so this is for sends that work.                 *)
LastWordIsRecord ==
    Faultless /\ ~result.active /\ ~verify.active =>
        \A c \in Chats, f \in Fixtures :
            told[c][f] # <<>> => Last(told[c][f]).goals = outcome[f].goals

(* A correction goes to chats that were told the result it corrects; one   *)
(* whose result message failed gets the correction alone.                  *)
CorrectsOnlyTheTold ==
    Faultless => \A c \in Chats, f \in Fixtures : Messages(c, f, "correction") # {} =>
        \E i \in Messages(c, f, "result") : \A j \in Messages(c, f, "correction") : i < j

(* A scored result does not stay pending inside its window: it is sent,    *)
(* consumed, or, after three days of failures, given up.                   *)
PendingIsHandled == \A f \in Fixtures : Pending(f) ~> ~Pending(f)

(* The flag of a result is up only for one that was told, and until then   *)
(* nobody who was reached is told again.                                   *)
ResultToldOnce == NotifiedIsHonest /\ UserToldOnce

Bears(goals, winner) == Implied(goals) = winner

Record == INSTANCE ResultRecord WITH
    row <- outcome, learned <- nudges, Awarded <- {entry.goals : entry \in {e \in Entries : e.awarded}}

(* Whatever passes overlap and whatever the provider takes back, a result  *)
(* lives as ResultRecord promises: entered once, with a final winner, a    *)
(* flag that only rises, few and credible corrections, and learned once.   *)
ImplementsRecord == Record!Spec

(* What is corrected is credible, and is corrected where it was told.      *)
CorrectionsAreSound == CorrectionsAreCredible /\ CorrectsOnlyTheTold
=============================================================================
