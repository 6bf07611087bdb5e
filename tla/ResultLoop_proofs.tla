-------------------------- MODULE ResultLoop_proofs --------------------------
(***************************************************************************)
(* Machine-checked facts about ResultLoop for any fixtures, users, provider*)
(* entries and processes that settle, and for any bounds: the ratings and  *)
(* the winner first, then what is told: results once, sound corrections    *)
(* and, with one pass at a time, the record as the last word.              *)
(***************************************************************************)
EXTENDS ResultLoop, FiniteSetTheorems, TLAPS

RowsTyped ==
    /\ source \in [Fixtures -> Entries \cup {None}]
    /\ outcome \in [Fixtures -> Rows \cup {None}]
    /\ nudges \in [Fixtures -> Nat]

(* What the passes hold in memory: fields, and rows of fixtures that are   *)
(* scored.  A mailing under way is about a scored fixture.                 *)
ResultHolds ==
    /\ DOMAIN result = {"active", "rows", "mail"}
    /\ DOMAIN result.rows = Fixtures
    /\ \A f \in Fixtures : result.rows[f] # None => outcome[f] # None
    /\ result.mail # None =>
         "f" \in DOMAIN result.mail /\ result.mail.f \in Fixtures /\ outcome[result.mail.f] # None

(* The row a verification holds has the winner of the stored one.          *)
VerifyHolds ==
    /\ DOMAIN verify = {"active", "rows", "fixed", "mail"}
    /\ verify.rows \in [Fixtures -> Rows \cup {None}]
    /\ \A f \in Fixtures : verify.rows[f] # None =>
         outcome[f] # None /\ outcome[f].winner = verify.rows[f].winner

(* A rating update is owed by one run at most, for a fixture of which no   *)
(* update was made, and only ever for a row that is not stale.             *)
LearnsOnce ==
    \A f \in Fixtures :
        /\ \A s, r \in Settlers : <<s, f>> \in nudging /\ <<r, f>> \in nudging => s = r
        /\ nudges[f] <= 1
        /\ (\E s \in Settlers : <<s, f>> \in nudging) => nudges[f] = 0
        /\ (\E s \in Settlers : <<s, f>> \in nudging) \/ nudges[f] = 1 =>
             outcome[f] # None /\ ~outcome[f].stale

ResultInv == RowsTyped /\ ResultHolds /\ VerifyHolds /\ LearnsOnce

(* What a step may do to the stored rows: score a new fixture, or change   *)
(* one in its flag, goals and number of checks.                            *)
RowsKept ==
    /\ outcome' \in [Fixtures -> Rows \cup {None}]
    /\ \A f \in Fixtures : outcome[f] # None =>
         /\ outcome'[f] # None /\ outcome'[f].winner = outcome[f].winner
         /\ outcome'[f].stale = outcome[f].stale

-----------------------------------------------------------------------------
(* Keeping the rows is enough for what the passes hold, and for the        *)
(* ratings, as long as those stay as they are.                             *)
LEMMA HeldStays ==
  ASSUME ResultInv, RowsKept
  PROVE  /\ result' = result => ResultHolds'
         /\ verify' = verify => VerifyHolds'
         /\ nudging' \subseteq nudging /\ nudges' = nudges => LearnsOnce'
<1>1. ASSUME result' = result PROVE ResultHolds'
  BY <1>1 DEF ResultInv, RowsKept, ResultHolds
<1>2. ASSUME verify' = verify PROVE VerifyHolds'
  BY <1>2 DEF ResultInv, RowsKept, VerifyHolds
<1>3. ASSUME nudging' \subseteq nudging, nudges' = nudges PROVE LearnsOnce'
  BY <1>3 DEF ResultInv, RowsKept, LearnsOnce
<1> QED BY <1>1, <1>2, <1>3

LEMMA SameRows ==
  ASSUME ResultInv, outcome' = outcome PROVE RowsKept
  BY DEF ResultInv, RowsTyped, RowsKept

(* mark_result_notified changes one flag of a scored row.                  *)
LEMMA FlagKeepsRows ==
  ASSUME ResultInv, NEW f \in Fixtures, outcome[f] # None, MarkNotified(f) PROVE RowsKept
<1>1. outcome[f] \in Rows
  BY DEF ResultInv, RowsTyped
<1>2. [outcome[f] EXCEPT !.notified = TRUE] \in Rows
  BY <1>1 DEF Rows
<1>3. /\ [outcome[f] EXCEPT !.notified = TRUE].winner = outcome[f].winner
      /\ [outcome[f] EXCEPT !.notified = TRUE].stale = outcome[f].stale
  BY <1>1 DEF Rows
<1>4. outcome' = [outcome EXCEPT ![f] = [outcome[f] EXCEPT !.notified = TRUE]]
  BY DEF MarkNotified
<1> QED BY <1>2, <1>3, <1>4, ResultAssumption DEF ResultInv, RowsTyped, RowsKept

(* refresh_outcome_goals and mark_outcome_verified keep the winner.        *)
LEMMA VerifiedIsRow ==
  ASSUME NEW row \in Rows, NEW entry, entry.goals \in Goals \cup {None}
  PROVE  /\ Verified(row, entry) \in Rows
         /\ Verified(row, entry).winner = row.winner /\ Verified(row, entry).stale = row.stale
<1> DEFINE g == IF row.winner = entry.winner THEN entry.goals ELSE row.goals
           n == row.checks + 1
           counted == [row EXCEPT !.checks = n]
           new == [row EXCEPT !.checks = n, !.goals = g]
<1>1. g \in Goals \cup {None} /\ n \in Nat
  BY DEF Rows
<1> HIDE DEF g, n
<1>2. counted \in Rows /\ counted.winner = row.winner /\ counted.stale = row.stale
  BY <1>1 DEF Rows
<1>3. new = [counted EXCEPT !.goals = g]
  BY DEF Rows
<1> HIDE DEF counted
<1>4. /\ [counted EXCEPT !.goals = g] \in Rows
      /\ [counted EXCEPT !.goals = g].winner = counted.winner
      /\ [counted EXCEPT !.goals = g].stale = counted.stale
  BY <1>1, <1>2 DEF Rows
<1>5. Verified(row, entry) = new
  BY DEF Verified, g, n
<1> QED BY <1>2, <1>3, <1>4, <1>5

LEMMA VerifyKeepsRows ==
  ASSUME ResultInv, NEW f \in Fixtures, VerifyRow(f) PROVE RowsKept
<1> DEFINE row == verify.rows[f]
           entry == source[f]
           flipped == Decided(entry) /\ entry.winner # row.winner
           sound == Decided(entry) /\ ~flipped /\ Credible(entry)
           new == Verified(outcome[f], entry)
<1>1. outcome[f] \in Rows
  BY DEF VerifyRow, ResultInv, VerifyHolds, RowsTyped
<1>2. outcome' = IF flipped \/ sound THEN [outcome EXCEPT ![f] = new] ELSE outcome
  BY DEF VerifyRow
<1>3. ASSUME flipped \/ sound PROVE new \in Rows /\ new.winner = outcome[f].winner /\ new.stale = outcome[f].stale
  <2>1. entry \in Entries
    BY <1>3 DEF Decided, ResultInv, RowsTyped
  <2>2. entry.goals \in Goals \cup {None}
    BY <2>1, ResultAssumption
  <2> HIDE DEF entry
  <2> QED BY <1>1, <2>2, VerifiedIsRow
<1>4. CASE flipped \/ sound
  <2> HIDE DEF new, flipped, sound
  <2> QED BY <1>2, <1>3, <1>4, ResultAssumption DEF ResultInv, RowsTyped, RowsKept
<1>5. CASE ~(flipped \/ sound)
  BY <1>2, <1>5, SameRows
<1> QED BY <1>4, <1>5

(* record_prediction_outcome inserts a row where there is none.            *)
LEMMA ScoreKeepsRows ==
  ASSUME ResultInv, NEW s \in Settlers, NEW f \in Fixtures, ScoreOutcome(s, f)
  PROVE  /\ RowsKept
         /\ \/ nudging' = nudging
            \/ /\ nudging' = nudging \cup {<<s, f>>} /\ outcome[f] = None
               /\ outcome'[f] # None /\ ~outcome'[f].stale
<1> DEFINE scores == Decided(source[f])
           stale == f \in settle[s].late
           new == [winner |-> source[f].winner, goals |-> FinalGoals(source[f]),
                   notified |-> stale, stale |-> stale, checks |-> 0]
<1>1. /\ outcome' = IF scores /\ outcome[f] = None THEN [outcome EXCEPT ![f] = new] ELSE outcome
      /\ nudging' = IF scores /\ Newly(f) /\ ~stale THEN nudging \cup {<<s, f>>} ELSE nudging
  BY Zenon DEF ScoreOutcome
<1>2. ASSUME scores PROVE new \in Rows /\ new.stale = stale
  <2>1. source[f] \in Entries /\ source[f].winner # None
    BY <1>2 DEF Decided, ResultInv, RowsTyped
  <2>2. source[f].winner \in Winners /\ FinalGoals(source[f]) \in Goals \cup {None}
    BY <2>1, ResultAssumption DEF FinalGoals, Goals
  <2>3. stale \in BOOLEAN
    OBVIOUS
  <2> HIDE DEF stale
  <2> QED BY <2>2, <2>3 DEF Rows
<1>3. CASE scores /\ outcome[f] = None
  <2> HIDE DEF new, scores, stale
  <2>1. RowsKept /\ outcome'[f] = new
    BY <1>1, <1>2, <1>3 DEF ResultInv, RowsTyped, RowsKept
  <2> QED BY <1>1, <1>2, <1>3, <2>1, ResultAssumption
<1>4. CASE ~(scores /\ outcome[f] = None)
  <2> HIDE DEF new, scores, stale
  <2> QED BY <1>1, <1>4, SameRows DEF Newly
<1> QED BY <1>3, <1>4

-----------------------------------------------------------------------------
(* The rows, what is held in memory and the ratings are right at the start *)
(* and stay right in every step.                                           *)
LEMMA ResultInvInit == Init => ResultInv
<1> SUFFICES ASSUME Init PROVE ResultInv
  OBVIOUS
<1>1. RowsTyped
  BY DEF Init, RowsTyped
<1>2. ResultHolds
  BY DEF Init, IdleResult, ResultHolds
<1>3. VerifyHolds
  BY DEF Init, IdleVerify, VerifyHolds
<1>4. LearnsOnce
  BY DEF Init, LearnsOnce
<1> QED BY <1>1, <1>2, <1>3, <1>4 DEF ResultInv

LEMMA ResultInvStep == ResultInv /\ [Next]_vars => ResultInv'
<1> SUFFICES ASSUME ResultInv, [Next]_vars PROVE ResultInv'
  OBVIOUS
<1>1. ASSUME RowsKept, UNCHANGED <<result, verify, nudges>>, nudging' \subseteq nudging,
             source' \in [Fixtures -> Entries \cup {None}]
      PROVE  ResultInv'
  BY <1>1, HeldStays DEF ResultInv, RowsTyped, RowsKept
<1>2. ASSUME RowsKept, ResultHolds', UNCHANGED <<source, verify, nudging, nudges>> PROVE ResultInv'
  BY <1>2, HeldStays DEF ResultInv, RowsTyped, RowsKept
<1>3. ASSUME RowsKept, VerifyHolds', UNCHANGED <<source, result, nudging, nudges>> PROVE ResultInv'
  BY <1>3, HeldStays DEF ResultInv, RowsTyped, RowsKept
<1>4. ASSUME NEW f \in Fixtures, ProviderUpdates(f) PROVE ResultInv'
  <2>1. source' \in [Fixtures -> Entries \cup {None}]
    BY <1>4 DEF ProviderUpdates, ResultInv, RowsTyped
  <2> QED BY <1>1, <1>4, <2>1, SameRows DEF ProviderUpdates
<1>5. ASSUME UNCHANGED <<source, outcome, nudging, nudges, result, verify>> PROVE ResultInv'
  BY <1>1, <1>5, SameRows DEF ResultInv, RowsTyped
<1>6. ASSUME NEW f \in Fixtures, TwoDaysPass(f) \/ WindowCloses(f) PROVE ResultInv'
  BY <1>5, <1>6 DEF TwoDaysPass, WindowCloses
<1>7. ASSUME NEW s \in Settlers, StartSettle(s) \/ (\E f \in Fixtures : FetchFails(s, f)) PROVE ResultInv'
  BY <1>5, <1>7 DEF StartSettle, FetchFails
<1>8. ASSUME NEW s \in Settlers, NEW f \in Fixtures, ScoreOutcome(s, f) PROVE ResultInv'
  <2>1. RowsKept /\ UNCHANGED <<source, result, verify, nudges>>
    BY <1>8, ScoreKeepsRows DEF ScoreOutcome
  <2>2. CASE nudging' = nudging
    BY <1>1, <2>1, <2>2 DEF ResultInv, RowsTyped
  <2>3. CASE /\ nudging' = nudging \cup {<<s, f>>} /\ outcome[f] = None
             /\ outcome'[f] # None /\ ~outcome'[f].stale
    <3>1. nudges[f] = 0 /\ ~\E r \in Settlers : <<r, f>> \in nudging
      BY <2>3 DEF ResultInv, RowsTyped, LearnsOnce
    <3>2. LearnsOnce'
      BY <2>1, <2>3, <3>1 DEF ResultInv, LearnsOnce, RowsKept
    <3> QED BY <2>1, <3>2, HeldStays DEF ResultInv, RowsTyped, RowsKept
  <2> QED BY <1>8, <2>2, <2>3, ScoreKeepsRows
<1>9. ASSUME NEW s \in Settlers, NEW f \in Fixtures, UpdateRatings(s, f) PROVE ResultInv'
  <2>1. /\ <<s, f>> \in nudging /\ nudging' = nudging \ {<<s, f>>}
        /\ UNCHANGED <<source, outcome, result, verify>>
        /\ nudges' = [nudges EXCEPT ![f] = @ + 1] \/ nudges' = nudges
    BY <1>9 DEF UpdateRatings
  <2>2. nudges[f] = 0 /\ outcome[f] # None /\ ~outcome[f].stale
    BY <2>1 DEF ResultInv, LearnsOnce
  <2>3. nudges' \in [Fixtures -> Nat]
    BY <2>1 DEF ResultInv, RowsTyped
  <2>4. LearnsOnce'
    <3> SUFFICES ASSUME NEW g \in Fixtures
                 PROVE  /\ \A q, r \in Settlers : <<q, g>> \in nudging' /\ <<r, g>> \in nudging' => q = r
                        /\ nudges'[g] <= 1
                        /\ (\E r \in Settlers : <<r, g>> \in nudging') => nudges'[g] = 0
                        /\ (\E r \in Settlers : <<r, g>> \in nudging') \/ nudges'[g] = 1 =>
                             outcome'[g] # None /\ ~outcome'[g].stale
      BY DEF LearnsOnce
    <3>1. CASE g = f
      <4>1. ~\E r \in Settlers : <<r, f>> \in nudging'
        BY <2>1 DEF ResultInv, LearnsOnce
      <4>2. nudges'[f] \in {0, 1}
        BY <2>1, <2>2 DEF ResultInv, RowsTyped
      <4> QED BY <2>1, <2>2, <3>1, <4>1, <4>2
    <3>2. CASE g # f
      <4>1. nudges'[g] = nudges[g]
        BY <2>1, <3>2 DEF ResultInv, RowsTyped
      <4> QED BY <2>1, <3>2, <4>1 DEF ResultInv, LearnsOnce
    <3> QED BY <3>1, <3>2
  <2> QED BY <2>1, <2>3, <2>4, SameRows, HeldStays DEF ResultInv, RowsTyped
<1>10. ASSUME StartResults PROVE ResultInv'
  <2>1. result' = [IdleResult EXCEPT !.active = TRUE,
                     !.rows = [f \in Fixtures |-> IF Pending(f) THEN outcome[f].goals ELSE None]]
    BY <1>10 DEF StartResults
  <2>2. UNCHANGED <<source, outcome, verify, nudging, nudges>>
    BY <1>10 DEF StartResults
  <2>3. ResultHolds'
    BY <2>1, <2>2 DEF IdleResult, ResultHolds, Pending
  <2> QED BY <1>2, <2>2, <2>3, SameRows
<1>11. ASSUME NEW f \in Fixtures, PickResult(f) PROVE ResultInv'
  <2> DEFINE chats == Audience(f) \cup Group
             consumed == ~Publishable(f) \/ chats = {}
             mail == [f |-> f, goals |-> result.rows[f], chats |-> chats, ok |-> FALSE]
  <2>1. /\ result.rows[f] # None
        /\ result' = [result EXCEPT !.rows[f] = None, !.mail = IF consumed THEN None ELSE mail]
        /\ IF consumed THEN MarkNotified(f) ELSE UNCHANGED outcome
    BY <1>11, Zenon DEF PickResult, Consume
  <2>2. UNCHANGED <<source, verify, nudging, nudges>>
    BY <1>11 DEF PickResult
  <2>3. outcome[f] # None
    BY <2>1 DEF ResultInv, ResultHolds
  <2>4. RowsKept
    BY <2>1, <2>3, FlagKeepsRows, SameRows
  <2>5. "f" \in DOMAIN mail /\ mail.f = f
    OBVIOUS
  <2> HIDE DEF mail, consumed
  <2>6. ResultHolds'
    BY <2>1, <2>3, <2>4, <2>5 DEF ResultInv, ResultHolds, RowsKept
  <2> QED BY <1>2, <2>2, <2>4, <2>6
<1>12. ASSUME NEW c \in Chats, NEW landed \in BOOLEAN, NEW ack \in BOOLEAN, SendResult(c, landed, ack)
       PROVE  ResultInv'
  <2> DEFINE ok == result.mail.ok \/ (ack /\ c \in Users)
  <2>1. /\ result.mail # None /\ UNCHANGED <<source, outcome, verify, nudging, nudges>>
        /\ result' = [result EXCEPT !.mail = After(result.mail, c, ack)]
    BY <1>12 DEF SendResult
  <2>2. After(result.mail, c, ack) = [result.mail EXCEPT !.chats = result.mail.chats \ {c}, !.ok = ok]
    BY Zenon DEF After
  <2> HIDE DEF ok
  <2>3. ResultHolds'
    BY <2>1, <2>2 DEF ResultInv, ResultHolds
  <2> QED BY <1>2, <2>1, <2>3, SameRows
<1>13. ASSUME FinishResult PROVE ResultInv'
  <2>1. /\ result.mail # None /\ UNCHANGED <<source, verify, nudging, nudges>>
        /\ result' = [result EXCEPT !.mail = None]
        /\ MarkNotified(result.mail.f) \/ outcome' = outcome
    BY <1>13 DEF FinishResult
  <2>2. RowsKept
    BY <2>1, FlagKeepsRows, SameRows DEF ResultInv, ResultHolds
  <2>3. ResultHolds'
    BY <2>1, <2>2 DEF ResultInv, ResultHolds, RowsKept
  <2> QED BY <1>2, <2>1, <2>2, <2>3
<1>14. ASSUME EndResults PROVE ResultInv'
  <2>1. result' = IdleResult /\ UNCHANGED <<source, outcome, verify, nudging, nudges>>
    BY <1>14 DEF EndResults
  <2>2. ResultHolds'
    BY <2>1 DEF IdleResult, ResultHolds
  <2> QED BY <1>2, <2>1, <2>2, SameRows
<1>15. ASSUME StartVerify PROVE ResultInv'
  <2>1. PICK rows : /\ verify' = [IdleVerify EXCEPT !.active = TRUE, !.rows = rows]
                    /\ rows = [f \in Fixtures |->
                         IF outcome[f] # None /\ f \notin closed /\ outcome[f].checks < MaxChecks
                         THEN outcome[f] ELSE None]
    BY <1>15 DEF StartVerify
  <2>2. UNCHANGED <<source, outcome, result, nudging, nudges>>
    BY <1>15 DEF StartVerify
  <2>3. VerifyHolds'
    BY <2>1, <2>2 DEF IdleVerify, VerifyHolds, ResultInv, RowsTyped
  <2> QED BY <1>3, <2>2, <2>3, SameRows
<1>16. ASSUME NEW f \in Fixtures, VerifyRow(f) \/ VerifyFetchFails(f) PROVE ResultInv'
  <2>1. RowsKept
    BY <1>16, VerifyKeepsRows, SameRows DEF VerifyFetchFails
  <2>2. UNCHANGED <<source, result, nudging, nudges>>
    BY <1>16 DEF VerifyRow, VerifyFetchFails
  <2>3. DOMAIN verify' = DOMAIN verify /\ verify'.rows = [verify.rows EXCEPT ![f] = None]
    BY <1>16 DEF VerifyRow, VerifyFetchFails, ResultInv, VerifyHolds
  <2>4. VerifyHolds'
    BY <2>1, <2>3 DEF ResultInv, VerifyHolds, RowsKept
  <2> QED BY <1>3, <2>1, <2>2, <2>4
<1>17. ASSUME outcome' = outcome, UNCHANGED <<source, result, nudging, nudges>>,
              NEW fixed, NEW mail, verify' = [verify EXCEPT !.fixed = fixed, !.mail = mail]
       PROVE  ResultInv'
  <2>1. VerifyHolds'
    BY <1>17 DEF ResultInv, VerifyHolds
  <2> QED BY <1>3, <1>17, <2>1, SameRows
<1>18. ASSUME NEW fix \in verify.fixed, PickCorrection(fix) PROVE ResultInv'
  BY <1>17, <1>18 DEF PickCorrection
<1>19. ASSUME \/ \E c \in Chats, landed, ack \in BOOLEAN : SendCorrection(c, landed, ack)
              \/ FinishCorrection
       PROVE  ResultInv'
  <2>1. PICK mail : verify' = [verify EXCEPT !.mail = mail]
    BY <1>19 DEF SendCorrection, FinishCorrection
  <2>2. UNCHANGED <<source, outcome, result, nudging, nudges>>
    BY <1>19 DEF SendCorrection, FinishCorrection
  <2>3. VerifyHolds'
    BY <2>1, <2>2 DEF ResultInv, VerifyHolds
  <2> QED BY <1>3, <2>2, <2>3, SameRows
<1>20. ASSUME EndVerify PROVE ResultInv'
  <2>1. verify' = IdleVerify /\ UNCHANGED <<source, outcome, result, nudging, nudges>>
    BY <1>20 DEF EndVerify
  <2>2. VerifyHolds'
    BY <2>1 DEF IdleVerify, VerifyHolds
  <2> QED BY <1>3, <2>1, <2>2, SameRows
<1>21. ASSUME Restart PROVE ResultInv'
  <2>1. /\ result' = IdleResult /\ verify' = IdleVerify /\ nudging' \subseteq nudging
        /\ UNCHANGED <<source, outcome, nudges>>
    BY <1>21 DEF Restart
  <2>2. ResultHolds'
    BY <2>1 DEF IdleResult, ResultHolds
  <2>3. VerifyHolds'
    BY <2>1 DEF IdleVerify, VerifyHolds
  <2>4. LearnsOnce'
    BY <2>1, SameRows, HeldStays
  <2> QED BY <2>1, <2>2, <2>3, <2>4 DEF ResultInv, RowsTyped
<1>22. CASE UNCHANGED vars
  BY <1>5, <1>22 DEF vars
<1> QED
  BY <1>4, <1>6, <1>7, <1>8, <1>9, <1>10, <1>11, <1>12, <1>13, <1>14, <1>15, <1>16, <1>18, <1>19, <1>20, <1>21, <1>22
  DEF Next, Settling, ResultStep, Verifying

LEMMA ResultInvHolds == Spec => []ResultInv
BY ResultInvInit, ResultInvStep, PTL DEF Spec

(* A finished match moves the ratings at most once, and a backlog match not*)
(* at all, for any number of fixtures, processes and restarts: the insert  *)
(* of the outcome row decides who may nudge.                               *)
THEOREM RatingsLearnOnceTheorem == Spec => []RatingsLearnOnce
<1>1. ResultInv => RatingsLearnOnce
  BY DEF ResultInv, LearnsOnce, RatingsLearnOnce
<1> QED BY <1>1, ResultInvHolds, PTL

(* Whatever the step, scored rows keep their winner.                       *)
LEMMA StepKeepsRows ==
  ASSUME ResultInv, [Next]_vars PROVE RowsKept
<1>1. ASSUME outcome' = outcome PROVE RowsKept
  BY <1>1, SameRows
<1>2. ASSUME NEW s \in Settlers, NEW f \in Fixtures, ScoreOutcome(s, f) PROVE RowsKept
  BY <1>2, ScoreKeepsRows
<1>3. ASSUME NEW f \in Fixtures, PickResult(f) PROVE RowsKept
  <2>1. outcome[f] # None /\ (MarkNotified(f) \/ outcome' = outcome)
    BY <1>3 DEF PickResult, Consume, ResultInv, ResultHolds
  <2> QED BY <2>1, FlagKeepsRows, SameRows
<1>4. ASSUME FinishResult PROVE RowsKept
  BY <1>4, FlagKeepsRows, SameRows DEF FinishResult, ResultInv, ResultHolds
<1>5. ASSUME NEW f \in Fixtures, VerifyRow(f) PROVE RowsKept
  BY <1>5, VerifyKeepsRows
<1> QED
  BY <1>1, <1>2, <1>3, <1>4, <1>5 DEF Next, vars, Settling, ResultStep, Verifying, ProviderUpdates, TwoDaysPass,
     WindowCloses, StartSettle, FetchFails, UpdateRatings, StartResults, EndResults, SendResult, StartVerify,
     FinishCorrection, EndVerify, VerifyFetchFails, PickCorrection, SendCorrection, Restart

(* The recorded winner is never rewritten, whatever the provider says      *)
(* later and whatever passes overlap.                                      *)
THEOREM WinnerIsFinalTheorem == Spec => WinnerIsFinal
<1>1. ResultInv /\ [Next]_vars =>
        [\A f \in Fixtures : outcome[f] # None =>
           outcome'[f] # None /\ outcome'[f].winner = outcome[f].winner]_vars
  BY StepKeepsRows DEF RowsKept
<1> QED BY <1>1, ResultInvHolds, PTL DEF Spec, WinnerIsFinal

-----------------------------------------------------------------------------
(* What is told                                                            *)

(* What a verification read at its start: nobody else counts its checks,   *)
(* and a flag that was up stays up.                                        *)
ReadRow(f) ==
    /\ verify.rows[f].checks = outcome[f].checks /\ outcome[f].checks < MaxChecks
    /\ verify.rows[f].stale = outcome[f].stale
    /\ verify.rows[f].notified => outcome[f].notified
ReadHolds == \A f \in Fixtures : verify.rows[f] # None => ReadRow(f)

TypeInv == ResultInv /\ TypeOK /\ ReadHolds

(* A pass at rest holds nothing; what the result pass still holds was not  *)
(* flagged, since it alone raises flags.                                   *)
Mailed == result.mail.f
MailOn(f) == result.mail # None /\ result.mail.f = f
ResultPass ==
    /\ ~result.active => result.mail = None /\ \A f \in Fixtures : result.rows[f] = None
    /\ \A f \in Fixtures : result.rows[f] # None => ~outcome[f].notified
    /\ \A f \in Fixtures : MailOn(f) =>
         /\ result.active /\ result.rows[f] = None /\ ~outcome[f].notified /\ Publishable(f)
         /\ result.mail.chats \subseteq Audience(f) \cup Group
VerifyPass ==
    /\ ~verify.active =>
         verify.mail = None /\ verify.fixed = {} /\ \A f \in Fixtures : verify.rows[f] = None
    /\ verify.mail # None => \A f \in Fixtures : verify.rows[f] = None

(* A flag rests on a confirmed message, or on there being nobody to tell;  *)
(* what settlement took as late is flagged from the start.                 *)
FlagsHonest ==
    /\ NotifiedIsHonest
    /\ \A f \in Fixtures : outcome[f] # None /\ outcome[f].stale => outcome[f].notified
    /\ \A f \in Fixtures : MailOn(f) =>
         /\ result.mail.ok => f \in confirmed
         /\ Audience(f) = {} => f \in hushed

(* A user who has a result is covered by the flag, or by the mailing that  *)
(* is about to raise it.                                                   *)
NoLoss == spent.restarts + spent.timeouts = 0
Has(c, f) == Messages(c, f, "result") # {}
OnceOnly ==
    NoLoss => \A c \in Users, f \in Fixtures :
        /\ Has(c, f) => /\ outcome[f] # None
                        /\ \/ outcome[f].notified
                           \/ MailOn(f) /\ result.mail.ok /\ c \notin result.mail.chats
        /\ \A i, j \in Messages(c, f, "result") : i = j

(* A scoreline is good when the recorded winner, or an awarded entry,      *)
(* bears it out.                                                           *)
GoodGoals(f, goals) ==
    \/ Implied(goals) = outcome[f].winner
    \/ \E e \in Entries : e.awarded /\ e.goals = goals
GoodCorrections ==
    /\ \A fix \in verify.fixed : outcome[fix.f] # None /\ GoodGoals(fix.f, fix.goals)
    /\ verify.mail # None => outcome[verify.mail.f] # None /\ GoodGoals(verify.mail.f, verify.mail.goals)
    /\ \A c \in Chats, f \in Fixtures : \A i \in DOMAIN told[c][f] :
         told[c][f][i].kind = "correction" => outcome[f] # None /\ GoodGoals(f, told[c][f][i].goals)

(* Without faults: whoever was told anything was told the result first,    *)
(* and a flag means that everybody was.                                    *)
ResultFirst ==
    \A c \in Chats, f \in Fixtures : told[c][f] # <<>> => told[c][f][1].kind = "result"
FlagReaches ==
    \A f \in Fixtures : outcome[f] # None /\ outcome[f].notified /\ ~outcome[f].stale /\ Publishable(f) =>
        \A c \in Audience(f) \cup Group : told[c][f] # <<>>
MailReaches ==
    \A f \in Fixtures : MailOn(f) =>
        \A c \in (Audience(f) \cup Group) \ result.mail.chats : told[c][f] # <<>>
FixesKnown ==
    \A fix \in verify.fixed :
        /\ fix.stale = outcome[fix.f].stale
        /\ fix.notified => outcome[fix.f].notified
CorrectsTheTold ==
    verify.mail # None => \A c \in verify.mail.chats : told[c][verify.mail.f] # <<>>
Heard == Faultless => ResultFirst /\ FlagReaches /\ MailReaches /\ FixesKnown /\ CorrectsTheTold

(* Without faults and with one pass at a time: what the passes hold is on  *)
(* record, and whoever was told something else has a correction coming.    *)
OneAtATime == ~(result.active /\ verify.active)
ResultHeld ==
    /\ \A f \in Fixtures : result.rows[f] # None => result.rows[f] = outcome[f].goals
    /\ \A f \in Fixtures : MailOn(f) => result.mail.goals = outcome[f].goals
VerifyHeld ==
    /\ \A f \in Fixtures : verify.rows[f] # None => verify.rows[f] = outcome[f]
    /\ \A fix \in verify.fixed : verify.rows[fix.f] = None /\ fix.goals = outcome[fix.f].goals
    /\ verify.mail # None => verify.mail.goals = outcome[verify.mail.f].goals
MailCounts ==
    \A f \in Fixtures : MailOn(f) /\ Audience(f) \ result.mail.chats # {} => result.mail.ok
ToldFor ==
    \A c \in Chats, f \in Fixtures : told[c][f] # <<>> =>
        /\ c \in Audience(f) \cup Group /\ Publishable(f)
        /\ outcome[f] # None /\ ~outcome[f].stale
        /\ outcome[f].notified \/ MailOn(f)
FixComing(f) ==
    \E fix \in verify.fixed :
        fix.f = f /\ fix.notified /\ ~fix.stale /\ fix.goals = outcome[f].goals
MailComing(c, f) == verify.mail # None /\ verify.mail.f = f /\ c \in verify.mail.chats
LastOrComing ==
    \A c \in Chats, f \in Fixtures : told[c][f] # <<>> =>
        Last(told[c][f]).goals = outcome[f].goals \/ FixComing(f) \/ MailComing(c, f)
LastWord == Faultless => OneAtATime /\ ResultHeld /\ VerifyHeld /\ MailCounts /\ ToldFor /\ LastOrComing

ToldInv == TypeInv /\ ResultPass /\ VerifyPass /\ FlagsHonest /\ OnceOnly /\ GoodCorrections /\ Heard

-----------------------------------------------------------------------------
(* What the actions do to what the proofs look at                          *)

(* The row of one fixture is flagged, or nothing happens to the rows.      *)
Flagged(f) ==
    /\ outcome'[f].notified
    /\ outcome'[f].winner = outcome[f].winner /\ outcome'[f].goals = outcome[f].goals
    /\ outcome'[f].stale = outcome[f].stale /\ outcome'[f].checks = outcome[f].checks
    /\ \A g \in Fixtures \ {f} : outcome'[g] = outcome[g]

LEMMA RowFlagged ==
  ASSUME TypeInv, NEW f \in Fixtures, outcome[f] # None, MarkNotified(f)
  PROVE  /\ outcome' \in [Fixtures -> Outcome \cup {None}]
         /\ outcome'[f] # None /\ Flagged(f)
<1> DEFINE row == [outcome[f] EXCEPT !.notified = TRUE]
<1>1. outcome[f] \in Outcome
  BY DEF TypeInv, TypeOK
<1>2. /\ row \in Outcome /\ row.notified /\ row.winner = outcome[f].winner /\ row.goals = outcome[f].goals
      /\ row.stale = outcome[f].stale /\ row.checks = outcome[f].checks
  BY <1>1 DEF Outcome
<1>3. outcome' = [outcome EXCEPT ![f] = row]
  BY DEF MarkNotified
<1>4. row \in Rows
  BY <1>2 DEF Outcome, Rows, MaxChecks
<1> HIDE DEF row
<1>5. outcome'[f] = row /\ \A g \in Fixtures \ {f} : outcome'[g] = outcome[g]
  BY <1>3 DEF TypeInv, TypeOK
<1>6. outcome' \in [Fixtures -> Outcome \cup {None}]
  BY <1>2, <1>3 DEF TypeInv, TypeOK
<1> QED
  BY <1>2, <1>4, <1>5, <1>6, ResultAssumption DEF Flagged

(* A mailing under way is a mailing.                                       *)
LEMMA MailTyped ==
  ASSUME TypeInv
  PROVE  /\ result.mail # None => result.mail \in Mailing /\ Mailed \in Fixtures /\ outcome[Mailed] # None
         /\ verify.mail # None => verify.mail \in Mailing /\ verify.mail.f \in Fixtures
<1>1. result.mail # None => result.mail \in Mailing
  BY DEF TypeInv, TypeOK
<1>2. verify.mail # None => verify.mail \in Mailing
  BY DEF TypeInv, TypeOK
<1> QED
  BY <1>1, <1>2 DEF TypeInv, ResultInv, ResultHolds, Mailing, Mailed

(* Audiences are users; the group is none of them.                         *)
LEMMA AudienceIsUsers ==
  ASSUME TypeInv, NEW f \in Fixtures
  PROVE  Audience(f) \subseteq Users /\ Audience(f) \cup Group \subseteq Chats
BY ResultAssumption DEF TypeInv, TypeOK, Audience, Chats

(* One send: a chat leaves the mailing, an acknowledged private one makes  *)
(* it a success, and what landed is the chat's last message.               *)
Sent(mail, next, c, kind, landed, ack) ==
    /\ c \in mail.chats /\ (ack => landed)
    /\ next \in Mailing /\ next # None /\ next.f = mail.f /\ next.goals = mail.goals
    /\ next.chats = mail.chats \ {c} /\ (next.ok <=> mail.ok \/ (ack /\ c \in Users))
    /\ told' \in [Chats -> [Fixtures -> Seq(Message)]]
    /\ ~landed => told' = told
    /\ landed => /\ told'[c][mail.f] = Append(told[c][mail.f], [kind |-> kind, goals |-> mail.goals])
                 /\ \A d \in Chats, f \in Fixtures :
                      <<d, f>> # <<c, mail.f>> => told'[d][f] = told[d][f]
    /\ spent' = spent \/ ~ack
    /\ ~ack /\ landed => spent'.timeouts > 0
    /\ ~landed => spent'.failures > 0

LEMMA SendFacts ==
  ASSUME TypeInv, NEW mail \in Mailing, NEW c \in Chats, NEW kind \in {"result", "correction"},
         NEW landed \in BOOLEAN, NEW ack \in BOOLEAN, SendOne(mail, c, kind, landed, ack)
  PROVE  Sent(mail, After(mail, c, ack), c, kind, landed, ack)
<1> DEFINE ok == mail.ok \/ (ack /\ c \in Users)
           message == [kind |-> kind, goals |-> mail.goals]
           S == Seq(Message)
<1>1. mail.f \in Fixtures /\ mail.goals \in Goals /\ mail.chats \in SUBSET Chats /\ mail.ok \in BOOLEAN
  BY DEF Mailing
<1>2. After(mail, c, ack) = [mail EXCEPT !.chats = mail.chats \ {c}, !.ok = ok]
  BY Zenon DEF After
<1>3. ok \in BOOLEAN
  BY <1>1
<1>4. ok <=> mail.ok \/ (ack /\ c \in Users)
  OBVIOUS
<1> HIDE DEF ok
<1>5. /\ After(mail, c, ack) \in Mailing /\ After(mail, c, ack).f = mail.f
      /\ After(mail, c, ack).goals = mail.goals /\ After(mail, c, ack).chats = mail.chats \ {c}
      /\ After(mail, c, ack).ok = ok
  BY <1>1, <1>2, <1>3 DEF Mailing
<1>6. After(mail, c, ack) # None
  BY <1>5, ResultAssumption
<1>7. c \in mail.chats /\ (ack => landed)
  BY DEF SendOne, NextChat
<1>8. told \in [Chats -> [Fixtures -> S]]
  BY DEF TypeInv, TypeOK
<1>9. message \in Message
  BY <1>1 DEF Message
<1>10. told' = IF landed THEN [told EXCEPT ![c][mail.f] = Append(@, message)] ELSE told
  BY DEF SendOne
<1>11. CASE ~landed
  <2>1. told' = told /\ told' \in [Chats -> [Fixtures -> S]]
    BY <1>8, <1>10, <1>11
  <2>2. ~ack /\ spent' = [spent EXCEPT !.failures = @ + 1]
    BY <1>7, <1>11 DEF SendOne
  <2>3. spent'.failures > 0
    BY <2>2 DEF TypeInv, TypeOK
  <2> QED
    BY <1>4, <1>5, <1>6, <1>7, <1>11, <2>1, <2>2, <2>3 DEF Sent
<1>12. CASE landed
  <2> DEFINE grown == Append(told[c][mail.f], message)
             line == [told[c] EXCEPT ![mail.f] = grown]
  <2>1. told' = [told EXCEPT ![c] = line]
    BY <1>10, <1>12
  <2>2. grown \in S
    BY <1>1, <1>8, <1>9
  <2> HIDE DEF grown, S
  <2>3. /\ line \in [Fixtures -> S] /\ line[mail.f] = grown
        /\ \A f \in Fixtures : f # mail.f => line[f] = told[c][f]
    BY <1>1, <1>8, <2>2
  <2> HIDE DEF line
  <2>4. /\ told' \in [Chats -> [Fixtures -> S]] /\ told'[c] = line
        /\ \A d \in Chats : d # c => told'[d] = told[d]
    BY <1>8, <2>1, <2>3
  <2>5. /\ told'[c][mail.f] = grown
        /\ \A d \in Chats, f \in Fixtures : <<d, f>> # <<c, mail.f>> => told'[d][f] = told[d][f]
    BY <2>3, <2>4
  <2>6. spent' = spent \/ (~ack /\ spent' = [spent EXCEPT !.timeouts = @ + 1])
    BY <1>12 DEF SendOne
  <2>7. ~ack => spent'.timeouts > 0
    <3>1. ~ack => spent' = [spent EXCEPT !.timeouts = @ + 1]
      BY <1>12 DEF SendOne
    <3> QED
      BY <3>1 DEF TypeInv, TypeOK
  <2> QED
    BY <1>4, <1>5, <1>6, <1>7, <1>12, <2>4, <2>5, <2>6, <2>7 DEF Sent, S, grown
<1> QED
  BY <1>11, <1>12

(* The losses that were spent stay spent.                                  *)
LEMMA LossesStay ==
  ASSUME TypeInv, [Next]_vars
  PROVE  /\ spent' \in [changes : Nat, failures : Nat, timeouts : Nat, restarts : Nat, passes : Nat]
         /\ spent'.failures = 0 => spent.failures = 0
         /\ spent'.timeouts = 0 => spent.timeouts = 0
         /\ spent'.restarts = 0 => spent.restarts = 0
<1> DEFINE Counts == {spent, [spent EXCEPT !.changes = @ + 1], [spent EXCEPT !.failures = @ + 1],
                      [spent EXCEPT !.timeouts = @ + 1], [spent EXCEPT !.restarts = @ + 1],
                      [spent EXCEPT !.passes = @ + 1]}
<1>1. spent' \in Counts
  <2>1. ASSUME NEW f \in Fixtures, ProviderUpdates(f) \/ TwoDaysPass(f) \/ WindowCloses(f)
        PROVE  spent' \in Counts
    BY <2>1 DEF ProviderUpdates, TwoDaysPass, WindowCloses
  <2>2. CASE Settling
    BY <2>2 DEF Settling, StartSettle, ScoreOutcome, FetchFails, UpdateRatings
  <2>3. CASE StartResults \/ ResultStep
    BY <2>3 DEF StartResults, ResultStep, FinishResult, EndResults, PickResult, SendResult, SendOne
  <2>4. CASE Verifying
    BY <2>4 DEF Verifying, StartVerify, FinishCorrection, EndVerify, VerifyRow, VerifyFetchFails,
                PickCorrection, SendCorrection, SendOne
  <2>5. CASE Restart \/ UNCHANGED vars
    BY <2>5 DEF Restart, vars
  <2> QED
    BY <2>1, <2>2, <2>3, <2>4, <2>5 DEF Next
<1>2. spent \in [changes : Nat, failures : Nat, timeouts : Nat, restarts : Nat, passes : Nat]
  BY DEF TypeInv, TypeOK
<1> QED
  BY <1>1, <1>2

(* The result pass takes up a fixture: it flags it, or starts a mailing.   *)
Picked(f) ==
    /\ result.active /\ result.mail = None /\ result.rows[f] # None
    /\ result' \in [active : BOOLEAN, rows : [Fixtures -> Goals \cup {None}], mail : Mailing \cup {None}]
    /\ result'.active /\ result'.rows[f] = None
    /\ \A g \in Fixtures \ {f} : result'.rows[g] = result.rows[g]
    /\ hushed \subseteq hushed' /\ hushed' \subseteq hushed \cup {f}
    /\ ~Publishable(f) \/ Audience(f) = {} => f \in hushed'
    /\ \/ /\ Flagged(f) /\ outcome'[f] # None /\ outcome' \in [Fixtures -> Outcome \cup {None}]
          /\ result'.mail = None /\ (~Publishable(f) \/ Audience(f) \cup Group = {})
       \/ /\ outcome' = outcome /\ Publishable(f)
          /\ result'.mail # None /\ result'.mail.f = f /\ result'.mail.goals = result.rows[f]
          /\ result'.mail.chats = Audience(f) \cup Group /\ ~result'.mail.ok

LEMMA PickFacts ==
  ASSUME TypeInv, NEW f \in Fixtures, PickResult(f)
  PROVE  Picked(f) /\ outcome[f] # None
<1> DEFINE chats == Audience(f) \cup Group
           consumed == ~Publishable(f) \/ chats = {}
           mail == [f |-> f, goals |-> result.rows[f], chats |-> chats, ok |-> FALSE]
           next == IF consumed THEN None ELSE mail
           R == [active : BOOLEAN, rows : [Fixtures -> Goals \cup {None}], mail : Mailing \cup {None}]
<1>1. /\ result.active /\ result.mail = None /\ result.rows[f] # None
      /\ result' = [result EXCEPT !.rows[f] = None, !.mail = next]
      /\ IF consumed THEN MarkNotified(f) ELSE UNCHANGED outcome
  BY Zenon DEF PickResult, Consume
<1>2. hushed' = IF ~Publishable(f) \/ Audience(f) = {} THEN hushed \cup {f} ELSE hushed
  BY DEF PickResult
<1>3. outcome[f] # None /\ result \in R
  BY <1>1 DEF TypeInv, ResultInv, ResultHolds, TypeOK
<1>4. result.rows[f] \in Goals
  BY <1>1, <1>3
<1>5. chats \in SUBSET Chats
  BY AudienceIsUsers
<1>6. mail \in Mailing /\ mail # None
  <2>1. mail \in Mailing
    BY <1>4, <1>5 DEF Mailing
  <2> HIDE DEF mail
  <2> QED
    BY <2>1, ResultAssumption
<1>7. mail.f = f /\ mail.goals = result.rows[f] /\ mail.chats = chats /\ ~mail.ok
  OBVIOUS
<1> HIDE DEF mail
<1>8. next \in Mailing \cup {None}
  BY <1>6
<1> DEFINE rows == [result.rows EXCEPT ![f] = None]
<1>9. /\ rows \in [Fixtures -> Goals \cup {None}] /\ rows[f] = None
      /\ \A g \in Fixtures \ {f} : rows[g] = result.rows[g]
  BY <1>3
<1>10. result' = [result EXCEPT !.rows = rows, !.mail = next]
  BY <1>1
<1> HIDE DEF next, rows
<1>11. result' \in R /\ result'.active = result.active /\ result'.rows = rows /\ result'.mail = next
  BY <1>3, <1>8, <1>9, <1>10
<1>12. CASE consumed
  <2>1. Flagged(f) /\ outcome'[f] # None /\ outcome' \in [Fixtures -> Outcome \cup {None}]
    BY <1>1, <1>3, <1>12, RowFlagged
  <2>2. result'.mail = None
    BY <1>11, <1>12 DEF next
  <2> QED
    BY <1>1, <1>2, <1>3, <1>9, <1>11, <1>12, <2>1, <2>2 DEF Picked
<1>13. CASE ~consumed
  <2>1. result'.mail = mail /\ outcome' = outcome /\ Publishable(f)
    BY <1>1, <1>11, <1>13 DEF next
  <2> QED
    BY <1>1, <1>2, <1>3, <1>6, <1>7, <1>9, <1>11, <2>1 DEF Picked
<1> QED
  BY <1>12, <1>13

(* The verification pass has re-read one row: it counts the check and, if  *)
(* the entry is sound, stores the goals and notes a correction.            *)
Rechecked(f) ==
    /\ verify.rows[f] # None /\ outcome[f] # None
    /\ verify' \in [active : BOOLEAN, rows : [Fixtures -> Outcome \cup {None}],
                    fixed : SUBSET Correction, mail : Mailing \cup {None}]
    /\ verify'.active = verify.active /\ verify'.mail = verify.mail /\ verify'.rows[f] = None
    /\ \A g \in Fixtures \ {f} : verify'.rows[g] = verify.rows[g] /\ outcome'[g] = outcome[g]
    /\ outcome' \in [Fixtures -> Outcome \cup {None}] /\ outcome'[f] # None
    /\ outcome'[f].notified = outcome[f].notified /\ outcome'[f].stale = outcome[f].stale
    /\ outcome'[f].winner = outcome[f].winner
    /\ \/ verify'.fixed = verify.fixed /\ outcome'[f].goals = outcome[f].goals
       \/ \E goals \in Goals :
            /\ GoodGoals(f, goals) /\ outcome'[f].goals = goals
            /\ verify'.fixed = IF goals = verify.rows[f].goals THEN verify.fixed
                               ELSE verify.fixed \cup {[f |-> f, goals |-> goals,
                                 notified |-> verify.rows[f].notified, stale |-> verify.rows[f].stale]}

LEMMA VerifiedFields ==
  ASSUME NEW row \in Outcome, row.checks < MaxChecks, NEW entry, NEW goals \in Goals,
         goals = IF row.winner = entry.winner THEN entry.goals ELSE row.goals
  PROVE  /\ Verified(row, entry) \in Outcome
         /\ Verified(row, entry).winner = row.winner /\ Verified(row, entry).stale = row.stale
         /\ Verified(row, entry).notified = row.notified /\ Verified(row, entry).goals = goals
<1> DEFINE n == row.checks + 1
<1>1. n \in 0 .. MaxChecks
  BY DEF Outcome, MaxChecks
<1> HIDE DEF n
<1>2. Verified(row, entry) = [row EXCEPT !.checks = n, !.goals = goals]
  BY DEF Verified, n
<1> QED
  BY <1>1, <1>2 DEF Outcome

LEMMA RecheckFacts ==
  ASSUME TypeInv, NEW f \in Fixtures, VerifyRow(f)
  PROVE  Rechecked(f)
<1> DEFINE row == verify.rows[f]
           entry == source[f]
           flipped == Decided(entry) /\ entry.winner # row.winner
           sound == Decided(entry) /\ ~flipped /\ Credible(entry)
           V == [active : BOOLEAN, rows : [Fixtures -> Outcome \cup {None}],
                 fixed : SUBSET Correction, mail : Mailing \cup {None}]
           new == Verified(outcome[f], entry)
           fixed == IF sound THEN verify.fixed \cup Fix(f, row, entry) ELSE verify.fixed
           rows == [verify.rows EXCEPT ![f] = None]
<1>1. /\ row # None
      /\ outcome' = IF flipped \/ sound THEN [outcome EXCEPT ![f] = new] ELSE outcome
      /\ verify' = [verify EXCEPT !.rows[f] = None, !.fixed = fixed]
  BY DEF VerifyRow
<1>2. verify \in V /\ row \in Outcome
  BY <1>1 DEF TypeInv, TypeOK
<1>3. outcome[f] # None /\ outcome[f].winner = row.winner /\ outcome[f].checks < MaxChecks
  BY <1>1 DEF TypeInv, ResultInv, VerifyHolds, ReadHolds, ReadRow
<1>4. outcome \in [Fixtures -> Outcome \cup {None}] /\ outcome[f] \in Outcome
  BY <1>3 DEF TypeInv, TypeOK
<1>5. ASSUME sound
      PROVE  entry \in Entries /\ entry.goals \in Goals /\ GoodGoals(f, entry.goals) /\ entry.winner = row.winner
  <2>1. entry \in Entries /\ entry.winner = row.winner /\ Credible(entry)
    BY <1>5 DEF Decided, TypeInv, TypeOK
  <2>2. entry.goals \in Goals
    BY <2>1, ResultAssumption DEF Credible
  <2>3. GoodGoals(f, entry.goals)
    <3> HIDE DEF entry
    <3> QED
      BY <1>3, <2>1 DEF Credible, GoodGoals
  <2> QED
    BY <2>1, <2>2, <2>3
<1>6. ASSUME flipped \/ sound
      PROVE  /\ new \in Outcome /\ new.winner = outcome[f].winner /\ new.stale = outcome[f].stale
             /\ new.notified = outcome[f].notified
             /\ new.goals = IF sound THEN entry.goals ELSE outcome[f].goals
  <2> DEFINE goals == IF outcome[f].winner = entry.winner THEN entry.goals ELSE outcome[f].goals
  <2>1. goals = IF sound THEN entry.goals ELSE outcome[f].goals
    BY <1>3, <1>5, <1>6
  <2>2. goals \in Goals
    BY <1>4, <1>5, <2>1 DEF Outcome
  <2> HIDE DEF entry
  <2>3. goals = IF outcome[f].winner = entry.winner THEN entry.goals ELSE outcome[f].goals
    OBVIOUS
  <2> HIDE DEF goals
  <2>4. /\ new \in Outcome /\ new.winner = outcome[f].winner /\ new.stale = outcome[f].stale
        /\ new.notified = outcome[f].notified /\ new.goals = goals
    BY <1>3, <1>4, <2>2, <2>3, VerifiedFields
  <2> QED
    BY <2>1, <2>4
<1>7. /\ fixed \in SUBSET Correction
      /\ \/ fixed = verify.fixed /\ ~sound
         \/ sound /\ fixed = IF entry.goals = row.goals THEN verify.fixed
                             ELSE verify.fixed \cup {[f |-> f, goals |-> entry.goals,
                                    notified |-> row.notified, stale |-> row.stale]}
  <2>1. CASE sound
    <3>1. fixed = verify.fixed \cup Fix(f, row, entry)
      BY <2>1
    <3>2. [f |-> f, goals |-> entry.goals, notified |-> row.notified, stale |-> row.stale] \in Correction
      BY <1>2, <1>5, <2>1 DEF Outcome, Correction
    <3> QED
      BY <1>2, <2>1, <3>1, <3>2 DEF Fix
  <2>2. CASE ~sound
    BY <1>2, <2>2
  <2> QED
    BY <2>1, <2>2
<1>8. /\ rows \in [Fixtures -> Outcome \cup {None}] /\ rows[f] = None
      /\ \A g \in Fixtures \ {f} : rows[g] = verify.rows[g]
  BY <1>2
<1>9. verify' = [verify EXCEPT !.rows = rows, !.fixed = fixed]
  BY <1>1
<1> HIDE DEF rows, fixed, new
<1>10. /\ verify' \in V /\ verify'.active = verify.active /\ verify'.mail = verify.mail
       /\ verify'.rows = rows /\ verify'.fixed = fixed
  BY <1>2, <1>7, <1>8, <1>9
<1> HIDE DEF row, entry, sound, flipped
<1>11. /\ outcome' \in [Fixtures -> Outcome \cup {None}]
       /\ \A g \in Fixtures \ {f} : outcome'[g] = outcome[g]
       /\ outcome'[f] # None /\ outcome'[f].notified = outcome[f].notified
       /\ outcome'[f].stale = outcome[f].stale /\ outcome'[f].winner = outcome[f].winner
       /\ outcome'[f].goals = IF sound THEN entry.goals ELSE outcome[f].goals
  <2>1. CASE flipped \/ sound
    <3>1. outcome' = [outcome EXCEPT ![f] = new] /\ new \in Outcome
      BY <1>1, <1>6, <2>1
    <3>2. /\ outcome' \in [Fixtures -> Outcome \cup {None}] /\ outcome'[f] = new
          /\ \A g \in Fixtures \ {f} : outcome'[g] = outcome[g]
      BY <1>4, <3>1
    <3>3. new # None
      BY <3>1, ResultAssumption DEF Outcome, Rows, MaxChecks
    <3> QED
      BY <1>6, <2>1, <3>2, <3>3
  <2>2. CASE ~(flipped \/ sound)
    BY <1>1, <1>3, <1>4, <2>2
  <2> QED
    BY <2>1, <2>2
<1>12. CASE sound
  BY <1>1, <1>3, <1>5, <1>7, <1>8, <1>10, <1>11, <1>12 DEF Rechecked, row
<1>13. CASE ~sound
  BY <1>1, <1>3, <1>7, <1>8, <1>10, <1>11, <1>13 DEF Rechecked, row
<1> QED
  BY <1>12, <1>13

(* A correction is taken up: announced to everyone concerned, or dropped.  *)
TakenUp(fix) ==
    /\ verify.active /\ verify.mail = None /\ \A f \in Fixtures : verify.rows[f] = None
    /\ fix \in verify.fixed /\ fix.f \in Fixtures
    /\ verify' \in [active : BOOLEAN, rows : [Fixtures -> Outcome \cup {None}],
                    fixed : SUBSET Correction, mail : Mailing \cup {None}]
    /\ verify'.active = verify.active /\ verify'.rows = verify.rows
    /\ verify'.fixed = verify.fixed \ {fix}
    /\ \/ ~Announced(fix) /\ verify'.mail = None
       \/ /\ Announced(fix) /\ verify'.mail # None
          /\ verify'.mail.f = fix.f /\ verify'.mail.goals = fix.goals
          /\ verify'.mail.chats = Audience(fix.f) \cup Group

LEMMA TakeUpFacts ==
  ASSUME TypeInv, NEW fix \in verify.fixed, PickCorrection(fix)
  PROVE  TakenUp(fix)
<1> DEFINE V == [active : BOOLEAN, rows : [Fixtures -> Outcome \cup {None}],
                 fixed : SUBSET Correction, mail : Mailing \cup {None}]
           mail == [f |-> fix.f, goals |-> fix.goals, chats |-> Audience(fix.f) \cup Group, ok |-> FALSE]
           next == IF Announced(fix) THEN mail ELSE None
           left == verify.fixed \ {fix}
<1>1. /\ verify.active /\ verify.mail = None /\ \A f \in Fixtures : verify.rows[f] = None
      /\ verify' = [verify EXCEPT !.fixed = left, !.mail = next]
  BY DEF PickCorrection
<1>2. verify \in V
  BY DEF TypeInv, TypeOK
<1>3. fix \in Correction
  BY <1>2
<1>4. fix.f \in Fixtures /\ fix.goals \in Goals
  BY <1>3 DEF Correction
<1>5. Audience(fix.f) \cup Group \in SUBSET Chats
  BY <1>4, AudienceIsUsers
<1>6. mail \in Mailing /\ mail # None
  <2>1. mail \in Mailing
    BY <1>4, <1>5 DEF Mailing
  <2> HIDE DEF mail
  <2> QED
    BY <2>1, ResultAssumption
<1>7. mail.f = fix.f /\ mail.goals = fix.goals /\ mail.chats = Audience(fix.f) \cup Group
  OBVIOUS
<1> HIDE DEF mail
<1>8. next \in Mailing \cup {None} /\ left \in SUBSET Correction
  BY <1>2, <1>6
<1>9. next = IF Announced(fix) THEN mail ELSE None
  OBVIOUS
<1> HIDE DEF next, left
<1>10. /\ verify' \in V /\ verify'.active = verify.active /\ verify'.rows = verify.rows
       /\ verify'.fixed = left /\ verify'.mail = next
  BY <1>1, <1>2, <1>8
<1>11. CASE Announced(fix)
  BY <1>1, <1>4, <1>6, <1>7, <1>9, <1>10, <1>11 DEF TakenUp, left
<1>12. CASE ~Announced(fix)
  BY <1>1, <1>4, <1>9, <1>10, <1>12 DEF TakenUp, left
<1> QED
  BY <1>11, <1>12

(* Settlement stores a first row, whose flag is up only when it is stale.  *)
Scored(f) ==
    /\ outcome' \in [Fixtures -> Outcome \cup {None}]
    /\ \A g \in Fixtures : outcome[g] # None \/ g # f => outcome'[g] = outcome[g]
    /\ outcome[f] = None /\ outcome'[f] # None => (outcome'[f].notified <=> outcome'[f].stale)

LEMMA ScoreFacts ==
  ASSUME TypeInv, NEW s \in Settlers, NEW f \in Fixtures, ScoreOutcome(s, f)
  PROVE  Scored(f)
<1> DEFINE stale == f \in settle[s].late
           goals == FinalGoals(source[f])
           row == [winner |-> source[f].winner, goals |-> goals,
                   notified |-> stale, stale |-> stale, checks |-> 0]
           scores == Decided(source[f]) /\ outcome[f] = None
<1>1. outcome' = IF scores THEN [outcome EXCEPT ![f] = row] ELSE outcome
  BY DEF ScoreOutcome
<1>2. outcome \in [Fixtures -> Outcome \cup {None}]
  BY DEF TypeInv, TypeOK
<1>3. ASSUME scores PROVE row \in Outcome
  <2>1. source[f] \in Entries /\ source[f].winner # None
    BY <1>3 DEF Decided, TypeInv, TypeOK
  <2>2. source[f].winner \in Winners /\ source[f].goals \in Goals \cup {None}
    BY <2>1, ResultAssumption
  <2>3. goals \in Goals
    BY <2>2 DEF FinalGoals, Goals
  <2>4. stale \in BOOLEAN
    OBVIOUS
  <2> HIDE DEF stale, goals
  <2> QED
    BY <2>2, <2>3, <2>4 DEF Outcome, MaxChecks
<1>4. row.notified = row.stale
  OBVIOUS
<1> HIDE DEF row
<1>5. CASE scores
  <2>1. /\ outcome' \in [Fixtures -> Outcome \cup {None}] /\ outcome'[f] = row
        /\ \A g \in Fixtures : g # f => outcome'[g] = outcome[g]
    BY <1>1, <1>2, <1>3, <1>5
  <2> QED
    BY <1>4, <1>5, <2>1 DEF Scored
<1>6. CASE ~scores
  BY <1>1, <1>2, <1>6 DEF Scored
<1> QED
  BY <1>5, <1>6

-----------------------------------------------------------------------------
(* Types                                                                   *)

(* The two passes, at rest and under way.                                  *)
ResultSet == [active : BOOLEAN, rows : [Fixtures -> Goals \cup {None}], mail : Mailing \cup {None}]
VerifySet == [active : BOOLEAN, rows : [Fixtures -> Outcome \cup {None}],
              fixed : SUBSET Correction, mail : Mailing \cup {None}]

LEMMA IdleTyped ==
  /\ IdleResult \in ResultSet /\ ~IdleResult.active /\ IdleResult.mail = None
  /\ \A f \in Fixtures : IdleResult.rows[f] = None
  /\ IdleVerify \in VerifySet /\ ~IdleVerify.active /\ IdleVerify.mail = None
  /\ IdleVerify.fixed = {} /\ \A f \in Fixtures : IdleVerify.rows[f] = None
BY DEF IdleResult, IdleVerify, ResultSet, VerifySet

(* A pass starts with what is pending, or with what may be re-read.        *)
ResultsStarted ==
    /\ result' \in ResultSet /\ result'.active /\ result'.mail = None /\ ~result.active
    /\ (IF verify.active THEN 1 ELSE 0) < MaxInFlight
    /\ \A f \in Fixtures : result'.rows[f] # None =>
         /\ outcome[f] # None /\ ~outcome[f].notified /\ result'.rows[f] = outcome[f].goals
LEMMA StartResultsFacts ==
  ASSUME TypeInv, StartResults PROVE ResultsStarted
<1> DEFINE rows == [f \in Fixtures |-> IF Pending(f) THEN outcome[f].goals ELSE None]
<1>1. /\ ~result.active /\ InFlight < MaxInFlight
      /\ result' = [IdleResult EXCEPT !.active = TRUE, !.rows = rows]
  BY DEF StartResults
<1>2. \A f \in Fixtures : Pending(f) => outcome[f] \in Outcome
  BY DEF TypeInv, TypeOK, Pending
<1>3. rows \in [Fixtures -> Goals \cup {None}]
  BY <1>2 DEF Outcome
<1>4. \A f \in Fixtures : rows[f] # None =>
        outcome[f] # None /\ ~outcome[f].notified /\ rows[f] = outcome[f].goals
  BY DEF Pending
<1> HIDE DEF rows
<1>5. result' \in ResultSet /\ result'.active /\ result'.mail = None /\ result'.rows = rows
  BY <1>1, <1>3 DEF IdleResult, ResultSet
<1>6. (IF verify.active THEN 1 ELSE 0) < MaxInFlight
  BY <1>1 DEF InFlight
<1> QED
  BY <1>1, <1>4, <1>5, <1>6 DEF ResultsStarted

VerifyStarted ==
    /\ verify' \in VerifySet /\ verify'.active /\ verify'.mail = None /\ verify'.fixed = {}
    /\ ~verify.active /\ (IF result.active THEN 1 ELSE 0) < MaxInFlight
    /\ \A f \in Fixtures : verify'.rows[f] # None =>
         /\ outcome[f] # None /\ outcome[f].checks < MaxChecks /\ verify'.rows[f] = outcome[f]
LEMMA StartVerifyFacts ==
  ASSUME TypeInv, StartVerify PROVE VerifyStarted
<1> DEFINE rows == [f \in Fixtures |->
                      IF outcome[f] # None /\ f \notin closed /\ outcome[f].checks < MaxChecks
                      THEN outcome[f] ELSE None]
<1>1. /\ ~verify.active /\ InFlight < MaxInFlight
      /\ verify' = [IdleVerify EXCEPT !.active = TRUE, !.rows = rows]
  BY DEF StartVerify
<1>2. rows \in [Fixtures -> Outcome \cup {None}]
  BY DEF TypeInv, TypeOK
<1>3. \A f \in Fixtures : rows[f] # None =>
        outcome[f] # None /\ outcome[f].checks < MaxChecks /\ rows[f] = outcome[f]
  OBVIOUS
<1> HIDE DEF rows
<1>4. /\ verify' \in VerifySet /\ verify'.active /\ verify'.mail = None /\ verify'.fixed = {}
      /\ verify'.rows = rows
  BY <1>1, <1>2 DEF IdleVerify, VerifySet
<1>5. (IF result.active THEN 1 ELSE 0) < MaxInFlight
  BY <1>1 DEF InFlight
<1> QED
  BY <1>1, <1>3, <1>4, <1>5 DEF VerifyStarted

(* A mailing that is over leaves the pass as it was.                       *)
LEMMA MailDropped ==
  ASSUME TypeInv
  PROVE  /\ \A next \in Mailing \cup {None} :
              LET r == [result EXCEPT !.mail = next]
              IN  r \in ResultSet /\ r.active = result.active /\ r.rows = result.rows /\ r.mail = next
         /\ \A next \in Mailing \cup {None} :
              LET v == [verify EXCEPT !.mail = next]
              IN  /\ v \in VerifySet /\ v.active = verify.active /\ v.rows = verify.rows
                  /\ v.fixed = verify.fixed /\ v.mail = next
BY DEF TypeInv, TypeOK, ResultSet, VerifySet

(* A row that could not be re-read is passed over.                         *)
Skipped(f) ==
    /\ verify' \in VerifySet /\ verify'.active = verify.active /\ verify'.fixed = verify.fixed
    /\ verify'.mail = verify.mail /\ verify'.rows[f] = None /\ verify.rows[f] # None
    /\ \A g \in Fixtures \ {f} : verify'.rows[g] = verify.rows[g]
LEMMA SkipFacts ==
  ASSUME TypeInv, NEW f \in Fixtures, VerifyFetchFails(f) PROVE Skipped(f)
<1> DEFINE rows == [verify.rows EXCEPT ![f] = None]
<1>1. verify' = [verify EXCEPT !.rows = rows] /\ verify.rows[f] # None
  BY DEF VerifyFetchFails
<1>2. /\ rows \in [Fixtures -> Outcome \cup {None}] /\ rows[f] = None
      /\ \A g \in Fixtures \ {f} : rows[g] = verify.rows[g]
  BY DEF TypeInv, TypeOK
<1> HIDE DEF rows
<1>3. /\ verify' \in VerifySet /\ verify'.active = verify.active /\ verify'.rows = rows
      /\ verify'.fixed = verify.fixed /\ verify'.mail = verify.mail
  BY <1>1, <1>2 DEF TypeInv, TypeOK, VerifySet
<1> QED
  BY <1>1, <1>2, <1>3 DEF Skipped

-----------------------------------------------------------------------------
(* Every step is of one of these kinds                                     *)

Calm == UNCHANGED <<outcome, result, verify, told, confirmed, hushed, strict>>
Scores == \E f \in Fixtures : Scored(f) /\ UNCHANGED <<result, verify, told, confirmed, hushed, strict>>
StartsResults == ResultsStarted /\ UNCHANGED <<outcome, verify, told, confirmed, hushed, strict>>
Picks ==
    \E f \in Fixtures : Picked(f) /\ outcome[f] # None /\ UNCHANGED <<verify, told, confirmed, strict>>
ResultMailed(c, landed, ack) ==
    /\ result.mail # None /\ Sent(result.mail, result'.mail, c, "result", landed, ack)
    /\ result' \in ResultSet /\ result'.active = result.active /\ result'.rows = result.rows
    /\ confirmed' = IF ack /\ c \in Users THEN confirmed \cup {Mailed} ELSE confirmed
SendsResult ==
    \E c \in Chats, landed, ack \in BOOLEAN :
        ResultMailed(c, landed, ack) /\ UNCHANGED <<outcome, verify, hushed, strict>>
ResultFinished ==
    /\ result.mail # None /\ result.mail.chats = {}
    /\ result' \in ResultSet /\ result'.mail = None
    /\ result'.active = result.active /\ result'.rows = result.rows
    /\ \/ /\ FlagIf(result.mail) /\ Flagged(Mailed) /\ outcome'[Mailed] # None
          /\ outcome' \in [Fixtures -> Outcome \cup {None}]
       \/ ~FlagIf(result.mail) /\ outcome' = outcome
FinishesResult == ResultFinished /\ UNCHANGED <<verify, told, confirmed, hushed, strict>>
EndsResults ==
    /\ result.mail = None /\ result' = IdleResult
    /\ UNCHANGED <<outcome, verify, told, confirmed, hushed, strict>>
StartsVerify == VerifyStarted /\ UNCHANGED <<outcome, result, told, confirmed, hushed, strict>>
Rechecks == \E f \in Fixtures : Rechecked(f) /\ UNCHANGED <<result, told, confirmed, hushed, strict>>
Skips == \E f \in Fixtures : Skipped(f) /\ UNCHANGED <<outcome, result, told, confirmed, hushed, strict>>
TakesUp ==
    \E fix \in verify.fixed :
        TakenUp(fix) /\ UNCHANGED <<outcome, result, told, confirmed, hushed, strict>>
CorrectionMailed(c, landed, ack) ==
    /\ verify.mail # None /\ Sent(verify.mail, verify'.mail, c, "correction", landed, ack)
    /\ verify' \in VerifySet /\ verify'.active = verify.active /\ verify'.rows = verify.rows
    /\ verify'.fixed = verify.fixed
SendsCorrection ==
    \E c \in Chats, landed, ack \in BOOLEAN :
        CorrectionMailed(c, landed, ack) /\ UNCHANGED <<outcome, result, confirmed, hushed, strict>>
CorrectionFinished ==
    /\ verify.mail # None /\ verify.mail.chats = {} /\ verify' \in VerifySet /\ verify'.mail = None
    /\ verify'.active = verify.active /\ verify'.rows = verify.rows /\ verify'.fixed = verify.fixed
FinishesCorrection == CorrectionFinished /\ UNCHANGED <<outcome, result, told, confirmed, hushed, strict>>
EndsVerify ==
    /\ verify.mail = None /\ verify.fixed = {} /\ verify' = IdleVerify
    /\ UNCHANGED <<outcome, result, told, confirmed, hushed, strict>>
Restarts ==
    /\ result' = IdleResult /\ verify' = IdleVerify /\ spent'.restarts > 0
    /\ UNCHANGED <<outcome, told, confirmed, hushed>>

Kinds ==
    \/ Calm \/ Scores \/ StartsResults \/ Picks \/ SendsResult \/ FinishesResult \/ EndsResults
    \/ StartsVerify \/ Rechecks \/ Skips \/ TakesUp \/ SendsCorrection \/ FinishesCorrection
    \/ EndsVerify \/ Restarts

LEMMA StepKinds ==
  ASSUME TypeInv, [Next]_vars
  PROVE  Kinds /\ UNCHANGED <<saw, clears>>
<1>1. UNCHANGED <<saw, clears>>
  BY DEF Next, vars, world, ProviderUpdates, TwoDaysPass, WindowCloses, Settling, StartSettle, ScoreOutcome,
         FetchFails, UpdateRatings, StartResults, ResultStep, FinishResult, EndResults, PickResult,
         SendResult, Verifying, StartVerify, FinishCorrection, EndVerify, VerifyRow, VerifyFetchFails,
         PickCorrection, SendCorrection, Restart
<1>2. ASSUME NEW f \in Fixtures, ProviderUpdates(f) \/ TwoDaysPass(f) \/ WindowCloses(f) PROVE Calm
  BY <1>2 DEF ProviderUpdates, TwoDaysPass, WindowCloses, Calm
<1>3. CASE Settling
  <2>1. ASSUME NEW s \in Settlers, NEW f \in Fixtures, ScoreOutcome(s, f) PROVE Scores
    BY <2>1, ScoreFacts DEF Scores, ScoreOutcome
  <2>2. ASSUME NEW s \in Settlers,
               StartSettle(s) \/ \E f \in Fixtures : FetchFails(s, f) \/ UpdateRatings(s, f)
        PROVE  Calm
    BY <2>2 DEF Calm, StartSettle, FetchFails, UpdateRatings
  <2> QED
    BY <1>1, <1>3, <2>1, <2>2 DEF Settling, Kinds
<1>4. CASE StartResults
  BY <1>1, <1>4, StartResultsFacts DEF StartsResults, StartResults, Kinds
<1>5. ASSUME NEW f \in Fixtures, PickResult(f) PROVE Picks
  BY <1>5, PickFacts DEF Picks, PickResult
<1>6. ASSUME NEW c \in Chats, NEW landed \in BOOLEAN, NEW ack \in BOOLEAN, SendResult(c, landed, ack)
      PROVE  SendsResult
  <2> DEFINE next == After(result.mail, c, ack)
  <2>1. /\ result.mail # None /\ SendOne(result.mail, c, "result", landed, ack)
        /\ result' = [result EXCEPT !.mail = next]
        /\ confirmed' = IF ack /\ c \in Users THEN confirmed \cup {Mailed} ELSE confirmed
        /\ UNCHANGED <<outcome, verify, hushed, strict>>
    BY <1>6 DEF SendResult, Mailed
  <2>2. result.mail \in Mailing
    BY <2>1, MailTyped
  <2>3. Sent(result.mail, next, c, "result", landed, ack)
    BY <2>1, <2>2, SendFacts
  <2>4. next \in Mailing
    BY <2>3 DEF Sent
  <2> HIDE DEF next
  <2>5. /\ result' \in ResultSet /\ result'.active = result.active /\ result'.rows = result.rows
        /\ result'.mail = next
    BY <2>1, <2>4, MailDropped
  <2> QED
    BY <2>1, <2>3, <2>5 DEF SendsResult, ResultMailed
<1>7. CASE FinishResult
  <2>1. /\ result.mail # None /\ result.mail.chats = {} /\ result' = [result EXCEPT !.mail = None]
        /\ IF FlagIf(result.mail) THEN MarkNotified(Mailed) ELSE outcome' = outcome
        /\ UNCHANGED <<verify, told, confirmed, hushed, strict>>
    BY <1>7 DEF FinishResult, Mailed
  <2>2. Mailed \in Fixtures /\ outcome[Mailed] # None
    BY <2>1, MailTyped
  <2>3. /\ result' \in ResultSet /\ result'.active = result.active /\ result'.rows = result.rows
        /\ result'.mail = None
    BY <2>1, MailDropped
  <2>4. FlagIf(result.mail) => /\ Flagged(Mailed) /\ outcome'[Mailed] # None
                               /\ outcome' \in [Fixtures -> Outcome \cup {None}]
    BY <2>1, <2>2, RowFlagged
  <2> QED
    BY <1>1, <2>1, <2>3, <2>4 DEF FinishesResult, ResultFinished, Kinds
<1>8. CASE EndResults
  BY <1>1, <1>8 DEF EndResults, EndsResults, Kinds
<1>9. CASE StartVerify
  BY <1>1, <1>9, StartVerifyFacts DEF StartsVerify, StartVerify, Kinds
<1>10. ASSUME NEW f \in Fixtures, VerifyRow(f) PROVE Rechecks
  BY <1>10, RecheckFacts DEF Rechecks, VerifyRow
<1>11. ASSUME NEW f \in Fixtures, VerifyFetchFails(f) PROVE Skips
  BY <1>11, SkipFacts DEF Skips, VerifyFetchFails
<1>12. ASSUME NEW fix \in verify.fixed, PickCorrection(fix) PROVE TakesUp
  BY <1>12, TakeUpFacts DEF TakesUp, PickCorrection
<1>13. ASSUME NEW c \in Chats, NEW landed \in BOOLEAN, NEW ack \in BOOLEAN, SendCorrection(c, landed, ack)
       PROVE  SendsCorrection
  <2> DEFINE next == After(verify.mail, c, ack)
  <2>1. /\ verify.mail # None /\ SendOne(verify.mail, c, "correction", landed, ack)
        /\ verify' = [verify EXCEPT !.mail = next]
        /\ UNCHANGED <<outcome, result, confirmed, hushed, strict>>
    BY <1>13 DEF SendCorrection
  <2>2. verify.mail \in Mailing
    BY <2>1, MailTyped
  <2>3. Sent(verify.mail, next, c, "correction", landed, ack)
    BY <2>1, <2>2, SendFacts
  <2>4. next \in Mailing
    BY <2>3 DEF Sent
  <2> HIDE DEF next
  <2>5. /\ verify' \in VerifySet /\ verify'.active = verify.active /\ verify'.rows = verify.rows
        /\ verify'.fixed = verify.fixed /\ verify'.mail = next
    BY <2>1, <2>4, MailDropped
  <2> QED
    BY <2>1, <2>3, <2>5 DEF SendsCorrection, CorrectionMailed
<1>14. CASE FinishCorrection
  <2>1. /\ verify.mail # None /\ verify.mail.chats = {} /\ verify' = [verify EXCEPT !.mail = None]
        /\ UNCHANGED <<outcome, result, told, confirmed, hushed, strict>>
    BY <1>14 DEF FinishCorrection
  <2>2. /\ verify' \in VerifySet /\ verify'.active = verify.active /\ verify'.rows = verify.rows
        /\ verify'.fixed = verify.fixed /\ verify'.mail = None
    BY <2>1, MailDropped
  <2> QED
    BY <1>1, <2>1, <2>2 DEF FinishesCorrection, CorrectionFinished, Kinds
<1>15. CASE EndVerify
  BY <1>1, <1>15 DEF EndVerify, EndsVerify, Kinds
<1>16. CASE Restart
  <2>1. spent' = [spent EXCEPT !.restarts = @ + 1]
    BY <1>16 DEF Restart
  <2>2. spent'.restarts > 0
    BY <2>1 DEF TypeInv, TypeOK
  <2> QED
    BY <1>1, <1>16, <2>2 DEF Restart, Restarts, Kinds
<1>17. CASE UNCHANGED vars
  BY <1>1, <1>17 DEF vars, Calm, Kinds
<1> QED
  BY <1>1, <1>2, <1>3, <1>4, <1>5, <1>6, <1>7, <1>8, <1>9, <1>10, <1>11, <1>12, <1>13, <1>14, <1>15, <1>16,
     <1>17 DEF Next, ResultStep, Verifying, Kinds

(* The world of the calls does not move, and without a restart neither     *)
(* does the setting.                                                       *)
LEMMA SameAudience ==
  ASSUME UNCHANGED <<saw, clears>>, NEW f
  PROVE  /\ Audience(f)' = Audience(f)
         /\ strict' = strict => (Publishable(f)' <=> Publishable(f))
BY DEF Audience, Publishable

-----------------------------------------------------------------------------
(* Types are kept                                                          *)

LEMMA LedgerTyped ==
  ASSUME TypeInv, [Next]_vars
  PROVE  /\ source' \in [Fixtures -> Entries \cup {None}] /\ nudges' \in [Fixtures -> Nat]
         /\ late' \subseteq Fixtures /\ closed' \subseteq Fixtures /\ strict' \in BOOLEAN
         /\ settle' \in [Settlers -> [due : SUBSET Fixtures, late : SUBSET Fixtures]]
         /\ nudging' \subseteq Settlers \X Fixtures
<1> DEFINE S == [due : SUBSET Fixtures, late : SUBSET Fixtures]
           Rest == /\ late' \subseteq Fixtures /\ closed' \subseteq Fixtures /\ strict' \in BOOLEAN
                   /\ settle' \in [Settlers -> S] /\ nudging' \subseteq Settlers \X Fixtures
<1>1. source' \in [Fixtures -> Entries \cup {None}] /\ nudges' \in [Fixtures -> Nat]
  BY ResultInvStep DEF TypeInv, ResultInv, RowsTyped
<1>2. /\ late \subseteq Fixtures /\ closed \subseteq Fixtures /\ strict \in BOOLEAN
      /\ settle \in [Settlers -> S] /\ nudging \subseteq Settlers \X Fixtures
  BY DEF TypeInv, TypeOK
<1>3. ASSUME NEW s \in Settlers, NEW new \in S PROVE [settle EXCEPT ![s] = new] \in [Settlers -> S]
  BY <1>2
<1>4. ASSUME NEW f \in Fixtures, ProviderUpdates(f) \/ TwoDaysPass(f) \/ WindowCloses(f) PROVE Rest
  BY <1>2, <1>4 DEF ProviderUpdates, TwoDaysPass, WindowCloses
<1>5. ASSUME NEW s \in Settlers, StartSettle(s) PROVE Rest
  <2> DEFINE due == {f \in Fixtures : outcome[f] = None}
             new == [due |-> due, late |-> due \cap late]
  <2>1. settle' = [settle EXCEPT ![s] = new] /\ UNCHANGED <<late, closed, strict, nudging>>
    BY <1>5 DEF StartSettle
  <2>2. new \in S
    OBVIOUS
  <2> HIDE DEF new, S
  <2> QED
    BY <1>2, <1>3, <2>1, <2>2
<1>6. ASSUME NEW s \in Settlers, NEW f \in Fixtures, Fetched(s, f)
      PROVE  settle' \in [Settlers -> S]
  <2> DEFINE new == [due |-> settle[s].due \ {f}, late |-> settle[s].late \ {f}]
  <2>1. settle' = [settle EXCEPT ![s] = new]
    BY <1>6 DEF Fetched
  <2>2. new \in S
    BY <1>2
  <2> HIDE DEF new, S
  <2> QED
    BY <1>3, <2>1, <2>2
<1>7. ASSUME NEW s \in Settlers, NEW f \in Fixtures, ScoreOutcome(s, f) PROVE Rest
  <2>1. nudging' \subseteq Settlers \X Fixtures
    BY <1>2, <1>7, ScoreKeepsRows DEF TypeInv
  <2>2. Fetched(s, f) /\ UNCHANGED <<late, closed, strict>>
    BY <1>7 DEF ScoreOutcome
  <2> QED
    BY <1>2, <1>6, <2>1, <2>2
<1>8. ASSUME UNCHANGED <<late, closed, strict, settle, nudging>> PROVE Rest
  <2> HIDE DEF S
  <2> QED
    BY <1>2, <1>8
<1>9. ASSUME NEW s \in Settlers, NEW f \in Fixtures, FetchFails(s, f) \/ UpdateRatings(s, f) PROVE Rest
  BY <1>2, <1>6, <1>9 DEF FetchFails, UpdateRatings
<1>10. ASSUME StartResults \/ ResultStep \/ Verifying \/ UNCHANGED vars
       PROVE  UNCHANGED <<late, closed, strict, settle, nudging>>
  <2>1. CASE StartResults \/ ResultStep
    BY <2>1, Zenon DEF StartResults, ResultStep, FinishResult, EndResults, PickResult, SendResult
  <2>2. CASE Verifying
    BY <2>2, Zenon DEF Verifying, StartVerify, FinishCorrection, EndVerify, VerifyRow, VerifyFetchFails,
       PickCorrection, SendCorrection
  <2>3. CASE UNCHANGED vars
    BY <2>3 DEF vars
  <2> QED
    BY <1>10, <2>1, <2>2, <2>3
<1>11. ASSUME Restart PROVE Rest
  <2>1. settle' = [s \in Settlers |-> IF s = "daemon" THEN IdleSettle[s] ELSE settle[s]]
    BY <1>11 DEF Restart
  <2>2. \A s \in Settlers : (IF s = "daemon" THEN IdleSettle[s] ELSE settle[s]) \in S
    BY <1>2 DEF IdleSettle
  <2>3. settle' \in [Settlers -> S]
    BY <2>1, <2>2
  <2>4. /\ nudging' \subseteq nudging /\ strict' \in BOOLEAN
        /\ UNCHANGED <<late, closed>>
    BY <1>11 DEF Restart
  <2> HIDE DEF S
  <2> QED
    BY <1>2, <2>3, <2>4
<1> HIDE DEF Rest
<1>12. Rest
  BY <1>4, <1>5, <1>7, <1>8, <1>9, <1>10, <1>11 DEF Next, Settling
<1> QED
  BY <1>1, <1>12 DEF Rest

LEMMA KindsTyped ==
  ASSUME TypeInv, Kinds
  PROVE  /\ outcome' \in [Fixtures -> Outcome \cup {None}]
         /\ result' \in ResultSet /\ verify' \in VerifySet
         /\ told' \in [Chats -> [Fixtures -> Seq(Message)]]
         /\ confirmed' \subseteq Fixtures /\ hushed' \subseteq Fixtures
<1> DEFINE T == [Chats -> [Fixtures -> Seq(Message)]]
           O == [Fixtures -> Outcome \cup {None}]
<1>1. /\ outcome \in O /\ result \in ResultSet /\ verify \in VerifySet /\ told \in T
      /\ confirmed \subseteq Fixtures /\ hushed \subseteq Fixtures
  BY DEF TypeInv, TypeOK, ResultSet, VerifySet
<1>2. result.mail # None => Mailed \in Fixtures
  BY MailTyped
<1>3. \A f : Scored(f) => outcome' \in O
  BY DEF Scored
<1>4. \A f : Picked(f) => /\ result' \in ResultSet /\ (f \in Fixtures => hushed' \subseteq Fixtures)
                          /\ outcome' \in O
  BY <1>1 DEF Picked, ResultSet
<1>5. \A f : Rechecked(f) => verify' \in VerifySet /\ outcome' \in O
  BY DEF Rechecked, VerifySet
<1>6. \A fix : TakenUp(fix) => verify' \in VerifySet
  BY DEF TakenUp, VerifySet
<1>7. \A mail, next, c, kind, landed, ack : Sent(mail, next, c, kind, landed, ack) => told' \in T
  BY DEF Sent
<1>8. ResultsStarted => result' \in ResultSet
  BY DEF ResultsStarted
<1>9. VerifyStarted => verify' \in VerifySet
  BY DEF VerifyStarted
<1>10. \A f : Skipped(f) => verify' \in VerifySet
  BY DEF Skipped
<1> DEFINE Typed == /\ outcome' \in O /\ result' \in ResultSet /\ verify' \in VerifySet /\ told' \in T
                    /\ confirmed' \subseteq Fixtures /\ hushed' \subseteq Fixtures
<1>11. ASSUME Calm \/ StartsResults \/ StartsVerify PROVE Typed
  <2> HIDE DEF T, O
  <2> QED
    BY <1>1, <1>8, <1>9, <1>11 DEF Calm, StartsResults, StartsVerify
<1>12. ASSUME NEW f \in Fixtures, Scored(f), UNCHANGED <<result, verify, told, confirmed, hushed>>
       PROVE  Typed
  <2> HIDE DEF T, O
  <2> QED
    BY <1>1, <1>3, <1>12
<1>13. ASSUME NEW f \in Fixtures, Picked(f), UNCHANGED <<verify, told, confirmed>> PROVE Typed
  <2> HIDE DEF T, O
  <2> QED
    BY <1>1, <1>4, <1>13
<1>14. ASSUME NEW f \in Fixtures, Rechecked(f), UNCHANGED <<result, told, confirmed, hushed>> PROVE Typed
  <2> HIDE DEF T, O
  <2> QED
    BY <1>1, <1>5, <1>14
<1>15. ASSUME NEW f \in Fixtures, Skipped(f), UNCHANGED <<outcome, result, told, confirmed, hushed>>
       PROVE  Typed
  <2> HIDE DEF T, O
  <2> QED
    BY <1>1, <1>10, <1>15
<1>16. ASSUME NEW fix, TakenUp(fix), UNCHANGED <<outcome, result, told, confirmed, hushed>> PROVE Typed
  <2> HIDE DEF T, O
  <2> QED
    BY <1>1, <1>6, <1>16
<1>17. ASSUME NEW c \in Chats, NEW landed, NEW ack, ResultMailed(c, landed, ack),
              UNCHANGED <<outcome, verify, hushed>>
       PROVE  Typed
  <2>1. told' \in T /\ result' \in ResultSet /\ confirmed' \subseteq Fixtures
    BY <1>1, <1>2, <1>7, <1>17 DEF ResultMailed
  <2> HIDE DEF T, O
  <2> QED
    BY <1>1, <1>17, <2>1
<1>18. ASSUME NEW c \in Chats, NEW landed, NEW ack, CorrectionMailed(c, landed, ack),
              UNCHANGED <<outcome, result, confirmed, hushed>>
       PROVE  Typed
  <2>1. told' \in T /\ verify' \in VerifySet
    BY <1>7, <1>18 DEF CorrectionMailed
  <2> HIDE DEF T, O
  <2> QED
    BY <1>1, <1>18, <2>1
<1>19. ASSUME FinishesResult PROVE Typed
  <2>1. result' \in ResultSet /\ outcome' \in O /\ UNCHANGED <<verify, told, confirmed, hushed>>
    BY <1>1, <1>19 DEF FinishesResult, ResultFinished
  <2> HIDE DEF T, O
  <2> QED
    BY <1>1, <2>1
<1>20. ASSUME FinishesCorrection PROVE Typed
  <2>1. verify' \in VerifySet /\ UNCHANGED <<outcome, result, told, confirmed, hushed>>
    BY <1>20 DEF FinishesCorrection, CorrectionFinished
  <2> HIDE DEF T, O
  <2> QED
    BY <1>1, <2>1
<1>21. ASSUME EndsResults \/ EndsVerify \/ Restarts PROVE Typed
  <2> HIDE DEF T, O
  <2> QED
    BY <1>1, <1>21, IdleTyped DEF EndsResults, EndsVerify, Restarts
<1> HIDE DEF Typed
<1>22. Typed
  BY <1>11, <1>12, <1>13, <1>14, <1>15, <1>16, <1>17, <1>18, <1>19, <1>20, <1>21
     DEF Kinds, Scores, Picks, Rechecks, Skips, TakesUp, SendsResult, SendsCorrection
<1> QED
  BY <1>22 DEF Typed

(* Nobody but the verification itself counts the checks of the rows it     *)
(* holds, and no flag goes down.                                           *)
LEMMA ReadStep ==
  ASSUME TypeInv, Kinds PROVE ReadHolds'
<1>1. \A f \in Fixtures : verify.rows[f] # None => ReadRow(f) /\ outcome[f] # None
  BY DEF TypeInv, ReadHolds, ResultInv, VerifyHolds
<1>2. ASSUME outcome' = outcome, \A f \in Fixtures : verify'.rows[f] \in {None, verify.rows[f]}
      PROVE  ReadHolds'
  BY <1>1, <1>2 DEF ReadHolds, ReadRow
<1>3. ASSUME NEW g \in Fixtures, Flagged(g), verify' = verify PROVE ReadHolds'
  BY <1>1, <1>3 DEF ReadHolds, ReadRow, Flagged
<1>4. CASE Scores
  <2>1. PICK f \in Fixtures : Scored(f) /\ verify' = verify
    BY <1>4 DEF Scores
  <2>2. \A g \in Fixtures : outcome[g] # None => outcome'[g] = outcome[g]
    BY <2>1 DEF Scored
  <2> QED
    BY <1>1, <2>1, <2>2 DEF ReadHolds, ReadRow
<1>5. CASE Picks
  <2>1. PICK f \in Fixtures : Picked(f) /\ verify' = verify
    BY <1>5 DEF Picks
  <2>2. Flagged(f) \/ outcome' = outcome
    BY <2>1 DEF Picked
  <2> QED
    BY <1>2, <1>3, <2>1, <2>2
<1>6. CASE FinishesResult
  <2>1. /\ Mailed \in Fixtures /\ verify' = verify /\ (Flagged(Mailed) \/ outcome' = outcome)
    BY <1>6, MailTyped DEF FinishesResult, ResultFinished
  <2> QED
    BY <1>2, <1>3, <2>1
<1>7. CASE StartsVerify
  BY <1>7 DEF StartsVerify, VerifyStarted, ReadHolds, ReadRow
<1>8. CASE Rechecks
  <2>1. PICK f \in Fixtures : Rechecked(f)
    BY <1>8 DEF Rechecks
  <2>2. /\ verify'.rows[f] = None
        /\ \A g \in Fixtures \ {f} : verify'.rows[g] = verify.rows[g] /\ outcome'[g] = outcome[g]
    BY <2>1 DEF Rechecked
  <2> QED
    BY <1>1, <2>2 DEF ReadHolds, ReadRow
<1>9. CASE Skips
  BY <1>2, <1>9 DEF Skips, Skipped
<1>10. CASE TakesUp
  BY <1>2, <1>10 DEF TakesUp, TakenUp
<1>11. CASE SendsCorrection \/ FinishesCorrection
  BY <1>2, <1>11 DEF SendsCorrection, CorrectionMailed, FinishesCorrection, CorrectionFinished
<1>12. CASE EndsVerify \/ Restarts
  BY <1>2, <1>12, IdleTyped DEF EndsVerify, Restarts
<1>13. CASE Calm \/ StartsResults \/ SendsResult \/ EndsResults
  BY <1>2, <1>13 DEF Calm, StartsResults, SendsResult, EndsResults
<1> QED
  BY <1>4, <1>5, <1>6, <1>7, <1>8, <1>9, <1>10, <1>11, <1>12, <1>13 DEF Kinds

LEMMA TypeStep ==
  ASSUME TypeInv, [Next]_vars PROVE TypeInv'
<1>1. Kinds /\ UNCHANGED <<saw, clears>>
  BY StepKinds
<1>2. ResultInv' /\ ReadHolds'
  BY <1>1, ResultInvStep, ReadStep DEF TypeInv
<1>3. saw' \in [Fixtures -> SUBSET Users] /\ clears' \in [Fixtures -> BOOLEAN]
  BY <1>1 DEF TypeInv, TypeOK
<1>4. /\ source' \in [Fixtures -> Entries \cup {None}] /\ nudges' \in [Fixtures -> Nat]
      /\ late' \subseteq Fixtures /\ closed' \subseteq Fixtures /\ strict' \in BOOLEAN
      /\ settle' \in [Settlers -> [due : SUBSET Fixtures, late : SUBSET Fixtures]]
      /\ nudging' \subseteq Settlers \X Fixtures
  BY LedgerTyped
<1>5. /\ outcome' \in [Fixtures -> Outcome \cup {None}]
      /\ result' \in ResultSet /\ verify' \in VerifySet
      /\ told' \in [Chats -> [Fixtures -> Seq(Message)]]
      /\ confirmed' \subseteq Fixtures /\ hushed' \subseteq Fixtures
  BY <1>1, KindsTyped
<1>6. spent' \in [changes : Nat, failures : Nat, timeouts : Nat, restarts : Nat, passes : Nat]
  BY LossesStay
<1>7. TypeOK'
  BY <1>3, <1>4, <1>5, <1>6, Zenon DEF TypeOK, ResultSet, VerifySet
<1> QED
  BY <1>2, <1>7 DEF TypeInv

LEMMA TypeInit ==
  ASSUME Init PROVE TypeInv
<1>1. ResultInv
  BY ResultInvInit
<1>2. result \in ResultSet /\ verify \in VerifySet /\ \A f \in Fixtures : verify.rows[f] = None
  BY IdleTyped DEF Init
<1>3. told \in [Chats -> [Fixtures -> Seq(Message)]]
  <2>1. <<>> \in Seq(Message)
    OBVIOUS
  <2> QED
    BY <2>1 DEF Init
<1>4. TypeOK
  <2>1. settle \in [Settlers -> [due : SUBSET Fixtures, late : SUBSET Fixtures]]
    BY DEF Init, IdleSettle
  <2>2. spent \in [changes : Nat, failures : Nat, timeouts : Nat, restarts : Nat, passes : Nat]
    BY DEF Init
  <2>3. /\ source \in [Fixtures -> Entries \cup {None}] /\ outcome \in [Fixtures -> Outcome \cup {None}]
        /\ nudges \in [Fixtures -> Nat]
    BY DEF Init
  <2> QED
    BY <1>2, <1>3, <2>1, <2>2, <2>3 DEF Init, TypeOK, ResultSet, VerifySet
<1> QED
  BY <1>1, <1>2, <1>4 DEF TypeInv, ReadHolds

-----------------------------------------------------------------------------
(* The passes                                                              *)

(* Scored rows keep their flags.                                           *)
FlagsStay ==
    \A f \in Fixtures : outcome[f] # None =>
        /\ outcome'[f] # None /\ outcome'[f].notified = outcome[f].notified
        /\ outcome'[f].stale = outcome[f].stale

LEMMA FlagsStayIf ==
  ASSUME TypeInv
  PROVE  /\ outcome' = outcome => FlagsStay
         /\ \A f \in Fixtures : Scored(f) \/ Rechecked(f) => FlagsStay
BY DEF FlagsStay, Scored, Rechecked

LEMMA ResultPassStep ==
  ASSUME TypeInv, ResultPass, Kinds, UNCHANGED <<saw, clears>>
  PROVE  ResultPass'
<1>0. \A f : Audience(f)' = Audience(f) /\ (strict' = strict => (Publishable(f)' <=> Publishable(f)))
  BY SameAudience
<1>1. /\ \A f \in Fixtures : result.rows[f] # None => outcome[f] # None
      /\ result.mail # None => Mailed \in Fixtures /\ outcome[Mailed] # None
  BY MailTyped DEF TypeInv, ResultInv, ResultHolds
<1>2. ASSUME UNCHANGED <<result, strict>>, FlagsStay PROVE ResultPass'
  <2>2. \A f : MailOn(f)' <=> MailOn(f)
    BY <1>2 DEF MailOn, Mailed
  <2>3. \A f \in Fixtures : result.rows[f] # None \/ MailOn(f) =>
          (outcome'[f].notified <=> outcome[f].notified)
    BY <1>1, <1>2 DEF FlagsStay, MailOn, Mailed
  <2> QED
    BY <1>0, <1>2, <2>2, <2>3 DEF ResultPass
<1>3. CASE Calm \/ StartsVerify \/ Skips \/ TakesUp \/ SendsCorrection \/ FinishesCorrection \/ EndsVerify
  BY <1>2, <1>3, FlagsStayIf
     DEF Calm, StartsVerify, Skips, TakesUp, SendsCorrection, FinishesCorrection, EndsVerify
<1>4. CASE Scores \/ Rechecks
  BY <1>2, <1>4, FlagsStayIf DEF Scores, Rechecks
<1>5. CASE StartsResults
  BY <1>5 DEF StartsResults, ResultsStarted, ResultPass, MailOn, Mailed
<1>6. CASE Picks
  <2>1. PICK f \in Fixtures : Picked(f) /\ strict' = strict
    BY <1>6 DEF Picks
  <2>2. /\ result.active /\ result'.active /\ result'.rows[f] = None
        /\ ~outcome[f].notified
        /\ \A g \in Fixtures \ {f} : result'.rows[g] = result.rows[g]
    BY <2>1 DEF Picked, ResultPass
  <2>3. CASE Flagged(f) /\ result'.mail = None
    <3>1. \A g \in Fixtures \ {f} : outcome'[g] = outcome[g]
      BY <2>3 DEF Flagged
    <3> QED
      BY <2>2, <2>3, <3>1 DEF ResultPass, MailOn, Mailed
  <2>4. CASE /\ outcome' = outcome /\ Publishable(f) /\ result'.mail.f = f
             /\ result'.mail.chats = Audience(f) \cup Group
    <3>1. \A g : MailOn(g)' => g = f
      BY <2>4 DEF MailOn, Mailed
    <3> QED
      BY <1>0, <2>1, <2>2, <2>4, <3>1 DEF ResultPass
  <2> QED
    BY <2>1, <2>3, <2>4 DEF Picked
<1>7. CASE SendsResult
  <2>1. PICK c \in Chats, landed \in BOOLEAN, ack \in BOOLEAN :
          ResultMailed(c, landed, ack) /\ UNCHANGED <<outcome, strict>>
    BY <1>7 DEF SendsResult
  <2>2. /\ result.mail # None /\ result'.mail.f = Mailed /\ result'.mail.chats \subseteq result.mail.chats
        /\ result'.active = result.active /\ result'.rows = result.rows
    BY <2>1 DEF ResultMailed, Sent, Mailed
  <2>3. \A f : MailOn(f)' => MailOn(f)
    BY <2>2 DEF MailOn, Mailed
  <2> QED
    BY <1>0, <2>1, <2>2, <2>3 DEF ResultPass
<1>8. CASE FinishesResult
  <2>1. /\ result.mail # None /\ result'.mail = None
        /\ result'.active = result.active /\ result'.rows = result.rows
        /\ \A g \in Fixtures : g # Mailed => outcome'[g] = outcome[g]
    BY <1>8 DEF FinishesResult, ResultFinished, Flagged
  <2> QED
    BY <1>1, <2>1 DEF ResultPass, MailOn, Mailed
<1>9. CASE EndsResults \/ Restarts
  BY <1>9, IdleTyped DEF EndsResults, Restarts, ResultPass, MailOn, Mailed
<1> QED
  BY <1>3, <1>4, <1>5, <1>6, <1>7, <1>8, <1>9 DEF Kinds

LEMMA VerifyPassStep ==
  ASSUME TypeInv, VerifyPass, Kinds PROVE VerifyPass'
<1>1. CASE verify' = verify
  BY <1>1 DEF VerifyPass
<1>2. CASE Calm \/ StartsResults \/ SendsResult \/ FinishesResult \/ EndsResults
  BY <1>1, <1>2 DEF Calm, StartsResults, SendsResult, FinishesResult, EndsResults
<1>3. CASE Scores \/ Picks
  BY <1>1, <1>3 DEF Scores, Picks
<1>4. CASE StartsVerify
  BY <1>4 DEF StartsVerify, VerifyStarted, VerifyPass
<1>5. CASE Rechecks
  <2>1. PICK f \in Fixtures : Rechecked(f)
    BY <1>5 DEF Rechecks
  <2>2. /\ verify.rows[f] # None /\ verify'.active = verify.active /\ verify'.mail = verify.mail
    BY <2>1 DEF Rechecked
  <2> QED
    BY <2>2 DEF VerifyPass
<1>6. CASE Skips
  BY <1>6 DEF Skips, Skipped, VerifyPass
<1>7. CASE TakesUp
  BY <1>7 DEF TakesUp, TakenUp, VerifyPass
<1>8. CASE SendsCorrection \/ FinishesCorrection
  BY <1>8 DEF SendsCorrection, CorrectionMailed, FinishesCorrection, CorrectionFinished, VerifyPass
<1>9. CASE EndsVerify \/ Restarts
  BY <1>9, IdleTyped DEF EndsVerify, Restarts, VerifyPass
<1> QED
  BY <1>2, <1>3, <1>4, <1>5, <1>6, <1>7, <1>8, <1>9 DEF Kinds

-----------------------------------------------------------------------------
(* The flag                                                                *)

LEMMA FlagsHonestStep ==
  ASSUME TypeInv, ResultPass, FlagsHonest, Kinds, UNCHANGED <<saw, clears>>
  PROVE  FlagsHonest'
<1>0. \A f : Audience(f)' = Audience(f)
  BY SameAudience
<1>1. result.mail # None => Mailed \in Fixtures /\ outcome[Mailed] # None
  BY MailTyped
<1>2. ASSUME \A f \in Fixtures : outcome'[f] # None /\ outcome[f] = None =>
                (outcome'[f].notified <=> outcome'[f].stale),
             FlagsStay, confirmed \subseteq confirmed', hushed \subseteq hushed'
      PROVE  /\ NotifiedIsHonest'
             /\ \A f \in Fixtures : outcome'[f] # None /\ outcome'[f].stale => outcome'[f].notified
  BY <1>2 DEF FlagsHonest, NotifiedIsHonest, FlagsStay
<1>3. ASSUME UNCHANGED <<result, confirmed, hushed>>, FlagsStay,
             \A f \in Fixtures : outcome'[f] # None /\ outcome[f] = None =>
                (outcome'[f].notified <=> outcome'[f].stale)
      PROVE  FlagsHonest'
  BY <1>0, <1>2, <1>3 DEF FlagsHonest, MailOn, Mailed
<1>4. ASSUME outcome' = outcome, confirmed \subseteq confirmed', hushed \subseteq hushed'
      PROVE  /\ NotifiedIsHonest'
             /\ \A f \in Fixtures : outcome'[f] # None /\ outcome'[f].stale => outcome'[f].notified
  BY <1>2, <1>4, FlagsStayIf
<1>5. ASSUME NEW f \in Fixtures, Flagged(f), f \in confirmed' \cup hushed',
             confirmed \subseteq confirmed', hushed \subseteq hushed', outcome[f] # None
      PROVE  /\ NotifiedIsHonest'
             /\ \A g \in Fixtures : outcome'[g] # None /\ outcome'[g].stale => outcome'[g].notified
  BY <1>5 DEF FlagsHonest, NotifiedIsHonest, Flagged
<1>6. CASE Calm \/ StartsVerify \/ Skips \/ TakesUp \/ SendsCorrection \/ FinishesCorrection \/ EndsVerify
  BY <1>3, <1>6, FlagsStayIf
     DEF Calm, StartsVerify, Skips, TakesUp, SendsCorrection, FinishesCorrection, EndsVerify
<1>7. CASE Scores
  <2>1. PICK f \in Fixtures : Scored(f) /\ UNCHANGED <<result, confirmed, hushed>>
    BY <1>7 DEF Scores
  <2>2. \A g \in Fixtures : outcome'[g] # None /\ outcome[g] = None =>
          (outcome'[g].notified <=> outcome'[g].stale)
    BY <2>1 DEF Scored
  <2> QED
    BY <1>3, <2>1, <2>2, FlagsStayIf
<1>8. CASE Rechecks
  <2>1. PICK f \in Fixtures : Rechecked(f) /\ UNCHANGED <<result, confirmed, hushed>>
    BY <1>8 DEF Rechecks
  <2>2. \A g \in Fixtures : outcome'[g] # None => outcome[g] # None
    BY <2>1 DEF Rechecked
  <2> QED
    BY <1>3, <2>1, <2>2, FlagsStayIf
<1>9. CASE StartsResults \/ EndsResults \/ Restarts
  <2>1. result'.mail = None /\ UNCHANGED <<outcome, confirmed, hushed>>
    BY <1>9, IdleTyped DEF StartsResults, ResultsStarted, EndsResults, Restarts
  <2> QED
    BY <1>4, <2>1 DEF FlagsHonest, MailOn, Mailed
<1>10. CASE Picks
  <2>1. PICK f \in Fixtures : Picked(f) /\ outcome[f] # None /\ confirmed' = confirmed
    BY <1>10 DEF Picks
  <2>2. hushed \subseteq hushed' /\ (~Publishable(f) \/ Audience(f) = {} => f \in hushed')
    BY <2>1 DEF Picked
  <2>3. CASE Flagged(f) /\ result'.mail = None /\ (~Publishable(f) \/ Audience(f) \cup Group = {})
    <3>1. f \in hushed'
      BY <2>2, <2>3
    <3> QED
      BY <1>5, <2>1, <2>2, <2>3, <3>1 DEF FlagsHonest, MailOn, Mailed
  <2>4. CASE outcome' = outcome /\ result'.mail.f = f /\ ~result'.mail.ok
    BY <1>0, <1>4, <2>1, <2>2, <2>4 DEF FlagsHonest, MailOn, Mailed
  <2> QED
    BY <2>1, <2>3, <2>4 DEF Picked
<1>11. CASE SendsResult
  <2>1. PICK c \in Chats, landed \in BOOLEAN, ack \in BOOLEAN :
          ResultMailed(c, landed, ack) /\ UNCHANGED <<outcome, hushed>>
    BY <1>11 DEF SendsResult
  <2>2. /\ result.mail # None /\ result'.mail.f = Mailed
        /\ result'.mail.ok <=> result.mail.ok \/ (ack /\ c \in Users)
        /\ confirmed' = IF ack /\ c \in Users THEN confirmed \cup {Mailed} ELSE confirmed
    BY <2>1 DEF ResultMailed, Sent, Mailed
  <2>3. \A f : MailOn(f)' => MailOn(f) /\ f = Mailed
    BY <2>2 DEF MailOn, Mailed
  <2>4. confirmed \subseteq confirmed' /\ (result'.mail.ok => result.mail.ok \/ Mailed \in confirmed')
    BY <2>2
  <2> QED
    BY <1>0, <1>4, <2>1, <2>3, <2>4 DEF FlagsHonest
<1>12. CASE FinishesResult
  <2>1. /\ result.mail # None /\ result'.mail = None /\ UNCHANGED <<confirmed, hushed>>
        /\ outcome' = outcome \/ (FlagIf(result.mail) /\ Flagged(Mailed))
    BY <1>12 DEF FinishesResult, ResultFinished
  <2>2. FlagIf(result.mail) => Mailed \in confirmed \cup hushed
    BY <1>1, <2>1 DEF FlagIf, FlagsHonest, MailOn, Mailed
  <2> QED
    BY <1>1, <1>4, <1>5, <2>1, <2>2 DEF FlagsHonest, MailOn, Mailed
<1> QED
  BY <1>6, <1>7, <1>8, <1>9, <1>10, <1>11, <1>12 DEF Kinds

-----------------------------------------------------------------------------
(* A result once                                                           *)

(* A run without losses has had none before; without faults, every send of *)
(* its last step was delivered and confirmed.                              *)
LEMMA CleanBefore ==
  ASSUME TypeInv, [Next]_vars
  PROVE  /\ NoLoss' => NoLoss /\ spent'.restarts = 0 /\ spent'.timeouts = 0
         /\ Faultless' => Faultless /\ NoLoss' /\ spent'.failures = 0
<1>1. spent' \in [changes : Nat, failures : Nat, timeouts : Nat, restarts : Nat, passes : Nat]
  BY LossesStay
<1>2. spent \in [changes : Nat, failures : Nat, timeouts : Nat, restarts : Nat, passes : Nat]
  BY DEF TypeInv, TypeOK
<1>3. /\ spent'.failures \in Nat /\ spent'.timeouts \in Nat /\ spent'.restarts \in Nat
      /\ spent.failures \in Nat /\ spent.timeouts \in Nat /\ spent.restarts \in Nat
  BY <1>1, <1>2
<1> QED
  BY <1>3, LossesStay DEF NoLoss, Faultless

(* Flags only rise, whatever the step.                                     *)
FlagsRise ==
    \A f \in Fixtures : outcome[f] # None =>
        outcome'[f] # None /\ (outcome[f].notified => outcome'[f].notified)

LEMMA KindsRaiseFlags ==
  ASSUME TypeInv, Kinds PROVE FlagsRise
<1>1. \A f \in Fixtures : Scored(f) \/ Rechecked(f) => FlagsRise
  BY FlagsStayIf DEF FlagsStay, FlagsRise
<1>2. \A f \in Fixtures : outcome'[f] # None /\ Flagged(f) => FlagsRise
  BY DEF Flagged, FlagsRise
<1>3. outcome' = outcome => FlagsRise
  BY DEF FlagsRise
<1>4. ASSUME NEW f \in Fixtures, Picked(f) PROVE FlagsRise
  <2>1. outcome' = outcome \/ (outcome'[f] # None /\ Flagged(f))
    BY <1>4 DEF Picked
  <2> QED
    BY <1>2, <1>3, <2>1
<1>5. CASE FinishesResult
  <2>1. Mailed \in Fixtures /\ (outcome' = outcome \/ (outcome'[Mailed] # None /\ Flagged(Mailed)))
    BY <1>5, MailTyped DEF FinishesResult, ResultFinished
  <2> QED
    BY <1>2, <1>3, <2>1
<1>6. CASE Calm \/ StartsResults \/ SendsResult \/ EndsResults
  BY <1>3, <1>6 DEF Calm, StartsResults, SendsResult, EndsResults
<1>7. CASE StartsVerify \/ Skips \/ TakesUp \/ SendsCorrection \/ FinishesCorrection \/ EndsVerify \/ Restarts
  BY <1>3, <1>7 DEF StartsVerify, Skips, TakesUp, SendsCorrection, FinishesCorrection, EndsVerify, Restarts
<1> QED
  BY <1>1, <1>4, <1>5, <1>6, <1>7 DEF Kinds, Scores, Picks, Rechecks

(* What one message adds to the messages of a kind.                        *)
LEMMA MessagesGrow ==
  ASSUME NEW S, NEW s \in Seq(S), NEW m \in S
  PROVE  /\ Append(s, m) \in Seq(S) /\ Append(s, m) # <<>>
         /\ DOMAIN s = 1 .. Len(s) /\ Len(s) \in Nat
         /\ DOMAIN Append(s, m) = 1 .. (Len(s) + 1)
         /\ \A i \in 1 .. Len(s) : Append(s, m)[i] = s[i]
         /\ Append(s, m)[Len(s) + 1] = m
         /\ Len(Append(s, m)) = Len(s) + 1
OBVIOUS

LEMMA MessagesAfter ==
  ASSUME TypeInv, NEW mail \in Mailing, NEW next, NEW c \in Chats, NEW kind \in {"result", "correction"},
         NEW landed, NEW ack, Sent(mail, next, c, kind, landed, ack)
  PROVE  \A d \in Chats, f \in Fixtures :
           /\ \/ kind # "result" \/ ~landed \/ <<d, f>> # <<c, mail.f>>
              => Messages(d, f, "result")' = Messages(d, f, "result")
           /\ Messages(c, mail.f, "result") = {} =>
                \A i, j \in Messages(c, mail.f, "result")' : i = j
<1> DEFINE message == [kind |-> kind, goals |-> mail.goals]
<1>1. mail.f \in Fixtures /\ message \in Message
  BY DEF Mailing, Message
<1>2. /\ ~landed => told' = told
      /\ landed => /\ told'[c][mail.f] = Append(told[c][mail.f], message)
                   /\ \A d \in Chats, f \in Fixtures :
                        <<d, f>> # <<c, mail.f>> => told'[d][f] = told[d][f]
  BY DEF Sent
<1>3. told[c][mail.f] \in Seq(Message)
  BY <1>1 DEF TypeInv, TypeOK
<1>4. message.kind = kind
  OBVIOUS
<1> HIDE DEF message
<1> DEFINE old == told[c][mail.f]
           new == Append(old, message)
<1>5. /\ DOMAIN old = 1 .. Len(old) /\ Len(old) \in Nat /\ DOMAIN new = 1 .. (Len(old) + 1)
      /\ \A i \in 1 .. Len(old) : new[i] = old[i]
      /\ new[Len(old) + 1] = message
  BY <1>1, <1>3, MessagesGrow
<1>6. \A d \in Chats, f \in Fixtures : told'[d][f] = told[d][f] =>
        Messages(d, f, "result")' = Messages(d, f, "result")
  BY DEF Messages
<1>7. ASSUME landed
      PROVE  Messages(c, mail.f, "result") = {i \in 1 .. Len(old) : old[i].kind = "result"}
  BY <1>5 DEF Messages
<1>8. ASSUME landed, NEW f, f = mail.f
      PROVE  Messages(c, f, "result")' = {i \in 1 .. (Len(old) + 1) : new[i].kind = "result"}
  BY <1>2, <1>5, <1>8 DEF Messages
<1> HIDE DEF old, new
<1>9. landed /\ kind # "result" => \A f : f = mail.f => Messages(c, f, "result")' = Messages(c, f, "result")
  <2> SUFFICES ASSUME landed, kind # "result"
               PROVE  \A f : f = mail.f => Messages(c, f, "result")' = Messages(c, f, "result")
    OBVIOUS
  <2>1. {i \in 1 .. (Len(old) + 1) : new[i].kind = "result"} = {i \in 1 .. Len(old) : old[i].kind = "result"}
    BY <1>4, <1>5
  <2> QED
    BY <1>7, <1>8, <2>1
<1> QED
  BY <1>1, <1>2, <1>4, <1>5, <1>6, <1>7, <1>8, <1>9

LEMMA OnceOnlyStep ==
  ASSUME TypeInv, ResultPass, OnceOnly, [Next]_vars, Kinds
  PROVE  OnceOnly'
<1> SUFFICES ASSUME NoLoss' PROVE OnceOnly'
  BY DEF OnceOnly
<1>1. NoLoss /\ spent'.restarts = 0 /\ spent'.timeouts = 0
  BY CleanBefore
<1>2. FlagsRise
  BY KindsRaiseFlags
<1>3. ASSUME NEW c \in Users, NEW f \in Fixtures
      PROVE  /\ Has(c, f) => outcome[f] # None /\ (outcome[f].notified \/
                              (MailOn(f) /\ result.mail.ok /\ c \notin result.mail.chats))
             /\ \A i, j \in Messages(c, f, "result") : i = j
  BY <1>1, <1>3 DEF OnceOnly
<1> DEFINE Kept(f) == outcome'[f].notified
                      \/ (/\ MailOn(f)' /\ (result.mail.ok => result'.mail.ok)
                          /\ result'.mail.chats \subseteq result.mail.chats)
<1>4. ASSUME \A c \in Users, f \in Fixtures : Messages(c, f, "result")' = Messages(c, f, "result"),
             \A f \in Fixtures : MailOn(f) /\ result.mail.ok => Kept(f)
      PROVE  OnceOnly'
  BY <1>2, <1>3, <1>4 DEF OnceOnly, FlagsRise, Has
<1>5. told' = told => \A c \in Users, f \in Fixtures : Messages(c, f, "result")' = Messages(c, f, "result")
  BY DEF Messages
<1>6. result' = result => \A f \in Fixtures : MailOn(f) /\ result.mail.ok => Kept(f)
  BY DEF MailOn
<1>7. result.mail = None => \A f \in Fixtures : ~MailOn(f)
  BY DEF MailOn
<1>8. CASE Calm \/ StartsVerify \/ Skips \/ TakesUp \/ FinishesCorrection \/ EndsVerify
  BY <1>4, <1>5, <1>6, <1>8 DEF Calm, StartsVerify, Skips, TakesUp, FinishesCorrection, EndsVerify
<1>9. CASE Scores \/ Rechecks
  BY <1>4, <1>5, <1>6, <1>9 DEF Scores, Rechecks
<1>10. CASE StartsResults \/ EndsResults
  BY <1>4, <1>5, <1>7, <1>10 DEF StartsResults, ResultsStarted, EndsResults, ResultPass
<1>11. CASE Picks
  <2>1. told' = told /\ result.mail = None
    BY <1>11 DEF Picks, Picked
  <2> QED
    BY <1>4, <1>5, <1>7, <2>1
<1>12. CASE SendsResult
  <2>1. PICK c \in Chats, landed \in BOOLEAN, ack \in BOOLEAN :
          ResultMailed(c, landed, ack) /\ outcome' = outcome
    BY <1>12 DEF SendsResult
  <2>2. PICK mail \in Mailing, f \in Fixtures : mail = result.mail /\ f = mail.f /\ MailOn(f)
    BY <2>1, MailTyped DEF ResultMailed, MailOn, Mailed
  <2>3. Sent(mail, result'.mail, c, "result", landed, ack)
    BY <2>1, <2>2 DEF ResultMailed
  <2>4. /\ c \in mail.chats /\ (ack => landed) /\ (~ack /\ landed => spent'.timeouts > 0)
        /\ result'.mail # None /\ result'.mail.f = f
        /\ result'.mail.chats = mail.chats \ {c} /\ (result'.mail.ok <=> mail.ok \/ (ack /\ c \in Users))
    BY <2>2, <2>3 DEF Sent
  <2>5. landed => ack
    BY <1>1, <2>4
  <2>6. ~outcome[f].notified
    BY <2>2 DEF ResultPass
  <2>7. c \in Users => ~Has(c, f)
    BY <1>3, <2>2, <2>4, <2>6
  <2>8. \A d \in Chats, g \in Fixtures :
          /\ ~landed \/ <<d, g>> # <<c, f>> => Messages(d, g, "result")' = Messages(d, g, "result")
          /\ Messages(c, f, "result") = {} => \A i, j \in Messages(c, f, "result")' : i = j
    <3>1. \A d \in Chats, g \in Fixtures :
            /\ \/ "result" # "result" \/ ~landed \/ <<d, g>> # <<c, mail.f>>
               => Messages(d, g, "result")' = Messages(d, g, "result")
            /\ Messages(c, mail.f, "result") = {} =>
                 \A i, j \in Messages(c, mail.f, "result")' : i = j
      BY <2>3, MessagesAfter
    <3> QED
      BY <2>2, <3>1
  <2>9. MailOn(f)' /\ (mail.ok => result'.mail.ok) /\ result'.mail.chats \subseteq mail.chats
    BY <2>4 DEF MailOn
  <2>10. \A g \in Fixtures : MailOn(g) => g = f
    BY <2>2 DEF MailOn
  <2>11. Users \subseteq Chats
    BY DEF Chats
  <2>12. ASSUME NEW d \in Users, NEW g \in Fixtures
         PROVE  /\ Has(d, g)' => outcome'[g] # None /\ (outcome'[g].notified \/
                              (MailOn(g)' /\ result'.mail.ok /\ d \notin result'.mail.chats))
                /\ \A i, j \in Messages(d, g, "result")' : i = j
    <3>1. CASE ~landed \/ <<d, g>> # <<c, f>>
      <4>1. Messages(d, g, "result")' = Messages(d, g, "result")
        BY <2>8, <2>11, <3>1
      <4> QED
        BY <1>3, <2>1, <2>2, <2>9, <2>10, <4>1 DEF Has
    <3>2. CASE landed /\ <<d, g>> = <<c, f>>
      <4>1. d = c /\ g = f /\ ack /\ c \in Users
        BY <2>5, <3>2
      <4>2. outcome[f] # None
        BY <2>2, MailTyped DEF Mailed, MailOn
      <4>3. Messages(c, f, "result") = {}
        BY <2>7, <4>1 DEF Has
      <4> QED
        BY <2>1, <2>4, <2>8, <2>9, <4>1, <4>2, <4>3
    <3> QED
      BY <3>1, <3>2
  <2> QED
    BY <2>12 DEF OnceOnly
<1>13. CASE FinishesResult
  <2>1. /\ result.mail # None /\ told' = told
        /\ \/ Flagged(Mailed)
           \/ ~FlagIf(result.mail)
    BY <1>13 DEF FinishesResult, ResultFinished
  <2>2. \A f \in Fixtures : MailOn(f) /\ result.mail.ok => outcome'[f].notified
    BY <2>1 DEF MailOn, FlagIf, Flagged, Mailed
  <2> QED
    BY <1>4, <1>5, <2>1, <2>2
<1>14. CASE SendsCorrection
  <2>1. PICK c \in Chats, landed \in BOOLEAN, ack \in BOOLEAN :
          CorrectionMailed(c, landed, ack) /\ result' = result
    BY <1>14 DEF SendsCorrection
  <2>2. PICK mail \in Mailing : mail = verify.mail
    BY <2>1, MailTyped DEF CorrectionMailed
  <2>3. Sent(mail, verify'.mail, c, "correction", landed, ack)
    BY <2>1, <2>2 DEF CorrectionMailed
  <2>4. \A d \in Chats, g \in Fixtures : Messages(d, g, "result")' = Messages(d, g, "result")
    <3>1. \A d \in Chats, g \in Fixtures :
             \/ "correction" # "result" \/ ~landed \/ <<d, g>> # <<c, mail.f>>
               => Messages(d, g, "result")' = Messages(d, g, "result")
      BY <2>3, MessagesAfter
    <3> QED
      BY <3>1
  <2>5. Users \subseteq Chats
    BY DEF Chats
  <2> QED
    BY <1>4, <1>6, <2>1, <2>4, <2>5
<1>15. CASE Restarts
  <2>1. FALSE
    BY <1>1, <1>15 DEF Restarts
  <2> QED
    BY <2>1
<1> QED
  BY <1>8, <1>9, <1>10, <1>11, <1>12, <1>13, <1>14, <1>15 DEF Kinds

-----------------------------------------------------------------------------
(* Corrections                                                             *)

(* A scoreline that was good stays good, since the winner is final.        *)
LEMMA GoodStays ==
  ASSUME RowsKept
  PROVE  \A f \in Fixtures : outcome[f] # None =>
           outcome'[f] # None /\ \A goals : GoodGoals(f, goals) => GoodGoals(f, goals)'
BY DEF RowsKept, GoodGoals

(* The three places a correction passes through.                           *)
GoodFixes == \A fix \in verify.fixed : outcome[fix.f] # None /\ GoodGoals(fix.f, fix.goals)
GoodMail ==
    \A f \in Fixtures, goals \in Goals :
        verify.mail # None /\ verify.mail.f = f /\ verify.mail.goals = goals =>
            outcome[f] # None /\ GoodGoals(f, goals)
GoodTold ==
    \A c \in Chats, f \in Fixtures, goals \in Goals :
        (\E i \in DOMAIN told[c][f] : told[c][f][i] = [kind |-> "correction", goals |-> goals]) =>
            outcome[f] # None /\ GoodGoals(f, goals)
GoodParts == GoodFixes /\ GoodMail /\ GoodTold

LEMMA FixesTyped ==
  ASSUME TypeInv PROVE \A fix \in verify.fixed : fix.f \in Fixtures /\ fix.goals \in Goals
BY DEF TypeInv, TypeOK, Correction

LEMMA PartsAreGood ==
  ASSUME TypeInv PROVE GoodParts <=> GoodCorrections
<1>1. GoodMail <=> (verify.mail # None =>
          outcome[verify.mail.f] # None /\ GoodGoals(verify.mail.f, verify.mail.goals))
  <2>1. verify.mail # None => verify.mail.f \in Fixtures /\ verify.mail.goals \in Goals
    BY DEF TypeInv, TypeOK, Mailing
  <2> QED
    BY <2>1 DEF GoodMail
<1>2. \A c \in Chats, f \in Fixtures : \A i \in DOMAIN told[c][f] :
        /\ told[c][f][i].goals \in Goals
        /\ told[c][f][i].kind = "correction" =>
             told[c][f][i] = [kind |-> "correction", goals |-> told[c][f][i].goals]
  <2> TAKE c \in Chats, f \in Fixtures
  <2>1. told[c][f] \in Seq(Message)
    BY DEF TypeInv, TypeOK
  <2>2. \A i \in DOMAIN told[c][f] : told[c][f][i] \in Message
    BY <2>1
  <2> QED
    BY <2>2 DEF Message
<1>3. \A goals : [kind |-> "correction", goals |-> goals].kind = "correction"
              /\ [kind |-> "correction", goals |-> goals].goals = goals
  OBVIOUS
<1>4. GoodTold <=> \A c \in Chats, f \in Fixtures : \A i \in DOMAIN told[c][f] :
         told[c][f][i].kind = "correction" => outcome[f] # None /\ GoodGoals(f, told[c][f][i].goals)
  <2> DEFINE Each == \A c \in Chats, f \in Fixtures : \A i \in DOMAIN told[c][f] :
         told[c][f][i].kind = "correction" => outcome[f] # None /\ GoodGoals(f, told[c][f][i].goals)
  <2>1. ASSUME GoodTold, NEW c \in Chats, NEW f \in Fixtures, NEW i \in DOMAIN told[c][f],
               told[c][f][i].kind = "correction"
        PROVE  outcome[f] # None /\ GoodGoals(f, told[c][f][i].goals)
    BY <1>2, <2>1 DEF GoodTold
  <2>2. ASSUME Each, NEW c \in Chats, NEW f \in Fixtures, NEW goals \in Goals, NEW i \in DOMAIN told[c][f],
               told[c][f][i] = [kind |-> "correction", goals |-> goals]
        PROVE  outcome[f] # None /\ GoodGoals(f, goals)
    <3>1. told[c][f][i].kind = "correction" /\ told[c][f][i].goals = goals
      BY <1>3, <2>2
    <3> QED
      BY <2>2, <3>1
  <2> QED
    BY <2>1, <2>2 DEF GoodTold
<1> QED
  BY <1>1, <1>4 DEF GoodParts, GoodFixes, GoodCorrections

LEMMA GoodPartsStep ==
  ASSUME TypeInv, GoodParts, [Next]_vars, Kinds
  PROVE  GoodParts'
<1>1. \A f \in Fixtures : outcome[f] # None =>
        outcome'[f] # None /\ \A goals : GoodGoals(f, goals) => GoodGoals(f, goals)'
  BY StepKeepsRows, GoodStays DEF TypeInv
<1>2. \A fix \in verify.fixed : fix.f \in Fixtures /\ fix.goals \in Goals
  BY FixesTyped
<1>3. verify'.fixed \subseteq verify.fixed => GoodFixes'
  BY <1>1, <1>2 DEF GoodParts, GoodFixes
<1>4. (/\ verify'.mail # None => verify.mail # None /\ verify'.mail.f = verify.mail.f
                              /\ verify'.mail.goals = verify.mail.goals) => GoodMail'
  BY <1>1 DEF GoodParts, GoodMail
<1>5. told' = told => GoodTold'
  BY <1>1 DEF GoodParts, GoodTold
<1>6. verify' = verify => GoodFixes' /\ GoodMail'
  BY <1>3, <1>4
<1>7. CASE Calm \/ StartsResults \/ FinishesResult \/ EndsResults
  BY <1>5, <1>6, <1>7 DEF Calm, StartsResults, FinishesResult, EndsResults, GoodParts
<1>8. CASE Scores \/ Picks
  BY <1>5, <1>6, <1>8 DEF Scores, Picks, GoodParts
<1>9. CASE StartsVerify
  BY <1>3, <1>4, <1>5, <1>9 DEF StartsVerify, VerifyStarted, GoodParts
<1>10. CASE EndsVerify \/ Restarts
  BY <1>3, <1>4, <1>5, <1>10, IdleTyped DEF EndsVerify, Restarts, GoodParts
<1>11. CASE Skips
  BY <1>3, <1>4, <1>5, <1>11 DEF Skips, Skipped, GoodParts
<1>12. CASE FinishesCorrection
  BY <1>3, <1>4, <1>5, <1>12 DEF FinishesCorrection, CorrectionFinished, GoodParts
<1>13. CASE TakesUp
  <2>1. PICK fix \in verify.fixed : TakenUp(fix) /\ told' = told /\ outcome' = outcome
    BY <1>13 DEF TakesUp
  <2>2. /\ verify'.fixed \subseteq verify.fixed
        /\ verify'.mail # None => verify'.mail.f = fix.f /\ verify'.mail.goals = fix.goals
    BY <2>1 DEF TakenUp
  <2>3. outcome'[fix.f] # None /\ GoodGoals(fix.f, fix.goals)'
    BY <1>1, <1>2 DEF GoodParts, GoodFixes
  <2>4. GoodMail'
    BY <2>2, <2>3 DEF GoodMail
  <2> QED
    BY <1>3, <1>5, <2>1, <2>2, <2>4 DEF GoodParts
<1>14. CASE Rechecks
  <2>1. PICK f \in Fixtures : Rechecked(f) /\ told' = told
    BY <1>14 DEF Rechecks
  <2>2. verify'.mail = verify.mail /\ outcome[f] # None
    BY <2>1 DEF Rechecked
  <2>3. GoodFixes'
    <3>1. CASE verify'.fixed = verify.fixed
      BY <1>3, <3>1
    <3>2. ASSUME NEW goals \in Goals, GoodGoals(f, goals),
                 verify'.fixed = verify.fixed \cup {[f |-> f, goals |-> goals,
                                 notified |-> verify.rows[f].notified, stale |-> verify.rows[f].stale]}
          PROVE  GoodFixes'
      <4> DEFINE fix == [f |-> f, goals |-> goals,
                         notified |-> verify.rows[f].notified, stale |-> verify.rows[f].stale]
      <4>1. fix.f = f /\ fix.goals = goals
        OBVIOUS
      <4>2. outcome'[f] # None /\ GoodGoals(f, goals)'
        BY <1>1, <2>2, <3>2
      <4>3. verify'.fixed = verify.fixed \cup {fix}
        BY <3>2
      <4> HIDE DEF fix
      <4>4. \A x \in verify.fixed : outcome'[x.f] # None /\ GoodGoals(x.f, x.goals)'
        BY <1>1, <1>2 DEF GoodParts, GoodFixes
      <4> QED
        BY <4>1, <4>2, <4>3, <4>4 DEF GoodFixes
    <3> QED
      BY <2>1, <3>1, <3>2 DEF Rechecked
  <2> QED
    BY <1>4, <1>5, <2>1, <2>2, <2>3 DEF GoodParts
<1>15. ASSUME NEW mail \in Mailing, NEW next, NEW c \in Chats, NEW kind \in {"result", "correction"},
              NEW landed, NEW ack, Sent(mail, next, c, kind, landed, ack),
              kind = "correction" => outcome[mail.f] # None /\ GoodGoals(mail.f, mail.goals)
       PROVE  GoodTold'
  <2> DEFINE message == [kind |-> kind, goals |-> mail.goals]
             old == told[c][mail.f]
             new == Append(old, message)
  <2>1. mail.f \in Fixtures /\ mail.goals \in Goals /\ message \in Message
    BY DEF Mailing, Message
  <2>2. /\ ~landed => told' = told
        /\ landed => /\ told'[c][mail.f] = new
                     /\ \A d \in Chats, f \in Fixtures :
                          <<d, f>> # <<c, mail.f>> => told'[d][f] = told[d][f]
    BY <1>15 DEF Sent
  <2>3. old \in Seq(Message)
    BY <2>1 DEF TypeInv, TypeOK
  <2>4. \A goals : message = [kind |-> "correction", goals |-> goals] =>
          kind = "correction" /\ goals = mail.goals
    OBVIOUS
  <2> HIDE DEF message
  <2>5. /\ DOMAIN old = 1 .. Len(old) /\ Len(old) \in Nat /\ DOMAIN new = 1 .. (Len(old) + 1)
        /\ \A i \in 1 .. Len(old) : new[i] = old[i]
        /\ new[Len(old) + 1] = message
    BY <2>1, <2>3, MessagesGrow
  <2>6. \A m : (\E i \in DOMAIN new : new[i] = m) => m = message \/ \E i \in DOMAIN old : old[i] = m
    BY <2>5
  <2> SUFFICES ASSUME landed PROVE GoodTold'
    BY <1>5, <2>2
  <2> SUFFICES ASSUME NEW d \in Chats, NEW f \in Fixtures, NEW goals \in Goals,
                      \E i \in DOMAIN told'[d][f] :
                          told'[d][f][i] = [kind |-> "correction", goals |-> goals]
               PROVE  outcome'[f] # None /\ GoodGoals(f, goals)'
    BY DEF GoodTold
  <2>7. ASSUME \E i \in DOMAIN told[d][f] : told[d][f][i] = [kind |-> "correction", goals |-> goals]
        PROVE  outcome'[f] # None /\ GoodGoals(f, goals)'
    BY <1>1, <2>7 DEF GoodParts, GoodTold
  <2>8. CASE <<d, f>> # <<c, mail.f>>
    BY <2>2, <2>7, <2>8
  <2>9. CASE <<d, f>> = <<c, mail.f>>
    <3>1. told'[d][f] = new /\ told[d][f] = old
      BY <2>2, <2>9
    <3> DEFINE m == [kind |-> "correction", goals |-> goals]
    <3> HIDE DEF old, new, m
    <3>2. m = message \/ \E i \in DOMAIN told[d][f] : told[d][f][i] = m
      BY <2>6, <3>1 DEF m
    <3>3. CASE m = message
      BY <1>1, <1>15, <2>1, <2>4, <2>9, <3>3 DEF m
    <3> QED
      BY <2>7, <3>2, <3>3 DEF m
  <2> QED
    BY <2>8, <2>9
<1>16. CASE SendsResult
  <2>1. PICK c \in Chats, landed \in BOOLEAN, ack \in BOOLEAN :
          ResultMailed(c, landed, ack) /\ verify' = verify
    BY <1>16 DEF SendsResult
  <2>2. result.mail \in Mailing /\ Sent(result.mail, result'.mail, c, "result", landed, ack)
    BY <2>1, MailTyped DEF ResultMailed
  <2>3. PICK mail \in Mailing : mail = result.mail
    BY <2>2
  <2>4. PICK next : next = result'.mail
    OBVIOUS
  <2>5. GoodTold'
    BY <1>15, <2>2, <2>3, <2>4
  <2> QED
    BY <1>6, <2>1, <2>5 DEF GoodParts
<1>17. CASE SendsCorrection
  <2>1. PICK c \in Chats, landed \in BOOLEAN, ack \in BOOLEAN : CorrectionMailed(c, landed, ack)
    BY <1>17 DEF SendsCorrection
  <2>2. /\ verify.mail # None /\ Sent(verify.mail, verify'.mail, c, "correction", landed, ack)
        /\ verify'.fixed = verify.fixed /\ verify.mail \in Mailing
    BY <2>1, MailTyped DEF CorrectionMailed
  <2>3. PICK mail \in Mailing : mail = verify.mail
    BY <2>2
  <2>10. PICK next : next = verify'.mail
    OBVIOUS
  <2>4. mail.f \in Fixtures /\ mail.goals \in Goals
    BY DEF Mailing
  <2>5. outcome[mail.f] # None /\ GoodGoals(mail.f, mail.goals)
    BY <2>2, <2>3, <2>4 DEF GoodParts, GoodMail
  <2>6. Sent(mail, next, c, "correction", landed, ack)
    BY <2>2, <2>3, <2>10
  <2>7. GoodTold'
    BY <1>15, <2>5, <2>6
  <2>8. next.f = mail.f /\ next.goals = mail.goals
    BY <2>6 DEF Sent
  <2>9. GoodMail'
    BY <1>4, <2>2, <2>3, <2>8, <2>10
  <2> QED
    BY <1>3, <2>2, <2>7, <2>9 DEF GoodParts
<1> QED
  BY <1>7, <1>8, <1>9, <1>10, <1>11, <1>12, <1>13, <1>14, <1>16, <1>17 DEF Kinds

-----------------------------------------------------------------------------
(* Who has heard                                                           *)

HeardNow == ResultFirst /\ FlagReaches /\ MailReaches /\ FixesKnown /\ CorrectsTheTold
ToldGrows == \A c \in Chats, f \in Fixtures : told[c][f] # <<>> => told'[c][f] # <<>>

(* A message that landed is the chat's last, and its first if it had none. *)
LEMMA SentReaches ==
  ASSUME TypeInv, NEW mail \in Mailing, NEW next, NEW c \in Chats, NEW kind \in {"result", "correction"},
         NEW ack, Sent(mail, next, c, kind, TRUE, ack)
  PROVE  /\ ToldGrows /\ told'[c][mail.f] # <<>>
         /\ \A d \in Chats, f \in Fixtures : <<d, f>> # <<c, mail.f>> => told'[d][f] = told[d][f]
         /\ told[c][mail.f] # <<>> => told'[c][mail.f][1] = told[c][mail.f][1]
         /\ told[c][mail.f] = <<>> => told'[c][mail.f][1].kind = kind
         /\ Last(told'[c][mail.f]).goals = mail.goals
<1> DEFINE message == [kind |-> kind, goals |-> mail.goals]
           old == told[c][mail.f]
           new == Append(old, message)
<1>1. mail.f \in Fixtures /\ message \in Message
  BY DEF Mailing, Message
<1>2. /\ told'[c][mail.f] = new
      /\ \A d \in Chats, f \in Fixtures : <<d, f>> # <<c, mail.f>> => told'[d][f] = told[d][f]
  BY DEF Sent
<1>3. old \in Seq(Message)
  BY <1>1 DEF TypeInv, TypeOK
<1>4. message.kind = kind /\ message.goals = mail.goals
  OBVIOUS
<1> HIDE DEF message
<1>5. /\ new # <<>> /\ Len(old) \in Nat /\ Len(new) = Len(old) + 1
      /\ \A i \in 1 .. Len(old) : new[i] = old[i]
      /\ new[Len(old) + 1] = message
  BY <1>1, <1>3, MessagesGrow
<1>6. old # <<>> => Len(old) > 0
  BY <1>3
<1>7. old = <<>> => Len(old) = 0
  BY <1>3
<1>8. Last(new) = message
  BY <1>5 DEF Last
<1> HIDE DEF new
<1>9. (old # <<>> => new[1] = old[1]) /\ (old = <<>> => new[1] = message)
  BY <1>5, <1>6, <1>7
<1>10. ToldGrows
  BY <1>2, <1>5 DEF ToldGrows
<1> QED
  BY <1>2, <1>4, <1>5, <1>8, <1>9, <1>10

LEMMA HeardStep ==
  ASSUME TypeInv, ResultPass, GoodParts, Heard, [Next]_vars, Kinds, UNCHANGED <<saw, clears>>
  PROVE  Heard'
<1> SUFFICES ASSUME Faultless' PROVE HeardNow'
  BY DEF Heard, HeardNow
<1>1. /\ HeardNow /\ spent'.restarts = 0 /\ spent'.timeouts = 0 /\ spent'.failures = 0
  BY CleanBefore DEF Heard, HeardNow, NoLoss
<1>2. FlagsRise /\ RowsKept
  BY KindsRaiseFlags, StepKeepsRows DEF TypeInv
<1>3. \A f : Audience(f)' = Audience(f) /\ (strict' = strict => (Publishable(f)' <=> Publishable(f)))
  BY SameAudience
<1> DEFINE NoNewFlag == \A f \in Fixtures :
              outcome'[f] # None /\ outcome'[f].notified /\ ~outcome'[f].stale =>
                outcome[f] # None /\ outcome[f].notified /\ ~outcome[f].stale
           SameMail == \A f \in Fixtures :
              MailOn(f)' => MailOn(f) /\ result'.mail.chats = result.mail.chats
           LessToCorrect == verify'.mail # None =>
              /\ verify.mail # None /\ verify'.mail.f = verify.mail.f
              /\ verify'.mail.chats \subseteq verify.mail.chats
<1>4. told' = told => ResultFirst' /\ ToldGrows
  BY <1>1 DEF HeardNow, ResultFirst, ToldGrows
<1>5. ToldGrows /\ NoNewFlag /\ strict' = strict => FlagReaches'
  <2> SUFFICES ASSUME ToldGrows, NoNewFlag, strict' = strict PROVE FlagReaches'
    OBVIOUS
  <2> HIDE DEF NoNewFlag
  <2> SUFFICES ASSUME NEW f \in Fixtures, outcome'[f] # None, outcome'[f].notified, ~outcome'[f].stale,
                      Publishable(f)', NEW c \in Audience(f)' \cup Group
               PROVE  told'[c][f] # <<>>
    BY DEF FlagReaches
  <2>1. c \in Audience(f) \cup Group /\ Publishable(f)
    BY <1>3
  <2>2. c \in Chats
    BY <2>1, AudienceIsUsers
  <2>3. told[c][f] # <<>>
    BY <1>1, <2>1 DEF NoNewFlag, HeardNow, FlagReaches
  <2> QED
    BY <2>2, <2>3 DEF ToldGrows
<1>6. ToldGrows /\ SameMail => MailReaches'
  <2> SUFFICES ASSUME ToldGrows, SameMail, NEW f \in Fixtures, MailOn(f)',
                      NEW c \in (Audience(f)' \cup Group) \ result'.mail.chats
               PROVE  told'[c][f] # <<>>
    BY DEF MailReaches
  <2>1. MailOn(f) /\ c \in (Audience(f) \cup Group) \ result.mail.chats
    BY <1>3
  <2>2. c \in Chats
    BY <2>1, AudienceIsUsers
  <2> QED
    BY <1>1, <2>1, <2>2 DEF HeardNow, MailReaches, ToldGrows
<1>7. verify'.fixed \subseteq verify.fixed => FixesKnown'
  <2> SUFFICES ASSUME verify'.fixed \subseteq verify.fixed, NEW fix \in verify'.fixed
               PROVE  fix.stale = outcome'[fix.f].stale /\ (fix.notified => outcome'[fix.f].notified)
    BY DEF FixesKnown
  <2>1. fix \in verify.fixed /\ fix.f \in Fixtures /\ outcome[fix.f] # None
    BY FixesTyped DEF GoodParts, GoodFixes
  <2>2. fix.stale = outcome[fix.f].stale /\ (fix.notified => outcome[fix.f].notified)
    BY <1>1, <2>1 DEF HeardNow, FixesKnown
  <2> QED
    BY <1>2, <2>1, <2>2 DEF FlagsRise, RowsKept
<1>8. ToldGrows /\ LessToCorrect => CorrectsTheTold'
  <2> SUFFICES ASSUME ToldGrows, LessToCorrect, verify'.mail # None, NEW c \in verify'.mail.chats
               PROVE  told'[c][verify'.mail.f] # <<>>
    BY DEF CorrectsTheTold
  <2>1. /\ verify.mail # None /\ c \in verify.mail.chats /\ verify'.mail.f = verify.mail.f
        /\ verify.mail.f \in Fixtures /\ c \in Chats
    BY MailTyped DEF Mailing
  <2> QED
    BY <1>1, <2>1 DEF HeardNow, CorrectsTheTold, ToldGrows
<1>9. (outcome' = outcome => NoNewFlag) /\ (result' = result => SameMail)
      /\ (result'.mail = None => SameMail)
      /\ (verify' = verify => LessToCorrect /\ verify'.fixed \subseteq verify.fixed)
  BY DEF MailOn
<1>10. told' = told /\ strict' = strict /\ NoNewFlag /\ SameMail /\ LessToCorrect
         /\ verify'.fixed \subseteq verify.fixed => HeardNow'
  BY <1>4, <1>5, <1>6, <1>7, <1>8 DEF HeardNow
<1>11. CASE Calm \/ StartsResults \/ EndsResults
  <2>1. /\ UNCHANGED <<told, strict, outcome, verify>>
        /\ result' = result \/ result'.mail = None
    BY <1>11, IdleTyped DEF Calm, StartsResults, ResultsStarted, EndsResults
  <2> QED
    BY <1>9, <1>10, <2>1
<1>12. CASE StartsVerify \/ Skips \/ FinishesCorrection \/ EndsVerify
  <2>1. /\ UNCHANGED <<told, strict, outcome, result>> /\ verify'.fixed \subseteq verify.fixed
        /\ verify'.mail = None \/ verify'.mail = verify.mail
    BY <1>12, IdleTyped DEF StartsVerify, VerifyStarted, Skips, Skipped, FinishesCorrection,
       CorrectionFinished, EndsVerify
  <2> QED
    BY <1>9, <1>10, <2>1
<1>13. CASE Scores
  <2>1. PICK f \in Fixtures : Scored(f) /\ UNCHANGED <<result, verify, told, strict>>
    BY <1>13 DEF Scores
  <2>2. NoNewFlag
    BY <2>1 DEF Scored
  <2> HIDE DEF NoNewFlag
  <2> QED
    BY <1>9, <1>10, <2>1, <2>2
<1>14. CASE Rechecks
  <2>1. PICK f \in Fixtures : Rechecked(f) /\ UNCHANGED <<result, told, strict>>
    BY <1>14 DEF Rechecks
  <2>2. /\ outcome[f] # None /\ verify.rows[f] # None /\ verify'.mail = verify.mail
        /\ outcome'[f].notified = outcome[f].notified /\ outcome'[f].stale = outcome[f].stale
        /\ \A g \in Fixtures \ {f} : outcome'[g] = outcome[g]
    BY <2>1 DEF Rechecked
  <2>3. NoNewFlag
    BY <2>2
  <2>4. LessToCorrect
    BY <2>2
  <2>5. FixesKnown'
    <3>1. CASE verify'.fixed = verify.fixed
      BY <1>7, <3>1
    <3>2. ASSUME NEW goals, verify'.fixed = verify.fixed \cup {[f |-> f, goals |-> goals,
                                notified |-> verify.rows[f].notified, stale |-> verify.rows[f].stale]}
          PROVE  FixesKnown'
      <4> DEFINE fix == [f |-> f, goals |-> goals,
                         notified |-> verify.rows[f].notified, stale |-> verify.rows[f].stale]
      <4>1. fix.f = f /\ fix.notified = verify.rows[f].notified /\ fix.stale = verify.rows[f].stale
        OBVIOUS
      <4>2. verify.rows[f].stale = outcome[f].stale /\ (verify.rows[f].notified => outcome[f].notified)
        BY <2>2 DEF TypeInv, ReadHolds, ReadRow
      <4>3. verify'.fixed = verify.fixed \cup {fix}
        BY <3>2
      <4> HIDE DEF fix
      <4>4. fix.stale = outcome'[fix.f].stale /\ (fix.notified => outcome'[fix.f].notified)
        BY <2>2, <4>1, <4>2
      <4>5. ASSUME NEW x \in verify.fixed
            PROVE  x.stale = outcome'[x.f].stale /\ (x.notified => outcome'[x.f].notified)
        <5>1. x.f \in Fixtures /\ outcome[x.f] # None
          BY FixesTyped DEF GoodParts, GoodFixes
        <5>2. x.stale = outcome[x.f].stale /\ (x.notified => outcome[x.f].notified)
          BY <1>1 DEF HeardNow, FixesKnown
        <5> QED
          BY <1>2, <5>1, <5>2 DEF FlagsRise, RowsKept
      <4> QED
        BY <4>3, <4>4, <4>5 DEF FixesKnown
    <3> QED
      BY <2>1, <3>1, <3>2 DEF Rechecked
  <2> HIDE DEF NoNewFlag, SameMail, LessToCorrect
  <2> QED
    BY <1>4, <1>5, <1>6, <1>8, <1>9, <2>1, <2>3, <2>4, <2>5 DEF HeardNow
<1>15. CASE Restarts
  <2>1. FALSE
    BY <1>1, <1>15 DEF Restarts
  <2> QED
    BY <2>1
<1>16. CASE Picks
  <2>1. PICK f \in Fixtures : Picked(f) /\ outcome[f] # None /\ UNCHANGED <<verify, told, strict>>
    BY <1>16 DEF Picks
  <2>2. ResultFirst' /\ ToldGrows /\ FixesKnown' /\ CorrectsTheTold'
    BY <1>4, <1>7, <1>8, <1>9, <2>1
  <2>3. CASE Flagged(f) /\ result'.mail = None /\ (~Publishable(f) \/ Audience(f) \cup Group = {})
    <3>1. \A g \in Fixtures \ {f} : outcome'[g] = outcome[g]
      BY <2>3 DEF Flagged
    <3>2. FlagReaches'
      <4> SUFFICES ASSUME NEW g \in Fixtures, outcome'[g] # None, outcome'[g].notified, ~outcome'[g].stale,
                          Publishable(g)', NEW c \in Audience(g)' \cup Group
                   PROVE  told'[c][g] # <<>>
        BY DEF FlagReaches
      <4>1. Publishable(g) /\ c \in Audience(g) \cup Group
        BY <1>3, <2>1
      <4>2. g # f
        BY <2>3, <4>1
      <4> QED
        BY <1>1, <2>1, <3>1, <4>1, <4>2 DEF HeardNow, FlagReaches
    <3>3. MailReaches'
      BY <1>6, <1>9, <2>2, <2>3
    <3> QED
      BY <2>2, <3>2, <3>3 DEF HeardNow
  <2>4. CASE outcome' = outcome /\ result'.mail.f = f /\ result'.mail.chats = Audience(f) \cup Group
    <3>1. FlagReaches'
      BY <1>5, <1>9, <2>1, <2>2, <2>4
    <3>2. MailReaches'
      BY <1>3, <2>4 DEF MailReaches, MailOn
    <3> QED
      BY <2>2, <3>1, <3>2 DEF HeardNow
  <2> QED
    BY <2>1, <2>3, <2>4 DEF Picked
<1>17. CASE SendsResult
  <2>1. PICK c \in Chats, landed \in BOOLEAN, ack \in BOOLEAN :
          ResultMailed(c, landed, ack) /\ UNCHANGED <<outcome, verify, strict>>
    BY <1>17 DEF SendsResult
  <2>2. PICK mail \in Mailing, f \in Fixtures : mail = result.mail /\ f = mail.f /\ MailOn(f)
    BY <2>1, MailTyped DEF ResultMailed, MailOn, Mailed
  <2>3. Sent(mail, result'.mail, c, "result", landed, ack)
    BY <2>1, <2>2 DEF ResultMailed
  <2>4. /\ ~landed => spent'.failures > 0
        /\ result'.mail.f = f /\ result'.mail.chats = mail.chats \ {c}
    BY <2>2, <2>3 DEF Sent
  <2>5. landed = TRUE
    BY <1>1, <2>4
  <2>6. PICK next : next = result'.mail
    OBVIOUS
  <2>7. Sent(mail, next, c, "result", TRUE, ack)
    BY <2>3, <2>5, <2>6
  <2>8. /\ ToldGrows /\ told'[c][mail.f] # <<>>
        /\ \A d \in Chats, g \in Fixtures : <<d, g>> # <<c, mail.f>> => told'[d][g] = told[d][g]
        /\ told[c][mail.f] # <<>> => told'[c][mail.f][1] = told[c][mail.f][1]
        /\ told[c][mail.f] = <<>> => told'[c][mail.f][1].kind = "result"
    BY <2>7, SentReaches
  <2>9. ResultFirst'
    BY <1>1, <2>2, <2>8 DEF HeardNow, ResultFirst
  <2>10. FlagReaches' /\ FixesKnown' /\ CorrectsTheTold'
    BY <1>5, <1>7, <1>8, <1>9, <2>1, <2>8
  <2>11. MailReaches'
    <3> SUFFICES ASSUME NEW g \in Fixtures, MailOn(g)',
                        NEW d \in (Audience(g)' \cup Group) \ result'.mail.chats
                 PROVE  told'[d][g] # <<>>
      BY DEF MailReaches
    <3>1. g = f
      BY <2>4 DEF MailOn
    <3>2. d \in Audience(f) \cup Group /\ (d \notin mail.chats \/ d = c)
      BY <1>3, <2>4, <3>1
    <3>3. d \in Chats
      BY <3>2, AudienceIsUsers
    <3>4. CASE d = c
      BY <2>2, <2>8, <3>1, <3>4
    <3>5. CASE d \notin mail.chats
      <4>1. told[d][f] # <<>>
        BY <1>1, <2>2, <3>2, <3>5 DEF HeardNow, MailReaches
      <4> QED
        BY <2>8, <3>1, <3>3, <4>1 DEF ToldGrows
    <3> QED
      BY <3>2, <3>4, <3>5
  <2> QED
    BY <2>9, <2>10, <2>11 DEF HeardNow
<1>18. CASE FinishesResult
  <2>1. /\ result.mail # None /\ result.mail.chats = {} /\ result'.mail = None
        /\ UNCHANGED <<verify, told, strict>>
        /\ outcome' = outcome \/ Flagged(Mailed)
    BY <1>18 DEF FinishesResult, ResultFinished
  <2>2. PICK f \in Fixtures : f = Mailed /\ MailOn(f)
    BY <2>1, MailTyped DEF MailOn, Mailed
  <2>3. ResultFirst' /\ ToldGrows /\ FixesKnown' /\ CorrectsTheTold' /\ MailReaches'
    BY <1>4, <1>6, <1>7, <1>8, <1>9, <2>1
  <2>4. FlagReaches'
    <3>1. CASE outcome' = outcome
      BY <1>5, <1>9, <2>1, <2>3, <3>1
    <3>2. CASE Flagged(Mailed)
      <4> SUFFICES ASSUME NEW g \in Fixtures, outcome'[g] # None, outcome'[g].notified, ~outcome'[g].stale,
                          Publishable(g)', NEW c \in Audience(g)' \cup Group
                   PROVE  told'[c][g] # <<>>
        BY DEF FlagReaches
      <4>1. Publishable(g) /\ c \in Audience(g) \cup Group
        BY <1>3, <2>1
      <4>2. CASE g = f
        BY <1>1, <2>1, <2>2, <4>1, <4>2 DEF HeardNow, MailReaches
      <4>3. CASE g # f
        <5>1. outcome'[g] = outcome[g]
          BY <2>2, <3>2, <4>3 DEF Flagged
        <5> QED
          BY <1>1, <2>1, <4>1, <5>1 DEF HeardNow, FlagReaches
      <4> QED
        BY <4>2, <4>3
    <3> QED
      BY <2>1, <3>1, <3>2
  <2> QED
    BY <2>3, <2>4 DEF HeardNow
<1>19. CASE TakesUp
  <2>1. PICK fix \in verify.fixed : TakenUp(fix) /\ UNCHANGED <<outcome, result, told, strict>>
    BY <1>19 DEF TakesUp
  <2>2. /\ verify'.fixed \subseteq verify.fixed /\ fix.f \in Fixtures
        /\ verify'.mail # None =>
             /\ Announced(fix) /\ verify'.mail.f = fix.f
             /\ verify'.mail.chats = Audience(fix.f) \cup Group
    BY <2>1 DEF TakenUp
  <2>3. ResultFirst' /\ ToldGrows /\ FlagReaches' /\ FixesKnown' /\ MailReaches'
    BY <1>4, <1>5, <1>6, <1>7, <1>9, <2>1, <2>2
  <2>4. CorrectsTheTold'
    <3> SUFFICES ASSUME verify'.mail # None, NEW c \in verify'.mail.chats
                 PROVE  told'[c][verify'.mail.f] # <<>>
      BY DEF CorrectsTheTold
    <3>1. fix.notified /\ ~fix.stale /\ Publishable(fix.f) /\ c \in Audience(fix.f) \cup Group
      BY <2>2 DEF Announced
    <3>2. outcome[fix.f] # None /\ outcome[fix.f].notified /\ ~outcome[fix.f].stale
      BY <1>1, <3>1 DEF HeardNow, FixesKnown, GoodParts, GoodFixes
    <3> QED
      BY <1>1, <2>1, <2>2, <3>1, <3>2 DEF HeardNow, FlagReaches
  <2> QED
    BY <2>3, <2>4 DEF HeardNow
<1>20. CASE SendsCorrection
  <2>1. PICK c \in Chats, landed \in BOOLEAN, ack \in BOOLEAN :
          CorrectionMailed(c, landed, ack) /\ UNCHANGED <<outcome, result, strict>>
    BY <1>20 DEF SendsCorrection
  <2>2. PICK mail \in Mailing : mail = verify.mail /\ verify.mail # None
    BY <2>1, MailTyped DEF CorrectionMailed
  <2>3. Sent(mail, verify'.mail, c, "correction", landed, ack) /\ verify'.fixed = verify.fixed
    BY <2>1, <2>2 DEF CorrectionMailed
  <2>4. /\ ~landed => spent'.failures > 0
        /\ c \in mail.chats /\ verify'.mail.f = mail.f /\ verify'.mail.chats = mail.chats \ {c}
    BY <2>3 DEF Sent
  <2>5. landed = TRUE
    BY <1>1, <2>4
  <2>6. PICK next : next = verify'.mail
    OBVIOUS
  <2>7. Sent(mail, next, c, "correction", TRUE, ack)
    BY <2>3, <2>5, <2>6
  <2>8. /\ ToldGrows
        /\ \A d \in Chats, g \in Fixtures : <<d, g>> # <<c, mail.f>> => told'[d][g] = told[d][g]
        /\ told[c][mail.f] # <<>> => told'[c][mail.f][1] = told[c][mail.f][1]
    BY <2>7, SentReaches
  <2>9. told[c][mail.f] # <<>> /\ mail.f \in Fixtures
    BY <1>1, <2>2, <2>4 DEF HeardNow, CorrectsTheTold, Mailing
  <2>10. ResultFirst'
    BY <1>1, <2>8, <2>9 DEF HeardNow, ResultFirst
  <2>11. FlagReaches' /\ FixesKnown' /\ MailReaches' /\ CorrectsTheTold'
    BY <1>5, <1>6, <1>7, <1>8, <1>9, <2>1, <2>2, <2>3, <2>4, <2>8
  <2> QED
    BY <2>10, <2>11 DEF HeardNow
<1> QED
  BY <1>11, <1>12, <1>13, <1>14, <1>15, <1>16, <1>17, <1>18, <1>19, <1>20 DEF Kinds

-----------------------------------------------------------------------------
(* The last word, with one pass at a time                                  *)

LastNow == OneAtATime /\ ResultHeld /\ VerifyHeld /\ MailCounts /\ ToldFor /\ LastOrComing
GoalsStay == \A f \in Fixtures : outcome[f] # None => outcome'[f] # None /\ outcome'[f].goals = outcome[f].goals

LEMMA LastWordStep ==
  ASSUME MaxInFlight <= 1, TypeInv, ResultPass, VerifyPass, FlagsHonest, GoodParts, Heard, LastWord,
         [Next]_vars, Kinds, UNCHANGED <<saw, clears>>
  PROVE  LastWord'
<1> SUFFICES ASSUME Faultless' PROVE LastNow'
  BY DEF LastWord, LastNow
<1>1. /\ LastNow /\ HeardNow
      /\ spent'.restarts = 0 /\ spent'.timeouts = 0 /\ spent'.failures = 0
  BY CleanBefore DEF LastWord, LastNow, Heard, HeardNow, NoLoss
<1>2. FlagsRise /\ RowsKept
  BY KindsRaiseFlags, StepKeepsRows DEF TypeInv
<1>3. \A f : Audience(f)' = Audience(f) /\ (strict' = strict => (Publishable(f)' <=> Publishable(f)))
  BY SameAudience
<1>4. verify.active =>
        ~result.active /\ result.mail = None /\ \A f \in Fixtures : result.rows[f] = None /\ ~MailOn(f)
  BY <1>1 DEF LastNow, OneAtATime, ResultPass, MailOn
<1>5. ~verify.active =>
        verify.mail = None /\ verify.fixed = {} /\ \A f \in Fixtures : verify.rows[f] = None
  BY DEF VerifyPass
<1>6. /\ \A f \in Fixtures : result.rows[f] # None \/ MailOn(f) => outcome[f] # None
      /\ \A f \in Fixtures : verify.rows[f] # None => outcome[f] # None
      /\ \A fix \in verify.fixed : fix.f \in Fixtures /\ outcome[fix.f] # None
      /\ verify.mail # None => verify.mail.f \in Fixtures /\ outcome[verify.mail.f] # None
  <2>1. verify.mail # None => verify.mail.f \in Fixtures /\ verify.mail.goals \in Goals
    BY DEF TypeInv, TypeOK, Mailing
  <2>2. verify.mail # None => outcome[verify.mail.f] # None
    BY <2>1 DEF GoodParts, GoodMail
  <2> QED
    BY <2>1, <2>2, MailTyped, FixesTyped
       DEF TypeInv, ResultInv, ResultHolds, VerifyHolds, GoodParts, GoodFixes, MailOn, Mailed

(* What keeps each part. *)
<1>7. GoalsStay /\ (\A f \in Fixtures : result'.rows[f] # None => result'.rows[f] = result.rows[f])
         /\ (\A f \in Fixtures : MailOn(f)' => MailOn(f) /\ result'.mail.goals = result.mail.goals)
       => ResultHeld'
  BY <1>1, <1>6 DEF LastNow, ResultHeld, GoalsStay
<1>8. verify' = verify /\ ~verify.active => VerifyHeld'
  BY <1>5 DEF VerifyHeld
<1>9. ASSUME UNCHANGED <<told, strict>>, \A f \in Fixtures : MailOn(f) => MailOn(f)' \/ outcome'[f].notified
      PROVE  ToldFor'
  <2> SUFFICES ASSUME NEW c \in Chats, NEW f \in Fixtures, told'[c][f] # <<>>
               PROVE  /\ c \in Audience(f)' \cup Group /\ Publishable(f)'
                      /\ outcome'[f] # None /\ ~outcome'[f].stale
                      /\ outcome'[f].notified \/ MailOn(f)'
    BY DEF ToldFor
  <2>1. /\ c \in Audience(f) \cup Group /\ Publishable(f) /\ outcome[f] # None /\ ~outcome[f].stale
        /\ outcome[f].notified \/ MailOn(f)
    BY <1>1, <1>9 DEF LastNow, ToldFor
  <2> QED
    BY <1>2, <1>3, <1>9, <2>1 DEF FlagsRise, RowsKept
<1>10. ASSUME told' = told, verify' = verify, GoalsStay PROVE LastOrComing'
  <2> SUFFICES ASSUME NEW c \in Chats, NEW f \in Fixtures, told'[c][f] # <<>>
               PROVE  \/ Last(told'[c][f]).goals = outcome'[f].goals
                      \/ FixComing(f)' \/ MailComing(c, f)'
    BY DEF LastOrComing
  <2>1. outcome[f] # None /\ (Last(told[c][f]).goals = outcome[f].goals \/ FixComing(f) \/ MailComing(c, f))
    BY <1>1, <1>10 DEF LastNow, ToldFor, LastOrComing
  <2>2. outcome'[f].goals = outcome[f].goals
    BY <1>10, <2>1 DEF GoalsStay
  <2>3. (FixComing(f) => FixComing(f)') /\ (MailComing(c, f) => MailComing(c, f)')
    BY <1>10, <2>2 DEF FixComing, MailComing
  <2> QED
    BY <1>10, <2>1, <2>2, <2>3
<1>11. (result'.mail = None \/ result' = result) => MailCounts'
  BY <1>1, <1>3 DEF LastNow, MailCounts, MailOn
<1>12. /\ outcome' = outcome => GoalsStay
       /\ \A f \in Fixtures : outcome'[f] # None /\ Flagged(f) => GoalsStay
       /\ \A f \in Fixtures : Scored(f) => GoalsStay
  BY DEF GoalsStay, Flagged, Scored
<1>13. result' = result => \A f \in Fixtures : (MailOn(f)' <=> MailOn(f))
  BY DEF MailOn

<1>14. CASE Calm
  <2>1. UNCHANGED <<outcome, result, verify, told, strict>>
    BY <1>14 DEF Calm
  <2>2. OneAtATime' /\ VerifyHeld'
    BY <1>1, <2>1 DEF LastNow, OneAtATime, VerifyHeld
  <2>3. ResultHeld' /\ MailCounts' /\ LastOrComing'
    BY <1>7, <1>10, <1>11, <1>12, <1>13, <2>1
  <2>4. ToldFor'
    BY <1>9, <1>13, <2>1
  <2> QED
    BY <2>2, <2>3, <2>4 DEF LastNow
<1>15. CASE Scores
  <2>1. PICK f \in Fixtures : Scored(f) /\ UNCHANGED <<result, verify, told, strict>>
    BY <1>15 DEF Scores
  <2>2. \A g \in Fixtures : outcome[g] # None => outcome'[g] = outcome[g]
    BY <2>1 DEF Scored
  <2>3. OneAtATime' /\ VerifyHeld'
    BY <1>1, <1>6, <2>1, <2>2 DEF LastNow, OneAtATime, VerifyHeld
  <2>4. ResultHeld' /\ MailCounts' /\ LastOrComing'
    BY <1>7, <1>10, <1>11, <1>12, <1>13, <2>1
  <2>5. ToldFor'
    BY <1>9, <1>13, <2>1
  <2> QED
    BY <2>3, <2>4, <2>5 DEF LastNow
<1>16. CASE StartsResults
  <2>1. ResultsStarted /\ UNCHANGED <<outcome, verify, told, strict>>
    BY <1>16 DEF StartsResults
  <2>2. ~verify.active /\ ~result.active /\ result.mail = None
    BY <2>1, ResultAssumption DEF ResultsStarted, ResultPass
  <2>3. OneAtATime' /\ VerifyHeld'
    BY <1>8, <2>1, <2>2 DEF OneAtATime
  <2>4. ResultHeld'
    BY <2>1 DEF ResultsStarted, ResultHeld, MailOn
  <2>5. MailCounts' /\ LastOrComing'
    BY <1>10, <1>11, <1>12, <2>1 DEF ResultsStarted
  <2>6. ToldFor'
    BY <1>9, <2>1, <2>2 DEF MailOn
  <2> QED
    BY <2>3, <2>4, <2>5, <2>6 DEF LastNow
<1>17. CASE EndsResults
  <2>1. /\ result.mail = None /\ result' = IdleResult
        /\ UNCHANGED <<outcome, verify, told, strict>>
    BY <1>17 DEF EndsResults
  <2>2. OneAtATime' /\ VerifyHeld' /\ MailCounts'
    BY <1>1, <1>11, <2>1, IdleTyped DEF LastNow, OneAtATime, VerifyHeld
  <2>3. ResultHeld'
    BY <2>1, IdleTyped DEF ResultHeld, MailOn
  <2>4. LastOrComing'
    BY <1>10, <1>12, <2>1
  <2>5. ToldFor'
    BY <1>9, <2>1 DEF MailOn
  <2> QED
    BY <2>2, <2>3, <2>4, <2>5 DEF LastNow
<1>18. CASE Picks
  <2>1. PICK f \in Fixtures : Picked(f) /\ outcome[f] # None /\ UNCHANGED <<verify, told, strict>>
    BY <1>18 DEF Picks
  <2>2. /\ result.active /\ result.mail = None /\ result.rows[f] # None
        /\ result'.active /\ result'.rows[f] = None
        /\ \A g \in Fixtures \ {f} : result'.rows[g] = result.rows[g]
    BY <2>1 DEF Picked
  <2>3. ~verify.active /\ \A g \in Fixtures : ~MailOn(g)
    BY <1>1, <2>2 DEF LastNow, OneAtATime, MailOn
  <2>4. OneAtATime' /\ VerifyHeld'
    BY <1>8, <2>1, <2>3 DEF OneAtATime
  <2>5. ToldFor'
    BY <1>9, <2>1, <2>3
  <2>6. CASE Flagged(f) /\ result'.mail = None /\ outcome'[f] # None
    <3>1. GoalsStay
      BY <1>12, <2>6
    <3>2. ResultHeld'
      BY <1>7, <2>2, <2>6, <3>1 DEF MailOn
    <3> QED
      BY <1>10, <1>11, <2>1, <2>4, <2>5, <2>6, <3>1, <3>2 DEF LastNow
  <2>7. CASE /\ outcome' = outcome /\ result'.mail.f = f /\ result'.mail.goals = result.rows[f]
             /\ result'.mail.chats = Audience(f) \cup Group
    <3>1. LastOrComing'
      BY <1>10, <1>12, <2>1, <2>7
    <3>2. ResultHeld'
      BY <1>1, <2>2, <2>7 DEF LastNow, ResultHeld, MailOn
    <3>3. MailCounts'
      BY <1>3, <2>7 DEF MailCounts, MailOn
    <3> QED
      BY <2>4, <2>5, <3>1, <3>2, <3>3 DEF LastNow
  <2> QED
    BY <2>1, <2>6, <2>7 DEF Picked
<1>19. CASE FinishesResult
  <2>1. /\ result.mail # None /\ result.mail.chats = {} /\ result'.mail = None
        /\ result'.active = result.active /\ result'.rows = result.rows
        /\ UNCHANGED <<verify, told, strict>>
        /\ \/ Flagged(Mailed) /\ outcome'[Mailed] # None
           \/ ~FlagIf(result.mail) /\ outcome' = outcome
    BY <1>19 DEF FinishesResult, ResultFinished
  <2>2. PICK f \in Fixtures : f = Mailed /\ MailOn(f)
    BY <2>1, MailTyped DEF MailOn, Mailed
  <2>3. result.active /\ ~verify.active
    BY <1>4, <2>1 DEF ResultPass
  <2>4. OneAtATime' /\ VerifyHeld'
    BY <1>8, <2>1, <2>3 DEF OneAtATime
  <2>5. FlagIf(result.mail)
    BY <1>1, <2>1, <2>2 DEF LastNow, MailCounts, FlagIf, Mailed
  <2>6. Flagged(f) /\ outcome'[f] # None
    BY <2>1, <2>2, <2>5
  <2>7. GoalsStay
    BY <1>12, <2>6
  <2>8. ToldFor'
    <3>1. \A g \in Fixtures : MailOn(g) => g = f
      BY <2>2 DEF MailOn, Mailed
    <3> QED
      BY <1>9, <2>1, <2>6, <3>1 DEF Flagged
  <2>9. ResultHeld' /\ MailCounts' /\ LastOrComing'
    BY <1>7, <1>10, <1>11, <2>1, <2>7 DEF MailOn
  <2> QED
    BY <2>4, <2>8, <2>9 DEF LastNow
<1>20. CASE SendsResult
  <2>1. PICK c \in Chats, landed \in BOOLEAN, ack \in BOOLEAN :
          ResultMailed(c, landed, ack) /\ UNCHANGED <<outcome, verify, strict>>
    BY <1>20 DEF SendsResult
  <2>2. PICK mail \in Mailing, f \in Fixtures : mail = result.mail /\ f = mail.f /\ MailOn(f)
    BY <2>1, MailTyped DEF ResultMailed, MailOn, Mailed
  <2>3. Sent(mail, result'.mail, c, "result", landed, ack)
    BY <2>1, <2>2 DEF ResultMailed
  <2>4. /\ result'.active = result.active /\ result'.rows = result.rows
    BY <2>1 DEF ResultMailed
  <2>5. /\ ~landed => spent'.failures > 0
        /\ ~ack /\ landed => spent'.timeouts > 0
        /\ c \in mail.chats /\ result'.mail # None /\ result'.mail.f = f /\ result'.mail.goals = mail.goals
        /\ result'.mail.chats = mail.chats \ {c} /\ (result'.mail.ok <=> mail.ok \/ (ack /\ c \in Users))
    BY <2>2, <2>3 DEF Sent
  <2>6. landed = TRUE /\ ack
    BY <1>1, <2>5
  <2>7. PICK next : next = result'.mail
    OBVIOUS
  <2>8. Sent(mail, next, c, "result", TRUE, ack)
    BY <2>3, <2>6, <2>7
  <2>9. /\ \A d \in Chats, g \in Fixtures : <<d, g>> # <<c, mail.f>> => told'[d][g] = told[d][g]
        /\ Last(told'[c][mail.f]).goals = mail.goals
    BY <2>8, SentReaches
  <2>10. /\ result.active /\ ~verify.active /\ ~outcome[f].notified /\ Publishable(f)
         /\ c \in Audience(f) \cup Group /\ outcome[f] # None
    BY <1>4, <1>6, <2>2, <2>5 DEF ResultPass, MailOn
  <2>11. \A g \in Fixtures : (MailOn(g)' <=> g = f) /\ (MailOn(g) <=> g = f)
    BY <2>2, <2>5 DEF MailOn
  <2>12. OneAtATime' /\ VerifyHeld'
    BY <1>8, <2>1, <2>4, <2>10 DEF OneAtATime
  <2>13. ResultHeld'
    BY <1>7, <1>12, <2>1, <2>2, <2>4, <2>5, <2>11
  <2>14. MailCounts'
    <3>1. CASE c \in Users
      BY <2>5, <2>6, <3>1 DEF MailCounts
    <3>2. CASE c \notin Users
      <4>1. Audience(f) \subseteq Users
        BY AudienceIsUsers
      <4>2. Audience(f) \ result'.mail.chats = Audience(f) \ result.mail.chats
        BY <2>2, <2>5, <3>2, <4>1
      <4>3. Audience(f) \ result.mail.chats # {} => result.mail.ok
        BY <1>1, <2>2 DEF LastNow, MailCounts
      <4>4. result'.mail.ok <=> result.mail.ok
        BY <2>2, <2>5, <3>2
      <4> QED
        BY <1>3, <2>11, <4>2, <4>3, <4>4 DEF MailCounts
    <3> QED
      BY <3>1, <3>2
  <2>15. ToldFor'
    <3> SUFFICES ASSUME NEW d \in Chats, NEW g \in Fixtures, told'[d][g] # <<>>
                 PROVE  /\ d \in Audience(g)' \cup Group /\ Publishable(g)'
                        /\ outcome'[g] # None /\ ~outcome'[g].stale
                        /\ outcome'[g].notified \/ MailOn(g)'
      BY DEF ToldFor
    <3>1. CASE <<d, g>> # <<c, mail.f>>
      <4>1. told[d][g] # <<>>
        BY <2>9, <3>1
      <4> QED
        BY <1>1, <1>3, <2>1, <2>11, <4>1 DEF LastNow, ToldFor
    <3>2. CASE <<d, g>> = <<c, mail.f>>
      <4>1. d = c /\ g = f
        BY <2>2, <3>2
      <4>2. ~outcome[f].stale
        BY <2>10 DEF FlagsHonest
      <4> QED
        BY <1>3, <2>1, <2>10, <2>11, <4>1, <4>2
    <3> QED
      BY <3>1, <3>2
  <2>16. LastOrComing'
    <3> SUFFICES ASSUME NEW d \in Chats, NEW g \in Fixtures, told'[d][g] # <<>>
                 PROVE  Last(told'[d][g]).goals = outcome'[g].goals
      BY DEF LastOrComing
    <3>1. CASE <<d, g>> # <<c, mail.f>>
      <4>1. told'[d][g] = told[d][g]
        BY <2>9, <3>1
      <4>2. ~FixComing(g) /\ ~MailComing(d, g)
        BY <1>5, <2>10 DEF FixComing, MailComing
      <4>3. Last(told[d][g]).goals = outcome[g].goals
        BY <1>1, <4>1, <4>2 DEF LastNow, LastOrComing
      <4> QED
        BY <2>1, <4>1, <4>3
    <3>2. CASE <<d, g>> = <<c, mail.f>>
      <4>1. mail.goals = outcome[f].goals
        BY <1>1, <2>2 DEF LastNow, ResultHeld
      <4> QED
        BY <2>1, <2>2, <2>9, <3>2, <4>1
    <3> QED
      BY <3>1, <3>2
  <2> QED
    BY <2>12, <2>13, <2>14, <2>15, <2>16 DEF LastNow
<1>21. CASE StartsVerify
  <2>1. VerifyStarted /\ UNCHANGED <<outcome, result, told, strict>>
    BY <1>21 DEF StartsVerify
  <2>2. ~result.active /\ ~verify.active
    BY <2>1, ResultAssumption DEF VerifyStarted
  <2>3. OneAtATime' /\ VerifyHeld'
    BY <2>1, <2>2 DEF OneAtATime, VerifyStarted, VerifyHeld
  <2>4. ResultHeld' /\ MailCounts'
    BY <1>7, <1>11, <1>12, <1>13, <2>1
  <2>5. ToldFor'
    BY <1>9, <1>13, <2>1
  <2>6. LastOrComing'
    <3>1. \A c, f : ~FixComing(f) /\ ~MailComing(c, f)
      BY <1>5, <2>2 DEF FixComing, MailComing
    <3> QED
      BY <1>1, <2>1, <3>1 DEF LastNow, LastOrComing
  <2> QED
    BY <2>3, <2>4, <2>5, <2>6 DEF LastNow
<1>22. CASE Restarts
  <2>1. FALSE
    BY <1>1, <1>22 DEF Restarts
  <2> QED
    BY <2>1

(* The steps of a verification leave the result pass alone. *)
<1>23. ASSUME UNCHANGED <<result, strict>>, verify'.active = verify.active
       PROVE  OneAtATime' /\ MailCounts' /\ (GoalsStay => ResultHeld') /\ (told' = told => ToldFor')
  BY <1>1, <1>7, <1>9, <1>11, <1>13, <1>23 DEF LastNow, OneAtATime
<1>24. ASSUME UNCHANGED <<outcome, told>>,
              \A f \in Fixtures : FixComing(f) => FixComing(f)' \/ \A c \in Chats :
                 told[c][f] # <<>> => MailComing(c, f)',
              \A c \in Chats, f \in Fixtures : MailComing(c, f) => MailComing(c, f)'
       PROVE  LastOrComing'
  BY <1>1, <1>24 DEF LastNow, LastOrComing
<1>25. CASE Skips
  <2>1. PICK f \in Fixtures : Skipped(f) /\ UNCHANGED <<outcome, result, told, strict>>
    BY <1>25 DEF Skips
  <2>2. /\ verify'.active = verify.active /\ verify'.fixed = verify.fixed /\ verify'.mail = verify.mail
        /\ verify'.rows[f] = None /\ \A g \in Fixtures \ {f} : verify'.rows[g] = verify.rows[g]
    BY <2>1 DEF Skipped
  <2>3. VerifyHeld'
    BY <1>1, <1>6, <2>1, <2>2 DEF LastNow, VerifyHeld
  <2>4. LastOrComing'
    BY <1>24, <2>1, <2>2 DEF FixComing, MailComing
  <2> QED
    BY <1>12, <1>23, <2>1, <2>2, <2>3, <2>4 DEF LastNow
<1>26. CASE Rechecks
  <2>1. PICK f \in Fixtures : Rechecked(f) /\ UNCHANGED <<result, told, strict>>
    BY <1>26 DEF Rechecks
  <2>2. /\ verify.rows[f] # None /\ outcome[f] # None /\ verify'.rows[f] = None
        /\ verify'.active = verify.active /\ verify'.mail = verify.mail
        /\ \A g \in Fixtures \ {f} : verify'.rows[g] = verify.rows[g] /\ outcome'[g] = outcome[g]
        /\ outcome'[f].notified = outcome[f].notified /\ outcome'[f].stale = outcome[f].stale
    BY <2>1 DEF Rechecked
  <2>3. /\ verify.active /\ ~result.active /\ verify.mail = None
        /\ \A g \in Fixtures : result.rows[g] = None /\ ~MailOn(g)
    BY <1>4, <1>5, <2>2 DEF VerifyPass
  <2>4. verify.rows[f] = outcome[f]
    BY <1>1, <2>2 DEF LastNow, VerifyHeld
  <2>5. /\ \A fix \in verify.fixed : fix.f # f
        /\ \A fix \in verify.fixed : verify.rows[fix.f] = None /\ fix.goals = outcome[fix.f].goals
    BY <1>1, <2>2 DEF LastNow, VerifyHeld
  <2>6. \A fix \in verify.fixed : outcome'[fix.f] = outcome[fix.f] /\ verify'.rows[fix.f] = None
    BY <1>6, <2>2, <2>5
  <2>7. ResultHeld'
    BY <1>13, <2>1, <2>3 DEF ResultHeld
  <2>8. VerifyHeld' /\ (outcome'[f].goals # outcome[f].goals =>
            \E fix \in verify'.fixed : /\ fix.f = f /\ fix.goals = outcome'[f].goals
                                       /\ fix.notified = outcome[f].notified /\ fix.stale = outcome[f].stale)
         /\ verify.fixed \subseteq verify'.fixed
    <3>1. CASE verify'.fixed = verify.fixed /\ outcome'[f].goals = outcome[f].goals
      <4>1. VerifyHeld'
        BY <1>1, <2>2, <2>3, <2>5, <2>6, <3>1 DEF LastNow, VerifyHeld
      <4> QED
        BY <3>1, <4>1
    <3>2. ASSUME NEW goals \in Goals, outcome'[f].goals = goals, goals # outcome[f].goals,
                 verify'.fixed = verify.fixed \cup {[f |-> f, goals |-> goals,
                                notified |-> verify.rows[f].notified, stale |-> verify.rows[f].stale]}
          PROVE  /\ VerifyHeld' /\ verify.fixed \subseteq verify'.fixed
                 /\ \E fix \in verify'.fixed : /\ fix.f = f /\ fix.goals = outcome'[f].goals
                                               /\ fix.notified = outcome[f].notified
                                               /\ fix.stale = outcome[f].stale
      <4> DEFINE fix == [f |-> f, goals |-> goals,
                         notified |-> verify.rows[f].notified, stale |-> verify.rows[f].stale]
      <4>1. /\ fix.f = f /\ fix.goals = goals
            /\ fix.notified = verify.rows[f].notified /\ fix.stale = verify.rows[f].stale
        OBVIOUS
      <4>2. verify'.fixed = verify.fixed \cup {fix}
        BY <3>2
      <4> HIDE DEF fix
      <4>3. \A x \in verify'.fixed : verify'.rows[x.f] = None /\ x.goals = outcome'[x.f].goals
        BY <2>2, <2>5, <2>6, <3>2, <4>1, <4>2
      <4>4. VerifyHeld'
        BY <1>1, <2>2, <2>3, <4>3 DEF LastNow, VerifyHeld
      <4> QED
        BY <2>4, <3>2, <4>1, <4>2, <4>4
    <3> QED
      BY <2>1, <2>4, <3>1, <3>2 DEF Rechecked
  <2>9. LastOrComing'
    <3> SUFFICES ASSUME NEW c \in Chats, NEW g \in Fixtures, told'[c][g] # <<>>
                 PROVE  Last(told'[c][g]).goals = outcome'[g].goals \/ FixComing(g)'
      BY DEF LastOrComing
    <3>1. /\ Last(told[c][g]).goals = outcome[g].goals \/ FixComing(g)
          /\ outcome[g].notified /\ ~outcome[g].stale
      BY <1>1, <2>1, <2>3 DEF LastNow, LastOrComing, ToldFor, MailComing
    <3>2. CASE outcome'[g].goals = outcome[g].goals
      BY <2>1, <2>8, <3>1, <3>2 DEF FixComing
    <3>3. CASE outcome'[g].goals # outcome[g].goals
      <4>1. g = f
        BY <2>2, <3>3
      <4> QED
        BY <2>8, <3>1, <3>3, <4>1 DEF FixComing
    <3> QED
      BY <3>2, <3>3
  <2>10. ToldFor' /\ OneAtATime' /\ MailCounts'
    BY <1>23, <2>1, <2>2
  <2> QED
    BY <2>7, <2>8, <2>9, <2>10 DEF LastNow
<1>27. CASE TakesUp
  <2>1. PICK fix \in verify.fixed : TakenUp(fix) /\ UNCHANGED <<outcome, result, told, strict>>
    BY <1>27 DEF TakesUp
  <2>2. /\ verify'.active = verify.active /\ verify'.rows = verify.rows
        /\ verify'.fixed = verify.fixed \ {fix} /\ fix.f \in Fixtures /\ verify.mail = None
        /\ \/ ~Announced(fix) /\ verify'.mail = None
           \/ /\ Announced(fix) /\ verify'.mail # None
              /\ verify'.mail.f = fix.f /\ verify'.mail.goals = fix.goals
              /\ verify'.mail.chats = Audience(fix.f) \cup Group
    BY <2>1 DEF TakenUp
  <2>3. /\ \A g \in Fixtures : verify'.rows[g] # None => verify'.rows[g] = outcome'[g]
        /\ \A x \in verify'.fixed : verify'.rows[x.f] = None /\ x.goals = outcome'[x.f].goals
        /\ fix.goals = outcome'[fix.f].goals
    BY <1>1, <2>1, <2>2 DEF LastNow, VerifyHeld
  <2>4. VerifyHeld'
    BY <2>2, <2>3 DEF VerifyHeld
  <2>5. ASSUME NEW f \in Fixtures, FixComing(f), NEW c \in Chats, told[c][f] # <<>>
        PROVE  FixComing(f)' \/ MailComing(c, f)'
    <3>1. PICK x \in verify.fixed : x.f = f /\ x.notified /\ ~x.stale /\ x.goals = outcome[f].goals
      BY <2>5 DEF FixComing
    <3>2. CASE x # fix
      BY <2>1, <2>2, <3>1, <3>2 DEF FixComing
    <3>3. CASE x = fix
      <4>1. Publishable(f) /\ c \in Audience(f) \cup Group
        BY <1>1, <2>5 DEF LastNow, ToldFor
      <4>2. Announced(fix)
        BY <3>1, <3>3, <4>1 DEF Announced
      <4> QED
        BY <2>2, <3>1, <3>3, <4>1, <4>2 DEF MailComing
    <3> QED
      BY <3>2, <3>3
  <2>6. \A c, f : ~MailComing(c, f)
    BY <2>2 DEF MailComing
  <2>7. LastOrComing'
    BY <1>1, <2>1, <2>5, <2>6 DEF LastNow, LastOrComing
  <2> QED
    BY <1>12, <1>23, <2>1, <2>2, <2>4, <2>7 DEF LastNow
<1>28. CASE SendsCorrection
  <2>1. PICK c \in Chats, landed \in BOOLEAN, ack \in BOOLEAN :
          CorrectionMailed(c, landed, ack) /\ UNCHANGED <<outcome, result, strict>>
    BY <1>28 DEF SendsCorrection
  <2>2. PICK mail \in Mailing : mail = verify.mail /\ verify.mail # None
    BY <2>1, MailTyped DEF CorrectionMailed
  <2>3. /\ Sent(mail, verify'.mail, c, "correction", landed, ack) /\ verify'.fixed = verify.fixed
        /\ verify'.active = verify.active /\ verify'.rows = verify.rows
    BY <2>1, <2>2 DEF CorrectionMailed
  <2>4. /\ ~landed => spent'.failures > 0
        /\ c \in mail.chats /\ verify'.mail # None /\ verify'.mail.f = mail.f
        /\ verify'.mail.goals = mail.goals /\ verify'.mail.chats = mail.chats \ {c}
    BY <2>3 DEF Sent
  <2>5. landed = TRUE
    BY <1>1, <2>4
  <2>6. PICK next : next = verify'.mail
    OBVIOUS
  <2>7. Sent(mail, next, c, "correction", TRUE, ack)
    BY <2>3, <2>5, <2>6
  <2>8. /\ \A d \in Chats, g \in Fixtures : <<d, g>> # <<c, mail.f>> => told'[d][g] = told[d][g]
        /\ Last(told'[c][mail.f]).goals = mail.goals
    BY <2>7, SentReaches
  <2>9. told[c][mail.f] # <<>> /\ mail.f \in Fixtures
    BY <1>1, <2>2, <2>4 DEF HeardNow, CorrectsTheTold, Mailing
  <2>10. VerifyHeld'
    BY <1>1, <2>1, <2>2, <2>3, <2>4 DEF LastNow, VerifyHeld
  <2>11. ToldFor'
    <3> SUFFICES ASSUME NEW d \in Chats, NEW g \in Fixtures, told'[d][g] # <<>>
                 PROVE  /\ d \in Audience(g)' \cup Group /\ Publishable(g)'
                        /\ outcome'[g] # None /\ ~outcome'[g].stale
                        /\ outcome'[g].notified \/ MailOn(g)'
      BY DEF ToldFor
    <3>1. told[d][g] # <<>>
      BY <2>8, <2>9
    <3> QED
      BY <1>1, <1>3, <1>13, <2>1, <3>1 DEF LastNow, ToldFor
  <2>12. LastOrComing'
    <3> SUFFICES ASSUME NEW d \in Chats, NEW g \in Fixtures, told'[d][g] # <<>>
                 PROVE  Last(told'[d][g]).goals = outcome'[g].goals \/ FixComing(g)' \/ MailComing(d, g)'
      BY DEF LastOrComing
    <3>1. CASE <<d, g>> = <<c, mail.f>>
      <4>1. mail.goals = outcome[mail.f].goals
        BY <1>1, <2>2 DEF LastNow, VerifyHeld
      <4> QED
        BY <2>1, <2>8, <3>1, <4>1
    <3>2. CASE <<d, g>> # <<c, mail.f>>
      <4>1. told'[d][g] = told[d][g]
        BY <2>8, <3>2
      <4>2. Last(told[d][g]).goals = outcome[g].goals \/ FixComing(g) \/ MailComing(d, g)
        BY <1>1, <4>1 DEF LastNow, LastOrComing
      <4>3. (FixComing(g) => FixComing(g)') /\ (MailComing(d, g) => MailComing(d, g)')
        BY <2>1, <2>2, <2>3, <2>4, <3>2 DEF FixComing, MailComing
      <4> QED
        BY <2>1, <4>1, <4>2, <4>3
    <3> QED
      BY <3>1, <3>2
  <2>13. OneAtATime' /\ MailCounts' /\ ResultHeld'
    BY <1>12, <1>23, <2>1, <2>3
  <2> QED
    BY <2>10, <2>11, <2>12, <2>13 DEF LastNow
<1>29. CASE FinishesCorrection
  <2>1. /\ verify.mail.chats = {} /\ verify'.mail = None
        /\ verify'.active = verify.active /\ verify'.rows = verify.rows /\ verify'.fixed = verify.fixed
        /\ UNCHANGED <<outcome, result, told, strict>>
    BY <1>29 DEF FinishesCorrection, CorrectionFinished
  <2>2. VerifyHeld'
    BY <1>1, <2>1 DEF LastNow, VerifyHeld
  <2>3. LastOrComing'
    BY <1>24, <2>1 DEF FixComing, MailComing
  <2> QED
    BY <1>12, <1>23, <2>1, <2>2, <2>3 DEF LastNow
<1>30. CASE EndsVerify
  <2>1. /\ verify.mail = None /\ verify.fixed = {} /\ verify' = IdleVerify
        /\ UNCHANGED <<outcome, result, told, strict>>
    BY <1>30 DEF EndsVerify
  <2>2. VerifyHeld' /\ OneAtATime'
    BY <2>1, IdleTyped DEF VerifyHeld, OneAtATime
  <2>3. LastOrComing'
    BY <1>24, <2>1 DEF FixComing, MailComing
  <2>4. ResultHeld' /\ MailCounts'
    BY <1>7, <1>11, <1>12, <1>13, <2>1
  <2>5. ToldFor'
    BY <1>9, <1>13, <2>1
  <2> QED
    BY <2>2, <2>3, <2>4, <2>5 DEF LastNow
<1> QED
  BY <1>14, <1>15, <1>16, <1>17, <1>18, <1>19, <1>20, <1>21, <1>22, <1>25, <1>26, <1>27, <1>28, <1>29,
     <1>30 DEF Kinds

-----------------------------------------------------------------------------
(* The theorems                                                            *)

LEMMA ToldInvInit ==
  ASSUME Init PROVE ToldInv /\ LastWord
<1>1. TypeInv
  BY TypeInit
<1>2. /\ ~result.active /\ result.mail = None /\ \A f \in Fixtures : result.rows[f] = None
      /\ ~verify.active /\ verify.mail = None /\ verify.fixed = {}
      /\ \A f \in Fixtures : verify.rows[f] = None
  BY IdleTyped DEF Init
<1>3. \A f \in Fixtures : outcome[f] = None
  BY DEF Init
<1>4. \A c \in Chats, f \in Fixtures : told[c][f] = <<>>
  BY DEF Init
<1>5. DOMAIN <<>> = {}
  OBVIOUS
<1>6. \A c \in Chats, f \in Fixtures : Messages(c, f, "result") = {}
  BY <1>4, <1>5 DEF Messages
<1>7. ResultPass /\ VerifyPass /\ FlagsHonest
  BY <1>2, <1>3 DEF ResultPass, VerifyPass, FlagsHonest, NotifiedIsHonest, MailOn
<1>8. OnceOnly
  BY <1>6 DEF OnceOnly, Has, Chats
<1>9. GoodCorrections
  BY <1>2, <1>4, <1>5 DEF GoodCorrections
<1>10. Heard
  BY <1>2, <1>3, <1>4
     DEF Heard, ResultFirst, FlagReaches, MailReaches, FixesKnown, CorrectsTheTold, MailOn
<1>11. LastWord
  BY <1>2, <1>4
     DEF LastWord, OneAtATime, ResultHeld, VerifyHeld, MailCounts, ToldFor, LastOrComing, MailOn
<1> QED
  BY <1>1, <1>7, <1>8, <1>9, <1>10, <1>11 DEF ToldInv

LEMMA ToldInvStep ==
  ToldInv /\ [Next]_vars => ToldInv'
<1> SUFFICES ASSUME ToldInv, [Next]_vars PROVE ToldInv'
  OBVIOUS
<1>1. TypeInv /\ ResultPass /\ VerifyPass /\ FlagsHonest /\ OnceOnly /\ GoodCorrections /\ Heard
  BY DEF ToldInv
<1>2. Kinds /\ UNCHANGED <<saw, clears>>
  BY <1>1, StepKinds
<1>3. TypeInv' /\ ResultPass' /\ VerifyPass' /\ FlagsHonest' /\ OnceOnly'
  BY <1>1, <1>2, TypeStep, ResultPassStep, VerifyPassStep, FlagsHonestStep, OnceOnlyStep
<1>4. GoodParts
  BY <1>1, PartsAreGood
<1>5. GoodParts'
  BY <1>1, <1>2, <1>4, GoodPartsStep
<1>6. TypeInv' => (GoodParts' <=> GoodCorrections')
  BY PartsAreGood, PTL
<1>7. Heard'
  BY <1>1, <1>2, <1>4, HeardStep
<1> QED
  BY <1>3, <1>5, <1>6, <1>7 DEF ToldInv

LEMMA ToldInvHolds == Spec => []ToldInv
BY ToldInvInit, ToldInvStep, PTL DEF Spec

(* Every row, pass, mailing and message is of its type, for any fixtures,  *)
(* users and provider entries.                                             *)
THEOREM ResultTypes == Spec => []TypeOK
<1>1. ToldInv => TypeOK
  BY DEF ToldInv, TypeInv
<1> QED
  BY <1>1, ToldInvHolds, PTL

(* The flag that stops the next attempt is never up for a publishable      *)
(* result that nobody was told, and a user is told a result at most once,  *)
(* unless a restart or a lost confirmation comes between send and flag.    *)
THEOREM ResultToldOnceTheorem == Spec => []ResultToldOnce
<1>1. ToldInv => ResultToldOnce
  <2> SUFFICES ASSUME ToldInv PROVE ResultToldOnce
    OBVIOUS
  <2>1. FlagsHonest /\ OnceOnly /\ TypeInv
    BY DEF ToldInv
  <2>2. UserToldOnce
    <3> SUFFICES ASSUME NoLoss, NEW c \in Users, NEW f \in Fixtures
                 PROVE  Cardinality(Messages(c, f, "result")) <= 1
      BY DEF UserToldOnce, NoLoss
    <3> DEFINE M == Messages(c, f, "result")
    <3>1. \A i, j \in M : i = j
      BY <2>1 DEF OnceOnly
    <3> HIDE DEF M
    <3>2. CASE M = {}
      BY <3>2, FS_EmptySet DEF M
    <3>3. ASSUME NEW i \in M PROVE Cardinality(M) <= 1
      <4>1. M = {i}
        BY <3>1, <3>3
      <4>2. Cardinality({i}) = 1
        BY FS_Singleton
      <4> QED
        BY <4>1, <4>2
    <3> QED
      BY <3>2, <3>3 DEF M
  <2> QED
    BY <2>1, <2>2 DEF FlagsHonest, ResultToldOnce
<1> QED
  BY <1>1, ToldInvHolds, PTL

(* A correction announces a scoreline the recorded winner bears out, and,  *)
(* when sends work, follows the result it corrects in the same chat:       *)
(* result and verification passes may overlap as they like.                *)
THEOREM CorrectionsAreSoundTheorem == Spec => []CorrectionsAreSound
<1>1. ToldInv => CorrectionsAreSound
  <2> SUFFICES ASSUME ToldInv PROVE CorrectionsAreSound
    OBVIOUS
  <2>1. GoodCorrections /\ Heard /\ TypeInv
    BY DEF ToldInv
  <2>2. \A c \in Chats, f \in Fixtures : told[c][f] \in Seq(Message)
    BY <2>1 DEF TypeInv, TypeOK
  <2>3. CorrectionsAreCredible
    BY <2>1 DEF GoodCorrections, GoodGoals, CorrectionsAreCredible, ToSet
  <2>4. CorrectsOnlyTheTold
    <3> SUFFICES ASSUME Faultless, NEW c \in Chats, NEW f \in Fixtures, Messages(c, f, "correction") # {}
                 PROVE  \E i \in Messages(c, f, "result") : \A j \in Messages(c, f, "correction") : i < j
      BY DEF CorrectsOnlyTheTold
    <3> DEFINE s == told[c][f]
    <3>1. s \in Seq(Message) /\ DOMAIN s = 1 .. Len(s) /\ Len(s) \in Nat
      BY <2>2
    <3>2. PICK j \in DOMAIN s : s[j].kind = "correction"
      BY DEF Messages
    <3>3. s # <<>> /\ 1 \in DOMAIN s
      BY <3>1, <3>2
    <3>4. s[1].kind = "result"
      BY <2>1, <3>3 DEF Heard, ResultFirst
    <3>5. 1 \in Messages(c, f, "result")
      BY <3>3, <3>4 DEF Messages
    <3>6. \A k \in Messages(c, f, "correction") : k \in 1 .. Len(s) /\ k # 1
      BY <3>1, <3>4 DEF Messages
    <3>7. \A k \in Messages(c, f, "correction") : 1 < k
      BY <3>1, <3>6
    <3> QED
      BY <3>5, <3>7
  <2> QED
    BY <2>3, <2>4 DEF CorrectionsAreSound
<1> QED
  BY <1>1, ToldInvHolds, PTL

(* When sends work and the two passes never overlap, a chat that was told  *)
(* a scoreline has, with the passes at rest, the one on record as its last *)
(* word, however often and in whatever order the provider corrects itself. *)
THEOREM LastWordTheorem ==
  ASSUME MaxInFlight <= 1 PROVE Spec => []LastWordIsRecord
<1>1. ToldInv /\ LastWord /\ [Next]_vars => LastWord'
  <2> SUFFICES ASSUME ToldInv, LastWord, [Next]_vars PROVE LastWord'
    OBVIOUS
  <2>1. TypeInv /\ ResultPass /\ VerifyPass /\ FlagsHonest /\ GoodCorrections /\ Heard
    BY DEF ToldInv
  <2>2. Kinds /\ UNCHANGED <<saw, clears>> /\ GoodParts
    BY <2>1, StepKinds, PartsAreGood
  <2> QED
    BY <2>1, <2>2, LastWordStep
<1>2. ToldInv /\ LastWord => LastWordIsRecord
  <2> SUFFICES ASSUME ToldInv, LastWord, Faultless, ~verify.active,
                      NEW c \in Chats, NEW f \in Fixtures, told[c][f] # <<>>
               PROVE  Last(told[c][f]).goals = outcome[f].goals
    BY DEF LastWordIsRecord
  <2>1. ~FixComing(f) /\ ~MailComing(c, f)
    BY DEF ToldInv, VerifyPass, FixComing, MailComing
  <2> QED
    BY <2>1 DEF LastWord, LastOrComing
<1>3. Spec => []LastWord
  BY <1>1, ToldInvInit, ToldInvHolds, PTL DEF Spec
<1> QED
  BY <1>2, <1>3, ToldInvHolds, PTL

-----------------------------------------------------------------------------
(* The life of a result on record                                          *)

(* mark_result_notified raises a flag that was down, or changes nothing.   *)
LEMMA FlagIsNotify ==
  ASSUME TypeInv, NEW f \in Fixtures, outcome[f] # None, MarkNotified(f), nudges' = nudges
  PROVE  Record!Notify(f) \/ UNCHANGED Record!vars
<1>1. outcome \in [Fixtures -> Outcome \cup {None}] /\ outcome[f] \in Outcome
  BY DEF TypeInv, TypeOK
<1>2. outcome' = [outcome EXCEPT ![f] = [outcome[f] EXCEPT !.notified = TRUE]]
  BY DEF MarkNotified
<1>3. CASE outcome[f].notified = TRUE
  <2>1. [outcome[f] EXCEPT !.notified = TRUE] = outcome[f]
    BY <1>1, <1>3 DEF Outcome
  <2> QED BY <1>1, <1>2, <2>1 DEF Record!vars
<1>4. CASE outcome[f].notified = FALSE
  BY <1>2, <1>4 DEF Record!Notify
<1>5. outcome[f].notified \in BOOLEAN
  BY <1>1 DEF Outcome
<1> QED BY <1>3, <1>4, <1>5

(* record_prediction_outcome enters a row where there is none, with the    *)
(* flag of a backlog row up.                                               *)
LEMMA ScoreIsEnter ==
  ASSUME TypeInv, NEW s \in Settlers, NEW f \in Fixtures, ScoreOutcome(s, f)
  PROVE  Record!Enter(f) \/ UNCHANGED Record!vars
<1> DEFINE stale == f \in settle[s].late
           goals == FinalGoals(source[f])
           new == [winner |-> source[f].winner, goals |-> goals,
                   notified |-> stale, stale |-> stale, checks |-> 0]
<1>1. /\ outcome' = IF Decided(source[f]) /\ outcome[f] = None
                    THEN [outcome EXCEPT ![f] = new] ELSE outcome
      /\ nudges' = nudges
  BY Zenon DEF ScoreOutcome
<1>2. outcome \in [Fixtures -> Outcome \cup {None}]
  BY DEF TypeInv, TypeOK
<1>3. CASE Decided(source[f]) /\ outcome[f] = None
  <2>1. source[f] \in Entries /\ source[f].winner # None
    BY <1>3 DEF Decided, TypeInv, TypeOK
  <2>2. source[f].winner \in Winners /\ source[f].goals \in Goals \cup {None}
    BY <2>1, ResultAssumption
  <2>3. goals \in Goals /\ stale \in BOOLEAN
    BY <2>2 DEF FinalGoals, Goals
  <2> HIDE DEF goals, stale
  <2>4. new \in Record!NewRow
    BY <2>2, <2>3 DEF Record!NewRow
  <2> HIDE DEF new
  <2>5. outcome' = [outcome EXCEPT ![f] = new]
    BY <1>1, <1>3
  <2>6. outcome'[f] = new
    BY <1>2, <2>5
  <2> QED BY <1>1, <1>3, <2>4, <2>5, <2>6 DEF Record!Enter
<1>4. CASE ~(Decided(source[f]) /\ outcome[f] = None)
  <2> HIDE DEF new
  <2> QED BY <1>1, <1>4 DEF Record!vars
<1> QED BY <1>3, <1>4

(* A check is counted on the row as it is stored, and the goals it writes  *)
(* are those of an entry with the recorded winner.                         *)
LEMMA RecheckIsCheck ==
  ASSUME TypeInv, NEW f \in Fixtures, VerifyRow(f)
  PROVE  Record!Check(f) \/ UNCHANGED Record!vars
<1> DEFINE row == verify.rows[f]
           entry == source[f]
           flipped == Decided(entry) /\ entry.winner # row.winner
           sound == Decided(entry) /\ ~flipped /\ Credible(entry)
           old == outcome[f]
           goals == IF old.winner = entry.winner THEN entry.goals ELSE old.goals
           new == [old EXCEPT !.checks = @ + 1, !.goals = goals]
<1>1. /\ row # None
      /\ outcome' = IF flipped \/ sound THEN [outcome EXCEPT ![f] = Verified(outcome[f], entry)] ELSE outcome
      /\ nudges' = nudges
  BY DEF VerifyRow
<1>2. old # None /\ old.winner = row.winner /\ old.checks < MaxChecks
  BY <1>1 DEF TypeInv, ResultInv, VerifyHolds, ReadHolds, ReadRow
<1>3. outcome \in [Fixtures -> Outcome \cup {None}] /\ old \in Outcome
  BY <1>2 DEF TypeInv, TypeOK
<1>4. CASE flipped \/ sound
  <2>1. Record!MayBecome(old, goals)
    <3>1. CASE flipped
      BY <1>2, <3>1 DEF Record!MayBecome
    <3>2. CASE sound
      <4>1. entry \in Entries /\ entry.winner = old.winner /\ Credible(entry) /\ goals = entry.goals
        BY <1>2, <3>2 DEF Decided, TypeInv, TypeOK
      <4>2. entry.goals \in Goals
        BY <4>1, ResultAssumption DEF Credible
      <4> HIDE DEF entry, goals, old
      <4> QED BY <4>1, <4>2 DEF Credible, Bears, Record!MayBecome
    <3> QED BY <1>4, <3>1, <3>2
  <2>2. Verified(old, entry) = new
    BY DEF Verified
  <2> HIDE DEF goals
  <2>3. new.checks = old.checks + 1 /\ new.goals = goals
    BY <1>3 DEF Outcome
  <2>4. outcome' = [outcome EXCEPT ![f] = new] /\ outcome'[f] = new
    BY <1>1, <1>3, <1>4, <2>2
  <2>5. outcome' = [outcome EXCEPT ![f] = [old EXCEPT !.checks = @ + 1, !.goals = outcome'[f].goals]]
    BY <2>3, <2>4
  <2> QED BY <1>1, <1>2, <2>1, <2>3, <2>4, <2>5 DEF Record!Check
<1>5. CASE ~(flipped \/ sound)
  BY <1>1, <1>5 DEF Record!vars
<1> QED BY <1>4, <1>5

(* A rating update is the first of a fixture that was entered in time, or  *)
(* is skipped.                                                             *)
LEMMA UpdateIsLearn ==
  ASSUME TypeInv, NEW s \in Settlers, NEW f \in Fixtures, UpdateRatings(s, f)
  PROVE  Record!Learn(f) \/ UNCHANGED Record!vars
<1>1. nudges[f] = 0 /\ outcome[f] # None /\ ~outcome[f].stale
  BY DEF UpdateRatings, TypeInv, ResultInv, LearnsOnce
<1>2. outcome' = outcome /\ (nudges' = [nudges EXCEPT ![f] = nudges[f] + 1] \/ nudges' = nudges)
  BY DEF UpdateRatings
<1> QED BY <1>1, <1>2 DEF Record!Learn, Record!vars

(* Every step of the passes is a step of the life of one result, or leaves *)
(* all of them alone.                                                      *)
LEMMA StepIsRecordStep ==
  ASSUME TypeInv, [Next]_vars PROVE [Record!Next]_(Record!vars)
<1>1. ASSUME UNCHANGED <<outcome, nudges>> PROVE UNCHANGED Record!vars
  BY <1>1 DEF Record!vars
<1>2. ASSUME NEW s \in Settlers, NEW f \in Fixtures, ScoreOutcome(s, f) PROVE [Record!Next]_(Record!vars)
  BY <1>2, ScoreIsEnter DEF Record!Next
<1>3. ASSUME NEW s \in Settlers, NEW f \in Fixtures, UpdateRatings(s, f) PROVE [Record!Next]_(Record!vars)
  BY <1>3, UpdateIsLearn DEF Record!Next
<1>4. ASSUME NEW f \in Fixtures, PickResult(f) PROVE [Record!Next]_(Record!vars)
  <2>1. outcome[f] # None /\ (MarkNotified(f) \/ outcome' = outcome) /\ nudges' = nudges
    BY <1>4 DEF PickResult, Consume, TypeInv, ResultInv, ResultHolds
  <2> QED BY <1>1, <2>1, FlagIsNotify DEF Record!Next
<1>5. ASSUME FinishResult PROVE [Record!Next]_(Record!vars)
  <2>1. /\ result.mail.f \in Fixtures /\ outcome[result.mail.f] # None /\ nudges' = nudges
        /\ MarkNotified(result.mail.f) \/ outcome' = outcome
    BY <1>5 DEF FinishResult, TypeInv, ResultInv, ResultHolds
  <2> QED BY <1>1, <2>1, FlagIsNotify DEF Record!Next
<1>6. ASSUME NEW f \in Fixtures, VerifyRow(f) PROVE [Record!Next]_(Record!vars)
  BY <1>6, RecheckIsCheck DEF Record!Next
<1> QED
  BY <1>1, <1>2, <1>3, <1>4, <1>5, <1>6 DEF Next, vars, Settling, ResultStep, Verifying, ProviderUpdates,
     TwoDaysPass, WindowCloses, StartSettle, FetchFails, StartResults, EndResults, SendResult, StartVerify,
     FinishCorrection, EndVerify, VerifyFetchFails, PickCorrection, SendCorrection, Restart

(* Settlement, the result pass and the verification pass together          *)
(* implement ResultRecord: a result is entered once, its winner and age    *)
(* are final, its flag only rises, its goals change at most with three     *)
(* checks and to credible ones, and the ratings learn it once and in time. *)
THEOREM ImplementsRecordTheorem == Spec => ImplementsRecord
<1>1. Init => Record!Init
  BY DEF Init, Record!Init
<1>2. ToldInv /\ [Next]_vars => [Record!Next]_(Record!vars)
  BY StepIsRecordStep DEF ToldInv
<1> QED BY <1>1, <1>2, ToldInvHolds, PTL DEF Spec, ImplementsRecord, Record!Spec
==============================================================================
