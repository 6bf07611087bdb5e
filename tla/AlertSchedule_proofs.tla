------------------------- MODULE AlertSchedule_proofs -------------------------
(***************************************************************************)
(* Machine-checked facts about AlertSchedule for any fixtures, kickoffs    *)
(* and bounds.                                                             *)
(***************************************************************************)
EXTENDS AlertSchedule, Induction

(* Jobs lie ahead; what fires now, or may still fire now, went out in      *)
(* earlier slots only.                                                     *)
JobsAhead == \A f \in Fixtures, tag \in Tags : job[f][tag] # None => job[f][tag] >= now
OnItsWay(f, tag) == firing[f][tag].stage # "idle"
SentEarlier(f, tag) == \A i \in DOMAIN sent[f][tag] : sent[f][tag][i] < now
DueIsUnsent ==
    \A f \in Fixtures, tag \in Tags :
        job[f][tag] = now \/ OnItsWay(f, tag) => SentEarlier(f, tag)
FiredIsGone == \A f \in Fixtures, tag \in Tags : OnItsWay(f, tag) => job[f][tag] # now
SentByNow ==
    \A f \in Fixtures, tag \in Tags : \A i \in DOMAIN sent[f][tag] : sent[f][tag][i] <= now

SlotParts == JobsAhead /\ DueIsUnsent /\ FiredIsGone /\ SentByNow /\ FiresOncePerSlot

(* A fixture that the last pass covered, with rows that agree, has the     *)
(* jobs its row calls for.                                                 *)
CallsFor(f, tag) ==
    /\ HasRow(f) /\ RowsAgree(f) /\ Stored(f).pass
    /\ Day(Stored(f).ko) = Day(now) /\ Stored(f).ko - Lead(tag) > now
Covered ==
    \A f \in fresh, tag \in Tags :
        ~up[f].dead /\ CallsFor(f, tag) => job[f][tag] = Stored(f).ko - Lead(tag)

(* A fixture of which no move is hidden has one kickoff in all its rows,   *)
(* in what the pass has read before it awaits upstream and in its jobs; it *)
(* is the kickoff upstream has once a pass has read that.                  *)
Agreed(f) ==
    /\ RowsAgree(f)
    /\ resync.active => resync.stored[f] = Stored(f).ko
    /\ \A tag \in Tags : job[f][tag] # None => job[f][tag] = Stored(f).ko - Lead(tag)
    /\ f \in fresh /\ ~up[f].dead => Stored(f).ko = up[f].ko
AllScored == \A f \in Fixtures : HasRow(f)
Followed == \A f \in Fixtures : f \notin hidden => Agreed(f)

(* The pass pulls the jobs of a dead match, hidden move or not.            *)
DeadPulled == \A f \in fresh, tag \in Tags : up[f].dead => job[f][tag] = None

PlanInv ==
    /\ TypeOK /\ SlotParts /\ Covered /\ NoAlarmForLiveFixture
    /\ AllScored /\ Followed /\ DeadPulled

-----------------------------------------------------------------------------
(* Days and the freshest row                                               *)

(* What the assumption says of the constants.                              *)
LEMMA ConstantTypes ==
  /\ MaxTime \in Nat /\ MaxChanges \in Nat /\ MaxScores \in Nat /\ MaxFaults \in Nat
  /\ Kickoffs \subseteq Slots /\ None \notin Nat /\ None \notin Slots /\ None \notin Prediction
BY ScheduleAssumption DEF Slots

LEMMA KickoffIsNat == \A k \in Kickoffs : k \in Nat
BY ConstantTypes DEF Slots

(* A slot lies in the window of its day.                                   *)
LEMMA DayOfSlot ==
  ASSUME NEW slot \in Slots
  PROVE  /\ Day(slot) \in Nat /\ Day(slot) \in Days
         /\ slot \in Day(slot) * DaySlots .. Day(slot) * DaySlots + DaySlots - 1
BY ConstantTypes DEF Day, Days, DaySlots, Slots

(* A slot of the day that begins at the first slot of day d.               *)
LEMMA DayWindow ==
  ASSUME NEW d \in Nat, NEW slot \in Slots
  PROVE  slot \in d * DaySlots .. d * DaySlots + DaySlots - 1 <=> Day(slot) = d
BY ConstantTypes DEF Day, DaySlots, Slots

LEMMA DayZero == 0 \in Days /\ Days \subseteq Nat
BY ConstantTypes DEF Day, DaySlots, Days

(* The freshest of a set of run dates is one of them, and none is later.   *)
LEMMA FreshestIsLast ==
  ASSUME NEW f, NEW ds \in SUBSET Days, ds # {}
  PROVE  Freshest(f, ds) \in ds /\ \A e \in ds : e <= Freshest(f, ds)
<1> DEFINE last == Day(MaxTime)
           behind == {last - d : d \in ds}
<1>1. last \in Nat /\ \A d \in ds : d \in Nat /\ last - d \in Nat
  BY ConstantTypes DEF Day, DaySlots, Days
<1>2. behind \in SUBSET Nat /\ behind # {}
  BY <1>1
<1>3. PICK x \in behind : \A y \in behind : x <= y
  <2> HIDE DEF behind
  <2> QED
    BY <1>2, LeastNumber
<1>4. PICK d \in ds : x = last - d
  BY <1>3
<1>5. \A e \in ds : e <= d
  <2> TAKE e \in ds
  <2>1. last - e \in behind
    OBVIOUS
  <2>2. x <= last - e
    BY <1>3, <2>1
  <2> HIDE DEF last, behind
  <2> QED
    BY <1>1, <1>4, <2>2
<1> QED
  BY <1>5 DEF Freshest

-----------------------------------------------------------------------------
(* Reading the rows                                                        *)

(* The stored prediction of a fixture that has one is one of its rows.     *)
LEMMA StoredIsRow ==
  ASSUME TypeOK, NEW f \in Fixtures, HasRow(f)
  PROVE  /\ Stored(f) \in Prediction /\ Stored(f).ko \in Kickoffs
         /\ \E d \in Days : rows[f][d] # None /\ Stored(f) = rows[f][d]
<1>1. RowDays(f) \in SUBSET Days /\ RowDays(f) # {}
  BY DEF RowDays, HasRow
<1>2. Freshest(f, RowDays(f)) \in RowDays(f)
  BY <1>1, FreshestIsLast
<1>3. PICK d \in RowDays(f) : Stored(f) = rows[f][d]
  BY <1>2 DEF Stored
<1>4. d \in Days /\ rows[f][d] # None /\ rows[f][d] \in Row
  BY <1>3 DEF RowDays, TypeOK
<1> QED
  BY <1>3, <1>4 DEF Row, Prediction

(* What a range query returns for a fixture is a row of it in that range.  *)
LEMMA RangeRow ==
  ASSUME NEW table \in [Fixtures -> [Days -> Row]], NEW from, NEW to,
         NEW f \in DOMAIN InRange(table, from, to)
  PROVE  /\ f \in Fixtures
         /\ \E d \in Days : /\ table[f][d] # None /\ table[f][d].ko \in from .. to
                            /\ InRange(table, from, to)[f] = table[f][d]
<1> DEFINE ds == {d \in Days : table[f][d] # None /\ table[f][d].ko \in from .. to}
<1>1. f \in Fixtures /\ ds # {} /\ ds \in SUBSET Days
  BY DEF InRange
<1>2. InRange(table, from, to)[f] = table[f][Freshest(f, ds)]
  BY DEF InRange
<1>3. Freshest(f, ds) \in ds
  <2> HIDE DEF ds
  <2> QED
    BY <1>1, FreshestIsLast
<1> QED
  BY <1>1, <1>2, <1>3

RowsOf(table, f) == {d \in Days : table[f][d] # None}

(* When all rows of a fixture have one kickoff, a range query that reaches *)
(* it returns the freshest.                                                *)
LEMMA RangeAgrees ==
  ASSUME NEW table \in [Fixtures -> [Days -> Row]], NEW from, NEW to,
         NEW f \in Fixtures, NEW k \in from .. to,
         RowsOf(table, f) # {},
         \A d \in Days : table[f][d] # None => table[f][d].ko = k
  PROVE  /\ f \in DOMAIN InRange(table, from, to)
         /\ InRange(table, from, to)[f] = table[f][Freshest(f, RowsOf(table, f))]
<1>1. RowsOf(table, f) = {d \in Days : table[f][d] # None /\ table[f][d].ko \in from .. to}
  BY DEF RowsOf
<1>2. f \in DOMAIN InRange(table, from, to)
  BY DEF InRange, RowsOf
<1>3. InRange(table, from, to)[f] =
        table[f][Freshest(f, {d \in Days : table[f][d] # None /\ table[f][d].ko \in from .. to})]
  BY <1>2 DEF InRange
<1> QED
  BY <1>1, <1>2, <1>3

-----------------------------------------------------------------------------
(* What a finished pass does, fixture by fixture                           *)

(* A pass rewrites the kickoffs of the moved fixtures, in all rows.        *)
LEMMA PassRows ==
  ASSUME TypeOK, NEW seen \in SUBSET Fixtures, FinishPass(seen)
  PROVE  /\ rows' \in [Fixtures -> [Days -> Row]]
         /\ \A f \in Fixtures, d \in Days :
              IF f \in Changed(seen) /\ ~up[f].dead /\ rows[f][d] # None
              THEN /\ rows'[f][d] # None /\ rows'[f][d].ko = up[f].ko
                   /\ rows'[f][d].pass = rows[f][d].pass
              ELSE rows'[f][d] = rows[f][d]
<1> DEFINE moved == {f \in Changed(seen) : ~up[f].dead}
           entry(f, d) == IF f \in moved /\ rows[f][d] # None
                          THEN [rows[f][d] EXCEPT !.ko = up[f].ko] ELSE rows[f][d]
<1>1. rows' = [f \in Fixtures |-> [d \in Days |-> entry(f, d)]]
  BY DEF FinishPass
<1>2. ASSUME NEW f \in Fixtures, NEW d \in Days
      PROVE  /\ entry(f, d) \in Row
             /\ IF f \in moved /\ rows[f][d] # None
                THEN entry(f, d) # None /\ entry(f, d).ko = up[f].ko /\ entry(f, d).pass = rows[f][d].pass
                ELSE entry(f, d) = rows[f][d]
  <2>1. rows[f][d] \in Row /\ up[f].ko \in Kickoffs
    BY DEF TypeOK
  <2>2. CASE f \in moved /\ rows[f][d] # None
    <3>1. rows[f][d] \in Prediction
      BY <2>1, <2>2 DEF Row
    <3>2. [rows[f][d] EXCEPT !.ko = up[f].ko] \in Prediction
      BY <3>1, <2>1 DEF Prediction
    <3> QED
      BY <2>2, <3>1, <3>2, ConstantTypes DEF Row, Prediction
  <2>3. CASE ~(f \in moved /\ rows[f][d] # None)
    BY <2>1, <2>3
  <2> QED
    BY <2>2, <2>3
<1>3. rows' \in [Fixtures -> [Days -> Row]]
  <2> HIDE DEF entry
  <2> QED
    BY <1>1, <1>2
<1>4. \A f \in Fixtures, d \in Days : rows'[f][d] = entry(f, d)
  <2> HIDE DEF entry
  <2> QED
    BY <1>1
<1>5. \A f \in Fixtures : f \in moved <=> f \in Changed(seen) /\ ~up[f].dead
  OBVIOUS
<1> HIDE DEF entry, moved
<1> QED
  BY <1>2, <1>3, <1>4, <1>5

(* A job after the pass was left alone, or a row of its fixture calls for  *)
(* it; a row that is alone with its kickoff gets its jobs.                 *)
LEMMA PassJobs ==
  ASSUME TypeOK, NEW seen \in SUBSET Fixtures, FinishPass(seen),
         NEW f \in Fixtures, NEW tag \in Tags
  PROVE  /\ job'[f][tag] \in Slots \cup {None}
         /\ job'[f][tag] # None =>
              \/ job'[f][tag] = job[f][tag] /\ f \notin Changed(seen)
              \/ /\ job'[f][tag] > now /\ ~(f \in Changed(seen) /\ up[f].dead)
                 /\ \E d \in Days : rows'[f][d] # None /\ job'[f][tag] = rows'[f][d].ko - Lead(tag)
         /\ ~up[f].dead /\ CallsFor(f, tag)' => job'[f][tag] = Stored(f)'.ko - Lead(tag)
<1> DEFINE changed == Changed(seen)
           today == InRange(rows', DayStart, DayEnd)
           preds == [g \in DOMAIN today \ DeadOf(changed) |-> today[g]]
           kept == JobsAfterDrop(changed)
<1>1. rows' \in [Fixtures -> [Days -> Row]]
  BY PassRows
<1>2. now' = now /\ job' = [g \in Fixtures |-> [t \in Tags |->
                  IF Planned(preds, g, t) THEN preds[g].ko - Lead(t) ELSE kept[g][t]]]
  BY DEF FinishPass
<1>3. job'[f][tag] = IF Planned(preds, f, tag) THEN preds[f].ko - Lead(tag) ELSE kept[f][tag]
  <2> HIDE DEF preds, kept
  <2> QED
    BY <1>2
<1>4. kept[f][tag] = IF f \in changed THEN None ELSE job[f][tag]
  BY DEF JobsAfterDrop
<1>5. job[f][tag] \in Slots \cup {None}
  BY DEF TypeOK
<1>6. ASSUME Planned(preds, f, tag)
      PROVE  /\ preds[f].ko - Lead(tag) \in Slots /\ preds[f].ko - Lead(tag) > now
             /\ ~(f \in changed /\ up[f].dead)
             /\ \E d \in Days : rows'[f][d] # None /\ preds[f].ko = rows'[f][d].ko
  <2>1. f \in DOMAIN today /\ f \notin DeadOf(changed) /\ preds[f] = today[f]
    <3> HIDE DEF today, changed
    <3> QED
      BY <1>6 DEF Planned
  <2>2. PICK d \in Days : rows'[f][d] # None /\ today[f] = rows'[f][d]
    BY <1>1, <2>1, RangeRow
  <2>3. preds[f].ko \in Kickoffs
    <3>1. rows'[f][d] \in Row
      BY <1>1
    <3>2. rows'[f][d] \in Prediction
      BY <2>2, <3>1 DEF Row
    <3> HIDE DEF preds, today
    <3> QED
      BY <2>1, <2>2, <3>2 DEF Prediction
  <2>4. preds[f].ko - Lead(tag) > now
    <3> HIDE DEF preds
    <3> QED
      BY <1>6 DEF Planned, InFuture
  <2>5. preds[f].ko - Lead(tag) \in Slots
    <3> HIDE DEF preds
    <3>1. preds[f].ko \in 0 .. MaxTime /\ MaxTime \in Nat
      BY <2>3, ConstantTypes DEF Slots
    <3>2. now \in Nat
      BY ConstantTypes DEF Slots, TypeOK
    <3>3. Lead(tag) \in {1, 2}
      BY DEF Lead
    <3> QED
      BY <3>1, <3>2, <3>3, <2>4 DEF Slots
  <2>6. ~(f \in changed /\ up[f].dead)
    BY <2>1 DEF DeadOf
  <2> HIDE DEF preds, today
  <2> QED
    BY <2>1, <2>2, <2>4, <2>5, <2>6
<1>7. ASSUME ~up[f].dead, CallsFor(f, tag)'
      PROVE  Planned(preds, f, tag) /\ preds[f].ko = Stored(f)'.ko
  <2> DEFINE ds == RowsOf(rows', f)
             row == rows'[f][Freshest(f, ds)]
  <2>1. Stored(f)' = row
    BY DEF Stored, RowDays, RowsOf
  <2>2. ds # {} /\ row.pass /\ Day(row.ko) = Day(now) /\ row.ko - Lead(tag) > now
        /\ \A d \in ds : rows'[f][d].ko = row.ko
    <3>1. CallsFor(f, tag)' = (/\ ds # {} /\ \A d \in ds : rows'[f][d].ko = row.ko
                               /\ row.pass
                               /\ Day(row.ko) = Day(now') /\ row.ko - Lead(tag) > now')
      BY <2>1 DEF CallsFor, HasRow, RowsAgree, RowDays, RowsOf, Day
    <3> QED
      BY <1>2, <1>7, <3>1
  <2>3. row.ko \in Slots
    <3>1. Freshest(f, ds) \in ds
      <4>1. ds \in SUBSET Days
        BY DEF RowsOf
      <4> HIDE DEF ds
      <4> QED
        BY <2>2, <4>1, FreshestIsLast
    <3>2. row \in Prediction
      <4>1. row \in Row /\ row # None
        BY <1>1, <3>1 DEF RowsOf
      <4> HIDE DEF row
      <4> QED
        BY <4>1 DEF Row
    <3> HIDE DEF row
    <3> QED
      BY <3>2, ConstantTypes DEF Prediction
  <2>4. row.ko \in DayStart .. DayEnd
    <3>1. now \in Slots
      BY DEF TypeOK
    <3> HIDE DEF row
    <3> QED
      BY <2>2, <2>3, <3>1, DayOfSlot, DayWindow DEF DayStart, DayEnd
  <2>5. f \in DOMAIN today /\ today[f] = row
    <3> DEFINE k == row.ko
    <3>1. k \in DayStart .. DayEnd
      BY <2>4
    <3>2. \A d \in Days : rows'[f][d] # None => rows'[f][d].ko = k
      BY <2>2 DEF RowsOf
    <3>3. RowsOf(rows', f) # {}
      BY <2>2
    <3>4. row = rows'[f][Freshest(f, RowsOf(rows', f))]
      OBVIOUS
    <3> HIDE DEF k, row, ds
    <3> QED
      BY <1>1, <3>1, <3>2, <3>3, <3>4, RangeAgrees
  <2>6. f \notin DeadOf(changed)
    BY <1>7 DEF DeadOf
  <2>7. f \in DOMAIN preds /\ preds[f] = row
    <3> HIDE DEF today, row
    <3> QED
      BY <2>5, <2>6
  <2> HIDE DEF preds, row
  <2> QED
    BY <2>1, <2>2, <2>7 DEF Planned, InFuture
<1> HIDE DEF preds, kept, changed, today
<1>8. CASE Planned(preds, f, tag)
  BY <1>3, <1>6, <1>7, <1>8 DEF changed
<1>9. CASE ~Planned(preds, f, tag)
  BY <1>3, <1>4, <1>5, <1>7, <1>9 DEF changed
<1> QED
  BY <1>8, <1>9

-----------------------------------------------------------------------------
(* Types                                                                   *)

LEMMA NowIsNat == TypeOK => now \in Nat
BY ConstantTypes DEF TypeOK, Slots

(* What a pass, or the watchdog, reads before it awaits upstream.          *)
LEMMA ReadTyped ==
  ASSUME TypeOK
  PROVE  [f \in Fixtures |-> IF HasRow(f) THEN Stored(f).ko ELSE None]
           \in [Fixtures -> Kickoffs \cup {None}]
BY StoredIsRow

(* An alert that goes out is appended to what its slot has sent.           *)
LEMMA SentAppended ==
  ASSUME TypeOK, NEW f \in Fixtures, NEW tag \in Tags,
         sent' = [sent EXCEPT ![f][tag] = Append(@, now)]
  PROVE  /\ sent' \in [Fixtures -> [Tags -> Seq(Slots)]]
         /\ sent'[f][tag] = Append(sent[f][tag], now)
         /\ \A g \in Fixtures, t \in Tags : <<g, t>> # <<f, tag>> => sent'[g][t] = sent[g][t]
<1> DEFINE S == Seq(Slots)
           grown == Append(sent[f][tag], now)
           line == [sent[f] EXCEPT ![tag] = grown]
<1>1. sent \in [Fixtures -> [Tags -> S]] /\ now \in Slots
  BY DEF TypeOK
<1>2. sent' = [sent EXCEPT ![f] = line]
  OBVIOUS
<1>3. grown \in S
  BY <1>1
<1> HIDE DEF grown, S
<1>4. line \in [Tags -> S] /\ line[tag] = grown /\ \A t \in Tags : t # tag => line[t] = sent[f][t]
  BY <1>1, <1>3
<1> HIDE DEF line
<1>5. /\ sent' \in [Fixtures -> [Tags -> S]] /\ sent'[f] = line
      /\ \A g \in Fixtures : g # f => sent'[g] = sent[g]
  BY <1>1, <1>2, <1>4
<1> QED
  BY <1>4, <1>5 DEF S, grown

(* An alert that comes a stage further.                                    *)
LEMMA StageSet ==
  ASSUME TypeOK, NEW f \in Fixtures, NEW tag \in Tags,
         NEW at \in Alerting,
         firing' = [firing EXCEPT ![f][tag] = at]
  PROVE  /\ firing' \in [Fixtures -> [Tags -> Alerting]]
         /\ firing'[f][tag] = at
         /\ \A g \in Fixtures, t \in Tags : <<g, t>> # <<f, tag>> => firing'[g][t] = firing[g][t]
<1> DEFINE S == Alerting
           line == [firing[f] EXCEPT ![tag] = at]
<1>1. firing \in [Fixtures -> [Tags -> S]] /\ at \in S
  BY DEF TypeOK
<1>2. firing' = [firing EXCEPT ![f] = line]
  OBVIOUS
<1> HIDE DEF S
<1>3. line \in [Tags -> S] /\ line[tag] = at /\ \A t \in Tags : t # tag => line[t] = firing[f][t]
  BY <1>1
<1> HIDE DEF line
<1>4. /\ firing' \in [Fixtures -> [Tags -> S]] /\ firing'[f] = line
      /\ \A g \in Fixtures : g # f => firing'[g] = firing[g]
  BY <1>1, <1>2, <1>3
<1> QED
  BY <1>3, <1>4 DEF S

(* The stages an alert takes.                                              *)
LEMMA StagesTyped ==
  ASSUME TypeOK, NEW f \in Fixtures
  PROVE  /\ Idle \in Alerting /\ Idle.stage = "idle"
         /\ [stage |-> "check", ko |-> None] \in Alerting
         /\ [stage |-> "lineup", ko |-> None] \in Alerting
         /\ [stage |-> "score", ko |-> up[f].ko] \in Alerting
BY DEF TypeOK, Idle, Alerting

(* An alert that is being re-scored has read a kickoff.                    *)
LEMMA ScoreRead ==
  ASSUME TypeOK, NEW f \in Fixtures, NEW tag \in Tags, firing[f][tag].stage = "score"
  PROVE  firing[f][tag].ko \in Kickoffs
<1>1. firing[f][tag] \in Alerting
  BY DEF TypeOK
<1>2. firing[f][tag] \in [stage : {"score"}, ko : Kickoffs]
  BY <1>1 DEF Alerting
<1> QED
  BY <1>2

(* What a scoring run or an alert stores is a row.                         *)
LEMMA UpsertTyped ==
  ASSUME TypeOK, NEW f \in Fixtures, NEW ko \in Kickoffs, UpsertsRow(f, ko)
  PROVE  /\ rows' \in [Fixtures -> [Days -> Row]]
         /\ fresh' \subseteq Fixtures /\ hidden' \subseteq Fixtures
         /\ Day(now) \in Days
         /\ \A g \in Fixtures : g # f => rows'[g] = rows[g]
         /\ rows'[f][Day(now)] # None /\ rows'[f][Day(now)].ko = ko
         /\ \A d \in Days : d # Day(now) => rows'[f][d] = rows[f][d]
<1>1. PICK pass \in BOOLEAN : rows' = [rows EXCEPT ![f][Day(now)] = [ko |-> ko, pass |-> pass]]
  BY DEF UpsertsRow
<1> DEFINE row == [ko |-> ko, pass |-> pass]
           line == [rows[f] EXCEPT ![Day(now)] = row]
<1>2. row \in Prediction /\ row \in Row /\ row.ko = ko /\ row # None
  BY ConstantTypes DEF Row, Prediction
<1>3. Day(now) \in Days
  BY DayOfSlot DEF TypeOK
<1>4. rows' = [rows EXCEPT ![f] = line]
  BY <1>1
<1> HIDE DEF row
<1>5. /\ line \in [Days -> Row] /\ line[Day(now)] = row
      /\ \A d \in Days : d # Day(now) => line[d] = rows[f][d]
  BY <1>2, <1>3 DEF TypeOK
<1> HIDE DEF line
<1>6. /\ rows' \in [Fixtures -> [Days -> Row]] /\ rows'[f] = line
      /\ \A g \in Fixtures : g # f => rows'[g] = rows[g]
  BY <1>4, <1>5 DEF TypeOK
<1>7. fresh' \subseteq Fixtures /\ hidden' \subseteq Fixtures
  BY DEF UpsertsRow, TypeOK
<1> QED
  BY <1>2, <1>3, <1>5, <1>6, <1>7

(* Counters of what was spent stay counters.                               *)
LEMMA SpentCounts ==
  ASSUME TypeOK,
         \/ spent' = spent
         \/ spent' = [spent EXCEPT !.changes = @ + 1]
         \/ spent' = [spent EXCEPT !.scores = @ + 1]
         \/ spent' = [spent EXCEPT !.faults = @ + 1]
  PROVE  spent' \in [changes : Nat, scores : Nat, faults : Nat]
<1>1. spent \in [changes : Nat, scores : Nat, faults : Nat]
  BY DEF TypeOK
<1> QED
  BY <1>1

(* Every action spends one of these at most.                               *)
LEMMA NextSpends ==
  ASSUME TypeOK, [Next]_vars
  PROVE  spent' \in [changes : Nat, scores : Nat, faults : Nat]
<1> DEFINE Counts == {spent, [spent EXCEPT !.changes = @ + 1], [spent EXCEPT !.scores = @ + 1],
                      [spent EXCEPT !.faults = @ + 1]}
<1>1. spent' \in Counts
  <2>1. CASE Tick \/ StartPass \/ Watchdog \/ Restart
    BY <2>1 DEF Tick, StartPass, Watchdog, Restart
  <2>2. ASSUME NEW seen \in SUBSET Fixtures, FinishPass(seen)
        PROVE  spent' \in Counts
    <3>1. spent' = [spent EXCEPT !.faults = IF seen = Fixtures THEN @ ELSE @ + 1]
      BY <2>2 DEF FinishPass
    <3> QED
      BY <3>1 DEF TypeOK
  <2>3. ASSUME NEW f \in Fixtures, UpstreamChanges(f) \/ ScoreFetch(f) \/ ScoreStore(f)
        PROVE  spent' \in Counts
    BY <2>3 DEF UpstreamChanges, ScoreFetch, ScoreStore
  <2>4. ASSUME NEW f \in Fixtures, NEW tag \in Tags, Alert(f, tag)
        PROVE  spent' \in Counts
    BY <2>4 DEF Alert, FireAlert, CheckedAlert, UncheckedAlert, RescoreFetch, RescoredAlert, BaselineAlert
  <2>5. CASE UNCHANGED vars
    BY <2>5 DEF vars
  <2> QED
    BY <2>1, <2>2, <2>3, <2>4, <2>5 DEF Next
<1> QED
  BY <1>1, SpentCounts

(* The type invariant holds at the start.                                  *)
LEMMA TypeInit == Init => TypeOK
<1> SUFFICES ASSUME Init PROVE TypeOK
  OBVIOUS
<1>1. now \in Slots
  BY ConstantTypes DEF Init, Slots
<1>10. planned \in BOOLEAN
  BY DEF Init
<1>11. firing \in [Fixtures -> [Tags -> Alerting]]
  BY DEF Init, Idle, Alerting
<1>2. up \in [Fixtures -> [ko : Kickoffs, dead : BOOLEAN]]
  BY DEF Init
<1>3. rows \in [Fixtures -> [Days -> Row]]
  <2>1. PICK pass \in [Fixtures -> BOOLEAN] :
          rows = [f \in Fixtures |-> [d \in Days |->
                    IF d = 0 THEN [ko |-> up[f].ko, pass |-> pass[f]] ELSE None]]
    BY DEF Init
  <2>2. \A f \in Fixtures : [ko |-> up[f].ko, pass |-> pass[f]] \in Row
    BY <1>2 DEF Row, Prediction
  <2>3. None \in Row
    BY DEF Row
  <2> QED
    BY <2>1, <2>2, <2>3
<1>4. job \in [Fixtures -> [Tags -> Slots \cup {None}]]
  BY DEF Init
<1>5. resync \in [active : BOOLEAN, stored : [Fixtures -> Kickoffs \cup {None}]]
  BY DEF Init, Quiet
<1>6. scoring \in [Fixtures -> Kickoffs \cup {None}]
  BY DEF Init
<1>7. sent \in [Fixtures -> [Tags -> Seq(Slots)]]
  BY DEF Init
<1>8. fresh \subseteq Fixtures /\ hidden \subseteq Fixtures /\ groundless \subseteq Fixtures
  BY DEF Init
<1>9. spent \in [changes : Nat, scores : Nat, faults : Nat]
  BY DEF Init
<1> QED
  BY <1>1, <1>2, <1>3, <1>4, <1>5, <1>6, <1>7, <1>8, <1>9, <1>10, <1>11 DEF TypeOK

(* The type invariant is kept by every step.                               *)
LEMMA TypeStep == TypeOK /\ [Next]_vars => TypeOK'
<1> SUFFICES ASSUME TypeOK, [Next]_vars PROVE TypeOK'
  OBVIOUS
<1>0. spent' \in [changes : Nat, scores : Nat, faults : Nat]
  BY NextSpends
<1>1. CASE Tick
  <2>1. now' \in Slots
    BY <1>1, NowIsNat, ConstantTypes DEF Tick, Slots
  <2>2. fresh' \subseteq Fixtures
    BY <1>1 DEF Tick, TypeOK
  <2> QED
    BY <1>0, <1>1, <2>1, <2>2 DEF Tick, TypeOK
<1>2. CASE StartPass
  BY <1>2, ReadTyped DEF StartPass, TypeOK
<1>3. CASE Watchdog
  <2>1. resync' \in [active : BOOLEAN, stored : [Fixtures -> Kickoffs \cup {None}]]
    BY <1>3, ReadTyped DEF Watchdog
  <2>2. groundless' \subseteq Fixtures
    BY <1>3 DEF Watchdog, TypeOK
  <2> QED
    BY <1>3, <2>1, <2>2 DEF Watchdog, TypeOK
<1>4. CASE Restart
  <2>1. resync' \in [active : BOOLEAN, stored : [Fixtures -> Kickoffs \cup {None}]]
    BY <1>4 DEF Restart, Quiet
  <2>2. firing' \in [Fixtures -> [Tags -> Alerting]]
    BY <1>4 DEF Restart, Idle, Alerting
  <2>3. hidden' \subseteq Fixtures
    BY <1>4 DEF Restart, TypeOK
  <2> QED
    BY <1>0, <1>4, <2>1, <2>2, <2>3 DEF Restart, TypeOK
<1>5. CASE \E seen \in SUBSET Fixtures : FinishPass(seen)
  <2>1. PICK seen \in SUBSET Fixtures : FinishPass(seen)
    BY <1>5
  <2>2. rows' \in [Fixtures -> [Days -> Row]]
    BY <2>1, PassRows
  <2>3. job' \in [Fixtures -> [Tags -> Slots \cup {None}]]
    <3>1. \A f \in Fixtures, tag \in Tags : job'[f][tag] \in Slots \cup {None}
      BY <2>1, PassJobs
    <3>2. PICK value : job' = [f \in Fixtures |-> [tag \in Tags |-> value[f][tag]]]
      <4> DEFINE preds == [f \in DOMAIN InRange(rows', DayStart, DayEnd) \ DeadOf(Changed(seen))
                             |-> InRange(rows', DayStart, DayEnd)[f]]
                 value == [f \in Fixtures |-> [tag \in Tags |->
                            IF Planned(preds, f, tag) THEN preds[f].ko - Lead(tag)
                            ELSE JobsAfterDrop(Changed(seen))[f][tag]]]
      <4>1. job' = value
        BY <2>1 DEF FinishPass
      <4>2. value = [f \in Fixtures |-> [tag \in Tags |-> value[f][tag]]]
        OBVIOUS
      <4> HIDE DEF value
      <4> QED
        BY <4>1, <4>2
    <3> QED
      BY <3>1, <3>2
  <2>4. resync' \in [active : BOOLEAN, stored : [Fixtures -> Kickoffs \cup {None}]]
    BY <2>1 DEF FinishPass, Quiet
  <2>5. fresh' \subseteq Fixtures /\ hidden' \subseteq Fixtures /\ planned' = TRUE
    BY <2>1 DEF FinishPass, TypeOK
  <2> QED
    BY <1>0, <2>1, <2>2, <2>3, <2>4, <2>5 DEF FinishPass, TypeOK
<1>6. ASSUME NEW f \in Fixtures, UpstreamChanges(f) PROVE TypeOK'
  <2>1. up' \in [Fixtures -> [ko : Kickoffs, dead : BOOLEAN]]
    BY <1>6 DEF UpstreamChanges, TypeOK
  <2>2. fresh' \subseteq Fixtures
    BY <1>6 DEF UpstreamChanges, TypeOK
  <2> QED
    BY <1>0, <1>6, <2>1, <2>2 DEF UpstreamChanges, TypeOK
<1>7. ASSUME NEW f \in Fixtures, ScoreFetch(f) PROVE TypeOK'
  <2>1. scoring' \in [Fixtures -> Kickoffs \cup {None}]
    BY <1>7 DEF ScoreFetch, TypeOK
  <2> QED
    BY <1>0, <1>7, <2>1 DEF ScoreFetch, TypeOK
<1>8. ASSUME NEW f \in Fixtures, ScoreStore(f) PROVE TypeOK'
  <2>1. scoring[f] \in Kickoffs /\ UpsertsRow(f, scoring[f])
    BY <1>8 DEF ScoreStore, TypeOK
  <2>2. rows' \in [Fixtures -> [Days -> Row]] /\ fresh' \subseteq Fixtures /\ hidden' \subseteq Fixtures
    BY <2>1, UpsertTyped
  <2>3. scoring' \in [Fixtures -> Kickoffs \cup {None}]
    BY <1>8 DEF ScoreStore, TypeOK
  <2> QED
    BY <1>8, <2>2, <2>3 DEF ScoreStore, TypeOK
<1>9. ASSUME NEW f \in Fixtures, NEW tag \in Tags, FireAlert(f, tag) PROVE TypeOK'
  <2>1. job' \in [Fixtures -> [Tags -> Slots \cup {None}]]
    BY <1>9 DEF FireAlert, TypeOK
  <2>2. firing' = firing \/ firing' = [firing EXCEPT ![f][tag] = [stage |-> "check", ko |-> None]]
    BY <1>9 DEF FireAlert
  <2>3. firing' \in [Fixtures -> [Tags -> Alerting]]
    BY <2>2, StageSet, StagesTyped DEF TypeOK
  <2> QED
    BY <1>9, <2>1, <2>3 DEF FireAlert, TypeOK
<1>10. ASSUME NEW f \in Fixtures, NEW tag \in Tags,
              CheckedAlert(f, tag) \/ UncheckedAlert(f, tag) \/ RescoreFetch(f, tag)
       PROVE  TypeOK'
  <2>1. \E at \in {Idle, [stage |-> "lineup", ko |-> None], [stage |-> "score", ko |-> up[f].ko]} :
          firing' = [firing EXCEPT ![f][tag] = at]
    BY <1>10 DEF CheckedAlert, UncheckedAlert, RescoreFetch
  <2>2. firing' \in [Fixtures -> [Tags -> Alerting]]
    BY <2>1, StageSet, StagesTyped
  <2>3. UNCHANGED <<now, up, rows, job, resync, scoring, planned, sent, fresh, hidden, groundless>>
    BY <1>10 DEF CheckedAlert, UncheckedAlert, RescoreFetch
  <2> QED
    BY <1>0, <2>2, <2>3 DEF TypeOK
<1>11. ASSUME NEW f \in Fixtures, NEW tag \in Tags, RescoredAlert(f, tag) \/ BaselineAlert(f, tag)
       PROVE  TypeOK'
  <2>1. firing' = [firing EXCEPT ![f][tag] = Idle] /\ sent' = [sent EXCEPT ![f][tag] = Append(@, now)]
    BY <1>11 DEF RescoredAlert, BaselineAlert, GoesOut
  <2>2. sent' \in [Fixtures -> [Tags -> Seq(Slots)]]
    BY <2>1, SentAppended
  <2>3. firing' \in [Fixtures -> [Tags -> Alerting]]
    BY <2>1, StageSet, StagesTyped
  <2>4. rows' \in [Fixtures -> [Days -> Row]] /\ fresh' \subseteq Fixtures /\ hidden' \subseteq Fixtures
    <3>1. CASE BaselineAlert(f, tag)
      BY <3>1 DEF BaselineAlert, TypeOK
    <3>2. CASE RescoredAlert(f, tag)
      <4>1. firing[f][tag].ko \in Kickoffs /\ UpsertsRow(f, firing[f][tag].ko)
        BY <3>2, ScoreRead DEF RescoredAlert
      <4> QED
        BY <4>1, UpsertTyped
    <3> QED
      BY <1>11, <3>1, <3>2
  <2>5. UNCHANGED <<now, up, job, resync, scoring, planned, groundless>>
    BY <1>11 DEF RescoredAlert, BaselineAlert
  <2> QED
    BY <1>0, <2>2, <2>3, <2>4, <2>5 DEF TypeOK
<1>12. CASE UNCHANGED vars
  BY <1>12 DEF vars, TypeOK
<1> QED
  BY <1>1, <1>2, <1>3, <1>4, <1>5, <1>6, <1>7, <1>8, <1>9, <1>10, <1>11, <1>12 DEF Next, Alert

-----------------------------------------------------------------------------
(* One alert per slot                                                      *)

(* A slot appended to earlier ones is new.                                 *)
LEMMA AppendedOnce ==
  ASSUME NEW s \in Seq(Slots), IsInjective(s), NEW at \in Slots,
         \A i \in DOMAIN s : s[i] < at
  PROVE  /\ IsInjective(Append(s, at))
         /\ \A i \in DOMAIN Append(s, at) : Append(s, at)[i] <= at
<1>1. at \in Nat /\ \A i \in DOMAIN s : s[i] \in Slots
  BY ConstantTypes DEF Slots
<1>2. DOMAIN Append(s, at) = 1 .. Len(s) + 1 /\ DOMAIN s = 1 .. Len(s) /\ Len(s) \in Nat
  OBVIOUS
<1>3. \A i \in DOMAIN Append(s, at) : Append(s, at)[i] = IF i = Len(s) + 1 THEN at ELSE s[i]
  OBVIOUS
<1>4. \A i \in DOMAIN Append(s, at) : i # Len(s) + 1 => i \in DOMAIN s /\ s[i] < at /\ s[i] \in Nat
  BY <1>1, <1>2, ConstantTypes DEF Slots
<1> DEFINE t == Append(s, at)
<1>5. ASSUME NEW a \in DOMAIN t, NEW b \in DOMAIN t, t[a] = t[b] PROVE a = b
  <2>1. CASE a = Len(s) + 1 \/ b = Len(s) + 1
    BY <1>1, <1>3, <1>4, <1>5, <2>1
  <2>2. CASE a # Len(s) + 1 /\ b # Len(s) + 1
    BY <1>3, <1>4, <1>5, <2>2 DEF IsInjective
  <2> QED
    BY <2>1, <2>2
<1>6. \A i \in DOMAIN t : t[i] <= at
  BY <1>1, <1>3, <1>4
<1> QED
  BY <1>5, <1>6 DEF IsInjective

(* Nothing is planned or sent at the start.                                *)
LEMMA SlotInit == Init => SlotParts
<1> SUFFICES ASSUME Init PROVE SlotParts
  OBVIOUS
<1>1. \A f \in Fixtures, tag \in Tags : sent[f][tag] = <<>> /\ job[f][tag] = None
  BY DEF Init
<1>2. now = 0 /\ None # 0 /\ \A f \in Fixtures, tag \in Tags : ~OnItsWay(f, tag)
  BY ConstantTypes DEF Init, Idle, OnItsWay
<1>3. DOMAIN <<>> = {}
  OBVIOUS
<1> QED
  BY <1>1, <1>2, <1>3
     DEF SlotParts, JobsAhead, DueIsUnsent, FiredIsGone, SentByNow, SentEarlier, FiresOncePerSlot, IsInjective

(* An alert that comes a stage further, goes out or is dropped was on its  *)
(* way; it is not any more once it went out.                               *)
LEMMA AlertKeepsSlots ==
  ASSUME TypeOK, SlotParts, NEW f \in Fixtures, NEW tag \in Tags, OnItsWay(f, tag),
         NEW at \in Alerting, firing' = [firing EXCEPT ![f][tag] = at], UNCHANGED <<now, job>>,
         \/ sent' = sent
         \/ at = Idle /\ sent' = [sent EXCEPT ![f][tag] = Append(@, now)]
  PROVE  SlotParts'
<1>1. /\ firing'[f][tag] = at
      /\ \A g \in Fixtures, t \in Tags : <<g, t>> # <<f, tag>> => firing'[g][t] = firing[g][t]
  BY StageSet
<1>2. SentEarlier(f, tag) /\ job[f][tag] # now
  BY DEF SlotParts, DueIsUnsent, FiredIsGone
<1>3. \A g \in Fixtures, t \in Tags : OnItsWay(g, t)' => OnItsWay(g, t)
  BY <1>1 DEF OnItsWay
<1>4. JobsAhead' /\ FiredIsGone'
  BY <1>3 DEF SlotParts, JobsAhead, FiredIsGone
<1>5. CASE sent' = sent
  <2>1. DueIsUnsent'
    BY <1>3, <1>5 DEF SlotParts, DueIsUnsent, SentEarlier
  <2>2. SentByNow' /\ FiresOncePerSlot'
    BY <1>5 DEF SlotParts, SentByNow, FiresOncePerSlot
  <2> QED
    BY <1>4, <2>1, <2>2 DEF SlotParts
<1>6. CASE at = Idle /\ sent' = [sent EXCEPT ![f][tag] = Append(@, now)]
  <2>1. /\ sent'[f][tag] = Append(sent[f][tag], now)
        /\ \A g \in Fixtures, t \in Tags : <<g, t>> # <<f, tag>> => sent'[g][t] = sent[g][t]
    BY <1>6, SentAppended
  <2>2. ~OnItsWay(f, tag)'
    BY <1>1, <1>6 DEF OnItsWay, Idle
  <2>3. sent[f][tag] \in Seq(Slots) /\ now \in Slots /\ IsInjective(sent[f][tag])
    BY DEF TypeOK, SlotParts, FiresOncePerSlot
  <2>4. IsInjective(sent'[f][tag]) /\ \A i \in DOMAIN sent'[f][tag] : sent'[f][tag][i] <= now
    BY <1>2, <2>1, <2>3, AppendedOnce DEF SentEarlier
  <2>6. DueIsUnsent'
    <3> SUFFICES ASSUME NEW g \in Fixtures, NEW t \in Tags, job[g][t] = now \/ OnItsWay(g, t)'
                 PROVE  SentEarlier(g, t)'
      BY DEF DueIsUnsent
    <3>1. <<g, t>> # <<f, tag>>
      BY <1>2, <2>2
    <3>2. job[g][t] = now \/ OnItsWay(g, t)
      BY <1>3
    <3> QED
      BY <2>1, <3>1, <3>2 DEF SlotParts, DueIsUnsent, SentEarlier
  <2>7. ASSUME NEW g \in Fixtures, NEW t \in Tags
        PROVE  IsInjective(sent'[g][t]) /\ \A i \in DOMAIN sent'[g][t] : sent'[g][t][i] <= now
    <3>1. CASE <<g, t>> = <<f, tag>>
      BY <2>4, <3>1
    <3>2. CASE <<g, t>> # <<f, tag>>
      BY <2>1, <3>2 DEF SlotParts, SentByNow, FiresOncePerSlot
    <3> QED
      BY <3>1, <3>2
  <2>8. SentByNow' /\ FiresOncePerSlot'
    BY <2>7 DEF SentByNow, FiresOncePerSlot
  <2> QED
    BY <1>4, <2>6, <2>8 DEF SlotParts
<1> QED
  BY <1>5, <1>6

(* Jobs stay ahead and slots stay unsent until they fire, in every step.   *)
LEMMA SlotStep == TypeOK /\ SlotParts /\ [Next]_vars => SlotParts'
<1> SUFFICES ASSUME TypeOK, SlotParts, [Next]_vars PROVE SlotParts'
  OBVIOUS
<1> USE DEF SlotParts
<1>1. now \in Nat /\ None \notin Nat
  BY NowIsNat, ConstantTypes
<1>2. CASE UNCHANGED <<now, job, firing, sent>>
  BY <1>2 DEF JobsAhead, DueIsUnsent, OnItsWay, SentEarlier, FiredIsGone, SentByNow, FiresOncePerSlot
<1>3. CASE Tick
  <2>1. /\ now' = now + 1 /\ UNCHANGED <<job, firing, sent>>
        /\ \A f \in Fixtures, tag \in Tags : job[f][tag] # now /\ ~OnItsWay(f, tag)'
    BY <1>3 DEF Tick, DueNow, OnItsWay
  <2>2. \A f \in Fixtures, tag \in Tags : job[f][tag] # None => job[f][tag] \in Nat
    BY ConstantTypes DEF TypeOK, Slots
  <2>3. JobsAhead'
    BY <1>1, <2>1, <2>2 DEF JobsAhead
  <2>4. \A f \in Fixtures, tag \in Tags : \A i \in DOMAIN sent[f][tag] :
          sent[f][tag][i] \in Nat /\ sent[f][tag][i] <= now
    <3>1. \A f \in Fixtures, tag \in Tags : sent[f][tag] \in Seq(Slots)
      BY DEF TypeOK
    <3>2. \A f \in Fixtures, tag \in Tags : \A i \in DOMAIN sent[f][tag] : sent[f][tag][i] \in Slots
      BY <3>1
    <3> QED
      BY <3>2, ConstantTypes DEF SentByNow, Slots
  <2>5. \A f \in Fixtures, tag \in Tags : \A i \in DOMAIN sent[f][tag] :
          sent[f][tag][i] < now + 1 /\ sent[f][tag][i] <= now + 1
    BY <1>1, <2>4
  <2>6. DueIsUnsent' /\ SentByNow'
    BY <2>1, <2>5 DEF DueIsUnsent, SentEarlier, SentByNow
  <2>7. FiredIsGone' /\ FiresOncePerSlot'
    BY <2>1 DEF FiredIsGone, FiresOncePerSlot
  <2> QED
    BY <2>3, <2>6, <2>7
<1>4. CASE Restart
  <2>1. /\ \A f \in Fixtures, tag \in Tags : job'[f][tag] = None
        /\ \A f \in Fixtures, tag \in Tags : ~OnItsWay(f, tag)'
        /\ UNCHANGED <<now, sent>>
    BY <1>4 DEF Restart, OnItsWay, Idle
  <2> QED
    BY <1>1, <2>1 DEF JobsAhead, DueIsUnsent, FiredIsGone, SentByNow, FiresOncePerSlot
<1>5. ASSUME NEW seen \in SUBSET Fixtures, FinishPass(seen) PROVE SlotParts'
  <2>1. UNCHANGED <<now, firing, sent>>
    BY <1>5 DEF FinishPass
  <2>2. \A f \in Fixtures, tag \in Tags :
          job'[f][tag] = None \/ job'[f][tag] = job[f][tag] \/ job'[f][tag] > now
    BY <1>5, PassJobs
  <2>3. \A f \in Fixtures, tag \in Tags :
          job'[f][tag] # None => job'[f][tag] \in Nat /\ (job'[f][tag] = job[f][tag] \/ job'[f][tag] > now)
    <3>1. \A f \in Fixtures, tag \in Tags : job'[f][tag] \in Slots \cup {None}
      BY <1>5, PassJobs
    <3> QED
      BY <2>2, <3>1, ConstantTypes DEF Slots
  <2>4. \A f \in Fixtures, tag \in Tags : job'[f][tag] = now => job[f][tag] = now
    BY <1>1, <2>2
  <2>5. JobsAhead'
    BY <1>1, <2>1, <2>3 DEF JobsAhead
  <2>6. DueIsUnsent' /\ FiredIsGone'
    BY <2>1, <2>4 DEF DueIsUnsent, FiredIsGone, OnItsWay, SentEarlier
  <2>7. SentByNow' /\ FiresOncePerSlot'
    BY <2>1 DEF SentByNow, FiresOncePerSlot
  <2> QED
    BY <2>5, <2>6, <2>7
<1>6. ASSUME NEW f \in Fixtures, UpstreamChanges(f) \/ ScoreFetch(f) \/ ScoreStore(f)
      PROVE  UNCHANGED <<now, job, firing, sent>>
  BY <1>6 DEF UpstreamChanges, ScoreFetch, ScoreStore
<1>7. ASSUME NEW f \in Fixtures, NEW tag \in Tags, FireAlert(f, tag) PROVE SlotParts'
  <2>1. /\ job[f][tag] = now /\ job' = [job EXCEPT ![f][tag] = None] /\ UNCHANGED <<now, sent>>
        /\ firing' = firing \/ firing' = [firing EXCEPT ![f][tag] = [stage |-> "check", ko |-> None]]
    BY <1>7 DEF FireAlert, DueNow
  <2>2. /\ job'[f][tag] = None
        /\ \A g \in Fixtures, t \in Tags : <<g, t>> # <<f, tag>> => job'[g][t] = job[g][t]
    BY <2>1 DEF TypeOK
  <2>3. \A g \in Fixtures, t \in Tags : <<g, t>> # <<f, tag>> => firing'[g][t] = firing[g][t]
    <3>1. [stage |-> "check", ko |-> None] \in Alerting
      BY StagesTyped
    <3>2. CASE firing' = firing
      BY <3>2
    <3>3. CASE firing' = [firing EXCEPT ![f][tag] = [stage |-> "check", ko |-> None]]
      BY <3>1, <3>3, StageSet
    <3> QED
      BY <2>1, <3>2, <3>3
  <2>4. JobsAhead'
    BY <2>1, <2>2 DEF JobsAhead
  <2>5. SentEarlier(f, tag)
    BY <2>1 DEF DueIsUnsent
  <2>6. ASSUME NEW g \in Fixtures, NEW t \in Tags, job'[g][t] = now \/ OnItsWay(g, t)'
        PROVE  SentEarlier(g, t)
    <3>1. CASE <<g, t>> = <<f, tag>>
      BY <2>5, <3>1
    <3>2. CASE <<g, t>> # <<f, tag>>
      BY <2>2, <2>3, <2>6, <3>2 DEF DueIsUnsent, OnItsWay
    <3> QED
      BY <3>1, <3>2
  <2>7. DueIsUnsent'
    BY <2>1, <2>6 DEF DueIsUnsent, SentEarlier
  <2>8. FiredIsGone'
    <3>1. ASSUME NEW g \in Fixtures, NEW t \in Tags, OnItsWay(g, t)' PROVE job'[g][t] # now
      BY <1>1, <2>2, <2>3, <3>1 DEF FiredIsGone, OnItsWay
    <3> QED
      BY <2>1, <3>1 DEF FiredIsGone
  <2>9. SentByNow' /\ FiresOncePerSlot'
    BY <2>1 DEF SentByNow, FiresOncePerSlot
  <2> QED
    BY <2>4, <2>7, <2>8, <2>9
<1>8. ASSUME NEW f \in Fixtures, NEW tag \in Tags,
             CheckedAlert(f, tag) \/ UncheckedAlert(f, tag) \/ RescoreFetch(f, tag)
      PROVE  SlotParts'
  <2>1. OnItsWay(f, tag) /\ UNCHANGED <<now, job, sent>>
    BY <1>8 DEF CheckedAlert, UncheckedAlert, RescoreFetch, OnItsWay
  <2>2. PICK at \in {Idle, [stage |-> "lineup", ko |-> None], [stage |-> "score", ko |-> up[f].ko]} :
          firing' = [firing EXCEPT ![f][tag] = at]
    BY <1>8 DEF CheckedAlert, UncheckedAlert, RescoreFetch
  <2>3. at \in Alerting
    BY StagesTyped
  <2> QED
    BY <2>1, <2>2, <2>3, AlertKeepsSlots
<1>9. ASSUME NEW f \in Fixtures, NEW tag \in Tags, RescoredAlert(f, tag) \/ BaselineAlert(f, tag)
      PROVE  SlotParts'
  <2>1. /\ OnItsWay(f, tag) /\ firing' = [firing EXCEPT ![f][tag] = Idle] /\ UNCHANGED <<now, job>>
        /\ sent' = [sent EXCEPT ![f][tag] = Append(@, now)]
    BY <1>9 DEF RescoredAlert, BaselineAlert, GoesOut, OnItsWay
  <2> QED
    BY <2>1, AlertKeepsSlots, StagesTyped
<1>10. CASE StartPass \/ Watchdog \/ UNCHANGED vars
  BY <1>2, <1>10 DEF StartPass, Watchdog, vars
<1> HIDE DEF SlotParts
<1> QED
  BY <1>2, <1>3, <1>4, <1>5, <1>6, <1>7, <1>8, <1>9, <1>10 DEF Next, Alert

-----------------------------------------------------------------------------
(* A covered fixture has its jobs, so the watchdog has nothing to report   *)

(* What is read of a fixture depends on its own rows only.                 *)
LEMMA SameRow ==
  ASSUME NEW f, rows'[f] = rows[f]
  PROVE  /\ HasRow(f)' <=> HasRow(f)
         /\ Stored(f)' = Stored(f)
         /\ RowsAgree(f)' <=> RowsAgree(f)
<1>1. RowDays(f)' = RowDays(f)
  BY DEF RowDays
<1>2. Stored(f)' = Stored(f)
  BY <1>1 DEF Stored, RowDays
<1> QED
  BY <1>1, <1>2 DEF HasRow, RowsAgree

(* Whatever takes a job away takes the fixture out of the covered ones, or *)
(* the slot of the job has come.                                           *)
LEMMA CoveredStep ==
  ASSUME TypeOK, Covered, [Next]_vars
  PROVE  Covered'
<1> SUFFICES ASSUME NEW f \in fresh', NEW tag \in Tags, ~up'[f].dead, CallsFor(f, tag)'
             PROVE  job'[f][tag] = Stored(f)'.ko - Lead(tag)
  BY DEF Covered
<1>1. f \in Fixtures /\ now \in Nat
  BY TypeStep, NowIsNat DEF TypeOK
<1>2. ASSUME f \in fresh, up' = up, rows'[f] = rows[f], now' = now, job' = job
      PROVE  job'[f][tag] = Stored(f)'.ko - Lead(tag)
  <2>1. CallsFor(f, tag) /\ Stored(f)' = Stored(f)
    BY <1>2, SameRow DEF CallsFor, Day
  <2> QED
    BY <1>2, <2>1 DEF Covered
<1>3. CASE Tick
  <2>1. /\ f \in fresh /\ Day(now') = Day(now) /\ now' = now + 1
        /\ UNCHANGED <<up, rows, job>>
    BY <1>3 DEF Tick
  <2>2. CallsFor(f, tag) /\ Stored(f)' = Stored(f)
    <3>1. Stored(f)' = Stored(f) /\ HasRow(f) /\ RowsAgree(f)
      BY <2>1, SameRow DEF CallsFor
    <3>2. Stored(f).pass /\ Day(Stored(f).ko) = Day(now) /\ Stored(f).ko - Lead(tag) > now + 1
      BY <2>1, <3>1 DEF CallsFor, Day
    <3>3. Stored(f).ko - Lead(tag) \in Int
      <4>1. Stored(f).ko \in Kickoffs
        BY <1>1, <3>1, StoredIsRow
      <4>2. Stored(f).ko \in Int
        BY <4>1, KickoffIsNat
      <4>3. Lead(tag) \in Int
        BY DEF Lead
      <4> QED
        BY <4>2, <4>3
    <3>4. Stored(f).ko - Lead(tag) > now
      BY <1>1, <3>2, <3>3
    <3> QED
      BY <3>1, <3>2, <3>4 DEF CallsFor
  <2> QED
    BY <2>1, <2>2 DEF Covered
<1>4. CASE Restart
  BY <1>4 DEF Restart
<1>5. ASSUME NEW seen \in SUBSET Fixtures, FinishPass(seen)
      PROVE  job'[f][tag] = Stored(f)'.ko - Lead(tag)
  <2>1. ~up[f].dead
    BY <1>5 DEF FinishPass
  <2> QED
    BY <1>1, <1>5, <2>1, PassJobs
<1>6. ASSUME NEW g \in Fixtures, UpstreamChanges(g)
      PROVE  job'[f][tag] = Stored(f)'.ko - Lead(tag)
  <2>1. /\ f \in fresh /\ f # g /\ UNCHANGED <<now, rows, job>>
        /\ up'[f] = up[f]
    BY <1>1, <1>6 DEF UpstreamChanges, TypeOK
  <2>2. CallsFor(f, tag) /\ Stored(f)' = Stored(f)
    BY <2>1, SameRow DEF CallsFor, Day
  <2> QED
    BY <2>1, <2>2 DEF Covered
<1>7. ASSUME NEW g \in Fixtures, ScoreFetch(g)
      PROVE  job'[f][tag] = Stored(f)'.ko - Lead(tag)
  BY <1>2, <1>7 DEF ScoreFetch
<1>8. ASSUME NEW g \in Fixtures, NEW ko, UpsertsRow(g, ko), UNCHANGED <<now, up, job>>
      PROVE  job'[f][tag] = Stored(f)'.ko - Lead(tag)
  <2>1. f \in fresh /\ f # g
    BY <1>8 DEF UpsertsRow
  <2>2. PICK row, d : rows' = [rows EXCEPT ![g][d] = row]
    BY <1>8 DEF UpsertsRow
  <2>3. rows'[f] = rows[f]
    BY <1>1, <2>1, <2>2 DEF TypeOK
  <2> QED
    BY <1>2, <1>8, <2>1, <2>3
<1>9. ASSUME NEW g \in Fixtures, NEW t \in Tags, FireAlert(g, t)
      PROVE  job'[f][tag] = Stored(f)'.ko - Lead(tag)
  <2>1. /\ job[g][t] = now /\ job' = [job EXCEPT ![g][t] = None]
        /\ UNCHANGED <<now, up, rows, fresh>>
    BY <1>9 DEF FireAlert, DueNow
  <2>2. CallsFor(f, tag) /\ Stored(f)' = Stored(f)
    BY <2>1, SameRow DEF CallsFor, Day
  <2>3. job[f][tag] = Stored(f).ko - Lead(tag) /\ Stored(f).ko - Lead(tag) > now
    BY <2>1, <2>2 DEF Covered, CallsFor
  <2>4. job[f][tag] # now
    BY <1>1, <2>3
  <2>5. job'[f][tag] = job[f][tag]
    BY <1>1, <2>1, <2>4 DEF TypeOK
  <2> QED
    BY <2>2, <2>3, <2>5
<1>10. ASSUME NEW g \in Fixtures, NEW t \in Tags,
              CheckedAlert(g, t) \/ UncheckedAlert(g, t) \/ RescoreFetch(g, t) \/ BaselineAlert(g, t)
       PROVE  job'[f][tag] = Stored(f)'.ko - Lead(tag)
  BY <1>2, <1>10 DEF CheckedAlert, UncheckedAlert, RescoreFetch, BaselineAlert
<1>11. ASSUME NEW g \in Fixtures, NEW t \in Tags, RescoredAlert(g, t)
       PROVE  job'[f][tag] = Stored(f)'.ko - Lead(tag)
  BY <1>8, <1>11 DEF RescoredAlert
<1>12. ASSUME NEW g \in Fixtures, ScoreStore(g)
       PROVE  job'[f][tag] = Stored(f)'.ko - Lead(tag)
  BY <1>8, <1>12 DEF ScoreStore
<1>13. CASE StartPass \/ Watchdog \/ UNCHANGED vars
  BY <1>2, <1>13 DEF StartPass, Watchdog, vars
<1> QED
  BY <1>3, <1>4, <1>5, <1>6, <1>7, <1>9, <1>10, <1>11, <1>12, <1>13 DEF Next, Alert

(* The watchdog sees the rows of the range, which for rows that agree are  *)
(* those the pass planned.                                                 *)
LEMMA WatchdogStep ==
  ASSUME TypeOK, Covered, NoAlarmForLiveFixture, Watchdog
  PROVE  NoAlarmForLiveFixture'
<1> DEFINE preds == InRange(rows, now, AuditEnd(now))
<1>1. SUFFICES ASSUME NEW f \in fresh, NEW tag \in Tags, ~up[f].dead, RowsAgree(f),
                      Planned(preds, f, tag), job[f][tag] = None
               PROVE  FALSE
  BY DEF Watchdog, NoAlarmForLiveFixture
<1>2. f \in Fixtures /\ now \in Slots /\ now \in Nat /\ rows \in [Fixtures -> [Days -> Row]]
  BY NowIsNat DEF TypeOK
<1>3. /\ f \in DOMAIN preds /\ preds[f].pass /\ preds[f].ko - Lead(tag) > now
  <2> HIDE DEF preds
  <2> QED
    BY <1>1 DEF Planned, InFuture
<1>4. PICK d \in Days : rows[f][d] # None /\ rows[f][d].ko \in now .. AuditEnd(now)
  BY <1>2, <1>3, RangeRow
<1>5. HasRow(f) /\ rows[f][d].ko = Stored(f).ko
  BY <1>1, <1>4 DEF HasRow, RowDays, RowsAgree
<1>6. Stored(f).ko \in now .. AuditEnd(now)
  BY <1>4, <1>5
<1>7. preds[f] = Stored(f)
  <2> DEFINE k == Stored(f).ko
  <2>1. \A e \in Days : rows[f][e] # None => rows[f][e].ko = k
    BY <1>1 DEF RowsAgree, RowDays
  <2>2. RowsOf(rows, f) # {} /\ k \in now .. AuditEnd(now)
    BY <1>4, <1>6 DEF RowsOf
  <2> HIDE DEF k
  <2>3. InRange(rows, now, AuditEnd(now))[f] = rows[f][Freshest(f, RowsOf(rows, f))]
    BY <1>2, <2>1, <2>2, RangeAgrees
  <2> QED
    BY <2>3 DEF Stored, RowDays, RowsOf
<1>8. Day(Stored(f).ko) = Day(now)
  <2>1. Stored(f).ko \in Slots
    BY <1>2, <1>5, StoredIsRow, ConstantTypes
  <2>2. Day(now) \in Nat /\ now \in Day(now) * DaySlots .. Day(now) * DaySlots + DaySlots - 1
    BY <1>2, DayOfSlot
  <2> DEFINE from == Day(now) * DaySlots
  <2>3. from \in Nat /\ from <= now /\ DayEnd = from + DaySlots - 1
    BY <2>2 DEF DaySlots, DayEnd, DayStart
  <2> HIDE DEF from
  <2>4. AuditEnd(now) \in Int /\ AuditEnd(now) <= DayEnd
    BY <1>2, <2>3 DEF AuditEnd, Smaller, Horizon, DaySlots
  <2>5. Stored(f).ko \in from .. from + DaySlots - 1
    BY <1>2, <1>6, <2>3, <2>4 DEF DaySlots
  <2> QED
    BY <2>1, <2>2, <2>5, DayWindow DEF from
<1> HIDE DEF preds
<1>9. CallsFor(f, tag)
  BY <1>1, <1>3, <1>5, <1>7, <1>8 DEF CallsFor
<1>10. job[f][tag] = Stored(f).ko - Lead(tag) /\ Stored(f).ko - Lead(tag) > now
  BY <1>1, <1>9 DEF Covered, CallsFor
<1>11. Stored(f).ko - Lead(tag) \in Int
  <2>1. Stored(f).ko \in Int
    BY <1>2, <1>5, StoredIsRow, KickoffIsNat
  <2>2. Lead(tag) \in Int
    BY DEF Lead
  <2> QED
    BY <2>1, <2>2
<1> QED
  BY <1>1, <1>2, <1>10, <1>11, ConstantTypes

(* Only the watchdog reports.                                              *)
LEMMA QuietStep ==
  ASSUME TypeOK, Covered, NoAlarmForLiveFixture, [Next]_vars
  PROVE  NoAlarmForLiveFixture'
<1>1. Watchdog \/ groundless' = groundless
  BY DEF Next, vars, Tick, StartPass, Restart, FinishPass, UpstreamChanges, ScoreFetch, ScoreStore,
         Alert, FireAlert, CheckedAlert, UncheckedAlert, RescoreFetch, RescoredAlert, BaselineAlert
<1> QED
  BY <1>1, WatchdogStep DEF NoAlarmForLiveFixture

-----------------------------------------------------------------------------
(* A fixture of which no move is hidden agrees with itself                 *)

(* A row that is stored with the kickoff of all others, or of all others   *)
(* that are left, keeps the kickoff of the fixture.                        *)
LEMMA OneKickoff ==
  ASSUME TypeOK, rows' \in [Fixtures -> [Days -> Row]], NEW f \in Fixtures, NEW k,
         RowsOf(rows', f) # {}, \A d \in Days : rows'[f][d] # None => rows'[f][d].ko = k
  PROVE  HasRow(f)' /\ RowsAgree(f)' /\ Stored(f)'.ko = k
<1>1. RowsOf(rows', f) \in SUBSET Days /\ RowDays(f)' = RowsOf(rows', f)
  BY DEF RowsOf, RowDays
<1>2. Freshest(f, RowsOf(rows', f)) \in RowsOf(rows', f)
  BY <1>1, FreshestIsLast
<1>3. Stored(f)' = rows'[f][Freshest(f, RowsOf(rows', f))]
  BY <1>1 DEF Stored
<1>4. Stored(f)'.ko = k
  BY <1>2, <1>3 DEF RowsOf
<1> QED
  BY <1>1, <1>4 DEF HasRow, RowsAgree, RowsOf

(* Nothing that agreed is lost when rows stay, jobs only go, and upstream  *)
(* stays or takes the fixture out of the covered ones.                     *)
LEMMA AgreedKept ==
  ASSUME TypeOK, NEW f \in Fixtures, Agreed(f), rows'[f] = rows[f],
         \A tag \in Tags : job'[f][tag] \in {None, job[f][tag]},
         resync'.active => resync' = resync \/ resync'.stored[f] = Stored(f).ko,
         f \in fresh' => f \in fresh /\ up'[f] = up[f]
  PROVE  Agreed(f)'
BY SameRow DEF Agreed

(* A stored row that brings no other kickoff hides nothing.                *)
LEMMA UpsertStep ==
  ASSUME TypeOK, NEW g \in Fixtures, NEW ko \in Kickoffs, UpsertsRow(g, ko),
         UNCHANGED <<job, resync, up>>, NEW f \in Fixtures, HasRow(f), f \notin hidden => Agreed(f)
  PROVE  HasRow(f)' /\ (f \notin hidden' => Agreed(f)')
<1>1. CASE f # g
  <2>1. rows'[f] = rows[f] /\ (f \in fresh' => f \in fresh) /\ (f \notin hidden' => f \notin hidden)
    BY <1>1, UpsertTyped DEF UpsertsRow
  <2> QED
    BY <2>1, SameRow, AgreedKept
<1>2. CASE f = g
  <2>1. HasRow(f)'
    BY <1>2, UpsertTyped DEF HasRow, RowDays
  <2>2. ASSUME f \notin hidden' PROVE Agreed(f)'
    <3>1. f \notin hidden /\ Stored(f).ko = ko /\ f \notin fresh'
      BY <1>2, <2>2 DEF UpsertsRow
    <3>2. Agreed(f)
      BY <3>1
    <3>3. \A d \in Days : rows'[f][d] # None => rows'[f][d].ko = ko
      <4> TAKE d \in Days
      <4>1. CASE d = Day(now)
        BY <1>2, <4>1, UpsertTyped
      <4>2. CASE d # Day(now)
        BY <1>2, <3>1, <3>2, <4>2, UpsertTyped DEF Agreed, RowsAgree, RowDays
      <4> QED
        BY <4>1, <4>2
    <3>4. RowsOf(rows', f) # {}
      BY <1>2, UpsertTyped DEF RowsOf
    <3>5. RowsAgree(f)' /\ Stored(f)'.ko = ko
      <4>1. rows' \in [Fixtures -> [Days -> Row]]
        BY UpsertTyped
      <4> QED
        BY <3>3, <3>4, <4>1, OneKickoff
    <3> QED
      BY <3>1, <3>2, <3>5 DEF Agreed
  <2> QED
    BY <2>1, <2>2
<1> QED
  BY <1>1, <1>2

(* A pass brings the rows and the jobs of a fixture to the kickoff that    *)
(* upstream has, unless a move was hidden from it.                         *)
LEMMA PassAgrees ==
  ASSUME TypeOK, NEW seen \in SUBSET Fixtures, FinishPass(seen),
         NEW f \in Fixtures, HasRow(f), f \notin hidden => Agreed(f)
  PROVE  HasRow(f)' /\ (f \notin hidden' => Agreed(f)')
<1> DEFINE moved == f \in Changed(seen) /\ ~up[f].dead
<1>1. /\ resync.active /\ ~resync'.active /\ UNCHANGED <<now, up>>
      /\ f \in fresh' => f \in seen /\ resync.stored[f] # None
      /\ f \notin hidden' => f \notin hidden \/ (f \in Changed(seen) /\ (~up[f].dead \/ RowsAgree(f)))
  BY DEF FinishPass, Quiet
<1>2. /\ rows' \in [Fixtures -> [Days -> Row]]
      /\ \A d \in Days : rows[f][d] # None => rows'[f][d] # None
      /\ moved => \A d \in Days : rows'[f][d] # None => rows'[f][d].ko = up[f].ko
      /\ ~moved => \A d \in Days : rows'[f][d] = rows[f][d]
  BY PassRows
<1>3. RowsOf(rows', f) # {} /\ HasRow(f)'
  BY <1>2 DEF HasRow, RowDays, RowsOf
<1>4. CASE moved
  <2>1. RowsAgree(f)' /\ Stored(f)'.ko = up[f].ko
    BY <1>2, <1>3, <1>4, OneKickoff
  <2>2. \A tag \in Tags : job'[f][tag] # None => job'[f][tag] = up[f].ko - Lead(tag)
    BY <1>2, <1>4, PassJobs
  <2> QED
    BY <1>1, <1>3, <2>1, <2>2 DEF Agreed
<1>5. CASE ~moved
  <2>1. SUFFICES ASSUME f \notin hidden' PROVE Agreed(f)'
    BY <1>3
  <2>2. RowsAgree(f)
    BY <1>1, <1>5, <2>1 DEF Agreed
  <2>3. PICK k : \A d \in Days : rows[f][d] # None => rows[f][d].ko = k
    BY <2>2 DEF RowsAgree, RowDays
  <2>4. RowsAgree(f)' /\ Stored(f)'.ko = k
    <3>1. \A d \in Days : rows'[f][d] # None => rows'[f][d].ko = k
      BY <1>2, <1>5, <2>3
    <3>2. rows' \in [Fixtures -> [Days -> Row]]
      BY <1>2
    <3> QED
      BY <1>3, <3>1, <3>2, OneKickoff
  <2>5. Stored(f).ko = k
    BY <2>3, StoredIsRow
  <2>6. ASSUME NEW tag \in Tags, job'[f][tag] # None PROVE job'[f][tag] = k - Lead(tag)
    <3>1. CASE job'[f][tag] = job[f][tag] /\ f \notin Changed(seen)
      <4>1. f \notin hidden
        BY <1>1, <2>1, <3>1
      <4> QED
        BY <2>5, <2>6, <3>1, <4>1 DEF Agreed
    <3>2. CASE \E d \in Days : rows'[f][d] # None /\ job'[f][tag] = rows'[f][d].ko - Lead(tag)
      BY <1>2, <1>5, <2>3, <3>2
    <3> QED
      BY <2>6, <3>1, <3>2, PassJobs
  <2>7. ASSUME f \in fresh', ~up[f].dead PROVE k = up[f].ko
    <3>1. f \notin Changed(seen) /\ f \notin hidden
      BY <1>1, <1>5, <2>1, <2>7
    <3>2. resync.stored[f] = up[f].ko
      BY <1>1, <2>7, <3>1 DEF Changed
    <3> QED
      BY <1>1, <2>5, <3>1, <3>2 DEF Agreed
  <2> QED
    BY <1>1, <2>4, <2>6, <2>7 DEF Agreed
<1> QED
  BY <1>4, <1>5

(* Every fixture keeps a row, and agrees with itself unless a move of it   *)
(* is hidden.                                                              *)
LEMMA FollowedStep ==
  ASSUME TypeOK, AllScored, Followed, [Next]_vars
  PROVE  AllScored' /\ Followed'
<1> SUFFICES ASSUME NEW f \in Fixtures PROVE HasRow(f)' /\ (f \notin hidden' => Agreed(f)')
  BY DEF AllScored, Followed
<1>1. HasRow(f) /\ (f \notin hidden => Agreed(f))
  BY DEF AllScored, Followed
<1>2. ASSUME rows' = rows, hidden' = hidden, resync' = resync,
             \A tag \in Tags : job'[f][tag] \in {None, job[f][tag]},
             f \in fresh' => f \in fresh /\ up'[f] = up[f]
      PROVE  HasRow(f)' /\ (f \notin hidden' => Agreed(f)')
  BY <1>1, <1>2, SameRow, AgreedKept
<1>3. CASE Tick
  BY <1>2, <1>3 DEF Tick
<1>4. CASE StartPass \/ Watchdog
  <2>1. /\ UNCHANGED <<rows, hidden, job, fresh, up>> /\ resync'.stored[f] = Stored(f).ko
    BY <1>1, <1>4 DEF StartPass, Watchdog
  <2> QED
    BY <1>1, <2>1, SameRow, AgreedKept
<1>5. CASE Restart
  <2>1. /\ UNCHANGED <<rows, up>> /\ ~resync'.active /\ f \notin fresh'
        /\ \A tag \in Tags : job'[f][tag] = None
        /\ f \notin hidden' => f \notin hidden \/ RowsAgree(f)
    BY <1>5 DEF Restart, Quiet
  <2>2. f \notin hidden' => RowsAgree(f)
    BY <1>1, <2>1 DEF Agreed
  <2> QED
    BY <1>1, <2>1, <2>2, SameRow DEF Agreed
<1>6. ASSUME NEW seen \in SUBSET Fixtures, FinishPass(seen)
      PROVE  HasRow(f)' /\ (f \notin hidden' => Agreed(f)')
  BY <1>1, <1>6, PassAgrees
<1>7. ASSUME NEW g \in Fixtures, UpstreamChanges(g)
      PROVE  HasRow(f)' /\ (f \notin hidden' => Agreed(f)')
  <2>1. f \in fresh' => f \in fresh /\ up'[f] = up[f]
    BY <1>7 DEF UpstreamChanges, TypeOK
  <2> QED
    BY <1>2, <1>7, <2>1 DEF UpstreamChanges
<1>8. ASSUME NEW g \in Fixtures, ScoreFetch(g)
      PROVE  HasRow(f)' /\ (f \notin hidden' => Agreed(f)')
  BY <1>2, <1>8 DEF ScoreFetch
<1>9. ASSUME NEW g \in Fixtures, ScoreStore(g)
      PROVE  HasRow(f)' /\ (f \notin hidden' => Agreed(f)')
  <2>1. scoring[g] \in Kickoffs /\ UpsertsRow(g, scoring[g]) /\ UNCHANGED <<job, resync, up>>
    BY <1>9 DEF ScoreStore, TypeOK
  <2> QED
    BY <1>1, <2>1, UpsertStep
<1>10. ASSUME NEW g \in Fixtures, NEW t \in Tags, FireAlert(g, t)
       PROVE  HasRow(f)' /\ (f \notin hidden' => Agreed(f)')
  <2>1. job' = [job EXCEPT ![g][t] = None] /\ UNCHANGED <<rows, hidden, resync, fresh, up>>
    BY <1>10 DEF FireAlert
  <2>2. \A tag \in Tags : job'[f][tag] \in {None, job[f][tag]}
    BY <2>1 DEF TypeOK
  <2> QED
    BY <1>2, <2>1, <2>2
<1>11. ASSUME NEW g \in Fixtures, NEW t \in Tags,
              CheckedAlert(g, t) \/ UncheckedAlert(g, t) \/ RescoreFetch(g, t) \/ BaselineAlert(g, t)
       PROVE  HasRow(f)' /\ (f \notin hidden' => Agreed(f)')
  BY <1>2, <1>11 DEF CheckedAlert, UncheckedAlert, RescoreFetch, BaselineAlert
<1>12. ASSUME NEW g \in Fixtures, NEW t \in Tags, RescoredAlert(g, t)
       PROVE  HasRow(f)' /\ (f \notin hidden' => Agreed(f)')
  <2>1. /\ firing[g][t].ko \in Kickoffs /\ UpsertsRow(g, firing[g][t].ko)
        /\ UNCHANGED <<job, resync, up>>
    BY <1>12, ScoreRead DEF RescoredAlert
  <2> QED
    BY <1>1, <2>1, UpsertStep
<1>13. CASE UNCHANGED vars
  BY <1>2, <1>13 DEF vars
<1> QED
  BY <1>3, <1>4, <1>5, <1>6, <1>7, <1>8, <1>9, <1>10, <1>11, <1>12, <1>13 DEF Next, Alert

(* A pass that read a dead match has pulled its jobs, and only a pass      *)
(* registers any.                                                          *)
LEMMA PulledStep ==
  ASSUME TypeOK, DeadPulled, [Next]_vars
  PROVE  DeadPulled'
<1> SUFFICES ASSUME NEW f \in fresh', NEW tag \in Tags, up'[f].dead PROVE job'[f][tag] = None
  BY DEF DeadPulled
<1>1. f \in Fixtures
  BY TypeStep DEF TypeOK
<1>2. ASSUME f \in fresh, up'[f] = up[f], job'[f][tag] \in {None, job[f][tag]}
      PROVE  job'[f][tag] = None
  BY <1>2 DEF DeadPulled
<1>3. CASE Tick \/ StartPass \/ Watchdog \/ UNCHANGED vars
  <2>1. f \in fresh /\ UNCHANGED <<up, job>>
    BY <1>3 DEF Tick, StartPass, Watchdog, vars
  <2> QED
    BY <1>2, <2>1
<1>4. CASE Restart
  BY <1>4 DEF Restart
<1>5. ASSUME NEW seen \in SUBSET Fixtures, FinishPass(seen) PROVE job'[f][tag] = None
  <2>1. f \in seen /\ resync.stored[f] # None /\ up[f].dead
    BY <1>5 DEF FinishPass
  <2>2. f \in Changed(seen)
    BY <2>1 DEF Changed
  <2> QED
    BY <1>1, <1>5, <2>1, <2>2, PassJobs
<1>6. ASSUME NEW g \in Fixtures, UpstreamChanges(g) PROVE job'[f][tag] = None
  <2>1. f \in fresh /\ f # g /\ up'[f] = up[f] /\ job' = job
    BY <1>1, <1>6 DEF UpstreamChanges, TypeOK
  <2> QED
    BY <1>2, <2>1
<1>7. ASSUME NEW g \in Fixtures, ScoreFetch(g) \/ ScoreStore(g) PROVE job'[f][tag] = None
  <2>1. f \in fresh /\ UNCHANGED <<up, job>>
    BY <1>7 DEF ScoreFetch, ScoreStore, UpsertsRow
  <2> QED
    BY <1>2, <2>1
<1>8. ASSUME NEW g \in Fixtures, NEW t \in Tags, FireAlert(g, t) PROVE job'[f][tag] = None
  <2>1. f \in fresh /\ up' = up /\ job' = [job EXCEPT ![g][t] = None]
    BY <1>8 DEF FireAlert
  <2>2. job'[f][tag] \in {None, job[f][tag]}
    BY <1>1, <2>1 DEF TypeOK
  <2> QED
    BY <1>2, <2>1, <2>2
<1>9. ASSUME NEW g \in Fixtures, NEW t \in Tags,
             \/ CheckedAlert(g, t) \/ UncheckedAlert(g, t)
             \/ RescoreFetch(g, t) \/ RescoredAlert(g, t) \/ BaselineAlert(g, t)
      PROVE  job'[f][tag] = None
  <2>1. f \in fresh /\ UNCHANGED <<up, job>>
    BY <1>9 DEF CheckedAlert, UncheckedAlert, RescoreFetch, RescoredAlert, BaselineAlert, UpsertsRow
  <2> QED
    BY <1>2, <2>1
<1> QED
  BY <1>3, <1>4, <1>5, <1>6, <1>7, <1>8, <1>9 DEF Next, Alert

-----------------------------------------------------------------------------
(* The theorems                                                            *)

(* The invariant holds at the start and every step keeps it.               *)
LEMMA PlanInit == Init => PlanInv
<1> SUFFICES ASSUME Init PROVE PlanInv
  OBVIOUS
<1>1. TypeOK /\ SlotParts
  BY TypeInit, SlotInit
<1>2. Covered /\ NoAlarmForLiveFixture
  BY DEF Init, Covered, NoAlarmForLiveFixture
<1>3. PICK pass \in [Fixtures -> BOOLEAN] :
        rows = [f \in Fixtures |-> [d \in Days |->
                  IF d = 0 THEN [ko |-> up[f].ko, pass |-> pass[f]] ELSE None]]
  BY DEF Init
<1>4. /\ fresh = {} /\ resync.active = FALSE
      /\ \A f \in Fixtures, tag \in Tags : job[f][tag] = None
  BY DEF Init, Quiet
<1>5. \A f \in Fixtures : /\ rows[f][0].ko = up[f].ko
                          /\ \A d \in Days : d # 0 => rows[f][d] = None
  BY <1>3, DayZero
<1>6. \A f \in Fixtures : rows[f][0] # None
  <2> TAKE f \in Fixtures
  <2>1. [ko |-> up[f].ko, pass |-> pass[f]] \in Prediction
    BY <1>1 DEF TypeOK, Prediction
  <2> QED
    BY <1>3, <2>1, DayZero, ConstantTypes
<1>7. \A f \in Fixtures : HasRow(f) /\ RowsAgree(f)
  <2> TAKE f \in Fixtures
  <2>1. RowDays(f) = {0}
    BY <1>5, <1>6, DayZero DEF RowDays
  <2>2. Freshest(f, RowDays(f)) = 0
    BY <2>1, DayZero DEF Freshest
  <2> QED
    BY <2>1, <2>2 DEF HasRow, RowsAgree, Stored
<1>8. AllScored /\ Followed /\ DeadPulled
  BY <1>4, <1>7 DEF AllScored, Followed, Agreed, DeadPulled
<1> QED
  BY <1>1, <1>2, <1>8 DEF PlanInv

LEMMA PlanStep == PlanInv /\ [Next]_vars => PlanInv'
BY TypeStep, SlotStep, CoveredStep, QuietStep, FollowedStep, PulledStep DEF PlanInv

(* The invariant holds throughout; the theorems below read it off.         *)
THEOREM PlanInvariant == Spec => []PlanInv
<1>1. Init => PlanInv
  BY PlanInit
<1>2. PlanInv /\ [Next]_vars => PlanInv'
  BY PlanStep
<1> QED
  BY <1>1, <1>2, PTL DEF Spec

(* The early and the late alert of a fixture go out at most once in each   *)
(* slot, whatever passes, scoring runs and restarts register again.        *)
THEOREM FiresOnceTheorem == Spec => []FiresOncePerSlot
<1>1. PlanInv => FiresOncePerSlot
  BY DEF PlanInv, SlotParts
<1> QED
  BY <1>1, PlanInvariant, PTL

(* The watchdog is quiet about a match that is going ahead, that the last  *)
(* pass has covered and whose rows agree on the kickoff.                   *)
THEOREM NoFalseAlarmTheorem == Spec => []NoAlarmForLiveFixture
<1>1. PlanInv => NoAlarmForLiveFixture
  BY DEF PlanInv
<1> QED
  BY <1>1, PlanInvariant, PTL

(* A covered fixture has no job when it is dead, and else, unless a move   *)
(* of it is hidden, the jobs its kickoff upstream calls for and no other.  *)
LEMMA PlanAgrees == PlanInv => SchedulerAgreesWithUpstream
<1> SUFFICES ASSUME PlanInv, NEW f \in fresh, NEW tag \in Tags
             PROVE  LET due == up[f].ko - Lead(tag)
                    IN  /\ up[f].dead => job[f][tag] = None
                        /\ ~up[f].dead /\ f \notin hidden =>
                             /\ job[f][tag] \in {None, due}
                             /\ (/\ Day(up[f].ko) = Day(now) /\ due > now
                                 /\ HasRow(f) /\ Stored(f).pass) => job[f][tag] = due
  BY DEF SchedulerAgreesWithUpstream
<1>1. f \in Fixtures /\ TypeOK
  BY DEF PlanInv, TypeOK
<1>2. up[f].dead => job[f][tag] = None
  BY DEF PlanInv, DeadPulled
<1>3. ASSUME ~up[f].dead, f \notin hidden
      PROVE  /\ job[f][tag] \in {None, up[f].ko - Lead(tag)}
             /\ RowsAgree(f) /\ Stored(f).ko = up[f].ko
  BY <1>1, <1>3 DEF PlanInv, Followed, Agreed
<1>4. ASSUME ~up[f].dead, f \notin hidden, Day(up[f].ko) = Day(now), HasRow(f), Stored(f).pass,
             up[f].ko - Lead(tag) > now
      PROVE  job[f][tag] = up[f].ko - Lead(tag)
  <2>1. CallsFor(f, tag) /\ Stored(f).ko = up[f].ko
    BY <1>3, <1>4 DEF CallsFor
  <2> QED
    BY <1>4, <2>1 DEF PlanInv, Covered
<1> QED
  BY <1>2, <1>3, <1>4

(* Once a pass has read it, a dead match has no job, and a live one has    *)
(* exactly the jobs its kickoff upstream calls for, whatever scoring runs, *)
(* alerts, failing calls and restarts came before, unless one of them      *)
(* stored the move ahead of the pass.                                      *)
THEOREM SchedulerAgreesTheorem == Spec => []SchedulerAgreesWithUpstream
BY PlanAgrees, PlanInvariant, PTL

(* Every state of the schedule has the types it is declared with.          *)
THEOREM ScheduleTypes == Spec => []TypeOK
<1>1. PlanInv => TypeOK
  BY DEF PlanInv
<1> QED
  BY <1>1, PlanInvariant, PTL
=============================================================================
