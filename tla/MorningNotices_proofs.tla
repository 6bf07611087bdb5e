------------------------ MODULE MorningNotices_proofs ------------------------
(***************************************************************************)
(* Machine-checked facts about MorningNotices for any fixtures and any     *)
(* number of passes of each kind.                                          *)
(***************************************************************************)
EXTENDS MorningNotices, FiniteSetTheorems, TLAPS

States == {"none", "pending", "consumed", "sent"}

PassType ==
    [pc : {"idle", "waitDrop", "sendDrop", "promo", "waitPromo", "sendPromo"},
     ids : SUBSET Fixtures, at : Nat, todo : SUBSET Fixtures,
     cur : Fixtures \cup {Nobody}, later : SUBSET Fixtures]

AlertType == [pc : {"idle", "check", "send"}, late : BOOLEAN, noted : BOOLEAN]

NoticesTyped ==
    /\ now \in Nat /\ alert \in [Fixtures -> AlertType]
    /\ listing \in [Fixtures -> States] /\ promoted \in [Fixtures -> Nat]
    /\ told \in [Fixtures -> Nat] /\ cheered \in [Fixtures -> Nat]
    /\ pass \in [Passes -> PassType]

(* The pass that sends drop notices is the one that holds the lock, and    *)
(* what it sends and is still going to look at is pending.                 *)
DropLocked == \A p \in Passes : pass[p].pc = "sendDrop" <=> dropLock = p
DropSending ==
    \A p \in Passes : pass[p].pc = "sendDrop" =>
        /\ pass[p].cur \in Fixtures /\ listing[pass[p].cur] = "pending"
        /\ pass[p].cur \notin pass[p].todo
        /\ \A g \in pass[p].todo : listing[g] = "pending"

(* A fixture was told once if its row says sent, and else never; so the     *)
(* recovery line, rendered before it is sent, stays true.                  *)
DropExact ==
    /\ \A f \in Fixtures : told[f] = IF listing[f] = "sent" THEN 1 ELSE 0
    /\ \A f \in recovery : f \in Fixtures /\ listing[f] = "sent"
    /\ \A f \in Fixtures : alert[f].noted => listing[f] = "sent"

(* The same for promotions, whose rows may also be written in silence.     *)
PromoLocked == \A p \in Passes : pass[p].pc = "sendPromo" <=> promoLock = p
PromoSending ==
    \A p \in Passes : pass[p].pc = "sendPromo" =>
        pass[p].cur \in Fixtures /\ promoted[pass[p].cur] = 0
PromoExact == \A f \in Fixtures : cheered[f] <= 1 /\ (promoted[f] = 0 => cheered[f] = 0)

NoticesInv ==
    /\ NoticesTyped
    /\ DropLocked /\ DropSending /\ DropExact
    /\ PromoLocked /\ PromoSending /\ PromoExact

-----------------------------------------------------------------------------
LEMMA NobodyIsNoPass == Nobody \notin Passes /\ Nobody \notin Fixtures
  BY NoticesAssumption

(* Marking what needs no notice leaves what was sent as it was.            *)
LEMMA ConsumedKeepsSent ==
  ASSUME NEW base \in [Fixtures -> States], NEW fs
  PROVE  /\ Consumed(base, fs) \in [Fixtures -> States]
         /\ \A g \in Fixtures : Consumed(base, fs)[g] = "sent" <=> base[g] = "sent"
         /\ \A g \in Fixtures \ fs : Consumed(base, fs)[g] = base[g]
  BY DEF Consumed, States

(* A pass in the lock, or free to take it, goes on to a send or leaves.    *)
LEMMA DropAdvanceKeeps ==
  ASSUME NoticesInv, NEW p \in Passes, dropLock \in {Nobody, p}, pass[p].pc # "sendPromo",
         NEW todo, todo \subseteq Fixtures, NEW later, later \subseteq Fixtures,
         NEW base \in [Fixtures -> States], \A g \in todo : base[g] = "pending",
         DropAdvance(p, todo, base, later)
  PROVE  /\ listing' \in [Fixtures -> States]
         /\ \A g \in Fixtures : listing'[g] = "sent" <=> base[g] = "sent"
         /\ pass' \in [Passes -> PassType]
         /\ \A q \in Passes \ {p} : pass'[q] = pass[q]
         /\ pass'[p].pc # "sendPromo"
         /\ DropLocked' /\ DropSending'
<1> DEFINE silent == {f \in todo : Honoured(f) \/ ~audience}
           since == IF pass[p].pc = "idle" THEN now ELSE pass[p].at
           left == IF p \in Plans THEN [Idle EXCEPT !.pc = "promo", !.at = since, !.later = later] ELSE Idle
<1>1. since \in Nat
  BY DEF NoticesInv, NoticesTyped, PassType
<1>2. silent \subseteq todo
  OBVIOUS
<1>3. \A q \in Passes \ {p} : pass[q].pc # "sendDrop"
  BY NobodyIsNoPass DEF NoticesInv, DropLocked
<1>4. \/ /\ listing' = Consumed(base, todo) /\ dropLock' = Nobody
         /\ pass' = [pass EXCEPT ![p] = left]
      \/ \E f \in todo \ silent, done \in SUBSET silent :
           /\ listing' = Consumed(base, done) /\ dropLock' = p
           /\ pass' = [pass EXCEPT ![p] = [Idle EXCEPT !.pc = "sendDrop", !.cur = f, !.at = since,
                            !.todo = todo \ (done \cup {f}), !.later = later]]
  BY DEF DropAdvance
<1> HIDE DEF since, silent
<1>5. CASE /\ listing' = Consumed(base, todo) /\ dropLock' = Nobody
           /\ pass' = [pass EXCEPT ![p] = left]
  <2>1. left \in PassType /\ left.pc # "sendPromo" /\ left.pc # "sendDrop"
    BY <1>1 DEF Idle, PassType
  <2> HIDE DEF left
  <2>2. /\ pass' \in [Passes -> PassType] /\ pass'[p] = left
        /\ \A q \in Passes \ {p} : pass'[q] = pass[q]
    BY <1>5, <2>1 DEF NoticesInv, NoticesTyped
  <2>3. \A q \in Passes : pass'[q].pc # "sendDrop"
    BY <1>3, <2>1, <2>2
  <2>4. DropLocked' /\ DropSending'
    BY <1>5, <2>3, NobodyIsNoPass DEF DropLocked, DropSending
  <2> QED BY <1>5, <2>1, <2>2, <2>4, ConsumedKeepsSent
<1>6. ASSUME NEW f \in todo \ silent, NEW done \in SUBSET silent,
             listing' = Consumed(base, done), dropLock' = p,
             pass' = [pass EXCEPT ![p] = [Idle EXCEPT !.pc = "sendDrop", !.cur = f, !.at = since,
                            !.todo = todo \ (done \cup {f}), !.later = later]]
      PROVE  /\ listing' \in [Fixtures -> States]
             /\ \A g \in Fixtures : listing'[g] = "sent" <=> base[g] = "sent"
             /\ pass' \in [Passes -> PassType]
             /\ \A q \in Passes \ {p} : pass'[q] = pass[q]
             /\ pass'[p].pc # "sendPromo"
             /\ DropLocked' /\ DropSending'
  <2> DEFINE rest == todo \ (done \cup {f})
             busy == [Idle EXCEPT !.pc = "sendDrop", !.cur = f, !.at = since, !.todo = rest, !.later = later]
  <2>1. f \in Fixtures /\ f \notin done /\ rest \subseteq Fixtures /\ rest \cap done = {} /\ f \notin rest
    BY <1>2
  <2>2. \A g \in rest \cup {f} : listing'[g] = "pending"
    BY <1>6, <2>1, ConsumedKeepsSent
  <2> HIDE DEF rest
  <2>3. busy \in PassType /\ busy.pc = "sendDrop" /\ busy.cur = f /\ busy.todo = rest
    BY <1>1, <2>1 DEF Idle, PassType
  <2>4. pass' = [pass EXCEPT ![p] = busy]
    BY <1>6 DEF rest
  <2> HIDE DEF busy
  <2>5. /\ pass' \in [Passes -> PassType] /\ pass'[p] = busy
        /\ \A q \in Passes \ {p} : pass'[q] = pass[q]
    BY <2>3, <2>4 DEF NoticesInv, NoticesTyped
  <2>6. DropLocked'
    BY <1>3, <1>6, <2>3, <2>5 DEF DropLocked
  <2>7. DropSending'
    BY <1>3, <2>1, <2>2, <2>3, <2>5 DEF DropSending
  <2> QED BY <1>6, <2>3, <2>5, <2>6, <2>7, ConsumedKeepsSent
<1> QED BY <1>4, <1>5, <1>6

(* What the drop side is left with after a step of pass p that told        *)
(* nobody: rows that were not sent are not sent now.                       *)
DropSideKept(p) ==
    /\ listing' \in [Fixtures -> States]
    /\ \A g \in Fixtures : listing'[g] = "sent" <=> listing[g] = "sent"
    /\ pass' \in [Passes -> PassType]
    /\ \A q \in Passes \ {p} : pass'[q] = pass[q]
    /\ pass'[p].pc # "sendPromo"
    /\ DropLocked' /\ DropSending'

LEMMA PendingIsPending ==
  ASSUME NEW p, NEW ids, ids \subseteq Fixtures, NEW at
  PROVE  PendingOf(p, ids, at) \subseteq Fixtures /\ \A g \in PendingOf(p, ids, at) : listing[g] = "pending"
  BY DEF PendingOf, SweepWindow

LEMMA EnterDropKeeps ==
  ASSUME NoticesInv, NEW p \in Passes, pass[p].pc = "idle",
         NEW ids, ids \subseteq Fixtures, NEW later, later \subseteq Fixtures, EnterDrop(p, ids, later)
  PROVE  DropSideKept(p)
<1>1. CASE dropLock = Nobody
  <2>1. DropAdvance(p, PendingOf(p, ids, now), listing, later)
    BY <1>1 DEF EnterDrop
  <2>2. listing \in [Fixtures -> States]
    BY DEF NoticesInv, NoticesTyped
  <2> DEFINE due == PendingOf(p, ids, now)
  <2>3. due \subseteq Fixtures /\ \A g \in due : listing[g] = "pending"
    BY PendingIsPending
  <2>4. DropAdvance(p, due, listing, later)
    BY <2>1
  <2> HIDE DEF due
  <2> QED BY <1>1, <2>2, <2>3, <2>4, DropAdvanceKeeps DEF DropSideKept
<1>2. CASE dropLock # Nobody
  <2> DEFINE waits == [Idle EXCEPT !.pc = "waitDrop", !.ids = ids, !.at = now, !.later = later]
  <2>1. pass' = [pass EXCEPT ![p] = waits] /\ UNCHANGED <<listing, dropLock>>
    BY <1>2 DEF EnterDrop
  <2>2. waits \in PassType /\ waits.pc = "waitDrop"
    BY DEF Idle, PassType, NoticesInv, NoticesTyped
  <2> HIDE DEF waits
  <2>3. /\ pass' \in [Passes -> PassType] /\ pass'[p] = waits
        /\ \A q \in Passes \ {p} : pass'[q] = pass[q]
    BY <2>1, <2>2 DEF NoticesInv, NoticesTyped
  <2>4. DropLocked' /\ DropSending'
    BY <2>1, <2>2, <2>3 DEF NoticesInv, DropLocked, DropSending
  <2> QED BY <2>1, <2>2, <2>3, <2>4 DEF DropSideKept, NoticesInv, NoticesTyped
<1> QED BY <1>1, <1>2

-----------------------------------------------------------------------------
(* The same for the promotion side.  Rows are only ever added.             *)
LEMMA RecordedAddsRows ==
  ASSUME NEW base \in [Fixtures -> Nat], NEW fs, NEW at \in Nat
  PROVE  /\ Recorded(base, fs, Day(at)) \in [Fixtures -> Nat]
         /\ \A g \in Fixtures : base[g] # 0 => Recorded(base, fs, Day(at))[g] # 0
         /\ \A g \in Fixtures \cap fs : Recorded(base, fs, Day(at))[g] # 0
<1>1. Day(at) \in Nat
  BY DEF Day, DaySlots
<1> HIDE DEF Day
<1> QED BY <1>1 DEF Recorded

PromoSideKept(p, base) ==
    /\ promoted' \in [Fixtures -> Nat]
    /\ \A g \in Fixtures : base[g] # 0 => promoted'[g] # 0
    /\ pass' \in [Passes -> PassType]
    /\ \A q \in Passes \ {p} : pass'[q] = pass[q]
    /\ pass'[p].pc # "sendDrop"
    /\ PromoLocked' /\ PromoSending'

LEMMA PromoAdvanceKeeps ==
  ASSUME NoticesInv, NEW p \in Passes, promoLock \in {Nobody, p},
         NEW todo, todo \subseteq Fixtures, NEW at \in Nat,
         NEW base \in [Fixtures -> Nat], PromoAdvance(p, todo, base, at)
  PROVE  PromoSideKept(p, base)
<1> DEFINE due == {f \in todo : Promotable(f, base, at)}
<1>1. \A q \in Passes \ {p} : pass[q].pc # "sendPromo"
  BY NobodyIsNoPass DEF NoticesInv, PromoLocked
<1>2. \A f \in due : f \in todo /\ f \in Fixtures /\ base[f] = 0
  BY DEF Promotable
<1>3. \/ /\ promoted' = Recorded(base, due, Day(at)) /\ promoLock' = Nobody
         /\ pass' = [pass EXCEPT ![p] = Idle]
      \/ /\ promoted' = base /\ promoLock' = p
         /\ \E f \in due, done \in SUBSET (todo \ due) :
              pass' = [pass EXCEPT ![p] = [Idle EXCEPT !.pc = "sendPromo", !.cur = f, !.at = at,
                                                !.todo = todo \ (done \cup {f})]]
  BY DEF PromoAdvance
<1> HIDE DEF due
<1>4. CASE /\ promoted' = Recorded(base, due, Day(at)) /\ promoLock' = Nobody
           /\ pass' = [pass EXCEPT ![p] = Idle]
  <2>1. Idle \in PassType /\ Idle.pc = "idle"
    BY DEF Idle, PassType
  <2>2. /\ pass' \in [Passes -> PassType] /\ pass'[p] = Idle
        /\ \A q \in Passes \ {p} : pass'[q] = pass[q]
    BY <1>4, <2>1 DEF NoticesInv, NoticesTyped
  <2>3. \A q \in Passes : pass'[q].pc # "sendPromo"
    BY <1>1, <2>1, <2>2
  <2>4. PromoLocked' /\ PromoSending'
    BY <1>4, <2>3, NobodyIsNoPass DEF PromoLocked, PromoSending
  <2> QED BY <1>4, <2>1, <2>2, <2>4, RecordedAddsRows DEF PromoSideKept
<1>5. ASSUME promoted' = base, promoLock' = p, NEW f \in due, NEW done \in SUBSET (todo \ due),
             pass' = [pass EXCEPT ![p] = [Idle EXCEPT !.pc = "sendPromo", !.cur = f, !.at = at,
                                                !.todo = todo \ (done \cup {f})]]
      PROVE  PromoSideKept(p, base)
  <2> DEFINE rest == todo \ (done \cup {f})
             busy == [Idle EXCEPT !.pc = "sendPromo", !.cur = f, !.at = at, !.todo = rest]
  <2>1. f \in Fixtures /\ base[f] = 0 /\ rest \subseteq Fixtures
    BY <1>2
  <2> HIDE DEF rest
  <2>2. busy \in PassType /\ busy.pc = "sendPromo" /\ busy.cur = f
    BY <2>1 DEF Idle, PassType
  <2>3. pass' = [pass EXCEPT ![p] = busy]
    BY <1>5 DEF rest
  <2> HIDE DEF busy
  <2>4. /\ pass' \in [Passes -> PassType] /\ pass'[p] = busy
        /\ \A q \in Passes \ {p} : pass'[q] = pass[q]
    BY <2>2, <2>3 DEF NoticesInv, NoticesTyped
  <2>5. PromoLocked' /\ PromoSending'
    BY <1>1, <1>5, <2>1, <2>2, <2>4 DEF PromoLocked, PromoSending
  <2> QED BY <1>5, <2>2, <2>4, <2>5 DEF PromoSideKept
<1> QED BY <1>3, <1>4, <1>5

LEMMA EnterPromoKeeps ==
  ASSUME NoticesInv, NEW p \in Passes, pass[p].pc \in {"idle", "promo"},
         NEW ids, ids \subseteq Fixtures, EnterPromo(p, ids)
  PROVE  PromoSideKept(p, promoted)
<1> DEFINE waits == [Idle EXCEPT !.pc = "waitPromo", !.ids = ids, !.at = now]
<1>0. now \in Nat /\ promoted \in [Fixtures -> Nat] /\ pass \in [Passes -> PassType]
  BY DEF NoticesInv, NoticesTyped
<1>1. CASE NoticeHasRun(now) /\ promoLock = Nobody
  <2>1. PromoAdvance(p, IF p \in PromoSweeps THEN Today(now) ELSE ids, promoted, now)
    BY <1>1 DEF EnterPromo
  <2>2. (IF p \in PromoSweeps THEN Today(now) ELSE ids) \subseteq Fixtures
    BY DEF Today
  <2> QED BY <1>0, <1>1, <2>1, <2>2, PromoAdvanceKeeps
<1>2. ASSUME NEW r \in PassType, r.pc \in {"idle", "waitPromo"}, pass' = [pass EXCEPT ![p] = r],
             UNCHANGED <<promoted, promoLock>>
      PROVE  PromoSideKept(p, promoted)
  <2>1. /\ pass' \in [Passes -> PassType] /\ pass'[p] = r
        /\ \A q \in Passes \ {p} : pass'[q] = pass[q]
    BY <1>0, <1>2
  <2>2. PromoLocked' /\ PromoSending'
    BY <1>2, <2>1 DEF NoticesInv, PromoLocked, PromoSending
  <2> QED BY <1>0, <1>2, <2>1, <2>2 DEF PromoSideKept
<1>3. CASE ~NoticeHasRun(now)
  <2>1. Idle \in PassType /\ Idle.pc = "idle"
    BY DEF Idle, PassType
  <2> QED BY <1>2, <1>3, <2>1 DEF EnterPromo
<1>4. CASE NoticeHasRun(now) /\ promoLock # Nobody
  <2>1. waits \in PassType /\ waits.pc = "waitPromo"
    BY <1>0 DEF Idle, PassType
  <2>2. pass' = [pass EXCEPT ![p] = waits] /\ UNCHANGED <<promoted, promoLock>>
    BY <1>4 DEF EnterPromo
  <2> HIDE DEF waits
  <2> QED BY <1>2, <2>1, <2>2
<1> QED BY <1>1, <1>3, <1>4

-----------------------------------------------------------------------------
(* The two sides do not disturb each other.                                *)
LEMMA DropSideStep ==
  ASSUME NoticesInv, NEW p \in Passes, pass[p].pc # "sendPromo", DropSideKept(p),
         UNCHANGED <<now, alert, told, cheered, recovery, promoted, promoLock>>
  PROVE  NoticesInv'
<1>1. NoticesTyped' /\ DropExact' /\ PromoExact'
  BY DEF NoticesInv, NoticesTyped, DropSideKept, DropExact, PromoExact
<1>2. PromoLocked' /\ PromoSending'
  BY DEF NoticesInv, DropSideKept, PromoLocked, PromoSending
<1> QED BY <1>1, <1>2 DEF NoticesInv, DropSideKept

LEMMA PromoSideStep ==
  ASSUME NoticesInv, NEW p \in Passes, pass[p].pc # "sendDrop", PromoSideKept(p, promoted),
         UNCHANGED <<now, alert, told, cheered, recovery, listing, dropLock>>
  PROVE  NoticesInv'
<1>1. NoticesTyped' /\ DropExact' /\ PromoExact'
  BY DEF NoticesInv, NoticesTyped, PromoSideKept, DropExact, PromoExact
<1>2. DropLocked' /\ DropSending'
  BY DEF NoticesInv, PromoSideKept, DropLocked, DropSending
<1> QED BY <1>1, <1>2 DEF NoticesInv, PromoSideKept

(* The sends of the drop pass.  The lock is what makes the row that is     *)
(* marked still the pending one that was read.                             *)
LEMMA DropDeliveredKeeps == ASSUME NoticesInv, NEW p \in Passes, DropDelivered(p) PROVE NoticesInv'
<1> DEFINE f == pass[p].cur
           todo == pass[p].todo
           base == [listing EXCEPT ![f] = "sent"]
<1>1. /\ pass[p].pc = "sendDrop" /\ dropLock = p
      /\ f \in Fixtures /\ listing[f] = "pending" /\ f \notin todo
      /\ \A g \in todo : listing[g] = "pending"
  BY DEF DropDelivered, NoticesInv, DropLocked, DropSending
<1>2. listing \in [Fixtures -> States] /\ told \in [Fixtures -> Nat] /\ pass[p] \in PassType
  BY DEF NoticesInv, NoticesTyped
<1>3. todo \subseteq Fixtures /\ pass[p].later \subseteq Fixtures
  BY <1>2 DEF PassType
<1>4. /\ DropAdvance(p, todo, base, pass[p].later) /\ told' = [told EXCEPT ![f] = @ + 1]
      /\ UNCHANGED <<now, alert, promoted, promoLock, cheered, recovery>>
  BY DEF DropDelivered
<1> HIDE DEF f, todo
<1>5. /\ base \in [Fixtures -> States] /\ \A g \in todo : base[g] = "pending"
      /\ \A g \in Fixtures : base[g] = IF g = f THEN "sent" ELSE listing[g]
  BY <1>1, <1>2, <1>3 DEF States
<1> HIDE DEF base
<1>6. /\ listing' \in [Fixtures -> States]
      /\ \A g \in Fixtures : listing'[g] = "sent" <=> base[g] = "sent"
      /\ pass' \in [Passes -> PassType]
      /\ \A q \in Passes \ {p} : pass'[q] = pass[q]
      /\ pass'[p].pc # "sendPromo"
      /\ DropLocked' /\ DropSending'
  BY <1>1, <1>3, <1>4, <1>5, DropAdvanceKeeps
<1>7. DropExact'
  <2>1. told[f] = 0
    BY <1>1 DEF NoticesInv, DropExact
  <2>2. \A g \in Fixtures : told'[g] = IF g = f THEN 1 ELSE told[g]
    BY <1>2, <1>4, <2>1
  <2> QED BY <1>4, <1>5, <1>6, <2>2 DEF NoticesInv, DropExact
<1>8. NoticesTyped'
  <2>1. told' \in [Fixtures -> Nat]
    BY <1>1, <1>2, <1>4
  <2> QED BY <1>4, <1>6, <2>1 DEF NoticesInv, NoticesTyped
<1>9. PromoLocked' /\ PromoSending' /\ PromoExact'
  BY <1>1, <1>4, <1>6 DEF NoticesInv, PromoLocked, PromoSending, PromoExact
<1> QED BY <1>6, <1>7, <1>8, <1>9 DEF NoticesInv

LEMMA DropAdvanceStep ==
  ASSUME NoticesInv, NEW p \in Passes, AcquireDrop(p) \/ DropFailed(p) PROVE NoticesInv'
<1>0. pass[p] \in PassType /\ listing \in [Fixtures -> States]
  BY DEF NoticesInv, NoticesTyped
<1>1. pass[p].todo \subseteq Fixtures /\ pass[p].later \subseteq Fixtures /\ pass[p].ids \subseteq Fixtures
  BY <1>0 DEF PassType
<1>2. \E todo \in SUBSET Fixtures :
        /\ DropAdvance(p, todo, listing, pass[p].later)
        /\ \A g \in todo : listing[g] = "pending"
  <2>1. CASE AcquireDrop(p)
    BY <1>1, <2>1, PendingIsPending DEF AcquireDrop
  <2>2. CASE DropFailed(p)
    BY <1>1, <2>2 DEF DropFailed, NoticesInv, DropSending
  <2> QED BY <2>1, <2>2
<1>3. PICK todo \in SUBSET Fixtures :
        /\ DropAdvance(p, todo, listing, pass[p].later)
        /\ \A g \in todo : listing[g] = "pending"
  BY <1>2
<1>4. /\ dropLock \in {Nobody, p} /\ pass[p].pc # "sendPromo"
      /\ UNCHANGED <<now, alert, told, cheered, recovery, promoted, promoLock>>
  BY DEF AcquireDrop, DropFailed, outcome, NoticesInv, DropLocked
<1>5. DropSideKept(p)
  BY <1>0, <1>1, <1>3, <1>4, DropAdvanceKeeps DEF DropSideKept
<1> QED BY <1>4, <1>5, DropSideStep

(* The sends of the promotion pass.                                        *)
LEMMA PromoDeliveredKeeps == ASSUME NoticesInv, NEW p \in Passes, PromoDelivered(p) PROVE NoticesInv'
<1> DEFINE f == pass[p].cur
           at == pass[p].at
           base == Recorded(promoted, {f}, Day(at))
<1>1. /\ pass[p].pc = "sendPromo" /\ promoLock = p /\ f \in Fixtures /\ promoted[f] = 0
  BY DEF PromoDelivered, NoticesInv, PromoLocked, PromoSending
<1>2. promoted \in [Fixtures -> Nat] /\ cheered \in [Fixtures -> Nat] /\ pass[p] \in PassType
  BY DEF NoticesInv, NoticesTyped
<1>3. at \in Nat /\ pass[p].todo \subseteq Fixtures
  BY <1>2 DEF PassType
<1>4. /\ PromoAdvance(p, pass[p].todo, base, at) /\ cheered' = [cheered EXCEPT ![f] = @ + 1]
      /\ UNCHANGED <<now, alert, told, recovery, listing, dropLock>>
  BY DEF PromoDelivered, listings
<1> HIDE DEF f, at
<1>5. /\ base \in [Fixtures -> Nat] /\ base[f] # 0
      /\ \A g \in Fixtures : promoted[g] # 0 => base[g] # 0
  BY <1>1, <1>2, <1>3, RecordedAddsRows
<1> HIDE DEF base
<1>6. PromoSideKept(p, base)
  BY <1>1, <1>3, <1>4, <1>5, PromoAdvanceKeeps
<1>7. PromoExact'
  <2>1. cheered[f] = 0
    BY <1>1 DEF NoticesInv, PromoExact
  <2>2. \A g \in Fixtures : cheered'[g] = IF g = f THEN 1 ELSE cheered[g]
    BY <1>2, <1>4, <2>1
  <2> QED BY <1>5, <1>6, <2>2 DEF NoticesInv, PromoExact, PromoSideKept
<1>8. NoticesTyped' /\ DropExact'
  <2>1. cheered' \in [Fixtures -> Nat]
    BY <1>1, <1>2, <1>4
  <2> QED BY <1>4, <1>6, <2>1 DEF NoticesInv, NoticesTyped, DropExact, PromoSideKept
<1>9. DropLocked' /\ DropSending'
  BY <1>1, <1>4, <1>6 DEF NoticesInv, DropLocked, DropSending, PromoSideKept
<1> QED BY <1>6, <1>7, <1>8, <1>9 DEF NoticesInv, PromoSideKept

LEMMA PromoAdvanceStep ==
  ASSUME NoticesInv, NEW p \in Passes, AcquirePromo(p) \/ PromoFailed(p) \/ PromotionHook(p) PROVE NoticesInv'
<1>0. pass[p] \in PassType /\ promoted \in [Fixtures -> Nat]
  BY DEF NoticesInv, NoticesTyped
<1>1. /\ pass[p].todo \subseteq Fixtures /\ pass[p].later \subseteq Fixtures /\ pass[p].ids \subseteq Fixtures
      /\ pass[p].at \in Nat /\ Today(pass[p].at) \subseteq Fixtures
  BY <1>0 DEF PassType, Today
<1>2. pass[p].pc # "sendDrop" /\ UNCHANGED <<now, alert, told, cheered, recovery, listing, dropLock>>
  BY DEF AcquirePromo, PromoFailed, PromotionHook, listings, outcome
<1>3. CASE AcquirePromo(p) \/ PromoFailed(p)
  <2>1. \E todo \in SUBSET Fixtures : PromoAdvance(p, todo, promoted, pass[p].at)
    BY <1>1, <1>3 DEF AcquirePromo, PromoFailed
  <2>2. promoLock \in {Nobody, p}
    BY <1>3 DEF AcquirePromo, PromoFailed, NoticesInv, PromoLocked
  <2>3. PromoSideKept(p, promoted)
    BY <1>0, <1>1, <2>1, <2>2, PromoAdvanceKeeps
  <2> QED BY <1>2, <2>3, PromoSideStep
<1>4. CASE PromotionHook(p) /\ pass[p].later # {}
  <2>1. PromoSideKept(p, promoted)
    BY <1>1, <1>4, EnterPromoKeeps DEF PromotionHook
  <2> QED BY <1>2, <2>1, PromoSideStep
<1>5. CASE PromotionHook(p) /\ pass[p].later = {}
  <2>1. pass' = [pass EXCEPT ![p] = Idle] /\ UNCHANGED <<promoted, promoLock>> /\ pass[p].pc = "promo"
    BY <1>5 DEF PromotionHook
  <2>2. Idle \in PassType /\ Idle.pc = "idle"
    BY DEF Idle, PassType
  <2>3. /\ pass' \in [Passes -> PassType] /\ pass'[p] = Idle
        /\ \A q \in Passes \ {p} : pass'[q] = pass[q]
    BY <2>1, <2>2 DEF NoticesInv, NoticesTyped
  <2>4. PromoLocked' /\ PromoSending'
    BY <2>1, <2>2, <2>3 DEF NoticesInv, PromoLocked, PromoSending
  <2>5. PromoSideKept(p, promoted)
    BY <1>0, <2>1, <2>2, <2>3, <2>4 DEF PromoSideKept
  <2> QED BY <1>2, <2>5, PromoSideStep
<1> QED BY <1>3, <1>4, <1>5
-----------------------------------------------------------------------------
(* A pass starts only where it is idle.                                    *)
LEMMA StartPlanKeeps == ASSUME NoticesInv, NEW p \in Plans, StartPlan(p) PROVE NoticesInv'
<1>1. p \in Passes
  BY DEF Passes
<1>2. pass[p].pc = "idle" /\ UNCHANGED <<now, alert, told, cheered, recovery, promoted, promoLock>>
  BY DEF StartPlan, outcome
<1>3. PICK today \in SUBSET Fixtures :
        IF today \subseteq passes
        THEN /\ pass' = [pass EXCEPT ![p] = [Idle EXCEPT !.pc = "promo", !.at = now, !.later = today]]
             /\ UNCHANGED <<listing, dropLock>>
        ELSE EnterDrop(p, today \ passes, today \cap passes)
  <2>1. {f \in Fixtures : Day(kickoff'[f]) = Day(now)} \in SUBSET Fixtures
    OBVIOUS
  <2> QED BY <2>1 DEF StartPlan
<1>4. CASE ~(today \subseteq passes)
  <2>1. EnterDrop(p, today \ passes, today \cap passes)
    BY <1>3, <1>4
  <2>2. today \ passes \subseteq Fixtures /\ today \cap passes \subseteq Fixtures
    OBVIOUS
  <2>3. DropSideKept(p)
    BY <1>1, <1>2, <2>1, <2>2, EnterDropKeeps
  <2> QED BY <1>1, <1>2, <2>3, DropSideStep
<1>5. CASE today \subseteq passes
  <2> DEFINE r == [Idle EXCEPT !.pc = "promo", !.at = now, !.later = today]
  <2>1. pass' = [pass EXCEPT ![p] = r] /\ UNCHANGED <<listing, dropLock>>
    BY <1>3, <1>5
  <2>2. r \in PassType /\ r.pc = "promo"
    BY DEF Idle, PassType, NoticesInv, NoticesTyped
  <2> HIDE DEF r
  <2>3. /\ pass' \in [Passes -> PassType] /\ pass'[p] = r
        /\ \A q \in Passes \ {p} : pass'[q] = pass[q]
    BY <1>1, <2>1, <2>2 DEF NoticesInv, NoticesTyped
  <2>4. DropLocked' /\ DropSending'
    BY <1>1, <1>2, <2>1, <2>2, <2>3 DEF NoticesInv, DropLocked, DropSending
  <2>5. DropSideKept(p)
    BY <2>1, <2>2, <2>3, <2>4 DEF DropSideKept, NoticesInv, NoticesTyped
  <2> QED BY <1>1, <1>2, <2>5, DropSideStep
<1> QED BY <1>4, <1>5

LEMMA StartSweepKeeps ==
  ASSUME NoticesInv, NEW p \in Passes, NEW ids, ids \subseteq Fixtures,
         pass[p].pc = "idle", EnterDrop(p, ids, {}),
         UNCHANGED <<now, alert, told, cheered, recovery, promoted, promoLock>>
  PROVE  NoticesInv'
<1>1. DropSideKept(p)
  BY EnterDropKeeps
<1> QED BY <1>1, DropSideStep

LEMMA StartPromoSweepKeeps ==
  ASSUME NoticesInv, NEW p \in PromoSweeps, StartPromoSweep(p) PROVE NoticesInv'
<1>1. p \in Passes
  BY DEF Passes
<1>2. /\ pass[p].pc = "idle" /\ EnterPromo(p, {})
      /\ UNCHANGED <<now, alert, told, cheered, recovery, listing, dropLock>>
  BY DEF StartPromoSweep, listings, outcome
<1>3. PromoSideKept(p, promoted)
  BY <1>1, <1>2, EnterPromoKeeps
<1> QED BY <1>1, <1>2, <1>3, PromoSideStep

(* The recovery line is rendered from a row that says sent, and the row    *)
(* says so still when the body is delivered.                               *)
LEMMA AlertKeeps ==
  ASSUME NoticesInv, NEW f \in Fixtures,
         AlertFires(f) \/ AlertRescored(f) \/ AlertRevealed(f) \/ AlertReachesNobody(f)
  PROVE  NoticesInv'
<1>0. alert \in [Fixtures -> AlertType] /\ NoAlert \in AlertType /\ NoAlert.noted = FALSE
  BY DEF NoticesInv, NoticesTyped, NoAlert, AlertType
<1>1. UNCHANGED <<now, listing, told, cheered, promoted, promoLock, dropLock, pass>>
  BY DEF AlertFires, AlertRescored, AlertRevealed, AlertReachesNobody, listings, outcome
<1>2. /\ alert' \in [Fixtures -> AlertType]
      /\ \A g \in Fixtures : alert'[g].noted => alert[g].noted \/ listing[g] = "sent"
  <2>1. CASE AlertFires(f)
    <3> DEFINE a == [pc |-> "check", late |-> Due(f), noted |-> FALSE]
    <3>1. a \in AlertType /\ a.noted = FALSE
      BY DEF AlertType, Due
    <3>2. alert' = [alert EXCEPT ![f] = a]
      BY <2>1 DEF AlertFires
    <3> HIDE DEF a
    <3> QED BY <1>0, <3>1, <3>2
  <2>2. CASE AlertRescored(f)
    <3>0. PICK clears \in BOOLEAN : alert' = [alert EXCEPT ![f] =
                 [pc |-> "send", late |-> alert[f].late, noted |-> Noted(f, clears)]]
      BY <2>2 DEF AlertRescored
    <3> DEFINE a == [pc |-> "send", late |-> alert[f].late, noted |-> Noted(f, clears)]
    <3>1. a \in AlertType /\ (a.noted => listing[f] = "sent")
      BY <1>0 DEF AlertType, Noted
    <3>2. alert' = [alert EXCEPT ![f] = a]
      BY <3>0
    <3> HIDE DEF a
    <3> QED BY <1>0, <3>1, <3>2
  <2>3. CASE AlertRevealed(f) \/ AlertReachesNobody(f)
    <3>1. alert' = [alert EXCEPT ![f] = NoAlert]
      BY <2>3 DEF AlertRevealed, AlertReachesNobody
    <3> QED BY <1>0, <3>1
  <2> QED BY <2>1, <2>2, <2>3
<1>3. recovery' = recovery \/ (recovery' = recovery \cup {f} /\ alert[f].noted)
  BY DEF AlertFires, AlertRescored, AlertRevealed, AlertReachesNobody, outcome
<1>4. DropExact'
  BY <1>1, <1>2, <1>3 DEF NoticesInv, DropExact
<1> QED BY <1>1, <1>2, <1>4 DEF NoticesInv, NoticesTyped, DropLocked, DropSending,
                                PromoLocked, PromoSending, PromoExact

(* A notice lists only fixtures that are not listed.                       *)
LEMMA MatchdayNoticeKeeps == ASSUME NoticesInv, MatchdayNotice PROVE NoticesInv'
<1>1. UNCHANGED <<now, alert, told, cheered, recovery, promoted, promoLock, dropLock, pass>>
  BY DEF MatchdayNotice, outcome
<1>2. PICK new \in SUBSET Fixtures :
        /\ \A g \in new : listing[g] = "none"
        /\ listing' = [f \in Fixtures |-> IF f \in new THEN "pending" ELSE listing[f]]
  <2>1. PICK lost : listing' = [f \in Fixtures |->
            IF f \in {g \in (Today(now) \cap passes) \ lost : listing[g] = "none"}
            THEN "pending" ELSE listing[f]]
    BY DEF MatchdayNotice
  <2>2. {g \in (Today(now) \cap passes) \ lost : listing[g] = "none"} \in SUBSET Fixtures
    BY DEF Today
  <2> QED BY <2>1, <2>2
<1>3. /\ listing' \in [Fixtures -> States]
      /\ \A g \in Fixtures : listing'[g] = "sent" <=> listing[g] = "sent"
      /\ \A g \in Fixtures : listing[g] = "pending" => listing'[g] = "pending"
  BY <1>2 DEF NoticesInv, NoticesTyped, States
<1>4. NoticesTyped' /\ DropExact' /\ PromoExact'
  BY <1>1, <1>3 DEF NoticesInv, NoticesTyped, DropExact, PromoExact
<1>5. DropSending'
  <2>1. \A q \in Passes : pass[q].todo \subseteq Fixtures
    BY DEF NoticesInv, NoticesTyped, PassType
  <2> QED BY <1>1, <1>3, <2>1 DEF NoticesInv, DropSending
<1>6. DropLocked' /\ PromoLocked' /\ PromoSending'
  BY <1>1 DEF NoticesInv, DropLocked, PromoLocked, PromoSending
<1> QED BY <1>4, <1>5, <1>6 DEF NoticesInv

(* A restart frees the locks and forgets the passes together.              *)
LEMMA CrashKeeps == ASSUME NoticesInv, Crash PROVE NoticesInv'
<1>1. /\ pass' = [p \in Passes |-> Idle] /\ dropLock' = Nobody /\ promoLock' = Nobody
      /\ alert' = [f \in Fixtures |-> NoAlert]
      /\ UNCHANGED <<now, listing, told, cheered, recovery, promoted>>
  BY DEF Crash, listings, outcome
<1>2. Idle \in PassType /\ Idle.pc = "idle"
  BY DEF Idle, PassType
<1>3. pass' \in [Passes -> PassType] /\ \A q \in Passes : pass'[q].pc = "idle"
  BY <1>1, <1>2
<1>4. NoAlert \in AlertType /\ ~NoAlert.noted
  BY DEF NoAlert, AlertType
<1>5. NoticesTyped' /\ DropExact' /\ PromoExact'
  BY <1>1, <1>3, <1>4 DEF NoticesInv, NoticesTyped, DropExact, PromoExact
<1>6. DropLocked' /\ DropSending' /\ PromoLocked' /\ PromoSending'
  BY <1>1, <1>3, NobodyIsNoPass DEF DropLocked, DropSending, PromoLocked, PromoSending
<1> QED BY <1>5, <1>6 DEF NoticesInv

(* Steps that touch neither the passes nor what was said.                  *)
LEMMA BystanderKeeps ==
  ASSUME NoticesInv, now' \in Nat,
         UNCHANGED <<alert, listing, told, cheered, recovery, promoted, promoLock, dropLock, pass>>
  PROVE  NoticesInv'
  BY DEF NoticesInv, NoticesTyped, DropLocked, DropSending, DropExact,
         PromoLocked, PromoSending, PromoExact

LEMMA NoticesInvInit == Init => NoticesInv
<1> SUFFICES ASSUME Init PROVE NoticesInv
  OBVIOUS
<1>1. Idle \in PassType /\ Idle.pc = "idle"
  BY DEF Idle, PassType
<1>2. pass \in [Passes -> PassType] /\ \A q \in Passes : pass[q].pc = "idle"
  BY <1>1 DEF Init
<1>3. NoticesTyped /\ DropExact /\ PromoExact
  <2>1. NoAlert \in AlertType /\ ~NoAlert.noted
    BY DEF NoAlert, AlertType
  <2> QED BY <1>2, <2>1 DEF Init, NoticesTyped, DropExact, PromoExact, States
<1>4. DropLocked /\ DropSending /\ PromoLocked /\ PromoSending
  BY <1>2, NobodyIsNoPass DEF Init, DropLocked, DropSending, PromoLocked, PromoSending
<1> QED BY <1>3, <1>4 DEF NoticesInv

(* One case per action of Next.                                            *)
LEMMA NoticesInvStep == NoticesInv /\ [Next]_vars => NoticesInv'
<1> SUFFICES ASSUME NoticesInv, [Next]_vars PROVE NoticesInv'
  OBVIOUS
<1>0. now \in Nat
  BY DEF NoticesInv, NoticesTyped
<1>1. CASE Tick
  <2>1. now' \in Nat /\ UNCHANGED <<alert, listing, told, cheered, recovery, promoted, promoLock, dropLock, pass>>
    BY <1>0, <1>1 DEF Tick, listings, outcome
  <2> QED BY <2>1, BystanderKeeps
<1>2. CASE MatchdayNotice
  BY <1>2, MatchdayNoticeKeeps
<1>3. CASE Crash
  BY <1>3, CrashKeeps
<1>4. ASSUME NEW f \in Fixtures, Alert(f) PROVE NoticesInv'
  <2>1. CASE AlertFires(f) \/ AlertRescored(f) \/ AlertRevealed(f) \/ AlertReachesNobody(f)
    BY <2>1, AlertKeeps
  <2>2. ASSUME NEW p \in Hooks, AlertSuppressed(p, f) PROVE NoticesInv'
    <3>1. /\ p \in Passes /\ {f} \subseteq Fixtures
          /\ pass[p].pc = "idle" /\ EnterDrop(p, {f}, {})
          /\ UNCHANGED <<now, alert, told, cheered, recovery, promoted, promoLock>>
      BY <2>2 DEF AlertSuppressed, Passes, outcome
    <3> QED BY <3>1, StartSweepKeeps
  <2> QED BY <1>4, <2>1, <2>2 DEF Alert
<1>5. ASSUME NEW f \in Fixtures, Rescore(f) PROVE NoticesInv'
  <2>1. UNCHANGED <<now, alert, listing, told, cheered, recovery, promoted, promoLock, dropLock, pass>>
    BY <1>5 DEF Rescore, listings, outcome
  <2> QED BY <1>0, <2>1, BystanderKeeps
<1>6. ASSUME NEW p \in Plans, StartPlan(p) PROVE NoticesInv'
  BY <1>6, StartPlanKeeps
<1>7. ASSUME NEW p \in Sweeps, StartSweep(p) PROVE NoticesInv'
  <2>1. /\ p \in Passes /\ {} \subseteq Fixtures
        /\ pass[p].pc = "idle" /\ EnterDrop(p, {}, {})
        /\ UNCHANGED <<now, alert, told, cheered, recovery, promoted, promoLock>>
    BY <1>7 DEF StartSweep, Passes, outcome
  <2> QED BY <2>1, StartSweepKeeps
<1>8. ASSUME NEW p \in PromoSweeps, StartPromoSweep(p) PROVE NoticesInv'
  BY <1>8, StartPromoSweepKeeps
<1>9. ASSUME NEW p \in Passes, PassStep(p) PROVE NoticesInv'
  BY <1>9, DropAdvanceStep, DropDeliveredKeeps, PromoAdvanceStep, PromoDeliveredKeeps DEF PassStep
<1>10. CASE UNCHANGED vars
  <2>1. UNCHANGED <<now, alert, listing, told, cheered, recovery, promoted, promoLock, dropLock, pass>>
    BY <1>10 DEF vars, listings, outcome
  <2> QED BY <1>0, <2>1, BystanderKeeps
<1> QED BY <1>1, <1>2, <1>3, <1>4, <1>5, <1>6, <1>7, <1>8, <1>9, <1>10 DEF Next

LEMMA NoticesInvHolds == Spec => []NoticesInv
  BY NoticesInvInit, NoticesInvStep, PTL DEF Spec

-----------------------------------------------------------------------------
(* A promotion is news, and one day has one failsafe                       *)

(* A promotion of f on day d is news, and if f is listed, then by a later  *)
(* notice; without faults, that is.                                        *)
Fresh(f, d) ==
    spent.faults = 0 => <<f, d>> \notin named /\ (listing[f] # "none" => listedOn[f] > d)

NewsTyped ==
    /\ listedOn \in [Fixtures -> Nat] /\ ran \subseteq Nat
    /\ spent \in [rescores : Nat, moves : Nat, faults : Nat]

(* Notices ran on days that have begun; whoever was named is listed.       *)
RanByNow == \A d \in ran : d <= Day(now)
NamedIsListed ==
    \A f \in Fixtures, d \in Nat : <<f, d>> \in named =>
        d \in ran /\ (spent.faults = 0 => listing[f] # "none")

(* Rows of promotions are fresh, and so is what a pass is about to record. *)
PromotedIsFresh ==
    \A f \in Fixtures : promoted[f] # 0 => promoted[f] - 1 \in ran /\ Fresh(f, promoted[f] - 1)
SendIsFresh ==
    \A p \in Passes :
        /\ pass[p].pc \in {"waitPromo", "sendPromo"} => Day(pass[p].at) \in ran
        /\ pass[p].pc = "sendPromo" => Fresh(pass[p].cur, Day(pass[p].at))

NewsInv == NewsTyped /\ RanByNow /\ NamedIsListed /\ PromotedIsFresh /\ SendIsFresh

LEMMA DayIsNat == \A n \in Nat : Day(n) \in Nat /\ Day(n) <= Day(n + 1)
  BY DEF Day, DaySlots

(* Steps that write no promotion and no notice.                            *)
LEMMA CalmKeepsNews ==
  ASSUME NoticesInv, NewsInv, NoticesInv',
         UNCHANGED <<ran, named, listedOn, promoted>>, Day(now) <= Day(now'),
         spent' \in [rescores : Nat, moves : Nat, faults : Nat], spent'.faults = 0 => spent.faults = 0,
         \A f \in Fixtures : listing'[f] = "none" <=> listing[f] = "none",
         \A p \in Passes : pass'[p] = pass[p] \/ pass'[p].pc \notin {"waitPromo", "sendPromo"}
  PROVE  NewsInv'
<1>1. \A f \in Fixtures, d \in Nat : Fresh(f, d) => Fresh(f, d)'
  BY DEF Fresh
<1>2. NewsTyped' /\ NamedIsListed'
  BY DEF NewsInv, NewsTyped, NamedIsListed
<1>3. RanByNow'
  <2>1. now \in Nat /\ now' \in Nat
    BY DEF NoticesInv, NoticesTyped
  <2>2. Day(now) \in Nat /\ Day(now') \in Nat
    BY <2>1, DayIsNat
  <2>3. \A d \in ran : d \in Nat /\ d <= Day(now)
    BY DEF NewsInv, NewsTyped, RanByNow
  <2>4. \A d \in ran : d <= Day(now')
    <3> DEFINE before == Day(now)
               after == Day(now')
    <3>1. before <= after /\ before \in Nat /\ after \in Nat /\ \A d \in ran : d \in Nat /\ d <= before
      BY <2>2, <2>3
    <3> HIDE DEF before, after
    <3>2. \A d \in ran : d <= after
      BY <3>1
    <3> QED BY <3>2 DEF after
  <2>5. Day(now') = Day(now)'
    BY DEF Day, DaySlots
  <2> QED BY <2>4, <2>5 DEF RanByNow
<1>4. PromotedIsFresh'
  <2> SUFFICES ASSUME NEW f \in Fixtures, promoted[f] # 0
               PROVE  promoted[f] - 1 \in ran /\ Fresh(f, promoted[f] - 1)'
    BY DEF PromotedIsFresh
  <2>1. promoted[f] - 1 \in ran /\ Fresh(f, promoted[f] - 1) /\ promoted[f] - 1 \in Nat
    BY DEF NewsInv, PromotedIsFresh, NewsTyped
  <2> QED BY <1>1, <2>1
<1>5. SendIsFresh'
  <2> SUFFICES ASSUME NEW p \in Passes, pass'[p].pc \in {"waitPromo", "sendPromo"}
               PROVE  (Day(pass[p].at) \in ran /\ (pass[p].pc = "sendPromo" => Fresh(pass[p].cur, Day(pass[p].at))))'
    BY DEF SendIsFresh
  <2>1. pass'[p] = pass[p]
    OBVIOUS
  <2>2. PICK d \in Nat : d = Day(pass[p].at) /\ d \in ran
    BY <2>1 DEF NewsInv, SendIsFresh, NewsTyped
  <2>3. (Day(pass[p].at) = d)'
    BY <2>1, <2>2 DEF Day, DaySlots
  <2>4. ASSUME pass[p].pc = "sendPromo" PROVE Fresh(pass[p].cur, d)'
    <3>1. PICK f \in Fixtures : f = pass[p].cur
      BY <2>4 DEF NoticesInv, PromoSending
    <3>2. Fresh(f, d)
      BY <2>2, <2>4, <3>1 DEF NewsInv, SendIsFresh
    <3>3. Fresh(f, d)'
      BY <1>1, <3>2
    <3> QED BY <2>1, <3>1, <3>3
  <2> QED BY <2>1, <2>2, <2>3, <2>4
<1> QED BY <1>2, <1>3, <1>4, <1>5 DEF NewsInv

(* A drop pass marks what is listed, and takes no part in promotions.      *)
DropNews(p) ==
    /\ \A f \in Fixtures : listing'[f] = "none" <=> listing[f] = "none"
    /\ \A q \in Passes : pass'[q] = pass[q] \/ pass'[q].pc \notin {"waitPromo", "sendPromo"}

LEMMA DropAdvanceNews ==
  ASSUME NoticesInv, NEW p \in Passes, NEW todo, todo \subseteq Fixtures, NEW later,
         NEW base \in [Fixtures -> States], \A g \in todo : base[g] = "pending",
         \A g \in Fixtures : base[g] = "none" <=> listing[g] = "none",
         DropAdvance(p, todo, base, later)
  PROVE  DropNews(p)
<1>1. \E fs \in SUBSET todo : listing' = Consumed(base, fs)
  BY DEF DropAdvance
<1>2. \A f \in Fixtures : listing'[f] = "none" <=> listing[f] = "none"
  BY <1>1 DEF Consumed
<1>3. \E r : r.pc \notin {"waitPromo", "sendPromo"} /\ pass' = [pass EXCEPT ![p] = r]
  <2> DEFINE since == IF pass[p].pc = "idle" THEN now ELSE pass[p].at
             left == IF p \in Plans THEN [Idle EXCEPT !.pc = "promo", !.at = since, !.later = later] ELSE Idle
  <2>1. left.pc \notin {"waitPromo", "sendPromo"}
    BY DEF Idle
  <2>2. \A f, rest : [Idle EXCEPT !.pc = "sendDrop", !.cur = f, !.at = since, !.todo = rest, !.later = later].pc
                      = "sendDrop"
    BY DEF Idle
  <2>3. \/ pass' = [pass EXCEPT ![p] = left]
        \/ \E f, rest : pass' = [pass EXCEPT ![p] =
              [Idle EXCEPT !.pc = "sendDrop", !.cur = f, !.at = since, !.todo = rest, !.later = later]]
    BY DEF DropAdvance
  <2> HIDE DEF left, since
  <2> QED BY <2>1, <2>2, <2>3
<1>4. pass \in [Passes -> PassType]
  BY DEF NoticesInv, NoticesTyped
<1>5. \A q \in Passes : pass'[q] = pass[q] \/ pass'[q].pc \notin {"waitPromo", "sendPromo"}
  BY <1>3, <1>4
<1> QED BY <1>2, <1>5 DEF DropNews

LEMMA EnterDropNews ==
  ASSUME NoticesInv, NEW p \in Passes, NEW ids, ids \subseteq Fixtures, NEW later, EnterDrop(p, ids, later)
  PROVE  DropNews(p)
<1>0. pass \in [Passes -> PassType] /\ listing \in [Fixtures -> States]
  BY DEF NoticesInv, NoticesTyped
<1>1. CASE dropLock = Nobody
  <2> DEFINE due == PendingOf(p, ids, now)
  <2>1. DropAdvance(p, due, listing, later)
    BY <1>1 DEF EnterDrop
  <2>2. due \subseteq Fixtures /\ \A g \in due : listing[g] = "pending"
    BY PendingIsPending
  <2> HIDE DEF due
  <2> QED BY <1>0, <2>1, <2>2, DropAdvanceNews
<1>2. CASE dropLock # Nobody
  <2> DEFINE waits == [Idle EXCEPT !.pc = "waitDrop", !.ids = ids, !.at = now, !.later = later]
  <2>1. pass' = [pass EXCEPT ![p] = waits] /\ UNCHANGED listing
    BY <1>2 DEF EnterDrop
  <2>2. waits.pc = "waitDrop"
    BY DEF Idle
  <2> HIDE DEF waits
  <2> QED BY <1>0, <2>1, <2>2 DEF DropNews
<1> QED BY <1>1, <1>2

LEMMA DropKeepsNews ==
  ASSUME NoticesInv, NewsInv, NoticesInv', NEW p \in Passes, DropNews(p),
         UNCHANGED <<now, ran, named, listedOn, promoted>>,
         spent' \in [rescores : Nat, moves : Nat, faults : Nat], spent'.faults = 0 => spent.faults = 0
  PROVE  NewsInv'
<1>1. Day(now) <= Day(now')
  <2>1. now \in Nat /\ now' = now
    BY DEF NoticesInv, NoticesTyped
  <2> QED BY <2>1, DayIsNat
<1> QED BY <1>1, CalmKeepsNews DEF DropNews

-----------------------------------------------------------------------------
(* What a step of the promotion pass p writes is fresh.                    *)
PromoNews(p) ==
    /\ \A q \in Passes \ {p} : pass'[q] = pass[q]
    /\ \A g \in Fixtures : promoted'[g] = promoted[g] \/
         (promoted'[g] - 1 \in ran /\ Fresh(g, promoted'[g] - 1))
    /\ pass'[p].pc \in {"waitPromo", "sendPromo"} => Day(pass'[p].at) \in ran
    /\ pass'[p].pc = "sendPromo" => Fresh(pass'[p].cur, Day(pass'[p].at))

(* What is not listed was not named.                                       *)
LEMMA UnlistedIsFresh ==
  ASSUME NewsInv, NEW f \in Fixtures, listing[f] = "none", NEW d \in Nat
  PROVE  Fresh(f, d)
  BY DEF NewsInv, NamedIsListed, Fresh

LEMMA PromoAdvanceNews ==
  ASSUME NoticesInv, NewsInv, NEW p \in Passes, NEW todo, todo \subseteq Fixtures,
         NEW at \in Nat, Day(at) \in ran, NEW base \in [Fixtures -> Nat],
         \A g \in Fixtures : base[g] = promoted[g] \/ (base[g] = 1 + Day(at) /\ Fresh(g, Day(at))),
         PromoAdvance(p, todo, base, at)
  PROVE  PromoNews(p)
<1> DEFINE due == {f \in todo : Promotable(f, base, at)}
           d == Day(at)
<1>0. pass \in [Passes -> PassType] /\ d \in Nat /\ d \in ran
  BY DayIsNat DEF NoticesInv, NoticesTyped
<1>1. \A f \in due : f \in Fixtures /\ listing[f] = "none"
  BY DEF Promotable
<1>2. \A f \in due : Fresh(f, d)
  BY <1>0, <1>1, UnlistedIsFresh
<1>3. \/ promoted' = Recorded(base, due, d) /\ pass' = [pass EXCEPT ![p] = Idle]
      \/ /\ promoted' = base
         /\ \E f \in due : \E rest : pass' = [pass EXCEPT ![p] =
               [Idle EXCEPT !.pc = "sendPromo", !.cur = f, !.at = at, !.todo = rest]]
  BY DEF PromoAdvance
<1>4. \A g \in Fixtures : base[g] = promoted[g] \/ (base[g] = 1 + d /\ Fresh(g, d))
  OBVIOUS
<1>5. Day(at) = d
  OBVIOUS
<1> HIDE DEF due, d
<1>6. \A g \in Fixtures : promoted'[g] = promoted[g] \/ (promoted'[g] = 1 + d /\ Fresh(g, d))
  BY <1>2, <1>3, <1>4 DEF Recorded
<1>7. \A g \in Fixtures : promoted'[g] = promoted[g] \/
         (promoted'[g] - 1 \in ran /\ Fresh(g, promoted'[g] - 1))
  <2>1. 1 + d - 1 = d
    BY <1>0
  <2> QED BY <1>0, <1>6, <2>1
<1>8. CASE pass' = [pass EXCEPT ![p] = Idle]
  <2>1. Idle.pc = "idle"
    BY DEF Idle
  <2> QED BY <1>0, <1>7, <1>8, <2>1 DEF PromoNews
<1>9. ASSUME NEW f \in due, NEW rest, pass' = [pass EXCEPT ![p] =
               [Idle EXCEPT !.pc = "sendPromo", !.cur = f, !.at = at, !.todo = rest]]
      PROVE  PromoNews(p)
  <2> DEFINE busy == [Idle EXCEPT !.pc = "sendPromo", !.cur = f, !.at = at, !.todo = rest]
  <2>1. busy.cur = f /\ busy.at = at
    BY DEF Idle
  <2> HIDE DEF busy
  <2>2. pass'[p] = busy /\ \A q \in Passes \ {p} : pass'[q] = pass[q]
    BY <1>0, <1>9 DEF busy
  <2> QED BY <1>0, <1>2, <1>5, <1>7, <2>1, <2>2 DEF PromoNews
<1> QED BY <1>3, <1>8, <1>9

LEMMA EnterPromoNews ==
  ASSUME NoticesInv, NewsInv, NEW p \in Passes, NEW ids, ids \subseteq Fixtures, EnterPromo(p, ids)
  PROVE  PromoNews(p)
<1>0. now \in Nat /\ promoted \in [Fixtures -> Nat] /\ pass \in [Passes -> PassType]
  BY DEF NoticesInv, NoticesTyped
<1>1. CASE NoticeHasRun(now) /\ promoLock = Nobody
  <2>1. PICK todo \in SUBSET Fixtures : PromoAdvance(p, todo, promoted, now)
    BY <1>1 DEF EnterPromo, Today
  <2>2. Day(now) \in ran
    BY <1>1 DEF NoticeHasRun
  <2> QED BY <1>0, <2>1, <2>2, PromoAdvanceNews
<1>2. CASE ~NoticeHasRun(now)
  <2>1. Idle.pc = "idle"
    BY DEF Idle
  <2> QED BY <1>0, <1>2, <2>1 DEF EnterPromo, PromoNews
<1>3. CASE NoticeHasRun(now) /\ promoLock # Nobody
  <2> DEFINE waits == [Idle EXCEPT !.pc = "waitPromo", !.ids = ids, !.at = now]
  <2>1. pass' = [pass EXCEPT ![p] = waits] /\ UNCHANGED promoted
    BY <1>3 DEF EnterPromo
  <2>2. waits.pc = "waitPromo" /\ waits.at = now
    BY DEF Idle
  <2>3. Day(now) \in ran
    BY <1>3 DEF NoticeHasRun
  <2> HIDE DEF waits
  <2>4. pass'[p] = waits /\ \A q \in Passes \ {p} : pass'[q] = pass[q]
    BY <1>0, <2>1
  <2> QED BY <2>1, <2>2, <2>3, <2>4 DEF PromoNews
<1> QED BY <1>1, <1>2, <1>3

LEMMA PassPromoNews ==
  ASSUME NoticesInv, NewsInv, NEW p \in Passes,
         AcquirePromo(p) \/ PromoFailed(p) \/ PromoDelivered(p) \/ PromotionHook(p)
  PROVE  PromoNews(p)
<1>0. pass \in [Passes -> PassType] /\ promoted \in [Fixtures -> Nat] /\ pass[p] \in PassType
  BY DEF NoticesInv, NoticesTyped
<1>1. /\ pass[p].todo \subseteq Fixtures /\ pass[p].later \subseteq Fixtures /\ pass[p].ids \subseteq Fixtures
      /\ pass[p].at \in Nat /\ Today(pass[p].at) \subseteq Fixtures
  BY <1>0 DEF PassType, Today
<1>2. CASE AcquirePromo(p) \/ PromoFailed(p)
  <2>1. PICK todo \in SUBSET Fixtures : PromoAdvance(p, todo, promoted, pass[p].at)
    BY <1>1, <1>2 DEF AcquirePromo, PromoFailed
  <2>2. Day(pass[p].at) \in ran
    BY <1>2 DEF AcquirePromo, PromoFailed, NewsInv, SendIsFresh
  <2> QED BY <1>0, <1>1, <2>1, <2>2, PromoAdvanceNews
<1>3. CASE PromoDelivered(p)
  <2> DEFINE f == pass[p].cur
             at == pass[p].at
             base == Recorded(promoted, {f}, Day(at))
  <2>1. f \in Fixtures /\ Day(at) \in ran /\ Fresh(f, Day(at)) /\ at \in Nat
    BY <1>1, <1>3 DEF PromoDelivered, NewsInv, SendIsFresh, NoticesInv, PromoSending
  <2>2. PromoAdvance(p, pass[p].todo, base, at)
    BY <1>3 DEF PromoDelivered
  <2> HIDE DEF f, at
  <2>3. base \in [Fixtures -> Nat]
    BY <1>0, <2>1, RecordedAddsRows
  <2>4. \A g \in Fixtures : base[g] = promoted[g] \/ (base[g] = 1 + Day(at) /\ Fresh(g, Day(at)))
    BY <2>1 DEF Recorded
  <2> HIDE DEF base
  <2> QED BY <1>1, <2>1, <2>2, <2>3, <2>4, PromoAdvanceNews
<1>4. CASE PromotionHook(p) /\ pass[p].later # {}
  BY <1>1, <1>4, EnterPromoNews DEF PromotionHook
<1>5. CASE PromotionHook(p) /\ pass[p].later = {}
  <2>1. Idle.pc = "idle"
    BY DEF Idle
  <2> QED BY <1>0, <1>5, <2>1 DEF PromotionHook, PromoNews
<1> QED BY <1>2, <1>3, <1>4, <1>5

LEMMA PromoKeepsNews ==
  ASSUME NoticesInv, NewsInv, NoticesInv', NEW p \in Passes, PromoNews(p),
         UNCHANGED <<now, ran, named, listing, listedOn, spent>>
  PROVE  NewsInv'
<1>1. NewsTyped' /\ NamedIsListed'
  BY DEF NewsInv, NewsTyped, NamedIsListed
<1>2. RanByNow'
  BY DEF NewsInv, RanByNow, Day, DaySlots
<1>3. PromotedIsFresh'
  <2> SUFFICES ASSUME NEW f \in Fixtures, promoted'[f] # 0
               PROVE  (promoted[f] - 1 \in ran /\ Fresh(f, promoted[f] - 1))'
    BY DEF PromotedIsFresh
  <2>1. promoted'[f] - 1 \in ran /\ Fresh(f, promoted'[f] - 1)
    BY DEF PromoNews, NewsInv, PromotedIsFresh
  <2> QED BY <2>1 DEF Fresh
<1>4. SendIsFresh'
  <2> SUFFICES ASSUME NEW q \in Passes
               PROVE  (/\ pass[q].pc \in {"waitPromo", "sendPromo"} => Day(pass[q].at) \in ran
                       /\ pass[q].pc = "sendPromo" => Fresh(pass[q].cur, Day(pass[q].at)))'
    BY DEF SendIsFresh
  <2>1. /\ pass'[q].pc \in {"waitPromo", "sendPromo"} => Day(pass'[q].at) \in ran
        /\ pass'[q].pc = "sendPromo" => Fresh(pass'[q].cur, Day(pass'[q].at))
    BY DEF PromoNews, NewsInv, SendIsFresh
  <2> QED BY <2>1 DEF Fresh, Day, DaySlots
<1> QED BY <1>1, <1>2, <1>3, <1>4 DEF NewsInv

-----------------------------------------------------------------------------
(* A notice names only on a day on which none has run, and without faults  *)
(* it lists whom it names.                                                 *)
LEMMA MatchdayNoticeNews ==
  ASSUME IsFiniteSet(Fixtures), NoticesInv, NewsInv, MatchdayNotice PROVE NewsInv'
<1> DEFINE d == Day(now)
           shown == Today(now) \cap passes
<1>1. PICK lost \in SUBSET shown :
        /\ spent' = [spent EXCEPT !.faults = @ + Cardinality(lost)]
        /\ named' = named \cup (shown \X {d})
        /\ listing' = [f \in Fixtures |-> IF f \in {g \in shown \ lost : listing[g] = "none"}
                                           THEN "pending" ELSE listing[f]]
        /\ listedOn' = [f \in Fixtures |-> IF f \in {g \in shown \ lost : listing[g] = "none"}
                                            THEN d ELSE listedOn[f]]
  BY DEF MatchdayNotice
<1>2. /\ d \notin ran /\ ran' = ran \cup {d} /\ UNCHANGED <<now, promoted, pass>>
      /\ now \in Nat /\ d \in Nat /\ shown \subseteq Fixtures
  BY DayIsNat DEF MatchdayNotice, NoticesInv, NoticesTyped, Today
<1>3. Cardinality(lost) \in Nat /\ (Cardinality(lost) = 0 <=> lost = {})
  <2>1. IsFiniteSet(lost)
    BY <1>2, FS_Subset
  <2> QED BY <2>1, FS_CardinalityType, FS_EmptySet
<1>4. /\ spent' \in [rescores : Nat, moves : Nat, faults : Nat]
      /\ spent'.faults = 0 => spent.faults = 0 /\ lost = {}
  BY <1>1, <1>3 DEF NewsInv, NewsTyped
<1>5. d' = d /\ \A e \in ran : e \in Nat /\ e <= d
  BY <1>2 DEF NewsInv, NewsTyped, RanByNow, Day, DaySlots
<1> HIDE DEF d, shown
<1>6. \A f \in Fixtures, e \in Nat : e \in ran /\ Fresh(f, e) => Fresh(f, e)'
  <2> SUFFICES ASSUME NEW f \in Fixtures, NEW e \in ran, e \in Nat, Fresh(f, e), spent'.faults = 0
               PROVE  <<f, e>> \notin named' /\ (listing'[f] # "none" => listedOn'[f] > e)
    BY DEF Fresh
  <2>1. <<f, e>> \notin named /\ (listing[f] # "none" => listedOn[f] > e) /\ e # d /\ e <= d
    BY <1>2, <1>4, <1>5 DEF Fresh
  <2>2. <<f, e>> \notin named'
    BY <1>1, <2>1
  <2>3. listing'[f] # "none" => listedOn'[f] > e
    BY <1>1, <1>2, <2>1
  <2> QED BY <2>2, <2>3
<1>7. NewsTyped'
  BY <1>1, <1>2, <1>4 DEF NewsInv, NewsTyped
<1>8. RanByNow'
  BY <1>2, <1>5 DEF RanByNow, d
<1>9. NamedIsListed'
  <2> SUFFICES ASSUME NEW f \in Fixtures, NEW e \in Nat, <<f, e>> \in named'
               PROVE  e \in ran' /\ (spent'.faults = 0 => listing'[f] # "none")
    BY DEF NamedIsListed
  <2>1. CASE <<f, e>> \in named
    BY <1>1, <1>2, <1>4, <2>1 DEF NewsInv, NamedIsListed
  <2>2. CASE <<f, e>> \in shown \X {d}
    BY <1>1, <1>2, <1>4, <2>2
  <2> QED BY <1>1, <2>1, <2>2
<1>10. PromotedIsFresh'
  <2> SUFFICES ASSUME NEW f \in Fixtures, promoted[f] # 0
               PROVE  (promoted[f] - 1 \in ran /\ Fresh(f, promoted[f] - 1))'
    BY <1>2 DEF PromotedIsFresh
  <2>1. PICK e \in ran : e = promoted[f] - 1 /\ Fresh(f, e)
    BY DEF NewsInv, PromotedIsFresh
  <2>2. Fresh(f, e)' /\ e \in ran'
    BY <1>2, <1>5, <1>6, <2>1
  <2>3. (promoted[f] - 1 = e)'
    BY <1>2, <2>1
  <2> QED BY <2>2, <2>3
<1>11. SendIsFresh'
  <2> SUFFICES ASSUME NEW p \in Passes, pass[p].pc \in {"waitPromo", "sendPromo"}
               PROVE  (Day(pass[p].at) \in ran /\ (pass[p].pc = "sendPromo" => Fresh(pass[p].cur, Day(pass[p].at))))'
    BY <1>2 DEF SendIsFresh
  <2>1. PICK e \in ran : e = Day(pass[p].at)
    BY DEF NewsInv, SendIsFresh
  <2>2. e \in ran' /\ (Day(pass[p].at) = e)'
    BY <1>2, <2>1 DEF Day, DaySlots
  <2>3. ASSUME pass[p].pc = "sendPromo" PROVE Fresh(pass[p].cur, e)'
    <3>1. PICK f \in Fixtures : f = pass[p].cur
      BY <2>3 DEF NoticesInv, PromoSending
    <3>2. Fresh(f, e)
      BY <2>1, <2>3, <3>1 DEF NewsInv, SendIsFresh
    <3>3. Fresh(f, e)'
      BY <1>5, <1>6, <3>2
    <3> QED BY <1>2, <3>1, <3>3
  <2> QED BY <1>2, <2>2, <2>3
<1> QED BY <1>7, <1>8, <1>9, <1>10, <1>11 DEF NewsInv

-----------------------------------------------------------------------------
LEMMA NewsInvInit == Init => NewsInv
<1> SUFFICES ASSUME Init PROVE NewsInv
  OBVIOUS
<1>1. \A p \in Passes : pass[p].pc = "idle"
  BY DEF Init, Idle
<1> QED BY <1>1 DEF Init, NewsInv, NewsTyped, RanByNow, NamedIsListed, PromotedIsFresh, SendIsFresh

(* A stored row uses up rescores and moves, no faults.                     *)
LEMMA UpsertSpends ==
  ASSUME spent \in [rescores : Nat, moves : Nat, faults : Nat], NEW f \in Fixtures, UpsertsRow(f)
  PROVE  spent' \in [rescores : Nat, moves : Nat, faults : Nat] /\ spent'.faults = spent.faults
<1>1. PICK c \in {0, 1}, m \in {0, 1} :
        spent' = [spent EXCEPT !.rescores = spent.rescores + c, !.moves = spent.moves + m]
  BY DEF UpsertsRow
<1> DEFINE r == spent.rescores + c
           n == spent.moves + m
<1>2. r \in Nat /\ n \in Nat /\ spent' = [spent EXCEPT !.rescores = r, !.moves = n]
  BY <1>1
<1> HIDE DEF r, n
<1> QED BY <1>2

(* One case per action of Next.                                            *)
LEMMA NewsInvStep ==
  ASSUME IsFiniteSet(Fixtures)
  PROVE  NoticesInv /\ NewsInv /\ [Next]_vars => NewsInv'
<1> SUFFICES ASSUME NoticesInv, NewsInv, [Next]_vars PROVE NewsInv'
  OBVIOUS
<1>0. /\ NoticesInv' /\ now \in Nat /\ pass \in [Passes -> PassType]
      /\ spent \in [rescores : Nat, moves : Nat, faults : Nat]
  BY NoticesInvStep DEF NoticesInv, NoticesTyped, NewsInv, NewsTyped
<1>1. ASSUME UNCHANGED <<ran, named, listing, listedOn, promoted>>, now' = now \/ now' = now + 1,
             spent' \in [rescores : Nat, moves : Nat, faults : Nat], spent'.faults >= spent.faults,
             \A p \in Passes : pass'[p] = pass[p] \/ pass'[p].pc = "idle"
      PROVE  NewsInv'
  <2>1. Day(now) <= Day(now')
    BY <1>0, <1>1, DayIsNat
  <2>2. spent'.faults = 0 => spent.faults = 0
    BY <1>0, <1>1
  <2> QED BY <1>0, <1>1, <2>1, <2>2, CalmKeepsNews
<1>2. ASSUME NEW p \in Passes, DropNews(p), UNCHANGED <<now, ran, named, listedOn, promoted>>,
             spent' \in [rescores : Nat, moves : Nat, faults : Nat], spent'.faults = spent.faults
      PROVE  NewsInv'
  BY <1>0, <1>2, DropKeepsNews
<1>3. CASE Tick
  BY <1>0, <1>1, <1>3 DEF Tick, listings
<1>4. CASE MatchdayNotice
  BY <1>4, MatchdayNoticeNews
<1>5. CASE Crash
  <2>1. spent' \in [rescores : Nat, moves : Nat, faults : Nat] /\ spent'.faults >= spent.faults
    BY <1>0, <1>5 DEF Crash
  <2>2. \A p \in Passes : pass'[p].pc = "idle"
    BY <1>5 DEF Crash, Idle
  <2> QED BY <1>1, <1>5, <2>1, <2>2 DEF Crash, listings
<1>6. ASSUME NEW f \in Fixtures, Alert(f) PROVE NewsInv'
  <2>1. CASE AlertFires(f) \/ AlertRevealed(f) \/ AlertReachesNobody(f)
    BY <1>0, <1>1, <2>1 DEF AlertFires, AlertRevealed, AlertReachesNobody, listings
  <2>2. CASE AlertRescored(f)
    <3>1. spent' \in [rescores : Nat, moves : Nat, faults : Nat] /\ spent'.faults >= spent.faults
      <4>1. UpsertsRow(f) \/ UNCHANGED spent
        BY <2>2 DEF AlertRescored
      <4> QED BY <1>0, <4>1, UpsertSpends
    <3> QED BY <1>1, <2>2, <3>1 DEF AlertRescored, listings
  <2>3. ASSUME NEW p \in Hooks, AlertSuppressed(p, f) PROVE NewsInv'
    <3>1. /\ p \in Passes /\ {f} \subseteq Fixtures /\ EnterDrop(p, {f}, {})
          /\ UNCHANGED <<now, ran, named, listedOn, promoted, spent>>
      BY <2>3 DEF AlertSuppressed, Passes
    <3>2. DropNews(p)
      BY <3>1, EnterDropNews
    <3> QED BY <1>0, <1>2, <3>1, <3>2
  <2> QED BY <1>6, <2>1, <2>2, <2>3 DEF Alert
<1>7. ASSUME NEW f \in Fixtures, Rescore(f) PROVE NewsInv'
  <2>1. spent' \in [rescores : Nat, moves : Nat, faults : Nat] /\ spent'.faults >= spent.faults
    BY <1>0, <1>7, UpsertSpends DEF Rescore
  <2> QED BY <1>1, <1>7, <2>1 DEF Rescore, listings
<1>8. ASSUME NEW p \in Plans, StartPlan(p) PROVE NewsInv'
  <2>1. p \in Passes
    BY DEF Passes
  <2>2. PICK moved \in SUBSET Fixtures : spent' = [spent EXCEPT !.moves = @ + Cardinality(moved)]
    BY <1>8 DEF StartPlan
  <2>3. spent' \in [rescores : Nat, moves : Nat, faults : Nat] /\ spent'.faults = spent.faults
    <3>1. Cardinality(moved) \in Nat
      BY FS_Subset, FS_CardinalityType
    <3> QED BY <1>0, <2>2, <3>1
  <2>4. PICK today \in SUBSET Fixtures :
          IF today \subseteq passes
          THEN /\ pass' = [pass EXCEPT ![p] = [Idle EXCEPT !.pc = "promo", !.at = now, !.later = today]]
               /\ UNCHANGED <<listing, dropLock>>
          ELSE EnterDrop(p, today \ passes, today \cap passes)
    <3>1. {f \in Fixtures : Day(kickoff'[f]) = Day(now)} \in SUBSET Fixtures
      OBVIOUS
    <3> QED BY <1>8, <3>1 DEF StartPlan
  <2>5. DropNews(p)
    <3>1. CASE today \subseteq passes
      <4> DEFINE r == [Idle EXCEPT !.pc = "promo", !.at = now, !.later = today]
      <4>1. r.pc = "promo" /\ pass' = [pass EXCEPT ![p] = r] /\ UNCHANGED listing
        BY <2>4, <3>1 DEF Idle
      <4> HIDE DEF r
      <4> QED BY <1>0, <4>1 DEF DropNews
    <3>2. CASE ~(today \subseteq passes)
      <4>1. EnterDrop(p, today \ passes, today \cap passes) /\ today \ passes \subseteq Fixtures
        BY <2>4, <3>2
      <4> QED BY <2>1, <4>1, EnterDropNews
    <3> QED BY <3>1, <3>2
  <2>6. UNCHANGED <<now, ran, named, listedOn, promoted>>
    BY <1>8 DEF StartPlan
  <2> QED BY <1>2, <2>1, <2>3, <2>5, <2>6
<1>9. ASSUME NEW p \in Sweeps, StartSweep(p) PROVE NewsInv'
  <2>1. /\ p \in Passes /\ {} \subseteq Fixtures /\ EnterDrop(p, {}, {})
        /\ UNCHANGED <<now, ran, named, listedOn, promoted, spent>>
    BY <1>9 DEF StartSweep, Passes
  <2>2. DropNews(p)
    BY <2>1, EnterDropNews
  <2> QED BY <1>0, <1>2, <2>1, <2>2
<1>10. ASSUME NEW p \in PromoSweeps, StartPromoSweep(p) PROVE NewsInv'
  <2>1. /\ p \in Passes /\ {} \subseteq Fixtures /\ EnterPromo(p, {})
        /\ UNCHANGED <<now, ran, named, listing, listedOn, spent>>
    BY <1>10 DEF StartPromoSweep, Passes, listings
  <2>2. PromoNews(p)
    BY <2>1, EnterPromoNews
  <2> QED BY <1>0, <2>1, <2>2, PromoKeepsNews
<1>11. ASSUME NEW p \in Passes, PassStep(p) PROVE NewsInv'
  <2>0. pass[p] \in PassType /\ listing \in [Fixtures -> States]
    BY <1>0 DEF NoticesInv, NoticesTyped
  <2>1. ASSUME NEW todo, todo \subseteq Fixtures, NEW base \in [Fixtures -> States],
               \A g \in todo : base[g] = "pending",
               \A g \in Fixtures : base[g] = "none" <=> listing[g] = "none",
               DropAdvance(p, todo, base, pass[p].later),
               UNCHANGED <<now, ran, named, listedOn, promoted, spent>>
        PROVE  NewsInv'
    <3>1. DropNews(p)
      BY <2>1, DropAdvanceNews
    <3> QED BY <1>0, <1>2, <2>1, <3>1
  <2>2. CASE AcquireDrop(p)
    <3> DEFINE due == PendingOf(p, pass[p].ids, pass[p].at)
    <3>1. due \subseteq Fixtures /\ \A g \in due : listing[g] = "pending"
      BY <2>0, PendingIsPending DEF PassType
    <3>2. /\ DropAdvance(p, due, listing, pass[p].later)
          /\ UNCHANGED <<now, ran, named, listedOn, promoted, spent>>
      BY <2>2 DEF AcquireDrop
    <3> HIDE DEF due
    <3> QED BY <2>0, <2>1, <3>1, <3>2
  <2>3. CASE DropFailed(p)
    <3>1. /\ pass[p].todo \subseteq Fixtures /\ \A g \in pass[p].todo : listing[g] = "pending"
          /\ DropAdvance(p, pass[p].todo, listing, pass[p].later)
          /\ UNCHANGED <<now, ran, named, listedOn, promoted, spent>>
      BY <2>0, <2>3 DEF DropFailed, NoticesInv, DropSending, PassType
    <3> QED BY <2>0, <2>1, <3>1
  <2>4. CASE DropDelivered(p)
    <3> DEFINE f == pass[p].cur
               todo == pass[p].todo
               base == [listing EXCEPT ![f] = "sent"]
    <3>1. /\ f \in Fixtures /\ listing[f] = "pending" /\ f \notin todo /\ todo \subseteq Fixtures
          /\ \A g \in todo : listing[g] = "pending"
      BY <2>0, <2>4 DEF DropDelivered, NoticesInv, DropSending, PassType
    <3>2. /\ DropAdvance(p, todo, base, pass[p].later)
          /\ UNCHANGED <<now, ran, named, listedOn, promoted, spent>>
      BY <2>4 DEF DropDelivered
    <3> HIDE DEF f, todo
    <3>3. /\ base \in [Fixtures -> States] /\ \A g \in todo : base[g] = "pending"
          /\ \A g \in Fixtures : base[g] = "none" <=> listing[g] = "none"
      BY <2>0, <3>1 DEF States
    <3> HIDE DEF base
    <3> QED BY <2>1, <3>1, <3>2, <3>3
  <2>5. CASE AcquirePromo(p) \/ PromoFailed(p) \/ PromoDelivered(p) \/ PromotionHook(p)
    <3>1. UNCHANGED <<now, ran, named, listing, listedOn, spent>>
      BY <2>5 DEF AcquirePromo, PromoFailed, PromoDelivered, PromotionHook, listings, outcome
    <3>2. PromoNews(p)
      BY <2>5, PassPromoNews
    <3> QED BY <1>0, <3>1, <3>2, PromoKeepsNews
  <2> QED BY <1>11, <2>2, <2>3, <2>4, <2>5 DEF PassStep
<1>12. CASE UNCHANGED vars
  BY <1>0, <1>1, <1>12 DEF vars, listings, outcome
<1> QED BY <1>3, <1>4, <1>5, <1>6, <1>7, <1>8, <1>9, <1>10, <1>11, <1>12 DEF Next

(* For any finite set of fixtures and any passes: whatever the scheduling  *)
(* pass, the fire-time hook, the sweeps, the alerts and the re-scores do   *)
(* between each other's awaits, no drop is told twice and no promotion     *)
(* cheered twice, the recovery line of a late alert speaks of a drop that  *)
(* was told, "this was NOT on this morning's list" is never said of a      *)
(* fixture the notice of that day named, also by a pass that began before  *)
(* the notice, and a promoted fixture is listed only by a later notice.    *)
THEOREM ToldOnceAndTrulyTheorem ==
  ASSUME IsFiniteSet(Fixtures)
  PROVE  Spec => []ToldOnceAndTruly
<1>1. Init => NoticesInv /\ NewsInv
  BY NoticesInvInit, NewsInvInit
<1>2. (NoticesInv /\ NewsInv) /\ [Next]_vars => (NoticesInv /\ NewsInv)'
  BY NoticesInvStep, NewsInvStep
<1>3. NoticesInv /\ NewsInv => ToldOnceAndTruly
  <2> SUFFICES ASSUME NoticesInv, NewsInv PROVE ToldOnceAndTruly
    OBVIOUS
  <2>1. ToldOnce
    BY DEF NoticesInv, NoticesTyped, DropExact, PromoExact, ToldOnce
  <2>2. RecoveryNoteTruthful
    BY DEF NoticesInv, DropExact, RecoveryNoteTruthful
  <2>3. PromotionIsNews /\ OneFailsafePerDay
    BY DEF NewsInv, PromotedIsFresh, Fresh, PromotionIsNews, OneFailsafePerDay
  <2> QED BY <2>1, <2>2, <2>3 DEF ToldOnceAndTruly
<1> QED BY <1>1, <1>2, <1>3, PTL DEF Spec

-----------------------------------------------------------------------------
(* Types                                                                   *)

PassState ==
    [pc : {"idle", "waitDrop", "sendDrop", "promo", "waitPromo", "sendPromo"},
     ids : SUBSET Fixtures, at : 0 .. MaxTime, todo : SUBSET Fixtures,
     cur : Fixtures \cup {Nobody}, later : SUBSET Fixtures]

LEMMA IdleTyped == Idle \in PassState
BY NoticesAssumption DEF Idle, PassState

LEMMA DayTyped == \A n \in 0 .. MaxTime : Day(n) \in 0 .. Day(MaxTime)
BY NoticesAssumption DEF Day, DaySlots

LEMMA DropAdvanceTyped ==
  ASSUME TypeOK, NEW p \in Passes, NEW todo \in SUBSET Fixtures, NEW later \in SUBSET Fixtures,
         NEW base \in [Fixtures -> States], DropAdvance(p, todo, base, later)
  PROVE  listing' \in [Fixtures -> States] /\ dropLock' \in Passes \cup {Nobody} /\ pass' \in [Passes -> PassState]
<1> DEFINE silent == {f \in todo : Honoured(f) \/ ~audience}
           since == IF pass[p].pc = "idle" THEN now ELSE pass[p].at
           left == IF p \in Plans THEN [Idle EXCEPT !.pc = "promo", !.at = since, !.later = later] ELSE Idle
<1>1. since \in 0 .. MaxTime /\ pass \in [Passes -> PassState]
  BY DEF TypeOK, PassState
<1>2. silent \subseteq todo
  OBVIOUS
<1>3. \/ /\ listing' = Consumed(base, todo) /\ dropLock' = Nobody
         /\ pass' = [pass EXCEPT ![p] = left]
      \/ \E f \in todo \ silent, done \in SUBSET silent :
           /\ listing' = Consumed(base, done) /\ dropLock' = p
           /\ pass' = [pass EXCEPT ![p] = [Idle EXCEPT !.pc = "sendDrop", !.cur = f, !.at = since,
                            !.todo = todo \ (done \cup {f}), !.later = later]]
  BY DEF DropAdvance
<1>4. left \in PassState
  BY <1>1, IdleTyped DEF Idle, PassState
<1> HIDE DEF since, silent, left
<1>5. ASSUME NEW f \in todo \ silent, NEW done \in SUBSET silent
      PROVE  [Idle EXCEPT !.pc = "sendDrop", !.cur = f, !.at = since,
                          !.todo = todo \ (done \cup {f}), !.later = later] \in PassState
  <2> DEFINE rest == todo \ (done \cup {f})
  <2>1. f \in Fixtures /\ rest \in SUBSET Fixtures
    OBVIOUS
  <2> HIDE DEF rest
  <2>2. [Idle EXCEPT !.pc = "sendDrop", !.cur = f, !.at = since, !.todo = rest, !.later = later] \in PassState
    BY <1>1, <2>1 DEF Idle, PassState
  <2> QED BY <2>2 DEF rest
<1>6. \A r \in PassState : [pass EXCEPT ![p] = r] \in [Passes -> PassState]
  BY <1>1
<1>7. \A fs : Consumed(base, fs) \in [Fixtures -> States]
  BY ConsumedKeepsSent
<1> QED BY <1>3, <1>4, <1>5, <1>6, <1>7

LEMMA EnterDropTyped ==
  ASSUME TypeOK, NEW p \in Passes, NEW ids \in SUBSET Fixtures, NEW later \in SUBSET Fixtures,
         EnterDrop(p, ids, later)
  PROVE  listing' \in [Fixtures -> States] /\ dropLock' \in Passes \cup {Nobody} /\ pass' \in [Passes -> PassState]
<1>1. /\ now \in 0 .. MaxTime /\ pass \in [Passes -> PassState] /\ listing \in [Fixtures -> States]
      /\ dropLock \in Passes \cup {Nobody}
  BY DEF TypeOK, PassState, States
<1>2. CASE dropLock = Nobody
  <2> DEFINE due == PendingOf(p, ids, now)
  <2>1. DropAdvance(p, due, listing, later)
    BY <1>2 DEF EnterDrop
  <2>2. due \in SUBSET Fixtures
    BY PendingIsPending
  <2> HIDE DEF due
  <2> QED BY <1>1, <2>1, <2>2, DropAdvanceTyped
<1>3. CASE dropLock # Nobody
  <2> DEFINE waits == [Idle EXCEPT !.pc = "waitDrop", !.ids = ids, !.at = now, !.later = later]
  <2>1. pass' = [pass EXCEPT ![p] = waits] /\ UNCHANGED <<listing, dropLock>>
    BY <1>3 DEF EnterDrop
  <2>2. waits \in PassState
    BY <1>1, NoticesAssumption DEF Idle, PassState
  <2> HIDE DEF waits
  <2> QED BY <1>1, <2>1, <2>2
<1> QED BY <1>2, <1>3

Rowed == [Fixtures -> 0 .. 1 + Day(MaxTime)]

LEMMA RecordedTyped ==
  ASSUME NEW base \in Rowed, NEW fs, NEW at \in 0 .. MaxTime
  PROVE  Recorded(base, fs, Day(at)) \in Rowed
<1> DEFINE d == Day(at)  m == Day(MaxTime)
<1>1. d \in 0 .. m /\ m \in Nat
  BY DayTyped, NoticesAssumption DEF Day, DaySlots
<1>2. base \in [Fixtures -> 0 .. 1 + m]
  BY DEF Rowed
<1> HIDE DEF d, m
<1>3. 1 + d \in 0 .. 1 + m
  BY <1>1
<1>4. Recorded(base, fs, d) \in [Fixtures -> 0 .. 1 + m]
  BY <1>2, <1>3 DEF Recorded
<1> QED BY <1>4 DEF d, m, Rowed

LEMMA PromoAdvanceTyped ==
  ASSUME TypeOK, NEW p \in Passes, NEW todo \in SUBSET Fixtures, NEW at \in 0 .. MaxTime,
         NEW base \in Rowed, PromoAdvance(p, todo, base, at)
  PROVE  promoted' \in Rowed /\ promoLock' \in Passes \cup {Nobody} /\ pass' \in [Passes -> PassState]
<1> DEFINE due == {f \in todo : Promotable(f, base, at)}
<1>1. pass \in [Passes -> PassState]
  BY DEF TypeOK, PassState
<1>2. \/ /\ promoted' = Recorded(base, due, Day(at)) /\ promoLock' = Nobody
         /\ pass' = [pass EXCEPT ![p] = Idle]
      \/ /\ promoted' = base /\ promoLock' = p
         /\ \E f \in due, done \in SUBSET (todo \ due) :
              pass' = [pass EXCEPT ![p] = [Idle EXCEPT !.pc = "sendPromo", !.cur = f, !.at = at,
                                                !.todo = todo \ (done \cup {f})]]
  BY DEF PromoAdvance
<1>3. due \subseteq Fixtures
  OBVIOUS
<1> HIDE DEF due
<1>4. ASSUME NEW f \in due, NEW done \in SUBSET (todo \ due)
      PROVE  [Idle EXCEPT !.pc = "sendPromo", !.cur = f, !.at = at, !.todo = todo \ (done \cup {f})] \in PassState
  <2> DEFINE rest == todo \ (done \cup {f})
  <2>1. f \in Fixtures /\ rest \in SUBSET Fixtures
    BY <1>3
  <2> HIDE DEF rest
  <2>2. [Idle EXCEPT !.pc = "sendPromo", !.cur = f, !.at = at, !.todo = rest] \in PassState
    BY <2>1 DEF Idle, PassState
  <2> QED BY <2>2 DEF rest
<1>5. \A r \in PassState : [pass EXCEPT ![p] = r] \in [Passes -> PassState]
  BY <1>1
<1>6. Recorded(base, due, Day(at)) \in Rowed
  BY RecordedTyped
<1> QED BY <1>2, <1>4, <1>5, <1>6, IdleTyped

LEMMA EnterPromoTyped ==
  ASSUME TypeOK, NEW p \in Passes, NEW ids \in SUBSET Fixtures, EnterPromo(p, ids)
  PROVE  promoted' \in Rowed /\ promoLock' \in Passes \cup {Nobody} /\ pass' \in [Passes -> PassState]
<1>1. /\ now \in 0 .. MaxTime /\ pass \in [Passes -> PassState] /\ promoted \in Rowed
      /\ promoLock \in Passes \cup {Nobody}
  BY DEF TypeOK, PassState, Rowed
<1>2. CASE NoticeHasRun(now) /\ promoLock = Nobody
  <2> DEFINE todo == IF p \in PromoSweeps THEN Today(now) ELSE ids
  <2>1. PromoAdvance(p, todo, promoted, now)
    BY <1>2 DEF EnterPromo
  <2>2. todo \in SUBSET Fixtures
    BY DEF Today
  <2> HIDE DEF todo
  <2> QED BY <1>1, <2>1, <2>2, PromoAdvanceTyped
<1>3. CASE ~NoticeHasRun(now)
  BY <1>1, <1>3, IdleTyped DEF EnterPromo
<1>4. CASE NoticeHasRun(now) /\ promoLock # Nobody
  <2> DEFINE waits == [Idle EXCEPT !.pc = "waitPromo", !.ids = ids, !.at = now]
  <2>1. pass' = [pass EXCEPT ![p] = waits] /\ UNCHANGED <<promoted, promoLock>>
    BY <1>4 DEF EnterPromo
  <2>2. waits \in PassState
    BY <1>1, NoticesAssumption DEF Idle, PassState
  <2> HIDE DEF waits
  <2> QED BY <1>1, <2>1, <2>2
<1> QED BY <1>2, <1>3, <1>4

(* The passes between two awaits, typed.                                   *)
LEMMA PassIs ==
  ASSUME TypeOK, NEW p \in Passes
  PROVE  /\ pass[p] \in PassState /\ pass[p].at \in 0 .. MaxTime
         /\ pass[p].todo \in SUBSET Fixtures /\ pass[p].ids \in SUBSET Fixtures /\ pass[p].later \in SUBSET Fixtures
         /\ listing \in [Fixtures -> States] /\ promoted \in Rowed /\ now \in 0 .. MaxTime
         /\ told \in [Fixtures -> Nat] /\ cheered \in [Fixtures -> Nat]
BY DEF TypeOK, PassState, States, Rowed

LEMMA CountTyped ==
  ASSUME NEW c \in [Fixtures -> Nat], NEW f
  PROVE  [c EXCEPT ![f] = @ + 1] \in [Fixtures -> Nat]
<1>1. CASE f \in Fixtures
  BY <1>1
<1>2. CASE f \notin Fixtures
  BY <1>2
<1> QED BY <1>1, <1>2

LEMMA DropStepTyped ==
  ASSUME TypeOK, NEW p \in Passes, AcquireDrop(p) \/ DropDelivered(p) \/ DropFailed(p)
  PROVE  TypeOK'
<1> DEFINE sent == [listing EXCEPT ![pass[p].cur] = "sent"]
           due == PendingOf(p, pass[p].ids, pass[p].at)
           after == [told EXCEPT ![pass[p].cur] = @ + 1]
<1>1. sent \in [Fixtures -> States] /\ due \in SUBSET Fixtures /\ after \in [Fixtures -> Nat]
  <2>1. sent \in [Fixtures -> States] /\ after \in [Fixtures -> Nat]
    <3>1. listing \in [Fixtures -> States] /\ told \in [Fixtures -> Nat]
      BY PassIs
    <3>2. after \in [Fixtures -> Nat]
      BY <3>1, CountTyped
    <3> DEFINE f == pass[p].cur
    <3> HIDE DEF f
    <3>3. [listing EXCEPT ![f] = "sent"] \in [Fixtures -> States]
      BY <3>1 DEF States
    <3> QED BY <3>2, <3>3 DEF f
  <2>2. pass[p].ids \subseteq Fixtures
    BY PassIs
  <2>3. due \subseteq Fixtures
    BY <2>2, PendingIsPending
  <2> QED BY <2>1, <2>3
<1>2. \/ DropAdvance(p, due, listing, pass[p].later) /\ told' = told
      \/ DropAdvance(p, pass[p].todo, sent, pass[p].later) /\ told' = after
      \/ DropAdvance(p, pass[p].todo, listing, pass[p].later) /\ told' = told
  BY DEF AcquireDrop, DropDelivered, DropFailed, outcome
<1> HIDE DEF sent, due, after
<1>3. listing' \in [Fixtures -> States] /\ dropLock' \in Passes \cup {Nobody} /\ pass' \in [Passes -> PassState]
  BY <1>1, <1>2, PassIs, DropAdvanceTyped
<1>4. told' \in [Fixtures -> Nat]
  BY <1>1, <1>2, PassIs
<1>5. UNCHANGED <<now, kickoff, passes, revealed, job, alert, planned, ran, named, listedFor, listedOn,
                  promoted, promoLock, cheered, recovery, audience, spent>>
  BY DEF AcquireDrop, DropDelivered, DropFailed, outcome
<1> QED BY <1>3, <1>4, <1>5 DEF TypeOK, PassState, States

LEMMA PromoStepTyped ==
  ASSUME TypeOK, NEW p \in Passes, PromotionHook(p) \/ AcquirePromo(p) \/ PromoDelivered(p) \/ PromoFailed(p)
  PROVE  TypeOK'
<1> DEFINE rows == Recorded(promoted, {pass[p].cur}, Day(pass[p].at))
           todo == IF p \in PromoSweeps THEN Today(pass[p].at) ELSE pass[p].ids
           after == [cheered EXCEPT ![pass[p].cur] = @ + 1]
<1>1. rows \in Rowed /\ todo \in SUBSET Fixtures /\ after \in [Fixtures -> Nat]
  <2>1. promoted \in Rowed /\ pass[p].at \in 0 .. MaxTime /\ cheered \in [Fixtures -> Nat]
        /\ pass[p].ids \in SUBSET Fixtures
    BY PassIs
  <2>2. rows \in Rowed
    BY <2>1, RecordedTyped
  <2>3. after \in [Fixtures -> Nat]
    BY <2>1, CountTyped
  <2>4. todo \in SUBSET Fixtures
    BY <2>1 DEF Today
  <2> QED BY <2>2, <2>3, <2>4
<1>2. \/ EnterPromo(p, pass[p].later) /\ cheered' = cheered
      \/ pass' = [pass EXCEPT ![p] = Idle] /\ UNCHANGED <<promoted, promoLock>> /\ cheered' = cheered
      \/ PromoAdvance(p, todo, promoted, pass[p].at) /\ cheered' = cheered
      \/ PromoAdvance(p, pass[p].todo, rows, pass[p].at) /\ cheered' = after
      \/ PromoAdvance(p, pass[p].todo, promoted, pass[p].at) /\ cheered' = cheered
  BY DEF PromotionHook, AcquirePromo, PromoDelivered, PromoFailed, outcome
<1> HIDE DEF rows, todo, after
<1>3. promoted' \in Rowed /\ promoLock' \in Passes \cup {Nobody} /\ pass' \in [Passes -> PassState]
  <2>1. CASE pass' = [pass EXCEPT ![p] = Idle] /\ UNCHANGED <<promoted, promoLock>>
    BY <2>1, IdleTyped DEF TypeOK, PassState, Rowed
  <2>2. CASE EnterPromo(p, pass[p].later)
    BY <2>2, PassIs, EnterPromoTyped
  <2>3. CASE PromoAdvance(p, todo, promoted, pass[p].at) \/ PromoAdvance(p, pass[p].todo, rows, pass[p].at)
             \/ PromoAdvance(p, pass[p].todo, promoted, pass[p].at)
    BY <1>1, <2>3, PassIs, PromoAdvanceTyped
  <2> QED BY <1>2, <2>1, <2>2, <2>3
<1>4. cheered' \in [Fixtures -> Nat]
  BY <1>1, <1>2, PassIs
<1>5. UNCHANGED <<now, kickoff, passes, revealed, job, alert, planned, ran, named, listings, dropLock,
                  told, recovery, audience, spent>>
  BY DEF PromotionHook, AcquirePromo, PromoDelivered, PromoFailed, outcome
<1> QED BY <1>3, <1>4, <1>5 DEF TypeOK, PassState, States, Rowed, listings

Jobs == [Fixtures -> 0 .. MaxTime \cup {Nobody}]

LEMMA JobsTyped == TypeOK => job \in Jobs /\ \A f \in Fixtures : [job EXCEPT ![f] = Nobody] \in Jobs
BY DEF TypeOK, Jobs

LEMMA LaterDay ==
  ASSUME NEW k \in KickoffSlots, k + DaySlots <= MaxTime PROVE k + DaySlots \in KickoffSlots
<1>1. k \in 0 .. MaxTime /\ k % 3 = 1 /\ k + 3 <= MaxTime
  BY DEF KickoffSlots, DaySlots
<1>2. k + 3 \in 0 .. MaxTime /\ (k + 3) % 3 = 1
  BY <1>1, NoticesAssumption
<1> QED BY <1>2 DEF KickoffSlots, DaySlots

LEMMA StartPlanTyped ==
  ASSUME IsFiniteSet(Fixtures), TypeOK, NEW p \in Plans, StartPlan(p)
  PROVE  TypeOK'
<1>1. PICK moved \in SUBSET {f \in Fixtures : now <= kickoff[f] /\ kickoff[f] + DaySlots <= MaxTime} :
        /\ spent' = [spent EXCEPT !.moves = @ + Cardinality(moved)]
        /\ kickoff' = [f \in Fixtures |-> IF f \in moved THEN kickoff[f] + DaySlots ELSE kickoff[f]]
        /\ LET today == {f \in Fixtures : Day(kickoff'[f]) = Day(now)}
           IN  /\ job' = [f \in Fixtures |->
                            IF f \in today \cap passes /\ now < kickoff'[f] THEN kickoff'[f]
                            ELSE IF f \in moved THEN Nobody ELSE job[f]]
               /\ planned' = TRUE
               /\ IF today \subseteq passes
                  THEN /\ pass' = [pass EXCEPT ![p] = [Idle EXCEPT !.pc = "promo", !.at = now, !.later = today]]
                       /\ UNCHANGED <<listing, dropLock>>
                  ELSE EnterDrop(p, today \ passes, today \cap passes)
  BY DEF StartPlan
<1> DEFINE today == {f \in Fixtures : Day(kickoff'[f]) = Day(now)}
<1>2. today \in SUBSET Fixtures /\ today \ passes \in SUBSET Fixtures /\ today \cap passes \in SUBSET Fixtures
      /\ p \in Passes /\ now \in 0 .. MaxTime
  BY DEF Passes, TypeOK
<1>3. IF today \subseteq passes
      THEN /\ pass' = [pass EXCEPT ![p] = [Idle EXCEPT !.pc = "promo", !.at = now, !.later = today]]
           /\ UNCHANGED <<listing, dropLock>>
      ELSE EnterDrop(p, today \ passes, today \cap passes)
  BY <1>1
<1>4. kickoff' \in [Fixtures -> KickoffSlots]
  <2>1. \A f \in Fixtures : kickoff[f] \in KickoffSlots
    BY DEF TypeOK
  <2>2. \A f \in moved : kickoff[f] + DaySlots \in KickoffSlots
    BY <2>1, LaterDay
  <2> QED BY <1>1, <2>1, <2>2
<1>5. job' \in Jobs /\ planned' \in BOOLEAN
  <2>1. \A f \in Fixtures : kickoff'[f] \in 0 .. MaxTime
    BY <1>4 DEF KickoffSlots
  <2>2. job \in Jobs
    BY DEF TypeOK, Jobs
  <2> QED BY <1>1, <2>1, <2>2 DEF Jobs
<1>6. spent' \in [rescores : Nat, moves : Nat, faults : Nat]
  <2>1. IsFiniteSet(moved)
    BY FS_Subset
  <2>2. Cardinality(moved) \in Nat
    BY <2>1, FS_CardinalityType
  <2> QED BY <1>1, <2>2 DEF TypeOK
<1> HIDE DEF today
<1>7. listing' \in [Fixtures -> States] /\ dropLock' \in Passes \cup {Nobody} /\ pass' \in [Passes -> PassState]
  <2>1. CASE today \subseteq passes
    <3> DEFINE r == [Idle EXCEPT !.pc = "promo", !.at = now, !.later = today]
    <3>1. r \in PassState
      BY <1>2, NoticesAssumption DEF Idle, PassState
    <3>2. pass' = [pass EXCEPT ![p] = r] /\ UNCHANGED <<listing, dropLock>>
      BY <1>3, <2>1
    <3> HIDE DEF r
    <3> QED BY <3>1, <3>2 DEF TypeOK, PassState, States
  <2>2. CASE ~(today \subseteq passes)
    BY <1>2, <1>3, <2>2, EnterDropTyped
  <2> QED BY <2>1, <2>2
<1>8. UNCHANGED <<now, passes, revealed, alert, ran, named, listedFor, listedOn, promoted, promoLock, outcome>>
  BY DEF StartPlan
<1> QED BY <1>4, <1>5, <1>6, <1>7, <1>8 DEF TypeOK, PassState, States, Jobs, outcome

LEMMA StartsTyped ==
  ASSUME TypeOK, (\E p \in Sweeps : StartSweep(p)) \/ (\E p \in PromoSweeps : StartPromoSweep(p))
                 \/ \E p \in Hooks, f \in Fixtures : AlertSuppressed(p, f)
  PROVE  TypeOK'
<1>1. ASSUME NEW p \in Sweeps, StartSweep(p) PROVE TypeOK'
  <2>1. EnterDrop(p, {}, {}) /\ p \in Passes
        /\ UNCHANGED <<now, kickoff, passes, revealed, job, alert, planned, ran, named, listedFor, listedOn,
                       promoted, promoLock, outcome, spent>>
    BY <1>1 DEF StartSweep, Passes
  <2>2. listing' \in [Fixtures -> States] /\ dropLock' \in Passes \cup {Nobody} /\ pass' \in [Passes -> PassState]
    BY <2>1, EnterDropTyped
  <2> QED BY <2>1, <2>2 DEF TypeOK, PassState, States, outcome
<1>2. ASSUME NEW p \in PromoSweeps, StartPromoSweep(p) PROVE TypeOK'
  <2>1. EnterPromo(p, {}) /\ p \in Passes
        /\ UNCHANGED <<now, kickoff, passes, revealed, job, alert, planned, ran, named, listings, dropLock, outcome, spent>>
    BY <1>2 DEF StartPromoSweep, Passes
  <2>2. promoted' \in Rowed /\ promoLock' \in Passes \cup {Nobody} /\ pass' \in [Passes -> PassState]
    BY <2>1, EnterPromoTyped
  <2> QED BY <2>1, <2>2 DEF TypeOK, PassState, States, Rowed, outcome, listings
<1>3. ASSUME NEW p \in Hooks, NEW f \in Fixtures, AlertSuppressed(p, f) PROVE TypeOK'
  <2>1. EnterDrop(p, {f}, {}) /\ p \in Passes
        /\ (job' = job \/ job' = [job EXCEPT ![f] = Nobody])
        /\ UNCHANGED <<now, kickoff, passes, revealed, alert, planned, ran, named, listedFor, listedOn,
                       promoted, promoLock, outcome, spent>>
    BY <1>3 DEF AlertSuppressed, JobLeaves, Passes
  <2>2. listing' \in [Fixtures -> States] /\ dropLock' \in Passes \cup {Nobody} /\ pass' \in [Passes -> PassState]
    <3> DEFINE ids == {f}
    <3>1. ids \in SUBSET Fixtures /\ {} \in SUBSET Fixtures /\ EnterDrop(p, ids, {}) /\ p \in Passes
      BY <2>1
    <3> HIDE DEF ids
    <3> QED BY <3>1, EnterDropTyped
  <2>3. job' \in Jobs
    BY <2>1, JobsTyped
  <2> QED BY <2>1, <2>2, <2>3 DEF TypeOK, PassState, States, Jobs, outcome
<1> QED BY <1>1, <1>2, <1>3

LEMMA MatchdayNoticeTyped ==
  ASSUME IsFiniteSet(Fixtures), TypeOK, MatchdayNotice
  PROVE  TypeOK'
<1> DEFINE shown == Today(now) \cap passes
           today == Day(now)
           days == 0 .. Day(MaxTime)
<1>1. shown \subseteq Fixtures /\ today \in days /\ now \in 0 .. MaxTime
  BY DayTyped DEF TypeOK, Today
<1>2. PICK lost \in SUBSET shown :
        /\ spent' = [spent EXCEPT !.faults = @ + Cardinality(lost)]
        /\ named' = named \cup (shown \X {today})
        /\ LET new == {f \in shown \ lost : listing[f] = "none"}
           IN  /\ listing' = [f \in Fixtures |-> IF f \in new THEN "pending" ELSE listing[f]]
               /\ listedFor' = [f \in Fixtures |-> IF f \in new THEN kickoff[f] ELSE listedFor[f]]
               /\ listedOn' = [f \in Fixtures |-> IF f \in new THEN today ELSE listedOn[f]]
  BY DEF MatchdayNotice
<1>3. ran' = ran \cup {today}
      /\ UNCHANGED <<now, kickoff, passes, revealed, job, alert, planned, promoted, dropLock, promoLock, pass, outcome>>
  BY DEF MatchdayNotice
<1>4. spent' \in [rescores : Nat, moves : Nat, faults : Nat]
  <2>1. IsFiniteSet(lost)
    BY <1>1, FS_Subset
  <2>2. Cardinality(lost) \in Nat
    BY <2>1, FS_CardinalityType
  <2> QED BY <1>2, <2>2 DEF TypeOK
<1> HIDE DEF today, shown, days
<1>5. ran' \subseteq days /\ named' \subseteq Fixtures \X days
  <2>1. ran \subseteq days /\ named \subseteq Fixtures \X days
    BY DEF TypeOK, days
  <2> QED BY <1>1, <1>2, <1>3, <2>1
<1>6. /\ listing' \in [Fixtures -> States] /\ listedFor' \in [Fixtures -> 0 .. MaxTime]
      /\ listedOn' \in [Fixtures -> days]
  <2>1. /\ listing \in [Fixtures -> States] /\ listedFor \in [Fixtures -> 0 .. MaxTime]
        /\ listedOn \in [Fixtures -> days] /\ \A f \in Fixtures : kickoff[f] \in 0 .. MaxTime
    BY DEF TypeOK, days, States, KickoffSlots
  <2> QED BY <1>1, <1>2, <2>1 DEF States
<1> QED BY <1>3, <1>4, <1>5, <1>6 DEF TypeOK, days, States, outcome

Alerts == [Fixtures -> [pc : {"idle", "check", "send"}, late : BOOLEAN, noted : BOOLEAN]]

LEMMA UpsertTyped ==
  ASSUME TypeOK, NEW f \in Fixtures, UpsertsRow(f)
  PROVE  /\ kickoff' \in [Fixtures -> KickoffSlots] /\ passes' \subseteq Fixtures
         /\ spent' \in [rescores : Nat, moves : Nat, faults : Nat]
<1>0. kickoff \in [Fixtures -> KickoffSlots] /\ passes \subseteq Fixtures
      /\ spent \in [rescores : Nat, moves : Nat, faults : Nat]
  BY DEF TypeOK
<1>1. PICK c \in {0, 1}, m \in {0, 1} :
        /\ kickoff[f] + m * DaySlots <= MaxTime
        /\ kickoff' = [kickoff EXCEPT ![f] = kickoff[f] + m * DaySlots]
        /\ passes' = IF c = 0 THEN passes ELSE IF f \in passes THEN passes \ {f} ELSE passes \cup {f}
  BY DEF UpsertsRow
<1>2. kickoff[f] + m * DaySlots \in KickoffSlots
  <2>1. kickoff[f] \in KickoffSlots /\ kickoff[f] \in Nat
    BY <1>0 DEF KickoffSlots
  <2>2. CASE m = 0
    BY <2>1, <2>2 DEF DaySlots
  <2>3. CASE m = 1
    <3>1. m * DaySlots = DaySlots
      BY <2>3 DEF DaySlots
    <3> QED BY <1>1, <2>1, <3>1, LaterDay
  <2> QED BY <2>2, <2>3
<1>3. kickoff' \in [Fixtures -> KickoffSlots]
  <2> DEFINE k == kickoff[f] + m * DaySlots
  <2>1. k \in KickoffSlots /\ kickoff' = [kickoff EXCEPT ![f] = k]
    BY <1>1, <1>2
  <2> HIDE DEF k
  <2> QED BY <1>0, <2>1
<1> QED BY <1>0, <1>1, <1>3, UpsertSpends

LEMMA AlertTyped ==
  ASSUME TypeOK, NEW f \in Fixtures,
         AlertFires(f) \/ AlertRescored(f) \/ AlertRevealed(f) \/ AlertReachesNobody(f)
  PROVE  TypeOK'
<1>0. alert \in Alerts /\ [alert EXCEPT ![f] = NoAlert] \in Alerts
  BY DEF TypeOK, Alerts, NoAlert
<1>1. CASE AlertFires(f)
  <2>1. job' \in Jobs
    BY <1>1, JobsTyped DEF AlertFires, JobLeaves
  <2> DEFINE a == [pc |-> "check", late |-> Due(f), noted |-> FALSE]
  <2>2. a \in [pc : {"idle", "check", "send"}, late : BOOLEAN, noted : BOOLEAN]
    BY DEF Due
  <2>3. alert' = [alert EXCEPT ![f] = a]
    BY <1>1 DEF AlertFires
  <2> HIDE DEF a
  <2>4. alert' \in Alerts
    BY <1>0, <2>2, <2>3 DEF Alerts
  <2>5. UNCHANGED <<now, kickoff, passes, revealed, planned, ran, named, listings, promoted, dropLock,
                    promoLock, pass, outcome, spent>>
    BY <1>1 DEF AlertFires
  <2> QED BY <2>1, <2>4, <2>5 DEF TypeOK, Jobs, Alerts, listings, outcome
<1>2. CASE AlertRescored(f)
  <2>0. PICK clears \in BOOLEAN :
          /\ UpsertsRow(f) \/ UNCHANGED <<kickoff, passes, spent>>
          /\ alert' = [alert EXCEPT ![f] =
                 [pc |-> "send", late |-> alert[f].late, noted |-> Noted(f, clears)]]
    BY <1>2 DEF AlertRescored
  <2> DEFINE a == [pc |-> "send", late |-> alert[f].late, noted |-> Noted(f, clears)]
  <2>1. a \in [pc : {"idle", "check", "send"}, late : BOOLEAN, noted : BOOLEAN]
    BY <1>0 DEF Alerts, Noted
  <2>2. alert' = [alert EXCEPT ![f] = a]
    BY <2>0
  <2> HIDE DEF a
  <2>3. alert' \in Alerts
    BY <1>0, <2>1, <2>2 DEF Alerts
  <2>4. /\ kickoff' \in [Fixtures -> KickoffSlots] /\ passes' \subseteq Fixtures
        /\ spent' \in [rescores : Nat, moves : Nat, faults : Nat]
    <3>1. CASE UpsertsRow(f)
      BY <3>1, UpsertTyped
    <3>2. CASE UNCHANGED <<kickoff, passes, spent>>
      BY <3>2 DEF TypeOK
    <3> QED BY <2>0, <3>1, <3>2
  <2>5. UNCHANGED <<now, revealed, job, planned, ran, named, listings, promoted, dropLock, promoLock,
                    pass, outcome>>
    BY <1>2 DEF AlertRescored
  <2> QED BY <2>3, <2>4, <2>5 DEF TypeOK, Alerts, listings, outcome
<1>3. CASE AlertRevealed(f)
  <2>1. alert' \in Alerts
    BY <1>0, <1>3 DEF AlertRevealed
  <2> QED BY <1>3, <2>1 DEF AlertRevealed, TypeOK, Alerts, listings
<1>4. CASE AlertReachesNobody(f)
  <2>1. alert' \in Alerts
    BY <1>0, <1>4 DEF AlertReachesNobody
  <2> QED BY <1>4, <2>1 DEF AlertReachesNobody, TypeOK, Alerts, listings, outcome
<1> QED BY <1>1, <1>2, <1>3, <1>4

LEMMA OthersTyped ==
  ASSUME TypeOK, Tick \/ Crash \/ (\E f \in Fixtures : Rescore(f))
  PROVE  TypeOK'
<1>1. CASE Tick
  <2>1. now' \in 0 .. MaxTime
    BY <1>1, NoticesAssumption DEF Tick, TypeOK
  <2> QED BY <1>1, <2>1 DEF Tick, TypeOK, listings, outcome
<1>2. CASE Crash
  <2>1. pass' \in [Passes -> PassState]
    BY <1>2, IdleTyped DEF Crash
  <2>2. spent' \in [rescores : Nat, moves : Nat, faults : Nat]
    BY <1>2 DEF Crash, TypeOK
  <2>3. job' \in Jobs /\ alert' \in Alerts
    BY <1>2 DEF Crash, Jobs, Alerts, NoAlert
  <2>4. /\ dropLock' = Nobody /\ promoLock' = Nobody /\ planned' = FALSE
        /\ UNCHANGED <<now, kickoff, passes, revealed, ran, named, listings, promoted, outcome>>
    BY <1>2 DEF Crash
  <2> QED BY <2>1, <2>2, <2>3, <2>4 DEF TypeOK, PassState, Jobs, Alerts, listings, outcome
<1>3. ASSUME NEW f \in Fixtures, Rescore(f) PROVE TypeOK'
  <2>1. /\ kickoff' \in [Fixtures -> KickoffSlots] /\ passes' \subseteq Fixtures
        /\ spent' \in [rescores : Nat, moves : Nat, faults : Nat]
    BY <1>3, UpsertTyped DEF Rescore
  <2> QED BY <1>3, <2>1 DEF Rescore, TypeOK, listings, outcome
<1> QED BY <1>1, <1>2, <1>3

(* Every marker, listing, promotion row and pass has its type, for any     *)
(* finite set of fixtures, any passes and any bounds.                      *)
THEOREM NoticesTypes ==
  ASSUME IsFiniteSet(Fixtures)
  PROVE  Spec => []TypeOK
<1>1. Init => TypeOK
  <2> SUFFICES ASSUME Init PROVE TypeOK
    OBVIOUS
  <2>1. pass \in [Passes -> PassState]
    BY IdleTyped DEF Init
  <2>2. kickoff \in [Fixtures -> KickoffSlots]
    <3>1. 1 \in KickoffSlots
      BY NoticesAssumption DEF KickoffSlots, DaySlots
    <3>2. kickoff \in [Fixtures -> {1}]
      BY DEF Init
    <3> QED BY <3>1, <3>2
  <2>3. 0 \in 0 .. MaxTime /\ Day(MaxTime) \in Nat /\ 0 \in 0 .. Day(MaxTime) /\ 0 \in 0 .. 1 + Day(MaxTime)
    BY NoticesAssumption DEF Day, DaySlots
  <2>4. spent \in [rescores : Nat, moves : Nat, faults : Nat]
    BY DEF Init
  <2>5. /\ listedFor \in [Fixtures -> 0 .. MaxTime] /\ listedOn \in [Fixtures -> 0 .. Day(MaxTime)]
        /\ promoted \in [Fixtures -> 0 .. 1 + Day(MaxTime)] /\ now \in 0 .. MaxTime
    BY <2>3 DEF Init
  <2>6. job \in Jobs /\ alert \in Alerts
    BY DEF Init, Jobs, Alerts, NoAlert
  <2> QED BY <2>1, <2>2, <2>4, <2>5, <2>6 DEF Init, TypeOK, PassState, Jobs, Alerts
<1>2. TypeOK /\ [Next]_vars => TypeOK'
  <2> SUFFICES ASSUME TypeOK, [Next]_vars PROVE TypeOK'
    OBVIOUS
  <2>1. CASE UNCHANGED vars
    BY <2>1 DEF vars, TypeOK, listings, outcome
  <2>2. CASE Next
    BY <2>2, DropStepTyped, PromoStepTyped, StartPlanTyped, StartsTyped, MatchdayNoticeTyped, AlertTyped, OthersTyped
       DEF Next, PassStep, Alert
  <2> QED BY <2>1, <2>2
<1> QED BY <1>1, <1>2, PTL DEF Spec
==============================================================================
