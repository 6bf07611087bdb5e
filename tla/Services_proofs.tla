--------------------------- MODULE Services_proofs ---------------------------
(***************************************************************************)
(* Machine-checked facts about the supporting components, one section for  *)
(* each: LineupFeed, ClubEloFeed, SchemaBoot, ApiClient, EloSnapshot,      *)
(* MarketRoute, OddsAnchor and OperatorNotify.  They share no state, and   *)
(* the sections use nothing of each other; the last one puts them together *)
(* as MCServices does.                                                     *)
(***************************************************************************)
EXTENDS MCServices, ClubEloFeed, SequenceTheorems, Induction

-----------------------------------------------------------------------------
(***************************************************************************)
(* LineupFeed: any fixtures, leagues, time to live and number of failures. *)
(***************************************************************************)

AlertType == [pc : {"idle", "resolve", "list", "ask", "lineup", "sent"},
              failed : BOOLEAN, lineup : BOOLEAN, adjusted : BOOLEAN]

(* The part of the type invariant the argument needs.                      *)
ServiceTyped ==
    /\ source \in [listed : [Matches -> Ages \cup {None}], posted : [Matches -> Ages \cup {None}]]
    /\ answers \in [list : Lists \cup {None}, xi : [Matches -> XIs \cup {None}]]
    /\ dayList \in ((SUBSET Matches) \ {{}}) \cup {None}
    /\ ids \in [Matches -> {"unknown", "known", None}]
    /\ alert \in [Matches -> AlertType]

(* Something the provider came to know is no older than the answer that    *)
(* does not have it.                                                       *)
NoOlder(since, age) == since = None \/ since <= age

(* A miss that is kept has a reason that is kept: an id is missing only if *)
(* the fixture was passed over, and an answer lacks only what was not there*)
(* when it was given.                                                      *)
MissesExplained ==
    /\ \A f \in Matches : ids[f] = None => f \in passedOver
    /\ \A f \in Matches : answers.list # None /\ f \notin answers.list.set =>
         NoOlder(source.listed[f], answers.list.age)
    /\ \A f \in Matches : answers.xi[f] # None /\ ~answers.xi[f].out =>
         NoOlder(source.posted[f], answers.xi[f].age)

LineupInv == ServiceTyped /\ MissesExplained

-----------------------------------------------------------------------------
(* The model value None is none of the answers.                            *)
LEMMA NoneIsNoAnswer ==
  /\ None \notin Lists /\ None \notin XIs /\ None \notin Ages
  /\ None # "unknown" /\ None # "known"
  BY LineupAssumption DEF Lists, XIs, Ages

(* Ageing keeps the types, and what is no older stays so.                  *)
LEMMA AgeingKeepsOrder ==
  ASSUME NEW since \in Ages \cup {None}, NEW a \in Lists \cup XIs, NoOlder(since, a.age),
         AgedAnswer(a) # None
  PROVE  NoOlder(Aged(since), AgedAnswer(a).age)
<1>1. a # None /\ a.age \in 0 .. Ttl - 1
  BY NoneIsNoAnswer DEF Lists, XIs
<1>2. AgedAnswer(a) = [a EXCEPT !.age = @ + 1]
  BY <1>1 DEF AgedAnswer
<1>3. AgedAnswer(a).age = a.age + 1
  BY <1>2 DEF Lists, XIs
<1>4. CASE since = None
  BY <1>3, <1>4 DEF Aged, NoOlder
<1>5. CASE since # None
  <2>1. since \in 0 .. Ttl /\ since <= a.age
    BY <1>5 DEF NoOlder, Ages
  <2>2. Aged(since) = since + 1
    BY <1>1, <1>5, <2>1, LineupAssumption DEF Aged
  <2> QED BY <1>1, <1>3, <2>1, <2>2 DEF NoOlder
<1> QED BY <1>4, <1>5

(* An aged answer is an answer of the same content, or gone.               *)
LEMMA AgeingTyped ==
  /\ \A since \in Ages \cup {None} : Aged(since) \in Ages \cup {None}
  /\ \A a \in Lists \cup {None} : /\ AgedAnswer(a) \in Lists \cup {None}
                                  /\ AgedAnswer(a) # None => a # None /\ AgedAnswer(a).set = a.set
  /\ \A a \in XIs \cup {None} : /\ AgedAnswer(a) \in XIs \cup {None}
                                /\ AgedAnswer(a) # None => a # None /\ AgedAnswer(a).out = a.out
<1>1. ASSUME NEW since \in Ages \cup {None} PROVE Aged(since) \in Ages \cup {None}
  BY LineupAssumption DEF Aged, Ages
<1>2. ASSUME NEW a \in Lists \cup {None}
      PROVE  /\ AgedAnswer(a) \in Lists \cup {None}
             /\ AgedAnswer(a) # None => a # None /\ AgedAnswer(a).set = a.set
  BY LineupAssumption, NoneIsNoAnswer DEF AgedAnswer, Lists
<1>3. ASSUME NEW a \in XIs \cup {None}
      PROVE  /\ AgedAnswer(a) \in XIs \cup {None}
             /\ AgedAnswer(a) # None => a # None /\ AgedAnswer(a).out = a.out
  BY LineupAssumption, NoneIsNoAnswer DEF AgedAnswer, XIs
<1> QED BY <1>1, <1>2, <1>3

-----------------------------------------------------------------------------
(* Setting fields of an alert to values of their types keeps alerts typed. *)
LEMMA AlertUpdate ==
  ASSUME ServiceTyped, NEW f \in Matches, NEW r \in AlertType, alert' = [alert EXCEPT ![f] = r]
  PROVE  alert' \in [Matches -> AlertType]
  BY DEF ServiceTyped

(* Resolving against a list of fixtures: whatever list it is, an id that   *)
(* turns out missing is that of a fixture now passed over.                 *)
LEMMA ResolveExplained ==
  ASSUME LineupInv, NEW f \in Matches, NEW list \in SUBSET Matches, NEW failed \in BOOLEAN,
         Resolve(f, list, failed)
  PROVE  /\ ids' \in [Matches -> {"unknown", "known", None}] /\ alert' \in [Matches -> AlertType]
         /\ \A g \in Matches : ids'[g] = None => g \in passedOver'
         /\ Kept(list) \in ((SUBSET Matches) \ {{}}) \cup {None}
         /\ \A g \in Matches : alert[g].pc # "sent" /\ alert'[g].pc = "sent" =>
              g = f /\ f \notin list /\ alert'[g].failed = failed
         /\ f \notin list /\ list # {} => f \in passedOver'
<1> DEFINE p == IF f \in list THEN "ask" ELSE "sent"
           r == [alert[f] EXCEPT !.pc = p, !.failed = failed]
<1>1. r \in AlertType
  <2>1. alert[f] \in AlertType /\ p \in {"ask", "sent"}
    BY DEF LineupInv, ServiceTyped
  <2> HIDE DEF p
  <2> QED BY <2>1 DEF AlertType
<1>2. alert' = [alert EXCEPT ![f] = r]
  BY DEF Resolve
<1>3. alert' \in [Matches -> AlertType]
  BY <1>1, <1>2, AlertUpdate DEF LineupInv
<1>4. ids' \in [Matches -> {"unknown", "known", None}]
  BY DEF Resolve, LineupInv, ServiceTyped
<1>5. ASSUME NEW g \in Matches, ids'[g] = None PROVE g \in passedOver'
  BY <1>5, NoneIsNoAnswer DEF Resolve, LineupInv, ServiceTyped, MissesExplained
<1>6. Kept(list) \in ((SUBSET Matches) \ {{}}) \cup {None}
  BY DEF Kept, LineupInv, ServiceTyped
<1>7. ASSUME NEW g \in Matches, alert[g].pc # "sent", alert'[g].pc = "sent"
      PROVE  g = f /\ f \notin list /\ alert'[g].failed = failed
  <2>1. g = f
    BY <1>2, <1>7 DEF LineupInv, ServiceTyped
  <2>2. alert'[g] = r
    BY <1>2, <2>1 DEF LineupInv, ServiceTyped
  <2>3. r.pc = p /\ r.failed = failed
    BY DEF LineupInv, ServiceTyped, AlertType
  <2> QED BY <1>7, <2>1, <2>2, <2>3
<1>8. f \notin list /\ list # {} => f \in passedOver'
  BY DEF Resolve
<1> QED BY <1>3, <1>4, <1>5, <1>6, <1>7, <1>8

(* The list a resolution works on: the day's, or one the client repeats.   *)
LEMMA CachedList ==
  ASSUME LineupInv, dayList # None \/ answers.list # None
  PROVE  (IF dayList # None THEN dayList ELSE answers.list.set) \in SUBSET Matches
  BY NoneIsNoAnswer DEF LineupInv, ServiceTyped, Lists

(* MissesExplained holds of every state, whatever fails.                   *)
LEMMA LineupInvHolds == LineupSpec => []LineupInv
<1>1. LineupInit => LineupInv
  <2> SUFFICES ASSUME LineupInit PROVE LineupInv
    OBVIOUS
  <2>1. ServiceTyped
    BY DEF LineupInit, ServiceTyped, NoAnswers, NoAlert, AlertType
  <2>2. MissesExplained
    BY NoneIsNoAnswer DEF LineupInit, MissesExplained, NoAnswers
  <2> QED BY <2>1, <2>2 DEF LineupInv
<1>2. LineupInv /\ [LineupNext]_lineupVars => LineupInv'
  <2> SUFFICES ASSUME LineupInv, [LineupNext]_lineupVars PROVE LineupInv'
    OBVIOUS
  <2> USE DEF LineupInv
  <2>1. ASSUME NEW f \in Matches, Listed(f) PROVE LineupInv'
    <3>1. /\ source' \in [listed : [Matches -> Ages \cup {None}], posted : [Matches -> Ages \cup {None}]]
          /\ source'.posted = source.posted
          /\ \A g \in Matches : source'.listed[g] = source.listed[g] \/ source'.listed[g] = 0
      BY <2>1, LineupAssumption DEF Listed, ServiceTyped, Ages
    <3>2. UNCHANGED service
      BY <2>1 DEF Listed
    <3>3. \A a \in Lists : 0 <= a.age
      BY DEF Lists
    <3> QED BY <3>1, <3>2, <3>3 DEF service, ServiceTyped, MissesExplained, NoOlder
  <2>2. ASSUME NEW f \in Matches, Posted(f) PROVE LineupInv'
    <3>1. /\ source' \in [listed : [Matches -> Ages \cup {None}], posted : [Matches -> Ages \cup {None}]]
          /\ source'.listed = source.listed
          /\ \A g \in Matches : source'.posted[g] = source.posted[g] \/ source'.posted[g] = 0
      BY <2>2, LineupAssumption DEF Posted, ServiceTyped, Ages
    <3>2. UNCHANGED service
      BY <2>2 DEF Posted
    <3>3. \A a \in XIs : 0 <= a.age
      BY DEF XIs
    <3> QED BY <3>1, <3>2, <3>3 DEF service, ServiceTyped, MissesExplained, NoOlder
  <2>3. ASSUME MinutesPass PROVE LineupInv'
    <3>1. /\ source'.listed = [f \in Matches |-> Aged(source.listed[f])]
          /\ source'.posted = [f \in Matches |-> Aged(source.posted[f])]
          /\ DOMAIN source' = {"listed", "posted"}
          /\ source' = [listed |-> source'.listed, posted |-> source'.posted]
      BY <2>3 DEF MinutesPass, ServiceTyped
    <3>2. source' \in [listed : [Matches -> Ages \cup {None}], posted : [Matches -> Ages \cup {None}]]
      BY <3>1, AgeingTyped DEF ServiceTyped
    <3>3. /\ answers'.list = AgedAnswer(answers.list)
          /\ answers'.xi = [f \in Matches |-> AgedAnswer(answers.xi[f])]
      BY <2>3 DEF MinutesPass
    <3>4. answers' \in [list : Lists \cup {None}, xi : [Matches -> XIs \cup {None}]]
      BY <2>3, AgeingTyped DEF MinutesPass, ServiceTyped
    <3>5. ServiceTyped'
      BY <2>3, <3>2, <3>4 DEF MinutesPass, ServiceTyped
    <3>6. ASSUME NEW f \in Matches, answers'.list # None, f \notin answers'.list.set
          PROVE  NoOlder(source'.listed[f], answers'.list.age)
      <4>1. answers.list \in Lists /\ f \notin answers.list.set
        BY <3>3, <3>6, AgeingTyped DEF ServiceTyped
      <4>2. NoOlder(source.listed[f], answers.list.age) /\ source.listed[f] \in Ages \cup {None}
        BY <4>1, NoneIsNoAnswer DEF MissesExplained, ServiceTyped
      <4> QED BY <3>1, <3>3, <3>6, <4>1, <4>2, AgeingKeepsOrder
    <3>7. ASSUME NEW f \in Matches, answers'.xi[f] # None, ~answers'.xi[f].out
          PROVE  NoOlder(source'.posted[f], answers'.xi[f].age)
      <4>1. answers.xi[f] \in XIs /\ ~answers.xi[f].out
        BY <3>3, <3>7, AgeingTyped DEF ServiceTyped
      <4>2. NoOlder(source.posted[f], answers.xi[f].age) /\ source.posted[f] \in Ages \cup {None}
        BY <4>1, NoneIsNoAnswer DEF MissesExplained, ServiceTyped
      <4> QED BY <3>1, <3>3, <3>7, <4>1, <4>2, AgeingKeepsOrder
    <3> QED BY <2>3, <3>5, <3>6, <3>7 DEF MinutesPass, MissesExplained
  <2>4. ASSUME NEW f \in Matches, StartAlert(f) PROVE LineupInv'
    <3>1. [NoAlert EXCEPT !.pc = "resolve"] \in AlertType
      BY DEF NoAlert, AlertType
    <3> QED BY <2>4, <3>1, AlertUpdate DEF StartAlert, ServiceTyped, MissesExplained
  <2>5. ASSUME NEW f \in Matches, NEW p \in {"sent", "ask", "list", "lineup"},
               alert' = [alert EXCEPT ![f].pc = p],
               UNCHANGED <<source, answers, dayList, ids, passedOver>>
        PROVE  LineupInv'
    <3>1. [alert[f] EXCEPT !.pc = p] \in AlertType
      BY DEF ServiceTyped, AlertType
    <3> QED BY <2>5, <3>1, AlertUpdate DEF ServiceTyped, MissesExplained
  <2>6. ASSUME NEW f \in Matches, ResolvedBefore(f) \/ AskForList(f) \/ AskForLineup(f) PROVE LineupInv'
    BY <2>5, <2>6 DEF ResolvedBefore, AskForList, AskForLineup
  <2>7. ASSUME NEW f \in Matches, ResolveFromCache(f) PROVE LineupInv'
    <3> DEFINE list == IF dayList # None THEN dayList ELSE answers.list.set
    <3>1. list \in SUBSET Matches
      BY <2>7, CachedList DEF ResolveFromCache
    <3>2. Resolve(f, list, FALSE) /\ dayList' = Kept(list) /\ UNCHANGED <<source, answers>>
      BY <2>7 DEF ResolveFromCache
    <3> HIDE DEF list
    <3> QED BY <3>1, <3>2, ResolveExplained DEF ServiceTyped, MissesExplained
  <2>8. ASSUME NEW f \in Matches, ListAnswered(f) PROVE LineupInv'
    <3> DEFINE list == {m \in Matches : source.listed[m] # None}
    <3>1. Resolve(f, list, FALSE) /\ dayList' = Kept(list) /\ source' = source
          /\ answers' = [answers EXCEPT !.list = [set |-> list, age |-> 0]]
      BY <2>8 DEF ListAnswered
    <3>2. [set |-> list, age |-> 0] \in Lists /\ list \in SUBSET Matches
      BY LineupAssumption DEF Lists
    <3>3. answers' \in [list : Lists \cup {None}, xi : [Matches -> XIs \cup {None}]]
          /\ answers'.xi = answers.xi /\ answers'.list = [set |-> list, age |-> 0]
      BY <3>1, <3>2 DEF ServiceTyped
    <3>4. \A g \in Matches : g \notin list => source.listed[g] = None
      OBVIOUS
    <3> HIDE DEF list
    <3> QED BY <3>1, <3>2, <3>3, <3>4, ResolveExplained DEF ServiceTyped, MissesExplained, NoOlder
  <2>9. ASSUME NEW f \in Matches, ListFailed(f) PROVE LineupInv'
    <3>1. Resolve(f, {}, TRUE) /\ dayList' = Kept({}) /\ UNCHANGED <<source, answers>>
      BY <2>9 DEF ListFailed
    <3> QED BY <3>1, ResolveExplained DEF ServiceTyped, MissesExplained
  <2>10. ASSUME NEW f \in Matches, NEW out \in BOOLEAN, NEW failed \in BOOLEAN, Sent(f, out, failed)
         PROVE  alert' \in [Matches -> AlertType]
    <3>1. PICK adj \in BOOLEAN :
            alert' = [alert EXCEPT ![f] =
                        [pc |-> "sent", failed |-> failed, lineup |-> out, adjusted |-> adj]]
      BY <2>10, Zenon DEF Sent
    <3> DEFINE r == [pc |-> "sent", failed |-> failed, lineup |-> out, adjusted |-> adj]
    <3>2. r \in AlertType
      BY Zenon DEF AlertType
    <3> QED BY <3>1, <3>2, AlertUpdate
  <2>11. ASSUME NEW f \in Matches, LineupRepeated(f) PROVE LineupInv'
    <3>1. answers.xi[f].out \in BOOLEAN
      BY <2>11 DEF LineupRepeated, ServiceTyped, XIs
    <3> QED BY <2>10, <2>11, <3>1 DEF LineupRepeated, ServiceTyped, MissesExplained
  <2>12. ASSUME NEW f \in Matches, LineupAnswered(f) PROVE LineupInv'
    <3> DEFINE out == source.posted[f] # None
               x == [out |-> out, age |-> 0]
    <3>1. Sent(f, out, FALSE) /\ answers' = [answers EXCEPT !.xi[f] = x]
          /\ UNCHANGED <<source, dayList, ids, passedOver>>
      BY <2>12 DEF LineupAnswered
    <3>2. x \in XIs /\ x.age = 0 /\ (~x.out <=> source.posted[f] = None)
      <4>1. 0 \in 0 .. Ttl - 1
        BY LineupAssumption
      <4> QED BY <4>1, Zenon DEF XIs
    <3>3. alert' \in [Matches -> AlertType]
      BY <2>10, <3>1, Zenon
    <3> HIDE DEF x, out
    <3>4. answers' \in [list : Lists \cup {None}, xi : [Matches -> XIs \cup {None}]]
          /\ answers'.list = answers.list /\ answers'.xi = [answers.xi EXCEPT ![f] = x]
      BY <3>1, <3>2 DEF ServiceTyped
    <3> QED BY <3>1, <3>2, <3>3, <3>4 DEF ServiceTyped, MissesExplained, NoOlder
  <2>13. ASSUME NEW f \in Matches, LineupFailed(f) PROVE LineupInv'
    BY <2>10, <2>13 DEF LineupFailed, ServiceTyped, MissesExplained
  <2>14. ASSUME ServiceRestarts PROVE LineupInv'
    <3>1. NoAlert \in AlertType
      BY DEF NoAlert, AlertType
    <3> QED BY <2>14, <3>1, NoneIsNoAnswer DEF ServiceRestarts, NoAnswers, ServiceTyped, MissesExplained
  <2>15. ASSUME MinutesNext PROVE LineupInv'
    BY <2>15 DEF MinutesNext, Backfill, FetchByHand, service, ServiceTyped, MissesExplained
  <2>16. ASSUME UNCHANGED lineupVars PROVE LineupInv'
    BY <2>16 DEF lineupVars, ServiceTyped, MissesExplained
  <2> QED BY <2>1, <2>2, <2>3, <2>4, <2>6, <2>7, <2>8, <2>9, <2>11, <2>12, <2>13, <2>14, <2>15, <2>16
          DEF LineupNext
<1> QED BY <1>1, <1>2, PTL DEF LineupSpec

-----------------------------------------------------------------------------
(* An alert leaves without its line-up only for one of the causes that     *)
(* MissHasCause lists, with any number of fixtures, failed requests and    *)
(* restarts and any time to live: no answer that is kept (a day's list, a  *)
(* fixture id, a line-up) outlives its truth by more than Ttl.             *)
THEOREM LineupMissTheorem == LineupSpec => LineupMissHasCause
<1>1. LineupInv /\ [LineupNext]_lineupVars => [MissHasCause]_lineupVars
  <2> SUFFICES ASSUME LineupInv, LineupNext,
                      NEW g \in Matches, alert[g].pc # "sent", alert'[g].pc = "sent", ~alert'[g].lineup
               PROVE  \/ alert'[g].failed \/ g \in passedOver'
                      \/ Young(source.listed[g]) \/ Young(source.posted[g])
    BY Zenon DEF MissHasCause
  <2>0. alert \in [Matches -> AlertType] /\ alert' # alert
    BY DEF LineupInv, ServiceTyped
  <2>1. ASSUME NEW f \in Matches, NEW list \in SUBSET Matches, NEW failed \in BOOLEAN,
               Resolve(f, list, failed),
               failed \/ list # {} \/ (\A m \in Matches : m \notin list => Young(source.listed[m]))
        PROVE  \/ alert'[g].failed \/ g \in passedOver'
               \/ Young(source.listed[g]) \/ Young(source.posted[g])
    BY <2>1, ResolveExplained
  <2>2. ASSUME NEW f \in Matches, ResolvedBefore(f) PROVE g \in passedOver'
    <3>1. f = g /\ ids[f] = None
      BY <2>0, <2>2 DEF ResolvedBefore
    <3> QED BY <2>2, <3>1 DEF ResolvedBefore, LineupInv, MissesExplained
  <2>3. ASSUME NEW f \in Matches, ResolveFromCache(f)
        PROVE  \/ alert'[g].failed \/ g \in passedOver'
               \/ Young(source.listed[g]) \/ Young(source.posted[g])
    <3> DEFINE list == IF dayList # None THEN dayList ELSE answers.list.set
    <3>1. list \in SUBSET Matches /\ Resolve(f, list, FALSE)
      BY <2>3, CachedList DEF ResolveFromCache
    <3>2. CASE dayList # None
      <4>1. list # {}
        BY <3>2 DEF LineupInv, ServiceTyped
      <4> HIDE DEF list
      <4> QED BY <2>1, <3>1, <4>1
    <3>3. CASE dayList = None
      <4>1. answers.list \in Lists /\ list = answers.list.set
        BY <2>3, <3>3 DEF ResolveFromCache, LineupInv, ServiceTyped
      <4>2. ASSUME NEW m \in Matches, m \notin list PROVE Young(source.listed[m])
        <5>1. NoOlder(source.listed[m], answers.list.age) /\ source.listed[m] \in Ages \cup {None}
          BY <4>1, <4>2, NoneIsNoAnswer DEF LineupInv, ServiceTyped, MissesExplained
        <5>2. answers.list.age < Ttl /\ answers.list.age \in Nat
          BY <4>1, LineupAssumption DEF Lists
        <5> QED BY <5>1, <5>2, LineupAssumption DEF NoOlder, Young, Ages
      <4> HIDE DEF list
      <4> QED BY <2>1, <3>1, <4>2
    <3> QED BY <3>2, <3>3
  <2>4. ASSUME NEW f \in Matches, ListAnswered(f)
        PROVE  \/ alert'[g].failed \/ g \in passedOver'
               \/ Young(source.listed[g]) \/ Young(source.posted[g])
    <3> DEFINE list == {m \in Matches : source.listed[m] # None}
    <3>1. list \in SUBSET Matches /\ Resolve(f, list, FALSE)
      BY <2>4 DEF ListAnswered
    <3>2. \A m \in Matches : m \notin list => Young(source.listed[m])
      BY DEF Young
    <3> HIDE DEF list
    <3> QED BY <2>1, <3>1, <3>2
  <2>5. ASSUME NEW f \in Matches, ListFailed(f)
        PROVE  \/ alert'[g].failed \/ g \in passedOver'
               \/ Young(source.listed[g]) \/ Young(source.posted[g])
    BY <2>1, <2>5 DEF ListFailed
  <2>6. ASSUME NEW f \in Matches, NEW out \in BOOLEAN, NEW failed \in BOOLEAN, Sent(f, out, failed)
        PROVE  g = f /\ ~out /\ alert'[g].failed = failed
    <3>1. PICK adj \in BOOLEAN :
            alert' = [alert EXCEPT ![f] =
                        [pc |-> "sent", failed |-> failed, lineup |-> out, adjusted |-> adj]]
      BY <2>6, Zenon DEF Sent
    <3>2. g = f
      BY <2>0, <3>1
    <3>3. alert'[g] = [pc |-> "sent", failed |-> failed, lineup |-> out, adjusted |-> adj]
      BY <2>0, <3>1, <3>2
    <3>4. alert'[g].lineup = out /\ alert'[g].failed = failed
      BY <3>3
    <3> QED BY <3>2, <3>4
  <2>7. ASSUME NEW f \in Matches, LineupRepeated(f) PROVE Young(source.posted[g])
    <3>1. answers.xi[f] \in XIs
      BY <2>7 DEF LineupRepeated, LineupInv, ServiceTyped
    <3>2. answers.xi[f].out \in BOOLEAN /\ answers.xi[f].age < Ttl /\ answers.xi[f].age \in Nat
      BY <3>1, LineupAssumption DEF XIs
    <3>3. g = f /\ ~answers.xi[f].out
      BY <2>6, <2>7, <3>2 DEF LineupRepeated
    <3>4. NoOlder(source.posted[f], answers.xi[f].age) /\ source.posted[f] \in Ages \cup {None}
      BY <3>1, <3>3, NoneIsNoAnswer DEF LineupInv, ServiceTyped, MissesExplained
    <3> QED BY <3>2, <3>3, <3>4, LineupAssumption DEF NoOlder, Young, Ages
  <2>8. ASSUME NEW f \in Matches, LineupAnswered(f) PROVE Young(source.posted[g])
    <3>1. Sent(f, source.posted[f] # None, FALSE)
      BY <2>8, Zenon DEF LineupAnswered
    <3>2. g = f /\ ~(source.posted[f] # None)
      BY <2>6, <3>1, Zenon
    <3> QED BY <3>2 DEF Young
  <2>9. ASSUME NEW f \in Matches, LineupFailed(f) PROVE alert'[g].failed
    BY <2>6, <2>9 DEF LineupFailed
  <2>10. ASSUME NEW f \in Matches, NEW p \in {"resolve", "list", "lineup"}, NEW r,
                r.pc = p, alert' = [alert EXCEPT ![f] = r]
         PROVE  FALSE
    BY <2>0, <2>10
  <2>11. ASSUME NEW f \in Matches, StartAlert(f) \/ AskForList(f) \/ AskForLineup(f) PROVE FALSE
    <3>1. CASE StartAlert(f)
      <4>1. [NoAlert EXCEPT !.pc = "resolve"].pc = "resolve"
        BY DEF NoAlert
      <4> QED BY <2>10, <3>1, <4>1 DEF StartAlert
    <3>2. CASE AskForList(f)
      <4>1. [alert[f] EXCEPT !.pc = "list"].pc = "list"
        BY <2>0 DEF AlertType
      <4> QED BY <2>10, <3>2, <4>1 DEF AskForList
    <3>3. CASE AskForLineup(f)
      <4>1. [alert[f] EXCEPT !.pc = "lineup"].pc = "lineup"
        BY <2>0 DEF AlertType
      <4> QED BY <2>10, <3>3, <4>1 DEF AskForLineup
    <3> QED BY <2>11, <3>1, <3>2, <3>3
  <2>12. ASSUME ServiceRestarts PROVE FALSE
    BY <2>12 DEF ServiceRestarts, NoAlert
  <2>13. ASSUME \/ MinutesPass \/ MinutesNext
                \/ \E f \in Matches : Listed(f) \/ Posted(f)
         PROVE  FALSE
    BY <2>0, <2>13 DEF MinutesPass, MinutesNext, Backfill, FetchByHand, Listed, Posted, service
  <2> QED BY <2>2, <2>3, <2>4, <2>5, <2>7, <2>8, <2>9, <2>11, <2>12, <2>13, Zenon DEF LineupNext
<1> QED BY <1>1, LineupInvHolds, PTL DEF LineupSpec, LineupMissHasCause

-----------------------------------------------------------------------------
(* What the argument above does not need of the types.                     *)
RestTyped ==
    /\ passedOver \subseteq Matches
    /\ minutes \in [1 .. Len(Leagues) -> Files] /\ errors \in 0 .. MaxErrors

(* The answers and what the service keeps of them are of their types: it   *)
(* keeps no empty list for the day, and no answer lives to its time to     *)
(* live.                                                                   *)
THEOREM LineupIsTyped == LineupSpec => []LineupTypeOK
<1>1. LineupInit => RestTyped
  BY LineupAssumption DEF LineupInit, RestTyped, Files
<1>2. RestTyped /\ [LineupNext]_lineupVars => RestTyped'
  <2> SUFFICES ASSUME RestTyped, [LineupNext]_lineupVars PROVE RestTyped'
    OBVIOUS
  <2>1. ASSUME NEW f \in Matches, NEW list, NEW failed, Resolve(f, list, failed)
        PROVE  passedOver' \subseteq Matches
    BY <2>1 DEF Resolve, RestTyped
  <2>2. ASSUME errors < MaxErrors, errors' = errors + 1 PROVE errors' \in 0 .. MaxErrors
    BY <2>2, LineupAssumption DEF RestTyped
  <2>3. ASSUME MinutesNext PROVE RestTyped'
    <3>1. \A file \in Fetched : file \in Files
      BY DEF Fetched
    <3>2. ASSUME NEW file \in Fetched, Backfill(file) PROVE RestTyped'
      BY <3>1, <3>2 DEF Backfill, service, RestTyped
    <3>3. ASSUME NEW file \in Fetched, NEW i \in DOMAIN minutes, FetchByHand(i, file) PROVE RestTyped'
      BY <2>2, <3>1, <3>3 DEF FetchByHand, service, RestTyped
    <3> QED BY <2>3, <3>2, <3>3 DEF MinutesNext
  <2>4. CASE UNCHANGED lineupVars \/ MinutesPass \/ ServiceRestarts
    BY <2>4, <2>2 DEF lineupVars, MinutesPass, ServiceRestarts, RestTyped
  <2>5. ASSUME NEW f \in Matches, Listed(f) \/ Posted(f) \/ StartAlert(f) \/ ResolvedBefore(f)
               \/ AskForList(f) \/ AskForLineup(f) \/ LineupRepeated(f) \/ LineupAnswered(f)
        PROVE  RestTyped'
    BY <2>5 DEF Listed, Posted, StartAlert, ResolvedBefore, AskForList, AskForLineup, LineupRepeated,
                LineupAnswered, service, RestTyped
  <2>6. ASSUME NEW f \in Matches, ResolveFromCache(f) PROVE RestTyped'
    BY <2>1, <2>6 DEF ResolveFromCache, RestTyped
  <2>7. ASSUME NEW f \in Matches, ListAnswered(f) PROVE RestTyped'
    BY <2>1, <2>7 DEF ListAnswered, RestTyped
  <2>8. ASSUME NEW f \in Matches, ListFailed(f) \/ LineupFailed(f) PROVE RestTyped'
    BY <2>1, <2>2, <2>8 DEF ListFailed, LineupFailed, RestTyped
  <2> QED BY <2>3, <2>4, <2>5, <2>6, <2>7, <2>8 DEF LineupNext
<1>3. LineupInv /\ RestTyped => LineupTypeOK
  BY DEF LineupInv, ServiceTyped, RestTyped, LineupTypeOK, AlertType
<1> QED BY <1>1, <1>2, <1>3, LineupInvHolds, PTL DEF LineupSpec

-----------------------------------------------------------------------------
(***************************************************************************)
(* ClubEloFeed: any thresholds, slots of time and number of failures.      *)
(***************************************************************************)

Tally == [runs : Nat, sends : Nat, saves : Nat, restarts : Nat]
Stamp6h == [kind : Kinds, key : Dates, slot : Slots]

FeedTyped ==
    /\ now \in Slots /\ web \in [date : FeedDays, ok : BOOLEAN] /\ site \in Dates
    /\ flag \in BOOLEAN /\ tick \in [Loops -> TickStages]
    /\ mem \in Alerter /\ disk \in Alerter /\ marker \in Episode
    /\ run \in [Runners -> Message \cup {Never}]
    /\ sentLately \in SUBSET Stamp6h
    /\ outage \in [pages : SUBSET Slots, ticks : Nat, ended : Nat] /\ recovered \in Nat
    /\ engaged \in [Dates -> Nat] /\ degraded \in SUBSET Dates
    /\ spent \in Tally

LEMMA SlotsAndDays ==
  /\ \A n \in Slots : n \in Nat /\ Day(n) \in FeedDays /\ Day(n) \in Nat
  /\ \A n \in Nat : Day(n) <= Day(n + 1)
  /\ 0 \in Slots /\ 0 \in FeedDays /\ FeedDays \subseteq Nat
  BY FeedAssumption DEF Slots, FeedDays, Day, DayParts

(* What a fault costs.                                                     *)
LEMMA CostIsTyped ==
  ASSUME spent \in Tally, NEW sends \in {0, 1}, NEW saves \in {0, 1}, Cost(sends, saves)
  PROVE  /\ spent' \in Tally
         /\ spent'.sends = spent.sends + sends /\ spent'.saves = spent.saves + saves
         /\ spent'.restarts = spent.restarts /\ spent'.runs = spent.runs
<1> DEFINE mid == [spent EXCEPT !.sends = @ + sends]
<1>1. mid = [runs |-> spent.runs, sends |-> spent.sends + sends, saves |-> spent.saves, restarts |-> spent.restarts]
  BY DEF Tally
<1>2. spent' = [mid EXCEPT !.saves = spent.saves + saves]
  BY DEF Cost
<1> HIDE DEF mid
<1>3. spent' = [runs |-> spent.runs, sends |-> spent.sends + sends, saves |-> spent.saves + saves,
                restarts |-> spent.restarts]
  BY <1>1, <1>2
<1>4. spent.sends + sends \in Nat /\ spent.saves + saves \in Nat /\ spent.runs \in Nat /\ spent.restarts \in Nat
  BY DEF Tally
<1> QED BY <1>3, <1>4 DEF Tally

(* What the start of a scoring run costs.                                  *)
LEMMA StartIsTyped ==
  ASSUME spent \in Tally, NEW r \in Runners, NEW lost \in {0, 1},
         spent' = [spent EXCEPT !.runs = @ + Counted(r), !.saves = @ + lost]
  PROVE  /\ spent' \in Tally /\ spent'.runs = spent.runs + Counted(r)
         /\ spent'.saves = spent.saves + lost
         /\ spent'.sends = spent.sends /\ spent'.restarts = spent.restarts
<1>0. Counted(r) \in {0, 1}
  BY DEF Counted
<1> DEFINE mid == [spent EXCEPT !.runs = @ + Counted(r)]
<1>1. mid = [runs |-> spent.runs + Counted(r), sends |-> spent.sends, saves |-> spent.saves, restarts |-> spent.restarts]
  BY DEF Tally
<1>2. spent' = [mid EXCEPT !.saves = spent.saves + lost]
  OBVIOUS
<1> HIDE DEF mid
<1>3. spent' = [runs |-> spent.runs + Counted(r), sends |-> spent.sends, saves |-> spent.saves + lost,
                restarts |-> spent.restarts]
  BY <1>1, <1>2
<1>4. spent.sends \in Nat /\ spent.saves + lost \in Nat /\ spent.runs + Counted(r) \in Nat /\ spent.restarts \in Nat
  BY <1>0 DEF Tally
<1> QED BY <1>3, <1>4 DEF Tally

LEMMA FeedTypedInit == FeedInit => FeedTyped
  BY SlotsAndDays DEF FeedInit, FeedTyped, Dates, Alerter, Episode, Tally, Loops, TickStages

(* A tick moves on by itself.                                              *)
LEMMA MovesIsTyped ==
  ASSUME tick \in [Loops -> TickStages], NEW l \in Loops, NEW stage \in TickStages, Moves(l, stage)
  PROVE  /\ tick' \in [Loops -> TickStages] /\ tick'[l] = stage
         /\ \A other \in Loops : other # l => tick'[other] = tick[other]
  BY DEF Moves

LEMMA AfterTickIsStage == \A l : AfterTick(l) \in {"score", "done"}
  BY DEF AfterTick

(* What a run that settles leaves behind.                                  *)
LEMMA SettlesIsTyped ==
  ASSUME FeedTyped, NEW r \in Runners, NEW cur \in Episode, NEW saved \in BOOLEAN, Settles(r, cur, saved)
  PROVE  /\ tick' \in [Loops -> TickStages] /\ marker' \in Episode /\ degraded' \in SUBSET Dates
         /\ run' \in [Runners -> Message \cup {Never}]
         /\ run'[r] = Never /\ \A other \in Runners : other # r => run'[other] = run[other]
         /\ \A l \in Loops : tick'[l] = IF l = r THEN "done" ELSE tick[l]
<1>1. cur.from \in Dates
  BY DEF Episode
<1> QED BY <1>1 DEF Settles, FeedTyped, TickStages, Loops, Runners

LEMMA FeedTypedStep == FeedTyped /\ [FeedNext]_feedVars => FeedTyped'
<1> SUFFICES ASSUME FeedTyped, [FeedNext]_feedVars PROVE FeedTyped'
  OBVIOUS
<1>0. /\ spent \in Tally /\ now \in Nat /\ Day(now) \in FeedDays
      /\ mem \in Alerter /\ now \in Slots /\ tick \in [Loops -> TickStages]
      /\ "cron" \in Loops /\ "boot" \in Loops
      /\ {"due", "scrape", "look", "old", "fresh", "stale", "recovered", "score", "done"} \subseteq TickStages
  BY SlotsAndDays DEF FeedTyped, Loops, TickStages
<1>1. CASE PageChanges
  <2>1. web' \in [date : FeedDays, ok : BOOLEAN]
    <3>1. web.date .. Day(now) \subseteq FeedDays
      <4>1. web.date \in FeedDays
        BY DEF FeedTyped
      <4> QED BY <1>0, <4>1, FeedAssumption DEF FeedDays
    <3>2. web' \in [date : web.date .. Day(now), ok : BOOLEAN]
      BY <1>1 DEF PageChanges
    <3> QED BY <3>1, <3>2
  <2> QED BY <1>1, <2>1 DEF PageChanges, FeedTyped, alarm, fallback
<1>2. CASE NextSlot
  <2>1. tick' \in [Loops -> TickStages] /\ sentLately' \in SUBSET Stamp6h
    BY <1>0, <1>2 DEF NextSlot, FeedTyped
  <2> QED BY <1>2, <2>1 DEF NextSlot, FeedTyped, feeds, alarm
<1>3. CASE RetryChecks
  <2>1. tick' \in [Loops -> TickStages]
    <3>1. PICK stage \in TickStages : Moves("cron", stage)
      BY <1>0, <1>3 DEF RetryChecks
    <3> QED BY <1>0, <3>1, MovesIsTyped
  <2> QED BY <1>3, <2>1 DEF RetryChecks, FeedTyped, feeds, alarm, fallback
<1>4. ASSUME NEW l \in Loops, Scrape(l) PROVE FeedTyped'
  <2>1. tick' \in [Loops -> TickStages]
    BY <1>0, <1>4, MovesIsTyped DEF Scrape
  <2> QED BY <1>4, <2>1 DEF Scrape, FeedTyped, alarm, fallback, Dates
<1>5. ASSUME NEW l \in Loops, ReadStatus(l) PROVE FeedTyped'
  <2>1. tick' \in [Loops -> TickStages]
    <3>1. PICK stage \in TickStages : Moves(l, stage)
      BY <1>0, <1>5 DEF ReadStatus
    <3> QED BY <1>0, <3>1, MovesIsTyped
  <2> QED BY <1>5, <2>1 DEF ReadStatus, FeedTyped, feeds, alarm, fallback
<1>6. CASE FeedRestart
  <2>1. spent' \in Tally
    BY <1>0, <1>6 DEF FeedRestart, Tally
  <2>2. mem' \in Alerter /\ run' \in [Runners -> Message \cup {Never}] /\ tick' \in [Loops -> TickStages]
        /\ sentLately' \in SUBSET Stamp6h
    BY <1>0, <1>6 DEF FeedRestart, Loaded, FeedTyped, Runners
  <2> QED BY <1>6, <2>1, <2>2 DEF FeedRestart, FeedTyped
<1>7. ASSUME NEW l \in Loops, NEW paged \in BOOLEAN, NEW saved \in BOOLEAN, DecideStale(l, paged, saved)
      PROVE  FeedTyped'
  <2>1. spent' \in Tally
    BY <1>0, <1>7, CostIsTyped DEF DecideStale
  <2>2. mem' \in Alerter /\ disk' \in Alerter
    BY <1>0, <1>7 DEF DecideStale, Advanced, Alerter, FeedTyped
  <2>3. outage' \in [pages : SUBSET Slots, ticks : Nat, ended : Nat]
    BY <1>7 DEF DecideStale, FeedTyped
  <2>4. tick' \in [Loops -> TickStages]
    <3>1. PICK stage \in TickStages : Moves(l, stage)
      BY <1>0, <1>7, AfterTickIsStage DEF DecideStale
    <3> QED BY <1>0, <3>1, MovesIsTyped
  <2> QED BY <1>7, <2>1, <2>2, <2>3, <2>4 DEF DecideStale, FeedTyped, feeds, fallback
<1>8. ASSUME NEW l \in Loops, NEW saved \in BOOLEAN, DecideFresh(l, saved) PROVE FeedTyped'
  <2>1. spent' \in Tally
    BY <1>0, <1>8, CostIsTyped DEF DecideFresh
  <2>2. mem' \in Alerter /\ disk' \in Alerter
    BY <1>0, <1>8 DEF DecideFresh, Cleared, Alerter, FeedTyped
  <2>3. outage' \in [pages : SUBSET Slots, ticks : Nat, ended : Nat]
    BY <1>8 DEF DecideFresh, FeedTyped
  <2>4. tick' \in [Loops -> TickStages]
    <3>1. PICK stage \in TickStages : Moves(l, stage)
      BY <1>0, <1>8, AfterTickIsStage DEF DecideFresh
    <3> QED BY <1>0, <3>1, MovesIsTyped
  <2> QED BY <1>8, <2>1, <2>2, <2>3, <2>4 DEF DecideFresh, FeedTyped, feeds, fallback
<1>9. ASSUME NEW l \in Loops, NEW arrived \in BOOLEAN, PageSent(l, arrived) PROVE FeedTyped'
  <2>1. spent' \in Tally
    BY <1>0, <1>9, CostIsTyped DEF PageSent
  <2>2. outage' \in [pages : SUBSET Slots, ticks : Nat, ended : Nat] /\ recovered' \in Nat
    BY <1>9 DEF PageSent, FeedTyped
  <2>3. tick' \in [Loops -> TickStages]
    <3>1. PICK stage \in TickStages : Moves(l, stage)
      BY <1>0, <1>9, AfterTickIsStage DEF PageSent
    <3> QED BY <1>0, <3>1, MovesIsTyped
  <2> QED BY <1>9, <2>1, <2>2, <2>3 DEF PageSent, FeedTyped, feeds, fallback
<1>10. Current \in Episode
  BY DEF Current, Episode, FeedTyped, SiteFresh
<1>11. ASSUME NEW r \in Runners, StartRun(r) PROVE FeedTyped'
  <2>1. Alert(Current) \in Message
    <3>1. marker.from \in Dates /\ Current.from \in Dates
      BY <1>10 DEF FeedTyped, Episode
    <3> QED BY <1>10, <3>1 DEF Alert, Message, Kinds
  <2>2. run' \in [Runners -> Message \cup {Never}]
    BY <1>11, <2>1 DEF StartRun, FeedTyped
  <2>3. spent' \in Tally
    <3>1. Counted(r) \in {0, 1}
      BY DEF Counted
    <3> QED BY <1>0, <1>11, <3>1 DEF StartRun, Tally
  <2> QED BY <1>11, <2>2, <2>3 DEF StartRun, FeedTyped, feeds, alarm
<1>12. ASSUME NEW r \in Runners, NEW saved \in BOOLEAN, QuietRun(r, saved) PROVE FeedTyped'
  <2> DEFINE lost == IF saved THEN 0 ELSE 1
  <2>1. lost \in {0, 1} /\ spent' = [spent EXCEPT !.runs = @ + Counted(r), !.saves = @ + lost]
    BY <1>12 DEF QuietRun
  <2> HIDE DEF lost
  <2>2. spent' \in Tally
    BY <1>0, <2>1, StartIsTyped
  <2>3. Settles(r, Current, saved)
    BY <1>12 DEF QuietRun
  <2>4. /\ tick' \in [Loops -> TickStages] /\ marker' \in Episode /\ degraded' \in SUBSET Dates
        /\ run' \in [Runners -> Message \cup {Never}]
    BY <1>10, <2>3, SettlesIsTyped
  <2> QED BY <1>12, <2>2, <2>4 DEF QuietRun, FeedTyped, feeds, alarm
<1>13. ASSUME NEW r \in Runners, FallbackArrives(r) PROVE FeedTyped'
  <2>1. run[r] \in Message
    BY <1>13 DEF FallbackArrives, FeedTyped
  <2>2. [run[r] EXCEPT !.arrived = TRUE] \in Message
    BY <2>1 DEF Message
  <2>3. run' \in [Runners -> Message \cup {Never}]
    BY <1>13, <2>2 DEF FallbackArrives, FeedTyped
  <2>4. engaged' \in [Dates -> Nat]
    BY <1>13, <2>1 DEF FallbackArrives, FeedTyped, Message
  <2> QED BY <1>13, <2>3, <2>4 DEF FallbackArrives, FeedTyped, feeds, alarm
<1>14. ASSUME NEW r \in Runners, NEW saved \in BOOLEAN, FallbackSent(r, saved) PROVE FeedTyped'
  <2>1. spent' \in Tally
    BY <1>0, <1>14, CostIsTyped DEF FallbackSent
  <2>2. run[r] \in Message
    BY <1>14 DEF FallbackSent, FeedTyped
  <2>3. run[r].cur \in Episode /\ run[r].kind \in Kinds /\ run[r].key \in Dates
    BY <2>2 DEF Message
  <2>4. sentLately' \in SUBSET Stamp6h
    BY <1>0, <1>14, <2>3 DEF FallbackSent, FeedTyped, Stamp6h
  <2>5. Settles(r, run[r].cur, saved)
    BY <1>14 DEF FallbackSent
  <2>6. /\ tick' \in [Loops -> TickStages] /\ marker' \in Episode /\ degraded' \in SUBSET Dates
        /\ run' \in [Runners -> Message \cup {Never}]
    BY <2>3, <2>5, SettlesIsTyped
  <2> QED BY <1>14, <2>1, <2>4, <2>6 DEF FallbackSent, FeedTyped, feeds, alarm
<1>15. CASE UNCHANGED feedVars
  BY <1>15 DEF feedVars, FeedTyped
<1> QED BY <1>1, <1>2, <1>3, <1>4, <1>5, <1>6, <1>7, <1>8, <1>9, <1>11, <1>12, <1>13, <1>14, <1>15 DEF FeedNext

-----------------------------------------------------------------------------
(* The alerter.  Its memory is right as long as no restart has met a state *)
(* that was not saved.                                                     *)
Remembered == spent.saves = 0 \/ spent.restarts = 0

(* The memory is the saved one, it is active during an outage, and nothing *)
(* was paged after its last alert.                                         *)
MemoryKept ==
    /\ spent.saves = 0 => disk = mem
    /\ (mem.last # Never => mem.active) /\ (disk.last # Never => disk.active)
    /\ outage.ticks = 0 => outage.pages = {}
    /\ Remembered => (mem.active <=> outage.ticks > 0)
    /\ Remembered => \A s \in outage.pages : mem.last # Never /\ s <= mem.last
    /\ Remembered /\ mem.last # Never => mem.last <= now

(* A page of an outage that goes on is due, and of two ticks that overlap  *)
(* only one pages: the other finds the alert of this slot, or it is the    *)
(* one that ended the outage.                                              *)
Undecided(l) == tick[l] \in {"due", "scrape", "look", "old", "fresh"}
PageIsDue ==
    /\ Remembered =>
         /\ \A s, t \in outage.pages : s < t => t - s >= DayParts
         /\ \A l \in Loops : tick[l] = "stale" /\ outage.ticks > 0 =>
                mem.last = now /\ \A s \in outage.pages : now - s >= DayParts
    /\ \A l, m \in Loops : l # m /\ tick[l] = "stale" =>
         /\ tick[m] # "stale"
         /\ Undecided(m) => outage.ticks > 0 /\ mem.last = now

(* Until the first restart no two ticks overlap.                           *)
TicksAlone == spent.restarts = 0 => tick["boot"] = "done" \/ (now = 0 /\ tick["cron"] = "done")

(* Without losses the last alert arrived, and every tick of an outage sees *)
(* that the snapshot is old.                                               *)
Lossless == spent.sends + spent.restarts = 0
Since == IF \E l \in Loops : Undecided(l) THEN DayParts + 2 ELSE IF Night THEN DayParts + 1 ELSE DayParts
PagedInTime ==
    Lossless =>
        /\ \A l \in Loops : tick[l] = "old" => Stale
        /\ outage.ticks > 0 =>
             /\ (\A l \in Loops : tick[l] # "stale") => mem.last \in outage.pages /\ now - mem.last <= Since
             /\ Stale \/ \E l \in Loops : tick[l] \in {"look", "fresh"}
             /\ \A l \in Loops : tick[l] # "recovered"

(* A recovery note is owed for an outage that has just ended.              *)
Owes(l) == IF tick[l] = "recovered" THEN 1 ELSE 0
NotesCounted ==
    spent.saves = 0 =>
        /\ recovered + Owes("boot") + Owes("cron") <= outage.ended
        /\ Lossless => recovered + Owes("boot") + Owes("cron") = outage.ended

(* A scoring run of the daemon belongs to its tick.                        *)
RunIsTicks == \A l \in Loops : run[l] # Never => tick[l] = "score"

AlarmInv == MemoryKept /\ PageIsDue /\ TicksAlone /\ PagedInTime /\ NotesCounted /\ RunIsTicks

LEMMA AlarmInvInit == FeedInit => AlarmInv
<1> SUFFICES ASSUME FeedInit PROVE AlarmInv
  OBVIOUS
<1>1. tick["boot"] = "due" /\ tick["cron"] = "done" /\ \A l \in Loops : tick[l] \in {"due", "done"}
  BY DEF FeedInit, Loops
<1>2. \A l \in Loops : run[l] = Never
  BY DEF FeedInit, Loops, Runners
<1> QED BY <1>1, <1>2, SlotsAndDays DEF FeedInit, AlarmInv, MemoryKept, PageIsDue, TicksAlone, PagedInTime,
     NotesCounted, RunIsTicks, Owes, Loops

(* The numbers the argument counts with.                                   *)
LEMMA AlarmNumbers ==
  ASSUME FeedTyped
  PROVE  /\ spent.saves \in Nat /\ spent.restarts \in Nat /\ spent.sends \in Nat
         /\ now \in Nat /\ outage.ticks \in Nat /\ outage.ended \in Nat /\ outage.pages \subseteq Slots
         /\ recovered \in Nat /\ mem.active \in BOOLEAN /\ disk.active \in BOOLEAN
         /\ mem.last # Never => mem.last \in Nat
         /\ \A s \in Slots : s \in Nat
         /\ Never \notin Nat /\ AlertAfter \in Nat
         /\ Loops = {"boot", "cron"} /\ "boot" \in Loops /\ "cron" \in Loops
         /\ \A l \in Loops : tick[l] \in TickStages
  BY SlotsAndDays, FeedAssumption DEF FeedTyped, Tally, Alerter, Loops

(* Steps that leave the alerter alone and move no tick before its decision.*)
LEMMA CalmKeepsAlarm ==
  ASSUME FeedTyped, FeedTyped', AlarmInv, UNCHANGED <<alarm, site, now>>,
         spent'.saves >= spent.saves, spent'.sends >= spent.sends, spent'.restarts = spent.restarts,
         \A l \in Loops : tick'[l] = tick[l] \/ (tick[l] = "score" /\ tick'[l] = "done"),
         \A l \in Loops : run'[l] # Never => tick'[l] = "score"
  PROVE  AlarmInv'
<1>1. /\ spent.saves \in Nat /\ spent.restarts \in Nat /\ spent.sends \in Nat
      /\ spent'.saves \in Nat /\ spent'.sends \in Nat
      /\ Loops = {"boot", "cron"}
      /\ UNCHANGED <<mem, disk, outage, recovered>>
  BY AlarmNumbers DEF alarm, FeedTyped, Tally
<1>2. /\ Remembered' => Remembered
      /\ Lossless' => Lossless
      /\ spent'.saves = 0 => spent.saves = 0
  BY <1>1 DEF Remembered, Lossless
<1>3. MemoryKept'
  BY <1>1, <1>2 DEF AlarmInv, MemoryKept
<1>4. /\ \A l \in Loops : Undecided(l)' <=> Undecided(l)
      /\ \A l \in Loops : tick'[l] = "stale" <=> tick[l] = "stale"
      /\ \A l \in Loops : tick'[l] = "recovered" <=> tick[l] = "recovered"
      /\ \A l \in Loops : tick'[l] = "old" <=> tick[l] = "old"
      /\ \A l \in Loops : tick'[l] \in {"look", "fresh"} <=> tick[l] \in {"look", "fresh"}
      /\ \A l \in Loops : tick[l] = "done" => tick'[l] = "done"
  BY DEF Undecided
<1>5. PageIsDue'
  BY <1>1, <1>2, <1>4 DEF AlarmInv, PageIsDue
<1>6. TicksAlone'
  BY <1>1, <1>4 DEF AlarmInv, TicksAlone
<1>7. PagedInTime'
  <2>1. (Stale' <=> Stale) /\ Since' = Since
    BY <1>4 DEF Stale, Age, Day, Since, Night
  <2> QED BY <1>1, <1>2, <1>4, <2>1 DEF AlarmInv, PagedInTime
<1>8. NotesCounted'
  BY <1>1, <1>2, <1>4 DEF AlarmInv, NotesCounted, Owes
<1>9. RunIsTicks'
  BY DEF RunIsTicks
<1> QED BY <1>3, <1>5, <1>6, <1>7, <1>8, <1>9 DEF AlarmInv

LEMMA NextSlotKeepsAlarm == ASSUME FeedTyped, FeedTyped', AlarmInv, NextSlot PROVE AlarmInv'
<1>1. /\ tick["boot"] = "done" /\ tick["cron"] = "done" /\ tick'["boot"] = "done"
      /\ tick'["cron"] = (IF Night' THEN "done" ELSE "due")
      /\ now' = now + 1 /\ now \in Nat
      /\ \A l \in Loops : run'[l] = Never
      /\ UNCHANGED <<site, mem, disk, outage, recovered, spent>>
  BY AlarmNumbers DEF NextSlot, FeedTyped, feeds, alarm, Loops, Runners, Night
<1>0. Loops = {"boot", "cron"} /\ \A l \in Loops : tick'[l] \in {"done", "due"}
  BY <1>1 DEF Loops
<1>2. MemoryKept'
  BY <1>1, AlarmNumbers DEF AlarmInv, MemoryKept, Remembered
<1>3. PageIsDue' /\ RunIsTicks' /\ NotesCounted' /\ TicksAlone'
  BY <1>0, <1>1 DEF AlarmInv, PageIsDue, RunIsTicks, NotesCounted, TicksAlone, Owes, Remembered, Lossless
<1>4. PagedInTime'
  <2> SUFFICES ASSUME Lossless, outage.ticks > 0
               PROVE  mem.last \in outage.pages /\ now' - mem.last <= Since' /\ Stale'
    BY <1>0, <1>1 DEF PagedInTime, Lossless
  <2>1. mem.last \in outage.pages /\ now - mem.last <= Since /\ Stale
    BY <1>0, <1>1 DEF AlarmInv, PagedInTime
  <2>2. mem.last \in Nat
    BY <2>1, AlarmNumbers
  <2>3. Stale'
    <3>1. Day(now) \in Nat /\ Day(now + 1) \in Nat /\ Day(now) <= Day(now + 1)
      BY <1>1, SlotsAndDays DEF FeedTyped
    <3>2. site # Never => site \in Nat
      BY SlotsAndDays DEF FeedTyped, Dates
    <3>3. Day(now)' = Day(now + 1)
      BY <1>1 DEF Day
    <3> QED BY <1>1, <2>1, <3>1, <3>2, <3>3, AlarmNumbers DEF Stale, Age
  <2>4. Since = (IF Night THEN DayParts + 1 ELSE DayParts)
    BY <1>0, <1>1 DEF Since, Undecided
  <2>5. Since' = (IF Night' THEN DayParts + 1 ELSE DayParts + 2)
    <3>1. CASE Night'
      BY <1>0, <1>1, <3>1 DEF Since, Undecided
    <3>2. CASE ~Night'
      <4>1. Undecided("cron")'
        BY <1>1, <3>2 DEF Undecided
      <4> QED BY <1>0, <3>2, <4>1 DEF Since
    <3> QED BY <3>1, <3>2
  <2>6. ~(Night /\ Night')
    BY <1>1 DEF Night, DayParts
  <2> QED BY <1>1, <2>1, <2>2, <2>3, <2>4, <2>5, <2>6 DEF DayParts
<1> QED BY <1>2, <1>3, <1>4 DEF AlarmInv

(* One tick moves on towards its decision; once it has scraped, or was due *)
(* and looked first, it knows the age of the snapshot.                     *)
LEMMA ApproachKeepsAlarm ==
  ASSUME FeedTyped, FeedTyped', AlarmInv, UNCHANGED <<alarm, now, spent, run>>, NEW l \in Loops, NEW stage \in TickStages,
         Moves(l, stage), Undecided(l),
         \/ stage = "look"
         \/ stage = "old" /\ Stale /\ site' = site
         \/ stage = "fresh" /\ site' = site
         \/ stage = "scrape" /\ tick[l] = "due" /\ Stale /\ site' = site
         \/ stage = "done" /\ tick[l] = "due" /\ ~Stale /\ site' = site
  PROVE  AlarmInv'
<1>1. /\ Loops = {"boot", "cron"} /\ tick'[l] = stage /\ UNCHANGED <<mem, disk, outage, recovered>>
      /\ \A m \in Loops : m # l => tick'[m] = tick[m]
      /\ tick[l] \in {"due", "scrape", "look", "old", "fresh"}
      /\ stage \in {"look", "old", "fresh", "scrape", "done"}
  BY AlarmNumbers, MovesIsTyped DEF alarm, FeedTyped, Undecided
<1>2. /\ \A m \in Loops : Undecided(m)' => Undecided(m)
      /\ \A m \in Loops : tick'[m] = "stale" <=> tick[m] = "stale"
      /\ \A m \in Loops : tick'[m] = "recovered" <=> tick[m] = "recovered"
      /\ \A m \in Loops : tick[m] = "done" => tick'[m] = "done"
      /\ \A m \in Loops : run[m] # Never => m # l
  BY <1>1 DEF Undecided, AlarmInv, RunIsTicks
<1>3. MemoryKept' /\ PageIsDue'
  BY <1>1, <1>2 DEF AlarmInv, MemoryKept, PageIsDue, Remembered
<1>4. TicksAlone' /\ RunIsTicks' /\ NotesCounted'
  BY <1>1, <1>2 DEF AlarmInv, TicksAlone, RunIsTicks, NotesCounted, Owes, Lossless
<1>5. PagedInTime'
  <2> SUFFICES ASSUME Lossless PROVE PagedInTime'
    BY DEF PagedInTime, Lossless
  <2>1. spent.restarts = 0
    BY AlarmNumbers DEF Lossless
  <2>2. \A m \in Loops : m # l => tick[m] = "done"
    BY <1>1, <2>1 DEF AlarmInv, TicksAlone
  <2>3. site' = site => (Stale' <=> Stale)
    BY DEF Stale, Age, Day
  <2>4. \A m \in Loops : tick'[m] = "old" => Stale'
    BY <1>1, <2>2, <2>3
  <2>5. ASSUME outage.ticks > 0, \A m \in Loops : tick[m] # "stale" PROVE mem.last \in outage.pages /\ now - mem.last <= Since'
    <3>1. mem.last \in outage.pages /\ now - mem.last <= Since /\ Since = DayParts + 2
      <4>1. Since = DayParts + 2
        BY DEF Since
      <4> QED BY <2>5, <4>1 DEF AlarmInv, PagedInTime
    <3>2. stage # "done" => Since' = DayParts + 2
      <4>1. stage # "done" => Undecided(l)'
        BY <1>1 DEF Undecided
      <4> QED BY <4>1 DEF Since
    <3>3. stage # "done"
      BY <1>1, <2>2, <2>5 DEF AlarmInv, PagedInTime
    <3> QED BY <3>1, <3>2, <3>3
  <2>6. ASSUME outage.ticks > 0 PROVE Stale' \/ \E m \in Loops : tick'[m] \in {"look", "fresh"}
    BY <1>1, <2>2, <2>3, <2>6 DEF AlarmInv, PagedInTime
  <2>7. ASSUME outage.ticks > 0 PROVE \A m \in Loops : tick'[m] # "recovered"
    BY <1>1, <1>2, <2>7 DEF AlarmInv, PagedInTime
  <2> QED BY <1>1, <1>2, <2>4, <2>5, <2>6, <2>7 DEF PagedInTime
<1> QED BY <1>3, <1>4, <1>5 DEF AlarmInv

LEMMA RestartKeepsAlarm == ASSUME FeedTyped, FeedTyped', AlarmInv, FeedRestart PROVE AlarmInv'
<1>1. /\ mem' = disk /\ \A l \in Loops : run'[l] = Never /\ tick'[l] \in {"due", "done"}
      /\ UNCHANGED <<now, disk, outage, recovered>>
      /\ spent'.saves = spent.saves /\ spent'.sends = spent.sends /\ spent'.restarts = spent.restarts + 1
      /\ "boot" \in Loops /\ "cron" \in Loops
  BY AlarmNumbers DEF FeedRestart, Loaded, FeedTyped, Tally, Runners
<1>2. ~Lossless' /\ spent'.restarts > 0 /\ (Remembered' => spent.saves = 0 /\ Remembered /\ disk = mem)
  BY <1>1, AlarmNumbers DEF Lossless, Remembered, AlarmInv, MemoryKept
<1>3. MemoryKept'
  BY <1>1, <1>2 DEF AlarmInv, MemoryKept
<1>4. PageIsDue'
  BY <1>1, <1>2 DEF AlarmInv, PageIsDue
<1>5. NotesCounted'
  BY <1>1, <1>2, AlarmNumbers DEF AlarmInv, NotesCounted, Owes
<1>6. PagedInTime' /\ RunIsTicks' /\ TicksAlone'
  BY <1>1, <1>2 DEF PagedInTime, RunIsTicks, TicksAlone
<1> QED BY <1>3, <1>4, <1>5, <1>6 DEF AlarmInv

(* The reminder goes out a day after the last alert and not before.        *)
LEMMA DecideStaleKeepsAlarm ==
  ASSUME FeedTyped, FeedTyped', AlarmInv, NEW l \in Loops, NEW paged \in BOOLEAN, NEW saved \in BOOLEAN,
         DecideStale(l, paged, saved)
  PROVE  AlarmInv'
<1> DEFINE stage == IF paged THEN "stale" ELSE AfterTick(l)
<1>1. /\ tick[l] = "old" /\ Reminder(paged) /\ mem' = Advanced(paged)
      /\ disk' = (IF saved THEN mem' ELSE disk) /\ Moves(l, stage)
      /\ UNCHANGED <<now, site, recovered, run>>
  BY DEF DecideStale, feeds, fallback
<1>a. /\ AfterTick(l) \in {"score", "done"} /\ stage \in TickStages /\ (paged <=> stage = "stale")
      /\ stage \in {"stale", "score", "done"}
  BY AfterTickIsStage DEF TickStages
<1> HIDE DEF stage
<1>b. /\ tick'[l] = stage /\ \A m \in Loops : m # l => tick'[m] = tick[m]
      /\ Loops = {"boot", "cron"} /\ Undecided(l) /\ ~Undecided(l)'
      /\ \A m \in Loops : m # l => (Undecided(m)' <=> Undecided(m))
  BY <1>1, <1>a, MovesIsTyped, AlarmNumbers DEF FeedTyped, Undecided
<1>2. /\ outage'.ticks = outage.ticks + 1 /\ outage'.pages = outage.pages /\ outage'.ended = outage.ended
      /\ outage.ticks \in Nat /\ outage'.ticks > 0 /\ outage.pages \subseteq Slots
  BY AlarmNumbers DEF DecideStale, FeedTyped
<1>3. /\ spent'.saves >= spent.saves /\ (~saved => spent'.saves > 0) /\ spent'.sends = spent.sends
      /\ spent'.restarts = spent.restarts /\ spent'.saves \in Nat /\ spent.saves \in Nat
  <2> DEFINE lost == IF saved THEN 0 ELSE 1
  <2>1. lost \in {0, 1} /\ spent \in Tally /\ Cost(0, lost) /\ (~saved => lost = 1)
    BY DEF DecideStale, FeedTyped
  <2> HIDE DEF lost
  <2>2. spent'.sends = spent.sends + 0 /\ spent'.saves = spent.saves + lost /\ spent'.restarts = spent.restarts
    BY <2>1, CostIsTyped
  <2>3. spent.saves \in Nat /\ spent.sends \in Nat
    BY <2>1 DEF Tally
  <2> QED BY <2>1, <2>2, <2>3
<1>4. (Remembered' => Remembered) /\ (Lossless' <=> Lossless) /\ (Lossless => Remembered /\ spent.restarts = 0)
      /\ (spent'.saves = 0 => spent.saves = 0 /\ saved)
  BY <1>3, AlarmNumbers DEF Remembered, Lossless
<1>5. /\ mem'.active /\ mem'.last = (IF paged THEN now ELSE mem.last)
      /\ now \in Nat /\ now # Never
      /\ mem.last # Never => mem.last \in Nat
      /\ \A s \in Slots : s \in Nat
  BY <1>1, AlarmNumbers DEF Advanced
<1>6. paged /\ mem.last # Never => now - mem.last >= DayParts
  BY <1>1, <1>5 DEF Reminder, DayParts
<1>7. ~paged => mem.last # Never /\ now - mem.last <= DayParts
  BY <1>1, <1>5 DEF Reminder, DayParts
<1>8. Remembered => \A s \in outage.pages : mem.last # Never /\ s <= mem.last /\ mem.last <= now
  BY DEF AlarmInv, MemoryKept
<1>9. MemoryKept'
  <2>1. spent'.saves = 0 => disk' = mem'
    BY <1>1, <1>4
  <2>2. Remembered' => \A s \in outage'.pages : mem'.last # Never /\ s <= mem'.last
    <3> SUFFICES ASSUME Remembered, NEW s \in outage.pages PROVE mem'.last # Never /\ s <= mem'.last
      BY <1>2, <1>4
    <3>1. mem.last # Never /\ s <= mem.last /\ mem.last <= now /\ s \in Nat
      BY <1>2, <1>5, <1>8
    <3> QED BY <1>5, <3>1
  <2>3. Remembered' /\ mem'.last # Never => mem'.last <= now'
    BY <1>1, <1>4, <1>5 DEF AlarmInv, MemoryKept
  <2>4. (mem'.last # Never => mem'.active) /\ (disk'.last # Never => disk'.active)
    BY <1>1, <1>5 DEF AlarmInv, MemoryKept
  <2> QED BY <1>2, <1>5, <2>1, <2>2, <2>3, <2>4 DEF MemoryKept
<1>10. PageIsDue'
  <2>1. Remembered /\ paged => \A s \in outage.pages : now - s >= DayParts
    BY <1>2, <1>5, <1>6, <1>8 DEF DayParts
  <2>2. ASSUME NEW m \in Loops, m # l, tick[m] = "stale"
        PROVE  ~paged /\ outage.ticks > 0 /\ mem.last = now
    <3>1. outage.ticks > 0 /\ mem.last = now
      BY <1>b, <2>2 DEF AlarmInv, PageIsDue
    <3>2. now - now < DayParts
      BY <1>5 DEF DayParts
    <3> QED BY <1>5, <1>6, <3>1, <3>2 DEF DayParts
  <2>3. ASSUME Remembered', NEW m \in Loops, tick'[m] = "stale"
        PROVE  mem'.last = now' /\ \A s \in outage'.pages : now' - s >= DayParts
    <3>1. CASE m = l
      BY <1>1, <1>2, <1>4, <1>5, <1>a, <1>b, <2>1, <2>3, <3>1
    <3>2. CASE m # l
      <4>1. tick[m] = "stale" /\ ~paged /\ outage.ticks > 0 /\ mem.last = now
        BY <1>b, <2>2, <2>3, <3>2
      <4> QED BY <1>1, <1>2, <1>4, <1>5, <2>3, <4>1 DEF AlarmInv, PageIsDue
    <3> QED BY <3>1, <3>2
  <2>4. ASSUME NEW m \in Loops, NEW n \in Loops, m # n, tick'[m] = "stale"
        PROVE  tick'[n] # "stale" /\ (Undecided(n)' => outage'.ticks > 0 /\ mem'.last = now')
    <3>1. CASE m = l
      BY <1>1, <1>2, <1>5, <1>a, <1>b, <2>2, <2>4, <3>1
    <3>2. CASE m # l
      <4>1. n = l /\ ~paged
        BY <1>b, <2>2, <2>4, <3>2
      <4> QED BY <1>a, <1>b, <4>1
    <3> QED BY <3>1, <3>2
  <2>5. Remembered' => \A s, t \in outage'.pages : s < t => t - s >= DayParts
    BY <1>2, <1>4 DEF AlarmInv, PageIsDue
  <2> QED BY <2>3, <2>4, <2>5 DEF PageIsDue
<1>11. PagedInTime'
  <2> SUFFICES ASSUME Lossless PROVE PagedInTime'
    BY <1>4 DEF PagedInTime
  <2>1. \A m \in Loops : m # l => tick[m] = "done" /\ tick'[m] = "done"
    BY <1>1, <1>4, <1>b DEF AlarmInv, TicksAlone
  <2>2. Stale'
    <3>1. Stale
      BY <1>1 DEF AlarmInv, PagedInTime
    <3> QED BY <1>1, <3>1 DEF Stale, Age, Day
  <2>3. ASSUME stage # "stale"
        PROVE  mem'.last \in outage.pages /\ now - mem'.last <= DayParts
    <3>1. ~paged /\ mem.last # Never /\ now - mem.last <= DayParts /\ mem'.last = mem.last
      BY <1>a, <1>5, <1>7, <2>3
    <3>2. outage.ticks > 0
      BY <1>2, <1>4, <2>3, <3>1 DEF AlarmInv, MemoryKept
    <3>3. \A m \in Loops : tick[m] # "stale"
      BY <1>1, <2>1
    <3> QED BY <1>1, <3>1, <3>2, <3>3 DEF AlarmInv, PagedInTime
  <2>4. Since' \in {DayParts, DayParts + 1, DayParts + 2}
    BY DEF Since
  <2>5. stage # "stale" => mem'.last \in outage.pages /\ now - mem'.last <= Since'
    <3>1. mem'.last \in outage.pages => mem'.last \in Nat
      BY <1>2, <1>5
    <3> QED BY <1>5, <2>3, <2>4, <3>1 DEF DayParts
  <2> QED BY <1>1, <1>2, <1>a, <1>b, <2>1, <2>2, <2>5 DEF PagedInTime
<1>12. NotesCounted' /\ RunIsTicks' /\ TicksAlone'
  <2>1. \A m \in Loops : tick'[m] = "recovered" <=> tick[m] = "recovered"
    BY <1>1, <1>a, <1>b
  <2>2. NotesCounted'
    BY <1>1, <1>2, <1>4, <1>b, <2>1 DEF AlarmInv, NotesCounted, Owes
  <2>3. RunIsTicks'
    BY <1>1, <1>b DEF AlarmInv, RunIsTicks
  <2>4. TicksAlone'
    BY <1>1, <1>3, <1>b DEF AlarmInv, TicksAlone
  <2> QED BY <2>2, <2>3, <2>4
<1> QED BY <1>9, <1>10, <1>11, <1>12 DEF AlarmInv

(* The end of an outage forgets it, and owes one note.                     *)
LEMMA DecideFreshKeepsAlarm ==
  ASSUME FeedTyped, FeedTyped', AlarmInv, NEW l \in Loops, NEW saved \in BOOLEAN, DecideFresh(l, saved)
  PROVE  AlarmInv'
<1> DEFINE stage == IF mem.active THEN "recovered" ELSE AfterTick(l)
<1>1. /\ tick[l] = "fresh" /\ mem' = (IF mem.active THEN Cleared ELSE mem)
      /\ disk' = (IF saved THEN mem' ELSE disk) /\ Moves(l, stage)
      /\ outage' = (IF outage.ticks = 0 THEN outage
                    ELSE [pages |-> {}, ticks |-> 0, ended |-> outage.ended + 1])
      /\ UNCHANGED <<now, site, recovered, run>>
  BY DEF DecideFresh, feeds, fallback
<1>a. /\ AfterTick(l) \in {"score", "done"} /\ stage \in TickStages /\ (mem.active <=> stage = "recovered")
      /\ stage \in {"recovered", "score", "done"}
  BY AfterTickIsStage, AlarmNumbers DEF TickStages
<1> HIDE DEF stage
<1>b. /\ tick'[l] = stage /\ \A m \in Loops : m # l => tick'[m] = tick[m]
      /\ Loops = {"boot", "cron"} /\ Undecided(l) /\ ~Undecided(l)'
      /\ \A m \in Loops : m # l => (Undecided(m)' <=> Undecided(m))
  BY <1>1, <1>a, MovesIsTyped, AlarmNumbers DEF FeedTyped, Undecided
<1>2. /\ outage'.ticks = 0 /\ outage'.pages = {} /\ outage.ticks \in Nat /\ outage.ended \in Nat
      /\ outage'.ended = (IF outage.ticks = 0 THEN outage.ended ELSE outage.ended + 1)
  BY <1>1, AlarmNumbers DEF AlarmInv, MemoryKept
<1>3. /\ spent'.saves >= spent.saves /\ (~saved => spent'.saves > 0) /\ spent'.sends = spent.sends
      /\ spent'.restarts = spent.restarts /\ spent'.saves \in Nat /\ spent.saves \in Nat
  <2> DEFINE lost == IF saved THEN 0 ELSE 1
  <2>1. lost \in {0, 1} /\ spent \in Tally /\ Cost(0, lost) /\ (~saved => lost = 1)
    BY DEF DecideFresh, FeedTyped
  <2> HIDE DEF lost
  <2>2. spent'.sends = spent.sends + 0 /\ spent'.saves = spent.saves + lost /\ spent'.restarts = spent.restarts
    BY <2>1, CostIsTyped
  <2>3. spent.saves \in Nat /\ spent.sends \in Nat
    BY <2>1 DEF Tally
  <2> QED BY <2>1, <2>2, <2>3
<1>4. (Remembered' => Remembered) /\ (Lossless' <=> Lossless)
      /\ (spent'.saves = 0 => spent.saves = 0 /\ saved /\ Remembered)
  BY <1>3, AlarmNumbers DEF Remembered, Lossless
<1>5. ~mem'.active /\ mem'.last = Never
  BY <1>1, AlarmNumbers DEF AlarmInv, MemoryKept, Cleared
<1>6. MemoryKept'
  BY <1>1, <1>2, <1>4, <1>5 DEF AlarmInv, MemoryKept
<1>7. PageIsDue'
  <2>1. ASSUME NEW m \in Loops, NEW n \in Loops, m # n, tick'[m] = "stale"
        PROVE  tick'[n] # "stale" /\ ~Undecided(n)'
    BY <1>1, <1>a, <1>b, <2>1 DEF AlarmInv, PageIsDue
  <2> QED BY <1>2, <2>1 DEF PageIsDue
<1>8. PagedInTime'
  <2> SUFFICES ASSUME Lossless PROVE \A m \in Loops : tick'[m] # "old"
    BY <1>2, <1>4 DEF PagedInTime
  <2>1. spent.restarts = 0
    BY AlarmNumbers DEF Lossless
  <2> QED BY <1>1, <1>a, <1>b, <2>1 DEF AlarmInv, TicksAlone
<1>9. NotesCounted'
  <2>1. spent'.saves = 0 => (mem.active <=> outage.ticks > 0)
    BY <1>4 DEF AlarmInv, MemoryKept
  <2>2. Owes(l) = 0 /\ Owes(l)' = (IF mem.active THEN 1 ELSE 0)
    BY <1>1, <1>a, <1>b DEF Owes
  <2>3. \A m \in Loops : m # l => Owes(m)' = Owes(m)
    BY <1>b DEF Owes
  <2>4. Owes("boot")' + Owes("cron")' = Owes("boot") + Owes("cron") + (IF mem.active THEN 1 ELSE 0)
    <3>1. Owes("boot") \in {0, 1} /\ Owes("cron") \in {0, 1}
      BY DEF Owes
    <3> QED BY <1>b, <2>2, <2>3, <3>1
  <2>5. recovered \in Nat /\ Owes("boot") \in {0, 1} /\ Owes("cron") \in {0, 1}
        /\ Owes("boot")' \in {0, 1} /\ Owes("cron")' \in {0, 1}
    BY AlarmNumbers DEF Owes
  <2> QED BY <1>1, <1>2, <1>4, <2>1, <2>4, <2>5 DEF AlarmInv, NotesCounted
<1>10. RunIsTicks' /\ TicksAlone'
  BY <1>1, <1>3, <1>a, <1>b DEF AlarmInv, RunIsTicks, TicksAlone
<1> QED BY <1>6, <1>7, <1>8, <1>9, <1>10 DEF AlarmInv

LEMMA PageSentKeepsAlarm ==
  ASSUME FeedTyped, FeedTyped', AlarmInv, NEW l \in Loops, NEW arrived \in BOOLEAN, PageSent(l, arrived)
  PROVE  AlarmInv'
<1> DEFINE stage == AfterTick(l)
<1>1. /\ tick[l] \in {"stale", "recovered"} /\ Moves(l, stage)
      /\ recovered' = (IF arrived /\ tick[l] = "recovered" THEN recovered + 1 ELSE recovered)
      /\ UNCHANGED <<now, site, mem, disk, run>>
  BY DEF PageSent, feeds, fallback
<1>a. stage \in {"score", "done"} /\ stage \in TickStages
  BY AfterTickIsStage DEF TickStages
<1> HIDE DEF stage
<1>b. /\ tick'[l] = stage /\ \A m \in Loops : m # l => tick'[m] = tick[m]
      /\ Loops = {"boot", "cron"} /\ \A m \in Loops : Undecided(m)' <=> Undecided(m)
  BY <1>1, <1>a, MovesIsTyped, AlarmNumbers DEF FeedTyped, Undecided
<1>2. /\ outage'.ticks = outage.ticks /\ outage'.ended = outage.ended
      /\ outage'.pages = (IF arrived /\ tick[l] = "stale" /\ outage.ticks > 0
                          THEN outage.pages \cup {now} ELSE outage.pages)
      /\ outage.ticks \in Nat /\ outage.ended \in Nat /\ recovered \in Nat /\ outage.pages \subseteq Slots
  BY AlarmNumbers DEF PageSent, FeedTyped
<1>3. /\ spent'.saves = spent.saves /\ spent'.restarts = spent.restarts
      /\ spent'.sends = (IF arrived THEN spent.sends ELSE spent.sends + 1)
      /\ spent.saves \in Nat /\ spent.sends \in Nat /\ spent.restarts \in Nat
  <2> DEFINE lost == IF arrived THEN 0 ELSE 1
  <2>1. lost \in {0, 1} /\ spent \in Tally /\ Cost(lost, 0) /\ lost = IF arrived THEN 0 ELSE 1
    BY DEF PageSent, FeedTyped
  <2> HIDE DEF lost
  <2>2. spent'.sends = spent.sends + lost /\ spent'.saves = spent.saves + 0 /\ spent'.restarts = spent.restarts
    BY <2>1, CostIsTyped
  <2>3. spent.saves \in Nat /\ spent.sends \in Nat /\ spent.restarts \in Nat
    BY <2>1 DEF Tally
  <2> QED BY <2>1, <2>2, <2>3
<1>4. (Remembered' <=> Remembered) /\ (Lossless' => Lossless /\ arrived /\ Remembered /\ spent.restarts = 0)
  BY <1>3 DEF Remembered, Lossless
<1>5. now \in Nat /\ now # Never /\ \A s \in Slots : s \in Nat
  BY AlarmNumbers
<1>6. MemoryKept'
  BY <1>1, <1>2, <1>3, <1>4, <1>5 DEF AlarmInv, MemoryKept, PageIsDue
<1>c. \A m \in Loops : tick'[m] = "stale" => m # l /\ tick[m] = "stale"
  BY <1>a, <1>b
<1>7. PageIsDue'
  <2>1. ASSUME Remembered, NEW s \in outage'.pages, NEW t \in outage'.pages, s < t
               PROVE  t - s >= DayParts
    <3>1. CASE s \in outage.pages /\ t \in outage.pages
      BY <2>1, <3>1 DEF AlarmInv, PageIsDue
    <3>2. CASE tick[l] = "stale" /\ outage.ticks > 0 /\ (s = now \/ t = now)
      <4>1. \A r \in outage.pages : r \in Nat /\ now - r >= DayParts
        BY <1>2, <1>5, <2>1, <3>2 DEF AlarmInv, PageIsDue
      <4> QED BY <1>2, <1>5, <2>1, <3>2, <4>1 DEF DayParts
    <3> QED BY <1>2, <2>1, <3>1, <3>2
  <2>2. ASSUME NEW m \in Loops, tick'[m] = "stale"
        PROVE  tick[l] # "stale" /\ outage'.pages = outage.pages
    BY <1>c, <1>2, <2>2 DEF AlarmInv, PageIsDue
  <2>3. ASSUME Remembered, NEW m \in Loops, tick'[m] = "stale", outage'.ticks > 0
        PROVE  mem'.last = now' /\ \A s \in outage'.pages : now' - s >= DayParts
    BY <1>1, <1>2, <1>c, <2>2, <2>3 DEF AlarmInv, PageIsDue
  <2>4. ASSUME NEW m \in Loops, NEW n \in Loops, m # n, tick'[m] = "stale"
        PROVE  tick'[n] # "stale" /\ (Undecided(n)' => outage'.ticks > 0 /\ mem'.last = now')
    BY <1>1, <1>2, <1>a, <1>b, <1>c, <2>4 DEF AlarmInv, PageIsDue
  <2> QED BY <1>4, <2>1, <2>3, <2>4 DEF PageIsDue
<1>8. PagedInTime'
  <2> SUFFICES ASSUME Lossless' PROVE PagedInTime'
    BY DEF PagedInTime
  <2>1. (Stale' <=> Stale) /\ Since' = Since
    BY <1>1, <1>b DEF Stale, Age, Day, Since, Night
  <2>2. \A m \in Loops : m # l => tick[m] = "done" /\ tick'[m] = "done"
    BY <1>1, <1>4, <1>b DEF AlarmInv, TicksAlone
  <2>3. ASSUME outage.ticks > 0 PROVE tick[l] = "stale" /\ Stale /\ mem.last = now
    <3>1. tick[l] = "stale"
      BY <1>1, <1>4, <2>3 DEF AlarmInv, PagedInTime
    <3>2. Stale
      BY <1>1, <1>4, <2>2, <2>3, <3>1 DEF AlarmInv, PagedInTime
    <3> QED BY <1>4, <2>3, <3>1, <3>2 DEF AlarmInv, PageIsDue
  <2>4. now - now <= Since
    <3>1. Since \in {DayParts, DayParts + 1, DayParts + 2}
      BY DEF Since
    <3> QED BY <1>5, <3>1 DEF DayParts
  <2> QED BY <1>1, <1>2, <1>4, <1>5, <1>a, <1>b, <2>1, <2>2, <2>3, <2>4 DEF PagedInTime
<1>9. NotesCounted'
  <2>1. /\ Owes(l)' = 0 /\ Owes(l) = (IF tick[l] = "recovered" THEN 1 ELSE 0)
        /\ \A m \in Loops : m # l => Owes(m)' = Owes(m)
        /\ Owes("boot") \in {0, 1} /\ Owes("cron") \in {0, 1}
    BY <1>a, <1>b DEF Owes
  <2>2. Owes("boot")' + Owes("cron")' = Owes("boot") + Owes("cron") - Owes(l)
    BY <1>b, <2>1
  <2>3. Owes("boot")' \in {0, 1} /\ Owes("cron")' \in {0, 1}
    BY DEF Owes
  <2> QED BY <1>1, <1>2, <1>3, <1>4, <2>1, <2>2, <2>3 DEF AlarmInv, NotesCounted
<1>10. RunIsTicks' /\ TicksAlone'
  BY <1>1, <1>3, <1>a, <1>b DEF AlarmInv, RunIsTicks, TicksAlone
<1> QED BY <1>6, <1>7, <1>8, <1>9, <1>10 DEF AlarmInv

LEMMA AlarmInvStep == FeedTyped /\ AlarmInv /\ [FeedNext]_feedVars => AlarmInv'
<1> SUFFICES ASSUME FeedTyped, AlarmInv, [FeedNext]_feedVars PROVE AlarmInv'
  OBVIOUS
<1>0. /\ FeedTyped' /\ spent \in Tally /\ tick \in [Loops -> TickStages]
      /\ spent.saves \in Nat /\ spent.sends \in Nat /\ spent.restarts \in Nat
      /\ \A l \in Loops : run[l] # Never => tick[l] = "score"
      /\ "cron" \in Loops /\ Loops \subseteq Runners
      /\ {"look", "old", "fresh", "scrape", "done"} \subseteq TickStages
  BY FeedTypedStep DEF FeedTyped, Tally, AlarmInv, RunIsTicks, Loops, Runners, TickStages
<1>1. CASE NextSlot
  BY <1>0, <1>1, NextSlotKeepsAlarm
<1>2. CASE RetryChecks
  <2>1. /\ UNCHANGED <<alarm, now, spent, run, site>> /\ Undecided("cron") /\ tick["cron"] = "due"
    BY <1>2 DEF RetryChecks, feeds, fallback, Undecided
  <2>2. CASE Stale
    <3>1. Moves("cron", "scrape")
      BY <1>2, <2>2 DEF RetryChecks
    <3> QED BY <1>0, <2>1, <2>2, <3>1, ApproachKeepsAlarm
  <2>3. CASE ~Stale
    <3>1. Moves("cron", "done")
      BY <1>2, <2>3 DEF RetryChecks
    <3> QED BY <1>0, <2>1, <2>3, <3>1, ApproachKeepsAlarm
  <2> QED BY <2>2, <2>3
<1>3. ASSUME NEW l \in Loops, Scrape(l) PROVE AlarmInv'
  <2>1. UNCHANGED <<alarm, now, spent, run>> /\ Undecided(l) /\ Moves(l, "look")
    BY <1>3 DEF Scrape, fallback, Undecided
  <2> QED BY <1>0, <2>1, ApproachKeepsAlarm
<1>4. ASSUME NEW l \in Loops, ReadStatus(l) PROVE AlarmInv'
  <2>1. /\ UNCHANGED <<alarm, now, spent, run, site>> /\ Undecided(l)
    BY <1>4 DEF ReadStatus, feeds, fallback, Undecided
  <2>2. CASE Stale
    <3>1. Moves(l, "old")
      BY <1>4, <2>2 DEF ReadStatus
    <3> QED BY <1>0, <2>1, <2>2, <3>1, ApproachKeepsAlarm
  <2>3. CASE ~Stale
    <3>1. Moves(l, "fresh")
      BY <1>4, <2>3 DEF ReadStatus
    <3> QED BY <1>0, <2>1, <2>3, <3>1, ApproachKeepsAlarm
  <2> QED BY <2>2, <2>3
<1>5. CASE FeedRestart
  BY <1>0, <1>5, RestartKeepsAlarm
<1>6. ASSUME NEW l \in Loops, NEW paged \in BOOLEAN, NEW saved \in BOOLEAN, DecideStale(l, paged, saved) PROVE AlarmInv'
  BY <1>0, <1>6, DecideStaleKeepsAlarm
<1>7. ASSUME NEW l \in Loops, NEW saved \in BOOLEAN, DecideFresh(l, saved) PROVE AlarmInv'
  BY <1>0, <1>7, DecideFreshKeepsAlarm
<1>8. ASSUME NEW l \in Loops, NEW arrived \in BOOLEAN, PageSent(l, arrived) PROVE AlarmInv'
  BY <1>0, <1>8, PageSentKeepsAlarm
<1>9. CASE PageChanges \/ UNCHANGED feedVars
  <2>1. UNCHANGED <<alarm, site, now, spent, run, tick>>
    BY <1>9 DEF PageChanges, feedVars, feeds, alarm, fallback
  <2> QED BY <1>0, <2>1, CalmKeepsAlarm
<1>10. ASSUME NEW r \in Runners, StartRun(r) PROVE AlarmInv'
  <2>1. /\ UNCHANGED <<alarm, site, now, tick>> /\ spent' = [spent EXCEPT !.runs = @ + Counted(r)]
        /\ run' = [run EXCEPT ![r] = Alert(Current)] /\ (r \in Loops => tick[r] = "score")
    BY <1>10 DEF StartRun, feeds, Begins, Loops
  <2>2. \A l \in Loops : run'[l] # Never => tick'[l] = "score"
    BY <1>0, <2>1 DEF FeedTyped
  <2>3. spent'.saves = spent.saves /\ spent'.sends = spent.sends /\ spent'.restarts = spent.restarts
    BY <1>0, <2>1 DEF Tally
  <2> QED BY <1>0, <2>1, <2>2, <2>3, CalmKeepsAlarm
<1>11. Current \in Episode
  BY DEF Current, Episode, FeedTyped, SiteFresh
<1>12. ASSUME NEW r \in Runners, NEW saved \in BOOLEAN, QuietRun(r, saved) PROVE AlarmInv'
  <2> DEFINE lost == IF saved THEN 0 ELSE 1
  <2>1. lost \in {0, 1} /\ spent' = [spent EXCEPT !.runs = @ + Counted(r), !.saves = @ + lost]
        /\ UNCHANGED <<alarm, site, now>> /\ Settles(r, Current, saved) /\ (r \in Loops => tick[r] = "score")
    BY <1>12 DEF QuietRun, feeds, Begins, Loops
  <2> HIDE DEF lost
  <2>2. spent'.saves = spent.saves + lost /\ spent'.sends = spent.sends /\ spent'.restarts = spent.restarts
    BY <1>0, <2>1, StartIsTyped
  <2>3. /\ run'[r] = Never /\ \A other \in Runners : other # r => run'[other] = run[other]
        /\ \A l \in Loops : tick'[l] = IF l = r THEN "done" ELSE tick[l]
    BY <1>11, <2>1, SettlesIsTyped
  <2> QED BY <1>0, <2>1, <2>2, <2>3, CalmKeepsAlarm
<1>13. ASSUME NEW r \in Runners, FallbackArrives(r) PROVE AlarmInv'
  <2>1. /\ UNCHANGED <<alarm, site, now, tick, spent>> /\ run[r] # Never
        /\ \A other \in Runners : other # r => run'[other] = run[other]
    BY <1>13 DEF FallbackArrives, feeds, FeedTyped
  <2>2. \A l \in Loops : run'[l] # Never => tick'[l] = "score"
    BY <1>0, <2>1
  <2> QED BY <1>0, <2>1, <2>2, CalmKeepsAlarm
<1>14. ASSUME NEW r \in Runners, NEW saved \in BOOLEAN, FallbackSent(r, saved) PROVE AlarmInv'
  <2>1. run[r] \in Message /\ UNCHANGED <<alarm, site, now>> /\ Settles(r, run[r].cur, saved)
    BY <1>14 DEF FallbackSent, feeds, FeedTyped
  <2>2. run[r].cur \in Episode /\ (r \in Loops => tick[r] = "score")
    BY <1>0, <1>14, <2>1 DEF Message, FallbackSent
  <2>3. /\ run'[r] = Never /\ \A other \in Runners : other # r => run'[other] = run[other]
        /\ \A l \in Loops : tick'[l] = IF l = r THEN "done" ELSE tick[l]
    BY <2>1, <2>2, SettlesIsTyped
  <2>4. spent'.saves >= spent.saves /\ spent'.sends >= spent.sends /\ spent'.restarts = spent.restarts
    <3> DEFINE lost == IF run[r].arrived THEN 0 ELSE 1
               unsaved == IF saved THEN 0 ELSE 1
    <3>1. lost \in {0, 1} /\ unsaved \in {0, 1} /\ Cost(lost, unsaved)
      BY <1>14 DEF FallbackSent
    <3> HIDE DEF lost, unsaved
    <3>2. /\ spent'.sends = spent.sends + lost /\ spent'.saves = spent.saves + unsaved
          /\ spent'.restarts = spent.restarts
      BY <1>0, <3>1, CostIsTyped
    <3> QED BY <1>0, <3>1, <3>2
  <2> QED BY <1>0, <2>1, <2>2, <2>3, <2>4, CalmKeepsAlarm
<1> QED BY <1>1, <1>2, <1>3, <1>4, <1>5, <1>6, <1>7, <1>8, <1>9, <1>10, <1>12, <1>13, <1>14 DEF FeedNext

(* What the invariant says of pages and recovery notes.                    *)
LEMMA AlarmInvSuffices ==
  ASSUME FeedTyped, AlarmInv PROVE PagesAreSpaced /\ OutageIsPaged /\ RecoveryPerOutage
<1>1. PagesAreSpaced
  BY DEF PagesAreSpaced, AlarmInv, PageIsDue, Remembered
<1>2. OutageIsPaged
  <2> SUFFICES ASSUME spent.sends + spent.restarts = 0, outage.ticks > 0, now > 0 => ~Night,
                      \A l \in Loops : tick[l] \in {"score", "done"}
               PROVE  outage.pages # {} /\ now - Max(outage.pages) <= DayParts
    BY DEF OutageIsPaged
  <2>1. Remembered
    BY AlarmNumbers DEF Remembered
  <2>2. mem.last \in outage.pages /\ now - mem.last <= Since
    BY DEF AlarmInv, PagedInTime, Lossless
  <2>3. \A s \in outage.pages : s \in Nat /\ s <= mem.last
    BY <2>1, AlarmNumbers DEF AlarmInv, MemoryKept
  <2>4. Max(outage.pages) = mem.last
    <3>1. \A x \in outage.pages : (\A y \in outage.pages : x >= y) => x = mem.last
      BY <2>2, <2>3
    <3>2. \E x \in outage.pages : \A y \in outage.pages : x >= y
      BY <2>2, <2>3
    <3> QED BY <3>1, <3>2 DEF Max
  <2>5. \A l \in Loops : ~Undecided(l)
    BY DEF Undecided
  <2>6. now - mem.last <= DayParts
    <3>1. CASE now > 0
      BY <2>2, <2>5, <3>1 DEF Since
    <3>2. CASE now = 0
      BY <2>2, <2>3, <3>2 DEF DayParts
    <3> QED BY <3>1, <3>2, AlarmNumbers
  <2> QED BY <2>2, <2>4, <2>6
<1>3. RecoveryPerOutage
  <2>1. Owes("boot") \in {0, 1} /\ Owes("cron") \in {0, 1}
        /\ ((\A l \in Loops : tick[l] # "recovered") => Owes("boot") = 0 /\ Owes("cron") = 0)
    BY AlarmNumbers DEF Owes
  <2> QED BY <2>1, AlarmNumbers DEF RecoveryPerOutage, AlarmInv, NotesCounted, Lossless
<1> QED BY <1>1, <1>2, <1>3

-----------------------------------------------------------------------------
(* The fallback messages                                                   *)

(* Once the fallback is engaged for a snapshot, that one stays too old and *)
(* does not come back when it is replaced.                                 *)
TooOld(k) ==
    /\ k = Never \/ Day(now) - k > StaleAfter
    /\ site = Never => k = Never
    /\ k # Never => k <= site

(* A message is about the episode its run found.                           *)
Engaging(r, k) == run[r] # Never /\ run[r].cur.engaged /\ run[r].cur.from = k
MessageFits ==
    \A r \in Runners : run[r] # Never =>
        /\ run[r].cur.engaged <=> run[r].kind = "engage"
        /\ run[r].cur.engaged =>
             /\ run[r].key = run[r].cur.from /\ TooOld(run[r].cur.from)
             /\ r \in Loops => flag
             /\ run[r].arrived => engaged[run[r].cur.from] > 0

(* The operator was told of every episode that is marked, priced in or     *)
(* swallowed by the cooldown.                                              *)
AllAnnounced ==
    /\ spent.sends = 0 => /\ marker.engaged => engaged[marker.from] > 0
                          /\ \A k \in degraded : engaged[k] > 0
    /\ \A t \in sentLately : t.kind = "engage" => engaged[t.key] > 0

CliCounted == run["cli"] # Never => spent.runs > 0

AgedOut ==
    /\ site # Never => site <= web.date
    /\ \A k \in Dates : engaged[k] > 0 => TooOld(k)

(* How often an episode k may have been told.  The main tick, the          *)
(* scheduled one until it is done, has a reason to announce k only if k is *)
(* not quiet.  The first tick after a restart that overlaps it, and a run  *)
(* from the command line, are paid for by the restart and the run until    *)
(* they have announced k or are over, for they may also write another      *)
(* marker.                                                                 *)
Main == IF tick["cron"] = "done" THEN "boot" ELSE "cron"
Untold(r, k) == Engaging(r, k) /\ ~run[r].arrived
Told(r, k) == Engaging(r, k) /\ run[r].arrived
Known(k) == marker.engaged /\ marker.from = k
Quiet(k) == flag /\ (Engaging(Main, k) \/ (run[Main] = Never /\ Known(k)) \/ site # k)
BootOwes(k) == flag /\ tick["cron"] # "done" /\ tick["boot"] # "done" /\ ~Told("boot", k)
CliOwes(k) == run["cli"] # Never /\ ~Told("cli", k)

One(condition) == IF condition THEN 1 ELSE 0
Paid == spent.runs + spent.saves + spent.restarts
Budget ==
    \A k \in Dates :
        engaged[k] + One(Untold(Main, k)) + One(BootOwes(k)) + One(CliOwes(k)) <= Paid + One(Quiet(k))

FallbackInv == MessageFits /\ AllAnnounced /\ CliCounted /\ AgedOut /\ Budget

LEMMA FallbackNumbers ==
  ASSUME FeedTyped
  PROVE  /\ spent.runs \in Nat /\ spent.saves \in Nat /\ spent.restarts \in Nat /\ spent.sends \in Nat
         /\ \A k \in Dates : engaged[k] \in Nat
         /\ AlertAfter \in Nat /\ StaleAfter \in Nat /\ Never \notin Nat
         /\ now \in Nat /\ Day(now) \in Nat /\ (site # Never => site \in Nat) /\ web.date \in Nat
         /\ \A k \in Dates : k # Never => k \in Nat
         /\ Loops = {"boot", "cron"} /\ Runners = {"boot", "cron", "cli"} /\ site \in Dates
         /\ marker.from \in Dates /\ marker.engaged \in BOOLEAN /\ flag \in BOOLEAN
         /\ \A r \in Runners : run[r] # Never => run[r] \in Message
         /\ DOMAIN run = Runners /\ Paid \in Nat
<1>1. /\ spent.runs \in Nat /\ spent.saves \in Nat /\ spent.restarts \in Nat /\ spent.sends \in Nat
  BY DEF FeedTyped, Tally
<1>2. /\ Loops = {"boot", "cron"} /\ Runners = {"boot", "cron", "cli"}
  BY DEF Loops, Runners
<1>3. Paid \in Nat
  BY <1>1 DEF Paid
<1> QED BY <1>1, <1>2, <1>3, SlotsAndDays, FeedAssumption DEF FeedTyped, Dates, Episode

LEMMA OneIsBit == \A c \in BOOLEAN : One(c) \in {0, 1} /\ (One(c) = 1 <=> c)
  BY DEF One

LEMMA FallbackInvInit == FeedInit => FallbackInv
<1> SUFFICES ASSUME FeedInit PROVE FallbackInv
  OBVIOUS
<1>1. /\ \A r \in Runners : run[r] = Never
      /\ \A k \in Dates : engaged[k] = 0
      /\ "boot" \in Runners /\ "cli" \in Runners /\ tick["cron"] = "done"
  BY DEF FeedInit, Runners, Loops
<1>2. /\ Main = "boot"
      /\ \A k : One(Untold("boot", k)) = 0 /\ One(BootOwes(k)) = 0 /\ One(CliOwes(k)) = 0 /\ One(Quiet(k)) \in {0, 1}
  BY <1>1 DEF Main, One, Untold, Engaging, BootOwes, CliOwes
<1>3. Budget
  BY <1>1, <1>2 DEF FeedInit, Budget, Paid
<1>4. MessageFits /\ AllAnnounced /\ CliCounted /\ AgedOut
  BY <1>1 DEF FeedInit, MessageFits, AllAnnounced, CliCounted, AgedOut
<1> QED BY <1>3, <1>4 DEF FallbackInv

(* An episode nobody was told of is within the budget without being quiet. *)
LEMMA NotYetTold ==
  ASSUME FeedTyped, AlarmInv, CliCounted, NEW k \in Dates, engaged[k] = 0
  PROVE  engaged[k] + One(BootOwes(k)) + One(CliOwes(k)) <= Paid
<1>1. One(BootOwes(k)) <= spent.restarts
  <2>1. BootOwes(k) => spent.restarts # 0
    BY DEF BootOwes, AlarmInv, TicksAlone
  <2> QED BY <2>1, FallbackNumbers DEF One
<1>2. One(CliOwes(k)) <= spent.runs
  <2>1. CliOwes(k) => spent.runs > 0
    BY DEF CliOwes, CliCounted
  <2> QED BY <2>1, FallbackNumbers DEF One
<1>3. One(BootOwes(k)) \in {0, 1} /\ One(CliOwes(k)) \in {0, 1}
  BY DEF One
<1> QED BY <1>1, <1>2, <1>3, FallbackNumbers DEF Paid

(* Steps of the alerter and of the page.                                   *)
LEMMA CalmKeepsFallback ==
  ASSUME FeedTyped, FeedTyped', AlarmInv, FallbackInv,
         UNCHANGED <<now, site, flag, run, marker, sentLately, engaged, degraded>>, web'.date >= web.date,
         spent'.runs = spent.runs, spent'.saves >= spent.saves, spent'.sends >= spent.sends,
         spent'.restarts = spent.restarts, tick'["boot"] = "done" <=> tick["boot"] = "done",
         \/ tick'["cron"] = "done" <=> tick["cron"] = "done"
         \/ tick["cron"] # "done" /\ tick'["cron"] = "done" /\ run["cron"] = Never
  PROVE  FallbackInv'
<1>1. /\ spent.runs \in Nat /\ spent.saves \in Nat /\ spent.restarts \in Nat /\ spent.sends \in Nat
      /\ spent'.saves \in Nat /\ spent'.sends \in Nat /\ Paid \in Nat /\ Paid' \in Nat /\ Paid' >= Paid
      /\ \A k \in Dates : engaged[k] \in Nat
      /\ web.date \in Nat /\ web'.date \in Nat /\ (site # Never => site \in Nat)
      /\ Loops = {"boot", "cron"} /\ Runners = {"boot", "cron", "cli"}
  <2>1. spent'.saves \in Nat /\ spent'.sends \in Nat
    BY DEF FeedTyped, Tally
  <2>2. web'.date \in Nat
    BY SlotsAndDays DEF FeedTyped
  <2>3. Paid' = spent'.runs + spent'.saves + spent'.restarts
    BY DEF Paid
  <2> QED BY <2>1, <2>2, <2>3, FallbackNumbers DEF Paid
<1>2. \A k : TooOld(k)' <=> TooOld(k)
  BY DEF TooOld, Day
<1>3. MessageFits'
  BY <1>2 DEF FallbackInv, MessageFits
<1>4. AllAnnounced' /\ CliCounted'
  BY <1>1 DEF FallbackInv, AllAnnounced, CliCounted
<1>5. AgedOut'
  BY <1>1, <1>2 DEF FallbackInv, AgedOut
<1>6. Budget'
  <2> SUFFICES ASSUME NEW k \in Dates
               PROVE  engaged[k] + One(Untold(Main, k)') + One(BootOwes(k)') + One(CliOwes(k)')
                        <= Paid' + One(Quiet(k)')
    BY DEF Budget, One
  <2>1. engaged[k] + One(Untold(Main, k)) + One(BootOwes(k)) + One(CliOwes(k)) <= Paid + One(Quiet(k))
    BY DEF FallbackInv, Budget
  <2>2. CliOwes(k)' <=> CliOwes(k)
    BY DEF CliOwes, Told, Engaging
  <2>3. CASE tick'["cron"] = "done" <=> tick["cron"] = "done"
    <3>1. (Untold(Main, k)' <=> Untold(Main, k)) /\ (BootOwes(k)' <=> BootOwes(k)) /\ (Quiet(k)' <=> Quiet(k))
      BY <2>3 DEF Untold, Main, BootOwes, Told, Quiet, Engaging, Known
    <3> QED BY <1>1, <2>1, <2>2, <3>1 DEF One
  <2>4. CASE tick["cron"] # "done" /\ tick'["cron"] = "done" /\ run["cron"] = Never
    <3>1. /\ ~BootOwes(k)' /\ ~Untold(Main, k)
          /\ Untold(Main, k)' => BootOwes(k)
          /\ Quiet(k) /\ ~Quiet(k)' => BootOwes(k) /\ ~Untold(Main, k)'
      <4>1. Main = "cron" /\ Main' = "boot"
        BY <2>4 DEF Main
      <4>2. run["boot"] # Never => tick["boot"] = "score" /\ (run["boot"].cur.engaged => flag)
        BY <1>1 DEF AlarmInv, RunIsTicks, FallbackInv, MessageFits
      <4> QED BY <2>4, <4>1, <4>2 DEF Untold, BootOwes, Told, Quiet, Engaging, Known
    <3> QED BY <1>1, <2>1, <2>2, <3>1 DEF One
  <2> QED BY <2>3, <2>4
<1> QED BY <1>3, <1>4, <1>5, <1>6 DEF FallbackInv

(* The passing of time, when nothing is awaited.                           *)
LEMMA NextSlotKeepsFallback ==
  ASSUME FeedTyped, FeedTyped', FallbackInv, NextSlot PROVE FallbackInv'
<1>1. /\ now' = now + 1 /\ UNCHANGED <<web, site, flag, run, marker, engaged, degraded, spent>>
      /\ \A r \in Runners : run[r] = Never
      /\ tick["boot"] = "done" /\ tick'["boot"] = "done" /\ tick["cron"] = "done"
      /\ sentLately' \subseteq sentLately
      /\ Runners = {"boot", "cron", "cli"}
  BY FallbackNumbers DEF NextSlot, FeedTyped, feeds
<1>2. \A k \in Dates : TooOld(k) => TooOld(k)'
  <2>1. Day(now)' >= Day(now) /\ Day(now)' \in Nat /\ Day(now) \in Nat
    BY <1>1, SlotsAndDays DEF FeedTyped, Day, DayParts
  <2> QED BY <1>1, <2>1, FallbackNumbers DEF TooOld
<1>3. MessageFits' /\ CliCounted'
  BY <1>1 DEF MessageFits, CliCounted
<1>4. AllAnnounced'
  BY <1>1 DEF FallbackInv, AllAnnounced
<1>5. AgedOut'
  BY <1>1, <1>2 DEF FallbackInv, AgedOut
<1>6. Budget'
  <2> SUFFICES ASSUME NEW k \in Dates
               PROVE  engaged[k] + One(Untold(Main, k)') + One(BootOwes(k)') + One(CliOwes(k)')
                        <= Paid' + One(Quiet(k)')
    BY <1>1 DEF Budget, One
  <2>1. engaged[k] + One(Untold(Main, k)) + One(BootOwes(k)) + One(CliOwes(k)) <= Paid + One(Quiet(k))
    BY DEF FallbackInv, Budget
  <2>2. run[Main] = Never /\ run'[Main'] = Never
    BY <1>1 DEF Main
  <2>3. /\ ~Untold(Main, k) /\ ~Untold(Main, k)' /\ ~BootOwes(k) /\ ~BootOwes(k)'
        /\ ~CliOwes(k) /\ ~CliOwes(k)' /\ (Quiet(k)' <=> Quiet(k)) /\ Paid' = Paid
    BY <1>1, <2>2 DEF Untold, BootOwes, CliOwes, Quiet, Engaging, Known, Paid
  <2> QED BY <2>1, <2>3 DEF One
<1> QED BY <1>3, <1>4, <1>5, <1>6 DEF FallbackInv

(* A run of the scheduled tick is the main one; the other one that goes on *)
(* beside it owes what it has not told.                                    *)
LEMMA SideRun ==
  ASSUME FeedTyped, AlarmInv, FallbackInv
  PROVE  /\ run["cron"] # Never => tick["cron"] = "score" /\ Main = "cron"
         /\ run["boot"] # Never => tick["boot"] = "score"
         /\ \A k : Untold("boot", k) => flag
         /\ \A k : flag /\ tick["cron"] # "done" /\ run["boot"] # Never /\ ~Told("boot", k) => BootOwes(k)
<1>1. "cron" \in Loops /\ "boot" \in Loops /\ "boot" \in Runners
  BY FallbackNumbers
<1>2. /\ run["cron"] # Never => tick["cron"] = "score"
      /\ run["boot"] # Never => tick["boot"] = "score"
  BY <1>1 DEF AlarmInv, RunIsTicks
<1>3. \A k : Untold("boot", k) => flag
  BY <1>1 DEF FallbackInv, MessageFits, Untold, Engaging
<1> QED BY <1>2, <1>3 DEF Main, BootOwes

(* A snapshot the operator was told about is not a fresh one.              *)
LEMMA ToldIsOld == ASSUME FeedTyped, FallbackInv, SiteFresh PROVE engaged[site] = 0
<1>1. site \in Dates /\ site # Never /\ Day(now) - site <= StaleAfter
  BY DEF SiteFresh, Age, FeedTyped
<1>2. ~TooOld(site)
  BY <1>1, FallbackNumbers DEF TooOld
<1> QED BY <1>1, <1>2, FallbackNumbers DEF FallbackInv, AgedOut

(* A newer snapshot ends every episode for good.                           *)
LEMMA ScrapeKeepsFallback ==
  ASSUME FeedTyped, FeedTyped', AlarmInv, FallbackInv, NEW l \in Loops, Scrape(l) PROVE FallbackInv'
<1>1. /\ UNCHANGED <<now, web, flag, run, marker, sentLately, engaged, degraded, spent>>
      /\ site' = (IF web.ok THEN web.date ELSE site)
      /\ tick[l] # "done" /\ tick'[l] = "look" /\ \A m \in Loops : m # l => tick'[m] = tick[m]
  BY MovesIsTyped DEF Scrape, fallback, FeedTyped, TickStages
<1>2. (tick'["boot"] = "done" <=> tick["boot"] = "done") /\ (tick'["cron"] = "done" <=> tick["cron"] = "done")
  BY <1>1 DEF Loops
<1>3. \A k \in Dates : TooOld(k) => TooOld(k)'
  <2>1. Day(now)' = Day(now)
    BY <1>1 DEF Day
  <2>2. site # Never => site <= web.date
    BY DEF FallbackInv, AgedOut
  <2> QED BY <1>1, <2>1, <2>2, FallbackNumbers DEF TooOld
<1>4. MessageFits'
  <2>1. \A r \in Runners : run[r] # Never => run[r].cur.from \in Dates
    BY FallbackNumbers DEF Message, Episode
  <2> QED BY <1>1, <1>3, <2>1 DEF FallbackInv, MessageFits
<1>5. AllAnnounced' /\ CliCounted'
  BY <1>1 DEF FallbackInv, AllAnnounced, CliCounted
<1>6. AgedOut'
  BY <1>1, <1>3, FallbackNumbers DEF FallbackInv, AgedOut
<1>7. Budget'
  <2> SUFFICES ASSUME NEW k \in Dates
               PROVE  engaged[k] + One(Untold(Main, k)') + One(BootOwes(k)') + One(CliOwes(k)')
                        <= Paid' + One(Quiet(k)')
    BY <1>1 DEF Budget, One
  <2>1. engaged[k] + One(Untold(Main, k)) + One(BootOwes(k)) + One(CliOwes(k)) <= Paid + One(Quiet(k))
    BY DEF FallbackInv, Budget
  <2>2. /\ (Untold(Main, k)' <=> Untold(Main, k)) /\ (BootOwes(k)' <=> BootOwes(k))
        /\ (CliOwes(k)' <=> CliOwes(k)) /\ Paid' = Paid
    BY <1>1, <1>2 DEF Untold, Main, BootOwes, CliOwes, Told, Engaging, Paid
  <2>3. Quiet(k) /\ ~Quiet(k)' => engaged[k] = 0 /\ ~Untold(Main, k)
    <3> SUFFICES ASSUME Quiet(k), ~Quiet(k)' PROVE engaged[k] = 0 /\ ~Untold(Main, k)
      OBVIOUS
    <3>1. /\ Main' = Main /\ (Engaging(Main, k)' <=> Engaging(Main, k)) /\ (Known(k)' <=> Known(k))
          /\ run'[Main] = run[Main]
      BY <1>1, <1>2 DEF Main, Engaging, Known
    <3>2. ~Engaging(Main, k) /\ site' = k /\ site # k
      BY <1>1, <3>1 DEF Quiet
    <3>3. site' = web.date /\ k # Never /\ k \in Nat
      BY <1>1, <3>2, FallbackNumbers
    <3>4. ~TooOld(k)
      BY <3>2, <3>3, FallbackNumbers DEF TooOld, FallbackInv, AgedOut
    <3> QED BY <3>2, <3>4, FallbackNumbers DEF FallbackInv, AgedOut, Untold
  <2>4. CASE Quiet(k) => Quiet(k)'
    BY <2>1, <2>2, <2>4, FallbackNumbers DEF One
  <2>5. CASE Quiet(k) /\ ~Quiet(k)'
    <3>1. engaged[k] + One(BootOwes(k)) + One(CliOwes(k)) <= Paid
      BY <2>3, <2>5, NotYetTold DEF FallbackInv
    <3> QED BY <2>2, <2>3, <2>5, <3>1, FallbackNumbers DEF One
  <2> QED BY <2>4, <2>5
<1> QED BY <1>4, <1>5, <1>6, <1>7 DEF FallbackInv

(* A restart pays for the message its first tick may send besides the      *)
(* scheduled one.                                                          *)
LEMMA RestartKeepsFallback ==
  ASSUME FeedTyped, FeedTyped', AlarmInv, FallbackInv, FeedRestart PROVE FallbackInv'
<1>1. /\ UNCHANGED <<now, web, site, marker, engaged, degraded>> /\ sentLately' = {}
      /\ run'["boot"] = Never /\ run'["cron"] = Never /\ run'["cli"] = run["cli"]
      /\ tick'["boot"] = "due" /\ (tick'["cron"] = "due" \/ tick'["cron"] = "done")
      /\ (tick'["cron"] # "done" => tick["cron"] = "due")
      /\ Paid' = Paid + 1 /\ spent'.sends = spent.sends /\ spent'.runs = spent.runs
      /\ Loops = {"boot", "cron"} /\ Runners = {"boot", "cron", "cli"}
  <2>1. /\ spent' = [spent EXCEPT !.restarts = spent.restarts + 1] /\ spent \in Tally
    BY DEF FeedRestart, FeedTyped
  <2>2. /\ spent'.sends = spent.sends /\ spent'.runs = spent.runs /\ spent'.saves = spent.saves
        /\ spent'.restarts = spent.restarts + 1
    BY <2>1 DEF Tally
  <2>3. Paid' = Paid + 1
    BY <2>2, FallbackNumbers DEF Paid
  <2>4. /\ run'["boot"] = Never /\ run'["cron"] = Never /\ run'["cli"] = run["cli"]
        /\ tick'["boot"] = "due" /\ (tick'["cron"] = "due" \/ tick'["cron"] = "done")
        /\ (tick'["cron"] # "done" => tick["cron"] = "due")
    BY FallbackNumbers DEF FeedRestart
  <2> QED BY <2>2, <2>3, <2>4, FallbackNumbers DEF FeedRestart
<1>2. \A k : TooOld(k)' <=> TooOld(k)
  BY <1>1 DEF TooOld, Day
<1>3. MessageFits'
  BY <1>1, <1>2 DEF FallbackInv, MessageFits
<1>4. AllAnnounced' /\ CliCounted'
  BY <1>1 DEF FallbackInv, AllAnnounced, CliCounted
<1>5. AgedOut'
  BY <1>1, <1>2 DEF FallbackInv, AgedOut
<1>6. Budget'
  <2> SUFFICES ASSUME NEW k \in Dates
               PROVE  engaged[k] + One(Untold(Main, k)') + One(BootOwes(k)') + One(CliOwes(k)')
                        <= Paid' + One(Quiet(k)')
    BY <1>1 DEF Budget, One
  <2>1. engaged[k] + One(Untold(Main, k)) + One(BootOwes(k)) + One(CliOwes(k)) <= Paid + One(Quiet(k))
    BY DEF FallbackInv, Budget
  <2>2. (CliOwes(k)' <=> CliOwes(k)) /\ ~Untold(Main, k)'
    BY <1>1 DEF CliOwes, Told, Engaging, Untold, Main
  <2>3. BootOwes(k)' /\ ~Quiet(k)' => ~Quiet(k)
    <3> SUFFICES ASSUME BootOwes(k)', ~Quiet(k)' PROVE ~Quiet(k)
      OBVIOUS
    <3>1. tick["cron"] = "due" /\ tick'["cron"] = "due" /\ flag'
      BY <1>1 DEF BootOwes
    <3>2. run["cron"] = Never /\ Main = "cron" /\ Main' = "cron"
      BY <3>1, SideRun DEF Main
    <3>3. ~Known(k) /\ site = k
      BY <1>1, <3>1, <3>2 DEF Quiet, Known
    <3> QED BY <3>2, <3>3 DEF Quiet, Engaging
  <2> QED BY <1>1, <2>1, <2>2, <2>3, FallbackNumbers DEF One
<1> QED BY <1>3, <1>4, <1>5, <1>6 DEF FallbackInv

(* A run with something to say is counted before it is sent.               *)
LEMMA StartRunKeepsFallback ==
  ASSUME FeedTyped, FeedTyped', AlarmInv, FallbackInv, NEW r \in Runners, StartRun(r) PROVE FallbackInv'
<1> DEFINE message == Alert(Current)
<1>1. /\ UNCHANGED <<now, web, site, flag, tick, marker, sentLately, engaged, degraded>>
      /\ run'[r] = message /\ run[r] = Never /\ \A other \in Runners : other # r => run'[other] = run[other]
      /\ r \in Loops => tick[r] = "score"
  BY DEF StartRun, Begins, FeedTyped, feeds, Loops
<1>2. /\ message # Never /\ ~message.arrived /\ message.cur = Current
      /\ Current.engaged <=> message.kind = "engage"
      /\ Current.engaged => message.key = site /\ Current.from = site /\ ~Known(site) /\ flag /\ ~SiteFresh
      /\ ~Current.engaged => (flag => SiteFresh)
  <2>1. Current = [engaged |-> flag /\ ~SiteFresh, from |-> site]
    BY DEF Current
  <2>2. /\ Current.engaged <=> flag /\ ~SiteFresh
        /\ Current.from = site
    BY <2>1
  <2>3. message = [kind |-> IF Ends(Current) THEN "clear" ELSE "engage",
                 key |-> IF Ends(Current) THEN marker.from ELSE site, cur |-> Current, arrived |-> FALSE]
    BY <2>2 DEF Alert
  <2>4. NewEpisode(Current) \/ Ends(Current)
    BY DEF StartRun
  <2>5. message # Never
    <3>1. message \in Message
      <4>1. Current \in Episode
        BY <2>1, FallbackNumbers DEF Episode, SiteFresh
      <4>2. (IF Ends(Current) THEN "clear" ELSE "engage") \in Kinds
            /\ (IF Ends(Current) THEN marker.from ELSE site) \in Dates
        BY FallbackNumbers DEF Kinds
      <4> QED BY <2>3, <4>1, <4>2 DEF Message
    <3> QED BY <3>1, FeedAssumption
  <2>6. Current.engaged => ~Ends(Current) /\ ~Known(site)
    BY <2>2, <2>4 DEF Ends, NewEpisode, Known
  <2>7. ~Current.engaged => Ends(Current)
    BY <2>4 DEF NewEpisode
  <2> QED BY <2>2, <2>3, <2>5, <2>6, <2>7
<1> HIDE DEF message
<1>3. spent'.runs = spent.runs + Counted(r) /\ spent'.sends = spent.sends /\ Paid' = Paid + Counted(r)
  <2>1. spent' = [spent EXCEPT !.runs = spent.runs + Counted(r)] /\ spent \in Tally
    BY DEF StartRun, FeedTyped
  <2>2. /\ spent'.runs = spent.runs + Counted(r) /\ spent'.sends = spent.sends /\ spent'.saves = spent.saves
        /\ spent'.restarts = spent.restarts
    BY <2>1 DEF Tally
  <2>3. Counted(r) \in {0, 1}
    BY DEF Counted
  <2> QED BY <2>2, <2>3, FallbackNumbers DEF Paid
<1>4. \A k : TooOld(k)' <=> TooOld(k)
  BY <1>1 DEF TooOld, Day
<1>5. MessageFits'
  <2> SUFFICES ASSUME NEW s \in Runners, run'[s] # Never
               PROVE  /\ run'[s].cur.engaged <=> run'[s].kind = "engage"
                      /\ run'[s].cur.engaged =>
                           /\ run'[s].key = run'[s].cur.from /\ TooOld(run'[s].cur.from)
                           /\ s \in Loops => flag
                           /\ run'[s].arrived => engaged[run'[s].cur.from] > 0
    BY <1>1, <1>4 DEF MessageFits
  <2>1. CASE s = r
    <3>1. ~SiteFresh => TooOld(site)
      BY FallbackNumbers DEF SiteFresh, Age, TooOld
    <3> QED BY <1>1, <1>2, <2>1, <3>1
  <2>2. CASE s # r
    BY <1>1, <2>2 DEF FallbackInv, MessageFits
  <2> QED BY <2>1, <2>2
<1>6. CliCounted' /\ AllAnnounced'
  <2>1. r = "cli" => Counted(r) = 1
    BY DEF Counted
  <2> QED BY <1>1, <1>3, <2>1, FallbackNumbers DEF FallbackInv, AllAnnounced, CliCounted, Counted
<1>7. AgedOut'
  BY <1>1, <1>4 DEF FallbackInv, AgedOut
<1>8. Budget'
  <2> SUFFICES ASSUME NEW k \in Dates
               PROVE  engaged[k] + One(Untold(Main, k)') + One(BootOwes(k)') + One(CliOwes(k)')
                        <= Paid' + One(Quiet(k)')
    BY <1>1 DEF Budget, One
  <2>1. engaged[k] + One(Untold(Main, k)) + One(BootOwes(k)) + One(CliOwes(k)) <= Paid + One(Quiet(k))
    BY DEF FallbackInv, Budget
  <2>2. Main' = Main /\ (Known(k)' <=> Known(k)) /\ Main \in {"boot", "cron"}
    BY <1>1 DEF Main, Known
  <2>3. CASE r = Main
    <3>1. (BootOwes(k)' <=> BootOwes(k)) /\ (CliOwes(k)' <=> CliOwes(k)) /\ Paid' = Paid
      BY <1>1, <1>3, <2>2, <2>3, FallbackNumbers DEF BootOwes, CliOwes, Told, Engaging, Main, Counted
    <3>2. ~Untold(Main, k) /\ (Untold(Main, k)' <=> Current.engaged /\ site = k)
          /\ (Engaging(Main, k)' <=> Current.engaged /\ site = k)
      BY <1>1, <1>2, <2>2, <2>3 DEF Untold, Engaging
    <3>3. CASE Current.engaged /\ site = k
      <4>1. ~Quiet(k) /\ Quiet(k)'
        BY <1>1, <1>2, <2>2, <2>3, <3>2, <3>3 DEF Quiet, Engaging
      <4> QED BY <2>1, <3>1, <3>2, <3>3, <4>1, FallbackNumbers DEF One
    <3>4. CASE ~(Current.engaged /\ site = k)
      <4>1. CASE site = k /\ flag
        <5>1. engaged[k] = 0
          BY <1>2, <3>4, <4>1, ToldIsOld
        <5>2. engaged[k] + One(BootOwes(k)) + One(CliOwes(k)) <= Paid
          BY <5>1, NotYetTold DEF FallbackInv
        <5> QED BY <3>1, <3>2, <3>4, <5>2, FallbackNumbers DEF One
      <4>2. CASE ~(site = k /\ flag)
        <5>1. Quiet(k)' <=> Quiet(k)
          BY <1>1, <4>2 DEF Quiet
        <5> QED BY <2>1, <3>1, <3>2, <3>4, <5>1, FallbackNumbers DEF One
      <4> QED BY <4>1, <4>2
    <3> QED BY <3>3, <3>4
  <2>4. CASE r # Main
    <3>1. run'[Main] = run[Main]
      BY <1>1, <2>2, <2>4, FallbackNumbers
    <3>2. (Untold(Main, k)' <=> Untold(Main, k)) /\ (Quiet(k)' <=> Quiet(k))
      BY <1>1, <2>2, <3>1 DEF Untold, Quiet, Engaging
    <3>3. CASE r = "cli"
      <4>1. ~CliOwes(k) /\ (BootOwes(k)' <=> BootOwes(k)) /\ Paid' = Paid + 1
        BY <1>1, <1>3, <3>3, FallbackNumbers DEF CliOwes, BootOwes, Told, Engaging, Counted
      <4> QED BY <2>1, <3>2, <4>1, FallbackNumbers DEF One
    <3>4. CASE r # "cli"
      <4>1. r = "boot"
        BY <1>1, <2>4, <3>4, FallbackNumbers DEF Main
      <4>2. (CliOwes(k)' <=> CliOwes(k)) /\ (BootOwes(k)' <=> BootOwes(k)) /\ Paid' = Paid
        BY <1>1, <1>2, <1>3, <3>4, <4>1, FallbackNumbers DEF CliOwes, BootOwes, Told, Engaging, Counted
      <4> QED BY <2>1, <3>2, <4>2, FallbackNumbers DEF One
    <3> QED BY <3>3, <3>4
  <2> QED BY <2>3, <2>4
<1> QED BY <1>5, <1>6, <1>7, <1>8 DEF FallbackInv

(* A daemon run that is over, whatever became of its message: its tick     *)
(* owes nothing, and one that takes the main part was owed for.            *)
LEMMA SideTakesOver ==
  ASSUME FeedTyped, AlarmInv, FallbackInv, NEW r \in Loops, NEW k \in Dates, tick[r] = "score",
         flag' = flag, run'[r] = Never, \A other \in Runners : other # r => run'[other] = run[other],
         \A l \in Loops : tick'[l] = IF l = r THEN "done" ELSE tick[l]
  PROVE  /\ ~BootOwes(k)'
         /\ Untold(Main, k)' => Untold(Main, k) \/ BootOwes(k)
         /\ r = "cron" => Main = "cron" /\ Main' = "boot"
         /\ r = "boot" => Main' = Main
         /\ (CliOwes(k)' <=> CliOwes(k))
<1>1. /\ "cron" \in Loops /\ "boot" \in Loops /\ {"boot", "cron", "cli"} = Runners
      /\ "cli" \notin Loops /\ Loops = {"boot", "cron"}
  BY FallbackNumbers DEF Loops
<1>2. ~BootOwes(k)'
  BY <1>1 DEF BootOwes
<1>3. (r = "cron" => Main = "cron" /\ Main' = "boot") /\ (r = "boot" => Main' = Main)
  BY <1>1 DEF Main
<1>4. CliOwes(k)' <=> CliOwes(k)
  BY <1>1 DEF CliOwes, Told, Engaging
<1>5. Untold(Main, k)' => Untold(Main, k) \/ BootOwes(k)
  <2>1. CASE r = "cron"
    <3>1. run'["boot"] = run["boot"]
      BY <1>1, <2>1
    <3>2. Untold(Main, k)' => Untold("boot", k)
      BY <1>3, <2>1, <3>1 DEF Untold, Engaging
    <3>3. Untold("boot", k) => BootOwes(k)
      BY <2>1, SideRun DEF Untold, Told, Engaging
    <3> QED BY <3>2, <3>3
  <2>2. CASE r = "boot"
    <3>1. run'["cron"] = run["cron"]
      BY <1>1, <2>2
    <3> QED BY <1>1, <1>3, <2>2, <3>1 DEF Untold, Engaging, Main
  <2> QED BY <1>1, <2>1, <2>2
<1> QED BY <1>2, <1>3, <1>4, <1>5

(* A run with nothing to say leaves every episode as quiet as it was.      *)
LEMMA QuietRunKeepsFallback ==
  ASSUME FeedTyped, FeedTyped', AlarmInv, FallbackInv, NEW r \in Runners, NEW saved \in BOOLEAN,
         QuietRun(r, saved)
  PROVE  FallbackInv'
<1> DEFINE lost == IF saved THEN 0 ELSE 1
<1>1. /\ UNCHANGED <<now, web, site, flag, sentLately, engaged>> /\ run[r] = Never
      /\ Settles(r, Current, saved) /\ (r \in Loops => tick[r] = "score")
      /\ NewEpisode(Current) \/ Ends(Current) => Cooling(Alert(Current))
      /\ marker' = (IF saved THEN Current ELSE marker)
      /\ degraded' = (IF Current.engaged THEN degraded \cup {site} ELSE degraded)
      /\ lost \in {0, 1} /\ spent' = [spent EXCEPT !.runs = @ + Counted(r), !.saves = @ + lost]
  BY DEF QuietRun, Begins, feeds, Settles, Current, Loops
<1>2. Current \in Episode /\ (Current.engaged <=> flag /\ ~SiteFresh) /\ Current.from = site
  BY FallbackNumbers DEF Current, Episode, SiteFresh
<1>3. /\ run'[r] = Never /\ \A other \in Runners : other # r => run'[other] = run[other]
      /\ \A l \in Loops : tick'[l] = IF l = r THEN "done" ELSE tick[l]
  BY <1>1, <1>2, SettlesIsTyped
<1>4. /\ spent'.runs = spent.runs + Counted(r) /\ spent'.saves = spent.saves + lost
      /\ spent'.sends = spent.sends /\ spent'.restarts = spent.restarts
  <2> HIDE DEF lost
  <2> QED BY <1>1, StartIsTyped DEF FeedTyped
<1>5. Counted(r) \in {0, 1} /\ (r = "cli" => Counted(r) = 1) /\ (r # "cli" => Counted(r) = 0)
      /\ lost \in {0, 1} /\ (saved => lost = 0) /\ (~saved => lost = 1)
  BY DEF Counted
<1> HIDE DEF lost
<1>6. Paid' = Paid + Counted(r) + lost
  BY <1>4, <1>5, FallbackNumbers DEF Paid
<1>7. \A k : TooOld(k)' <=> TooOld(k)
  BY <1>1 DEF TooOld, Day
<1>8. MessageFits'
  BY <1>1, <1>3, <1>7 DEF FallbackInv, MessageFits
<1>9. CliCounted'
  BY <1>1, <1>3, <1>4, <1>5, FallbackNumbers DEF FallbackInv, CliCounted
<1>10. AllAnnounced'
  <2>1. spent.sends = 0 /\ Current.engaged => engaged[site] > 0
    <3> SUFFICES ASSUME spent.sends = 0, Current.engaged PROVE engaged[site] > 0
      OBVIOUS
    <3>1. CASE NewEpisode(Current)
      <4>1. PICK t \in sentLately : t.kind = Alert(Current).kind /\ t.key = Alert(Current).key
        BY <1>1, <3>1 DEF Cooling
      <4>2. Alert(Current).kind = "engage" /\ Alert(Current).key = site
        BY <1>2 DEF Alert, Ends
      <4> QED BY <4>1, <4>2 DEF FallbackInv, AllAnnounced
    <3>2. CASE ~NewEpisode(Current)
      BY <1>2, <3>2 DEF NewEpisode, FallbackInv, AllAnnounced
    <3> QED BY <3>1, <3>2
  <2> QED BY <1>1, <1>2, <1>4, <2>1 DEF FallbackInv, AllAnnounced
<1>11. AgedOut'
  BY <1>1, <1>7 DEF FallbackInv, AgedOut
<1>12. Budget'
  <2> SUFFICES ASSUME NEW k \in Dates
               PROVE  engaged[k] + One(Untold(Main, k)') + One(BootOwes(k)') + One(CliOwes(k)')
                        <= Paid' + One(Quiet(k)')
    BY <1>1 DEF Budget, One
  <2>1. engaged[k] + One(Untold(Main, k)) + One(BootOwes(k)) + One(CliOwes(k)) <= Paid + One(Quiet(k))
    BY DEF FallbackInv, Budget
  <2>2. CASE r = "cli"
    <3>1. /\ Main' = Main /\ tick'["cron"] = tick["cron"] /\ tick'["boot"] = tick["boot"]
          /\ run'["boot"] = run["boot"] /\ run'["cron"] = run["cron"] /\ Main \in {"boot", "cron"}
          /\ run'["cli"] = Never /\ run["cli"] = Never
      BY <1>1, <1>3, <2>2, FallbackNumbers DEF Main
    <3>2. /\ (Untold(Main, k)' <=> Untold(Main, k)) /\ (BootOwes(k)' <=> BootOwes(k))
          /\ ~CliOwes(k)' /\ ~CliOwes(k)
      BY <1>1, <3>1 DEF Untold, BootOwes, CliOwes, Told, Engaging
    <3> QED BY <1>5, <1>6, <2>1, <2>2, <3>2, FallbackNumbers DEF One
  <2>3. CASE r \in Loops
    <3>1. tick[r] = "score" /\ r # "cli"
      BY <1>1, <2>3 DEF Loops
    <3>2. /\ ~BootOwes(k)' /\ (CliOwes(k)' <=> CliOwes(k))
          /\ Untold(Main, k)' => Untold(Main, k) \/ BootOwes(k)
          /\ r = "cron" => Main = "cron" /\ Main' = "boot"
          /\ r = "boot" => Main' = Main
      BY <1>1, <1>3, <2>3, <3>1, SideTakesOver
    <3>3. CASE ~saved \/ (Quiet(k) => Quiet(k)')
      BY <1>5, <1>6, <2>1, <3>1, <3>2, <3>3, FallbackNumbers DEF One
    <3>4. CASE saved /\ Quiet(k) /\ ~Quiet(k)'
      <4>1. /\ flag /\ site = k /\ ~Engaging(Main, k)' /\ (run'[Main'] = Never => ~Known(k)')
            /\ ~Untold(Main, k)'
        BY <1>1, <3>4 DEF Quiet, Untold
      <4>2. CASE SiteFresh
        <5>1. engaged[k] + One(BootOwes(k)) + One(CliOwes(k)) <= Paid
          BY <4>1, <4>2, ToldIsOld, NotYetTold DEF FallbackInv
        <5> QED BY <1>5, <1>6, <3>2, <4>1, <5>1, FallbackNumbers DEF One
      <4>3. CASE ~SiteFresh
        <5>1. Known(k)'
          BY <1>1, <1>2, <3>4, <4>1, <4>3 DEF Known
        <5>2. run'[Main'] # Never /\ Main' # r
          BY <1>3, <4>1, <5>1
        <5>3. r = "cron"
          <6> SUFFICES ASSUME r = "boot" PROVE FALSE
            BY <2>3 DEF Loops
          <6>1. Main = "cron" /\ run["cron"] # Never /\ ~Engaging("cron", k)
            BY <1>3, <3>2, <4>1, <5>2, FallbackNumbers DEF Main, Engaging
          <6> QED BY <3>4, <4>1, <6>1 DEF Quiet
        <5>4. Main' = "boot" /\ run["boot"] # Never /\ ~Engaging("boot", k)
          BY <1>3, <3>2, <4>1, <5>2, <5>3, FallbackNumbers DEF Engaging
        <5>5. BootOwes(k)
          BY <3>1, <4>1, <5>3, <5>4, SideRun DEF Told
        <5> QED BY <1>5, <1>6, <2>1, <3>2, <3>4, <4>1, <5>5, FallbackNumbers DEF One
      <4> QED BY <4>2, <4>3
    <3> QED BY <3>3, <3>4
  <2> QED BY <2>2, <2>3, FallbackNumbers
<1> QED BY <1>8, <1>9, <1>10, <1>11, <1>12 DEF FallbackInv

(* What was counted is told.                                               *)
LEMMA ArrivalKeepsFallback ==
  ASSUME FeedTyped, FeedTyped', AlarmInv, FallbackInv, NEW r \in Runners, FallbackArrives(r)
  PROVE  FallbackInv'
<1>1. /\ UNCHANGED <<now, web, site, flag, tick, marker, sentLately, degraded, spent>>
      /\ run[r] \in Message /\ run[r] # Never /\ ~run[r].arrived
      /\ run'[r] = [run[r] EXCEPT !.arrived = TRUE]
      /\ \A other \in Runners : other # r => run'[other] = run[other]
  BY FallbackNumbers DEF FallbackArrives, feeds, FeedTyped
<1>2. /\ run'[r].cur = run[r].cur /\ run'[r].kind = run[r].kind /\ run'[r].key = run[r].key
      /\ run'[r].arrived /\ run'[r] # Never
  <2>1. run'[r] \in Message
    BY <1>1 DEF Message
  <2> QED BY <1>1, <2>1, FeedAssumption DEF Message
<1>3. /\ run[r].cur.engaged <=> run[r].kind = "engage"
      /\ run[r].cur.engaged => run[r].key = run[r].cur.from /\ TooOld(run[r].cur.from) /\ (r \in Loops => flag)
      /\ run[r].cur.from \in Dates
  BY <1>1 DEF FallbackInv, MessageFits, Message, Episode
<1>4. \A k \in Dates : engaged'[k] = IF Engaging(r, k) THEN engaged[k] + 1 ELSE engaged[k]
  BY <1>1, <1>3 DEF FallbackArrives, Engaging, FeedTyped
<1>5. \A k \in Dates : engaged'[k] >= engaged[k] /\ engaged'[k] \in Nat
  BY <1>4, FallbackNumbers
<1>6. \A k : TooOld(k)' <=> TooOld(k)
  BY <1>1 DEF TooOld, Day
<1>7. \A s \in Runners : run'[s] = Never <=> run[s] = Never
  BY <1>1, <1>2
<1>8. MessageFits'
  <2> SUFFICES ASSUME NEW s \in Runners, run'[s] # Never
               PROVE  /\ run'[s].cur.engaged <=> run'[s].kind = "engage"
                      /\ run'[s].cur.engaged =>
                           /\ run'[s].key = run'[s].cur.from /\ TooOld(run'[s].cur.from)
                           /\ s \in Loops => flag
                           /\ run'[s].arrived => engaged'[run'[s].cur.from] > 0
    BY <1>1, <1>6 DEF MessageFits
  <2>1. CASE s = r
    <3>1. run[r].cur.engaged => engaged'[run[r].cur.from] > 0
      BY <1>1, <1>3, <1>4, FallbackNumbers DEF Engaging
    <3> QED BY <1>2, <1>3, <2>1, <3>1
  <2>2. CASE s # r
    <3>1. run[s] \in Message /\ run'[s] = run[s] /\ run[s].cur.from \in Dates
      BY <1>1, <2>2, FallbackNumbers DEF Message, Episode
    <3> QED BY <1>5, <3>1, FallbackNumbers DEF FallbackInv, MessageFits
  <2> QED BY <2>1, <2>2
<1>9. CliCounted'
  BY <1>1, <1>7, FallbackNumbers DEF FallbackInv, CliCounted
<1>10. AllAnnounced'
  <2>1. /\ marker.from \in Dates /\ degraded \subseteq Dates /\ \A t \in sentLately : t.key \in Dates
    BY DEF FeedTyped, Episode, Stamp6h
  <2> QED BY <1>1, <1>5, <2>1, FallbackNumbers DEF FallbackInv, AllAnnounced
<1>11. AgedOut'
  <2>1. \A k \in Dates : engaged'[k] > 0 => TooOld(k)
    BY <1>3, <1>4 DEF Engaging, FallbackInv, AgedOut
  <2> QED BY <1>1, <1>6, <2>1 DEF FallbackInv, AgedOut
<1>12. Budget'
  <2> SUFFICES ASSUME NEW k \in Dates
               PROVE  engaged'[k] + One(Untold(Main, k)') + One(BootOwes(k)') + One(CliOwes(k)')
                        <= Paid' + One(Quiet(k)')
    BY DEF Budget, One
  <2>1. engaged[k] + One(Untold(Main, k)) + One(BootOwes(k)) + One(CliOwes(k)) <= Paid + One(Quiet(k))
    BY DEF FallbackInv, Budget
  <2>2. Main' = Main /\ Main \in {"boot", "cron"} /\ (Known(k)' <=> Known(k)) /\ Paid' = Paid
    BY <1>1 DEF Main, Known, Paid
  <2>3. Quiet(k)' <=> Quiet(k)
    <3>1. (Engaging(Main, k)' <=> Engaging(Main, k)) /\ (run'[Main] = Never <=> run[Main] = Never)
      BY <1>1, <1>2, <2>2, FallbackNumbers DEF Engaging
    <3> QED BY <1>1, <2>2, <3>1 DEF Quiet
  <2>4. CASE ~Engaging(r, k)
    <3>1. /\ (Untold(Main, k)' <=> Untold(Main, k)) /\ (BootOwes(k)' <=> BootOwes(k)) /\ (CliOwes(k)' <=> CliOwes(k))
      BY <1>1, <1>2, <2>2, <2>4, FallbackNumbers DEF Untold, BootOwes, CliOwes, Told, Engaging
    <3> QED BY <1>4, <2>1, <2>2, <2>3, <2>4, <3>1, FallbackNumbers DEF One
  <2>5. CASE Engaging(r, k)
    <3>1. CASE r = "cli"
      <4>1. /\ (Untold(Main, k)' <=> Untold(Main, k)) /\ (BootOwes(k)' <=> BootOwes(k))
            /\ CliOwes(k) /\ ~CliOwes(k)'
        BY <1>1, <1>2, <2>2, <2>5, <3>1, FallbackNumbers DEF Untold, BootOwes, CliOwes, Told, Engaging
      <4> QED BY <1>4, <2>1, <2>2, <2>3, <2>5, <4>1, FallbackNumbers DEF One
    <3>2. CASE r = Main
      <4>1. /\ Untold(Main, k) /\ ~Untold(Main, k)' /\ (BootOwes(k)' <=> BootOwes(k))
            /\ (CliOwes(k)' <=> CliOwes(k))
        BY <1>1, <1>2, <2>2, <2>5, <3>2, FallbackNumbers DEF Untold, BootOwes, CliOwes, Told, Engaging, Main
      <4> QED BY <1>4, <2>1, <2>2, <2>3, <2>5, <4>1, FallbackNumbers DEF One
    <3>3. CASE r \in Loops /\ r # Main
      <4>1. r = "boot" /\ Main = "cron"
        BY <1>1, <3>3, SideRun, FallbackNumbers DEF Main
      <4>2. flag /\ tick["cron"] # "done" /\ tick["boot"] = "score"
        BY <1>1, <1>3, <2>5, <3>3, <4>1, SideRun DEF Main, Engaging
      <4>3. /\ (Untold(Main, k)' <=> Untold(Main, k)) /\ (CliOwes(k)' <=> CliOwes(k))
            /\ BootOwes(k) /\ ~BootOwes(k)'
        BY <1>1, <1>2, <2>2, <2>5, <4>1, <4>2, FallbackNumbers DEF Untold, BootOwes, CliOwes, Told, Engaging
      <4> QED BY <1>4, <2>1, <2>2, <2>3, <2>5, <4>3, FallbackNumbers DEF One
    <3> QED BY <3>1, <3>2, <3>3, FallbackNumbers
  <2> QED BY <2>4, <2>5
<1> QED BY <1>8, <1>9, <1>10, <1>11, <1>12 DEF FallbackInv

(* What was counted is spent: a message, the run of the command line that  *)
(* wrote the marker, or the save that failed.                              *)
LEMMA FallbackSentKeepsFallback ==
  ASSUME FeedTyped, FeedTyped', AlarmInv, FallbackInv, NEW r \in Runners, NEW saved \in BOOLEAN,
         FallbackSent(r, saved)
  PROVE  FallbackInv'
<1> DEFINE unsent == IF run[r].arrived THEN 0 ELSE 1
           lost == IF saved THEN 0 ELSE 1
           cur == run[r].cur
<1>1. /\ UNCHANGED <<now, web, site, flag, engaged>> /\ run[r] # Never /\ run[r] \in Message
      /\ Settles(r, cur, saved) /\ unsent \in {0, 1} /\ lost \in {0, 1} /\ Cost(unsent, lost)
      /\ marker' = (IF saved THEN cur ELSE marker)
      /\ degraded' = (IF cur.engaged THEN degraded \cup {cur.from} ELSE degraded)
      /\ \A t \in sentLately' : t \in sentLately \/ (run[r].arrived /\ t.kind = run[r].kind /\ t.key = run[r].key)
  BY FallbackNumbers DEF FallbackSent, feeds, Settles
<1>2. /\ cur \in Episode /\ (unsent = 0 => run[r].arrived)
      /\ (saved => lost = 0) /\ (~saved => lost = 1)
  BY <1>1 DEF Message
<1>3. /\ cur.engaged <=> run[r].kind = "engage"
      /\ cur.engaged => run[r].key = cur.from /\ (run[r].arrived => engaged[cur.from] > 0)
  BY <1>1 DEF FallbackInv, MessageFits
<1> HIDE DEF unsent, lost, cur
<1>4. /\ run'[r] = Never /\ \A other \in Runners : other # r => run'[other] = run[other]
      /\ \A l \in Loops : tick'[l] = IF l = r THEN "done" ELSE tick[l]
  BY <1>1, <1>2, SettlesIsTyped
<1>5. /\ spent'.sends = spent.sends + unsent /\ spent'.saves = spent.saves + lost
      /\ spent'.runs = spent.runs /\ spent'.restarts = spent.restarts
  BY <1>1, CostIsTyped DEF FeedTyped
<1>6. Paid' = Paid + lost
  BY <1>1, <1>5, FallbackNumbers DEF Paid
<1>7. \A k : TooOld(k)' <=> TooOld(k)
  BY <1>1 DEF TooOld, Day
<1>8. MessageFits'
  BY <1>1, <1>4, <1>7 DEF FallbackInv, MessageFits
<1>9. CliCounted'
  BY <1>4, <1>5, FallbackNumbers DEF FallbackInv, CliCounted
<1>10. AllAnnounced'
  <2>1. spent'.sends = 0 => spent.sends = 0 /\ (cur.engaged => engaged[cur.from] > 0)
    BY <1>1, <1>2, <1>3, <1>5, FallbackNumbers
  <2> QED BY <1>1, <1>3, <2>1 DEF FallbackInv, AllAnnounced
<1>11. AgedOut'
  BY <1>1, <1>7 DEF FallbackInv, AgedOut
<1>12. Budget'
  <2> SUFFICES ASSUME NEW k \in Dates
               PROVE  engaged[k] + One(Untold(Main, k)') + One(BootOwes(k)') + One(CliOwes(k)')
                        <= Paid' + One(Quiet(k)')
    BY <1>1 DEF Budget, One
  <2>1. engaged[k] + One(Untold(Main, k)) + One(BootOwes(k)) + One(CliOwes(k)) <= Paid + One(Quiet(k))
    BY DEF FallbackInv, Budget
  <2>2. saved /\ Engaging(r, k) => Known(k)'
    BY <1>1 DEF Known, Engaging, cur
  <2>3. CASE r = "cli"
    <3>1. /\ Main' = Main /\ tick'["cron"] = tick["cron"] /\ tick'["boot"] = tick["boot"]
          /\ run'["boot"] = run["boot"] /\ run'["cron"] = run["cron"] /\ Main \in {"boot", "cron"}
          /\ run'["cli"] = Never /\ run["cli"] # Never
      BY <1>1, <1>4, <2>3, FallbackNumbers DEF Main
    <3>2. /\ (Untold(Main, k)' <=> Untold(Main, k)) /\ (BootOwes(k)' <=> BootOwes(k)) /\ ~CliOwes(k)'
      BY <1>1, <3>1 DEF Untold, BootOwes, CliOwes, Told, Engaging
    <3>3. CASE ~saved \/ (Quiet(k) => Quiet(k)')
      BY <1>1, <1>2, <1>6, <2>1, <3>2, <3>3, FallbackNumbers DEF One
    <3>4. CASE saved /\ Quiet(k) /\ ~Quiet(k)'
      <4>1. ~Known(k)'
        BY <1>1, <3>1, <3>4 DEF Quiet, Engaging
      <4>2. CliOwes(k)
        BY <2>2, <2>3, <3>1, <3>4, <4>1 DEF CliOwes, Told
      <4> QED BY <1>2, <1>6, <2>1, <3>2, <3>4, <4>2, FallbackNumbers DEF One
    <3> QED BY <3>3, <3>4
  <2>4. CASE r \in Loops
    <3>1. tick[r] = "score" /\ r # "cli"
      BY <1>1, <2>4 DEF AlarmInv, RunIsTicks, Loops
    <3>2. /\ ~BootOwes(k)' /\ (CliOwes(k)' <=> CliOwes(k))
          /\ Untold(Main, k)' => Untold(Main, k) \/ BootOwes(k)
          /\ r = "cron" => Main = "cron" /\ Main' = "boot"
          /\ r = "boot" => Main' = Main
      BY <1>1, <1>4, <2>4, <3>1, SideTakesOver
    <3>3. CASE ~saved \/ (Quiet(k) => Quiet(k)')
      BY <1>1, <1>2, <1>6, <2>1, <3>2, <3>3, FallbackNumbers DEF One
    <3>4. CASE saved /\ Quiet(k) /\ ~Quiet(k)'
      <4>1. /\ flag /\ site = k /\ ~Engaging(Main, k)' /\ (run'[Main'] = Never => ~Known(k)')
            /\ ~Untold(Main, k)'
        BY <1>1, <3>4 DEF Quiet, Untold
      <4>2. r = "boot" => Main = "cron"
        <5> SUFFICES ASSUME r = "boot", Main = "boot" PROVE FALSE
          BY DEF Main
        <5>1. run'[Main'] = Never
          BY <1>4, <3>2
        <5>2. ~Engaging(r, k)
          BY <2>2, <3>4, <4>1, <5>1
        <5> QED BY <1>1, <3>4, <4>1, <5>2 DEF Quiet
      <4>3. BootOwes(k)
        <5>1. CASE r = "cron"
          <6>1. Engaging("cron", k)
            BY <1>1, <3>2, <3>4, <4>1, <5>1 DEF Quiet
          <6>2. Main' = "boot" /\ run["boot"] # Never /\ ~Engaging("boot", k)
            BY <1>4, <2>2, <3>2, <3>4, <4>1, <5>1, <6>1, FallbackNumbers DEF Engaging
          <6> QED BY <3>1, <4>1, <5>1, <6>2, SideRun DEF Told
        <5>2. CASE r = "boot"
          <6>1. Main = "cron" /\ Main' = "cron" /\ run'["cron"] = run["cron"]
            BY <1>4, <3>2, <4>2, <5>2, FallbackNumbers
          <6>2. ~Engaging("cron", k) /\ run["cron"] = Never
            BY <3>4, <4>1, <6>1 DEF Quiet, Engaging
          <6>3. ~Told("boot", k)
            BY <2>2, <3>4, <4>1, <5>2, <6>1, <6>2 DEF Told
          <6>4. tick["cron"] # "done"
            BY <6>1 DEF Main
          <6> QED BY <1>1, <4>1, <5>2, <6>3, <6>4, SideRun
        <5> QED BY <2>4, <5>1, <5>2 DEF Loops
      <4> QED BY <1>2, <1>6, <2>1, <3>2, <3>4, <4>1, <4>3, FallbackNumbers DEF One
    <3> QED BY <3>3, <3>4
  <2> QED BY <2>3, <2>4, FallbackNumbers
<1> QED BY <1>8, <1>9, <1>10, <1>11, <1>12 DEF FallbackInv

LEMMA FallbackInvStep == FeedTyped /\ AlarmInv /\ FallbackInv /\ [FeedNext]_feedVars => FallbackInv'
<1> SUFFICES ASSUME FeedTyped, AlarmInv, FallbackInv, [FeedNext]_feedVars PROVE FallbackInv'
  OBVIOUS
<1>0. /\ FeedTyped' /\ spent \in Tally /\ tick \in [Loops -> TickStages]
      /\ spent.saves \in Nat /\ spent.sends \in Nat /\ web.date \in Nat
      /\ Loops = {"boot", "cron"}
      /\ {"scrape", "done", "old", "fresh", "stale", "recovered", "score"} \subseteq TickStages
  BY FeedTypedStep, FallbackNumbers DEF FeedTyped, TickStages
<1>1. CASE PageChanges \/ UNCHANGED feedVars
  <2>1. /\ UNCHANGED <<now, site, flag, run, marker, sentLately, engaged, degraded, spent, tick>>
        /\ web'.date >= web.date
    <3>1. CASE PageChanges
      <4>1. PICK shown \in [date : web.date .. Day(now), ok : BOOLEAN] : web' = shown
        BY <3>1 DEF PageChanges
      <4> QED BY <1>0, <3>1, <4>1, FallbackNumbers DEF PageChanges, fallback
    <3>2. CASE UNCHANGED feedVars
      BY <1>0, <3>2 DEF feedVars
    <3> QED BY <1>1, <3>1, <3>2
  <2> QED BY <1>0, <2>1, CalmKeepsFallback
<1>2. CASE NextSlot
  BY <1>0, <1>2, NextSlotKeepsFallback
<1>3. CASE RetryChecks
  <2>1. /\ UNCHANGED <<now, web, site, flag, run, marker, sentLately, engaged, degraded, spent>>
        /\ tick["cron"] = "due"
    BY <1>3 DEF RetryChecks, feeds, fallback
  <2>2. tick'["boot"] = tick["boot"] /\ run["cron"] = Never
    BY <1>0, <1>3, <2>1 DEF RetryChecks, Moves, AlarmInv, RunIsTicks
  <2> QED BY <1>0, <2>1, <2>2, CalmKeepsFallback
<1>4. ASSUME NEW l \in Loops, Scrape(l) PROVE FallbackInv'
  BY <1>0, <1>4, ScrapeKeepsFallback
<1>5. CASE FeedRestart
  BY <1>0, <1>5, RestartKeepsFallback
<1>6. ASSUME NEW l \in Loops, NEW stage \in TickStages \ {"done"},
             UNCHANGED <<now, web, site, flag, run, marker, sentLately, engaged, degraded>>,
             tick[l] # "done", run[l] = Never, Moves(l, stage) \/ Moves(l, AfterTick(l)),
             spent'.runs = spent.runs, spent'.saves >= spent.saves, spent'.sends >= spent.sends,
             spent'.restarts = spent.restarts
      PROVE  FallbackInv'
  <2>1. PICK next \in TickStages : Moves(l, next) /\ (next = "done" => next = AfterTick(l))
    BY <1>0, <1>6, AfterTickIsStage
  <2>2. /\ tick'[l] = next /\ \A other \in Loops : other # l => tick'[other] = tick[other]
    BY <1>0, <2>1, MovesIsTyped
  <2>3. l = "boot" => next # "done"
    BY <2>1 DEF AfterTick
  <2> QED BY <1>0, <1>6, <2>2, <2>3, CalmKeepsFallback
<1>7. \A l \in Loops : tick[l] # "score" => run[l] = Never
  BY DEF AlarmInv, RunIsTicks
<1>8. ASSUME NEW l \in Loops, ReadStatus(l) PROVE FallbackInv'
  <2>1. PICK stage \in TickStages \ {"done"} : Moves(l, stage)
    BY <1>0, <1>8 DEF ReadStatus
  <2>2. UNCHANGED <<now, web, site, flag, run, marker, sentLately, engaged, degraded, spent>> /\ tick[l] = "look"
    BY <1>8 DEF ReadStatus, feeds, fallback
  <2> QED BY <1>0, <1>6, <1>7, <2>1, <2>2
<1>9. ASSUME NEW sends \in {0, 1}, NEW saves \in {0, 1}, Cost(sends, saves)
      PROVE  /\ spent'.runs = spent.runs /\ spent'.saves >= spent.saves /\ spent'.sends >= spent.sends
             /\ spent'.restarts = spent.restarts
  <2>1. /\ spent'.sends = spent.sends + sends /\ spent'.saves = spent.saves + saves
        /\ spent'.restarts = spent.restarts /\ spent'.runs = spent.runs
    BY <1>0, <1>9, CostIsTyped
  <2> QED BY <1>0, <2>1
<1>10. ASSUME NEW l \in Loops, NEW paged \in BOOLEAN, NEW saved \in BOOLEAN, DecideStale(l, paged, saved)
       PROVE  FallbackInv'
  <2>1. /\ UNCHANGED <<now, web, site, flag, run, marker, sentLately, engaged, degraded>>
        /\ tick[l] = "old" /\ (Moves(l, "stale") \/ Moves(l, AfterTick(l)))
        /\ Cost(0, IF saved THEN 0 ELSE 1)
    BY <1>10 DEF DecideStale, feeds, fallback
  <2> QED BY <1>0, <1>6, <1>7, <1>9, <2>1
<1>11. ASSUME NEW l \in Loops, NEW saved \in BOOLEAN, DecideFresh(l, saved) PROVE FallbackInv'
  <2>1. /\ UNCHANGED <<now, web, site, flag, run, marker, sentLately, engaged, degraded>>
        /\ tick[l] = "fresh" /\ (Moves(l, "recovered") \/ Moves(l, AfterTick(l)))
        /\ Cost(0, IF saved THEN 0 ELSE 1)
    BY <1>11 DEF DecideFresh, feeds, fallback
  <2> QED BY <1>0, <1>6, <1>7, <1>9, <2>1
<1>12. ASSUME NEW l \in Loops, NEW arrived \in BOOLEAN, PageSent(l, arrived) PROVE FallbackInv'
  <2>1. /\ UNCHANGED <<now, web, site, flag, run, marker, sentLately, engaged, degraded>>
        /\ tick[l] \in {"stale", "recovered"} /\ Moves(l, AfterTick(l))
        /\ Cost(IF arrived THEN 0 ELSE 1, 0)
    BY <1>12 DEF PageSent, feeds, fallback
  <2> QED BY <1>0, <1>6, <1>7, <1>9, <2>1
<1>13. ASSUME NEW r \in Runners, StartRun(r) PROVE FallbackInv'
  BY <1>0, <1>13, StartRunKeepsFallback
<1>14. ASSUME NEW r \in Runners, NEW saved \in BOOLEAN, QuietRun(r, saved) PROVE FallbackInv'
  BY <1>0, <1>14, QuietRunKeepsFallback
<1>15. ASSUME NEW r \in Runners, FallbackArrives(r) PROVE FallbackInv'
  BY <1>0, <1>15, ArrivalKeepsFallback
<1>16. ASSUME NEW r \in Runners, NEW saved \in BOOLEAN, FallbackSent(r, saved) PROVE FallbackInv'
  BY <1>0, <1>16, FallbackSentKeepsFallback
<1> QED BY <1>1, <1>2, <1>3, <1>4, <1>5, <1>8, <1>10, <1>11, <1>12, <1>13, <1>14, <1>15, <1>16 DEF FeedNext

(* What the invariant says of the fallback messages.                       *)
LEMMA FallbackInvSuffices == ASSUME FeedTyped, FallbackInv PROVE FallbackToldOnce
<1>1. spent.sends = 0 => \A k \in degraded : engaged[k] > 0
  BY DEF FallbackInv, AllAnnounced
<1>2. ASSUME NEW k \in Dates PROVE engaged[k] <= 1 + spent.restarts + spent.runs + spent.saves
  <2>1. engaged[k] + One(Untold(Main, k)) + One(BootOwes(k)) + One(CliOwes(k)) <= Paid + One(Quiet(k))
    BY DEF FallbackInv, Budget
  <2> QED BY <2>1, FallbackNumbers DEF One, Paid
<1> QED BY <1>1, <1>2 DEF FallbackToldOnce

(* The operator is paged about an outage at its first tick and then daily, *)
(* is told once that it is over, and is told of every fallback episode     *)
(* before a run prices in it, and once; each extra or missing message is   *)
(* accounted for by a lost send, a lost save, a restart, whose first tick  *)
(* may overlap the scheduled one, or a command-line run                    *)
(* (ClubEloAlerter.decide and maybe_alert_cl_fallback), for any thresholds *)
(* and any number of faults.                                               *)
THEOREM OperatorHearsTheorem == FeedSpec => []OperatorHears
<1> DEFINE Inv == FeedTyped /\ AlarmInv /\ FallbackInv
<1>1. FeedInit => Inv
  BY FeedTypedInit, AlarmInvInit, FallbackInvInit
<1>2. Inv /\ [FeedNext]_feedVars => Inv'
  BY FeedTypedStep, AlarmInvStep, FallbackInvStep
<1>3. Inv => OperatorHears
  BY AlarmInvSuffices, FallbackInvSuffices DEF OperatorHears
<1> QED BY <1>1, <1>2, <1>3, PTL DEF FeedSpec

(* The alerter, its sidecar, the marker and the awaited messages are of    *)
(* their types, and an alert is remembered only while the alerter is       *)
(* active: for any thresholds and any number of faults.                    *)
THEOREM FeedTypesTheorem == FeedSpec => []FeedTypeOK
<1> DEFINE Inv == FeedTyped /\ AlarmInv
<1>1. FeedInit => Inv
  BY FeedTypedInit, AlarmInvInit
<1>2. Inv /\ [FeedNext]_feedVars => Inv'
  BY FeedTypedStep, AlarmInvStep
<1>3. Inv => FeedTypeOK
  BY DEF FeedTyped, Tally, Stamp6h, AlarmInv, MemoryKept, FeedTypeOK
<1> QED BY <1>1, <1>2, <1>3, PTL DEF FeedSpec

-----------------------------------------------------------------------------
(***************************************************************************)
(* SchemaBoot: any services, tables and later columns.                     *)
(***************************************************************************)

-----------------------------------------------------------------------------
(* Why it holds                                                            *)

(* A service that finds the schema complete has nothing to do.             *)
CleanStaysIdle ==
    \A s \in Services : boot[s].clean =>
        /\ Whole /\ "fillable" \notin undated /\ ~boot[s].wrote
        /\ boot[s].pc = "create" => boot[s].todo = {}
        /\ boot[s].pc \notin {"alter", "update"}
        /\ ColumnsOf(boot[s].looked) \subseteq boot[s].seen

(* Tables are made in their order, so what a service still means to make   *)
(* is, up to some position, there already and missing from there on.       *)
MadeInOrder ==
    \A s \in Services : boot[s].pc = "create" =>
        /\ MissingTables(schema.tables) \subseteq boot[s].todo
        /\ \A i \in boot[s].todo \ MissingTables(schema.tables), j \in MissingTables(schema.tables) : i < j

(* As long as a table is missing, there is a service that will make it.    *)
Maker(s) ==
    boot[s].pc = "down" \/ (boot[s].pc = "create" /\ boot[s].todo = MissingTables(schema.tables))

SomebodyMakesThem == MissingTables(schema.tables) = {} \/ \E s \in Services : Maker(s)

(* No service is done with the columns of a table that lacks one.          *)
ColumnsToCome ==
    \A s \in Services : boot[s].pc \notin {"down", "create"} =>
        ColumnsOf(schema.tables) \ schema.columns \subseteq boot[s].todo

SeenIsThere == \A s \in Services : boot[s].seen \subseteq schema.columns

NotKilled == \A s \in Services : boot[s].killed # "duplicate"

SchemaInv ==
    /\ SchemaTypeOK /\ CleanStaysIdle /\ MadeInOrder /\ SomebodyMakesThem
    /\ ColumnsToCome /\ SeenIsThere /\ NotKilled

LEMMA Positions ==
  /\ DOMAIN Tables \in SUBSET Nat /\ DOMAIN Columns \in SUBSET Nat
  /\ \A i \in DOMAIN Columns : Columns[i].table \in Elements(Tables)
<1> DEFINE E == Elements(Tables)
<1> DEFINE R == [table : E, column : STRING]
<1>1. Tables \in Seq(E) /\ Columns \in Seq(R)
  BY SchemaAssumption
<1> HIDE DEF E, R
<1>2. DOMAIN Tables = 1 .. Len(Tables) /\ DOMAIN Columns = 1 .. Len(Columns)
  BY <1>1
<1>3. \A i \in DOMAIN Columns : Columns[i] \in R
  BY <1>1, <1>2
<1> QED BY <1>1, <1>2, <1>3 DEF E, R

(* Dealing with the first of what is to come.                              *)
LEMMA FirstToDo ==
  ASSUME NEW todo \in SUBSET Nat, todo # {}
  PROVE  /\ Min(todo) \in todo /\ \A i \in todo : Min(todo) <= i
         /\ Rest(todo) = todo \ {Min(todo)}
BY MinIsLeast DEF Rest

LEMMA SchemaInitInv == SchemaInit => SchemaInv
<1> SUFFICES ASSUME SchemaInit PROVE SchemaInv
  OBVIOUS
<1>1. PICK tables \in SUBSET Elements(Tables) : schema = [tables |-> tables, columns |-> {}]
  BY DEF SchemaInit
<1>2. boot = [s \in Services |-> Down] /\ locks = 0 /\ undated \subseteq {"fillable", "orphan"}
  BY DEF SchemaInit
<1>3. Down \in BootType
  BY DEF Down, BootType
<1>4. SchemaTypeOK
  <2>1. boot \in [Services -> BootType] /\ locks \in 0 .. MaxLocks
    BY <1>2, <1>3, SchemaAssumption
  <2>2. \A s \in Services : boot[s].pc = "down" /\ boot[s].todo = {}
    BY <1>2 DEF Down
  <2> QED BY <1>1, <1>2, <2>1, <2>2 DEF SchemaTypeOK
<1>5. CleanStaysIdle /\ MadeInOrder /\ ColumnsToCome /\ SeenIsThere /\ NotKilled
  BY <1>1, <1>2 DEF CleanStaysIdle, MadeInOrder, ColumnsToCome, SeenIsThere, NotKilled, Down
<1>6. SomebodyMakesThem
  BY <1>2, SchemaAssumption DEF SomebodyMakesThem, Maker, Down
<1> QED BY <1>4, <1>5, <1>6 DEF SchemaInv

(* What each step does: to the record of its service only.                 *)
Becomes(s, pc, todo, looked, seen, clean, wrote) ==
    /\ boot' \in [Services -> BootType]
    /\ \A x \in Services \ {s} : boot'[x] = boot[x]
    /\ boot'[s].pc = pc /\ boot'[s].todo = todo /\ boot'[s].looked = looked /\ boot'[s].seen = seen
    /\ boot'[s].clean = clean /\ boot'[s].wrote = wrote /\ boot'[s].killed # "duplicate"

LEMMA RecordTyped ==
  ASSUME SchemaTypeOK, NotKilled, NEW s \in Services
  PROVE  /\ boot \in [Services -> BootType] /\ boot[s] \in BootType
         /\ boot[s].pc \in {"down", "create", "look", "alter", "read", "update", "up"}
         /\ boot[s].todo \subseteq DOMAIN Tables \cup DOMAIN Columns
         /\ boot[s].todo \in SUBSET Nat
         /\ boot[s].looked \subseteq Elements(Tables) /\ boot[s].seen \subseteq DOMAIN Columns
         /\ boot[s].clean \in BOOLEAN /\ boot[s].wrote \in BOOLEAN
         /\ boot[s].killed \in {"no", "locked"}
         /\ schema.tables \subseteq Elements(Tables) /\ schema.columns \subseteq DOMAIN Columns
         /\ MissingTables(schema.tables) \subseteq DOMAIN Tables
         /\ ColumnsOf(schema.tables) \subseteq DOMAIN Columns
<1>1. boot[s] \in BootType
  BY DEF SchemaTypeOK
<1>2. boot[s].todo \subseteq DOMAIN Tables \cup DOMAIN Columns
  BY <1>1 DEF BootType
<1>3. boot[s].killed \in {"no", "locked"}
  BY <1>1 DEF BootType, NotKilled
<1> QED BY <1>1, <1>2, <1>3, Positions DEF BootType, SchemaTypeOK, MissingTables, ColumnsOf

LEMMA BootStep ==
  ASSUME SchemaTypeOK, NotKilled, NEW s \in Services, Boot(s)
  PROVE  /\ Becomes(s, "create", MissingTables(schema.tables), {}, {},
                     Whole /\ "fillable" \notin undated, FALSE)
         /\ UNCHANGED <<schema, undated, locks>>
<1> DEFINE clean == Whole /\ "fillable" \notin undated
<1> DEFINE r == [Down EXCEPT !.pc = "create", !.todo = MissingTables(schema.tables), !.clean = clean]
<1>1. boot' = [boot EXCEPT ![s] = r]
  BY DEF Boot
<1>2. clean \in BOOLEAN
  OBVIOUS
<1> HIDE DEF clean
<1>3. /\ r \in BootType /\ r.pc = "create" /\ r.todo = MissingTables(schema.tables) /\ r.looked = {} /\ r.seen = {}
      /\ r.clean = clean /\ r.wrote = FALSE /\ r.killed = "no"
  BY <1>2, RecordTyped DEF Down, BootType
<1> HIDE DEF r
<1> QED BY <1>1, <1>3, RecordTyped DEF Becomes, Boot, clean

LEMMA MigratingStep ==
  ASSUME SchemaTypeOK, NotKilled, NEW s \in Services, boot' = Migrating(s)
  PROVE  Becomes(s, "look", ColumnsOf(schema.tables), boot[s].looked, boot[s].seen, boot[s].clean, boot[s].wrote)
BY RecordTyped DEF Migrating, Becomes, BootType

LEMMA CreateTableStep ==
  ASSUME SchemaTypeOK, NotKilled, NEW s \in Services, CreateTable(s)
  PROVE  LET i == Min(boot[s].todo)
             t == Tables[i]
         IN  /\ boot[s].pc = "create" /\ i \in boot[s].todo /\ \A j \in boot[s].todo : i <= j
             /\ UNCHANGED <<undated, locks>>
             /\ \/ /\ t \in schema.tables /\ UNCHANGED schema /\ boot' = Migrating(s)
                \/ /\ t \notin schema.tables
                   /\ schema' = [tables |-> schema.tables \cup {t},
                                 columns |-> schema.columns \cup ColumnsOf({t})]
                   /\ Becomes(s, "create", boot[s].todo \ {i}, boot[s].looked, boot[s].seen,
                              boot[s].clean, TRUE)
<1>1. boot[s].pc = "create" /\ boot[s].todo # {} /\ UNCHANGED <<undated, locks>>
  BY DEF CreateTable
<1>2. /\ Min(boot[s].todo) \in boot[s].todo /\ \A j \in boot[s].todo : Min(boot[s].todo) <= j
      /\ Rest(boot[s].todo) = boot[s].todo \ {Min(boot[s].todo)}
  BY <1>1, FirstToDo, RecordTyped
<1>3. CASE Tables[Min(boot[s].todo)] \in schema.tables
  BY <1>1, <1>2, <1>3 DEF CreateTable
<1>4. CASE Tables[Min(boot[s].todo)] \notin schema.tables
  <2>1. /\ schema' = [tables |-> schema.tables \cup {Tables[Min(boot[s].todo)]},
                      columns |-> schema.columns \cup ColumnsOf({Tables[Min(boot[s].todo)]})]
        /\ boot' = [boot EXCEPT ![s].todo = Rest(@), ![s].wrote = TRUE]
    BY <1>4 DEF CreateTable
  <2>2. Becomes(s, "create", Rest(boot[s].todo), boot[s].looked, boot[s].seen, boot[s].clean, TRUE)
    BY <1>1, <1>2, <2>1, RecordTyped DEF Becomes, BootType
  <2> QED BY <1>1, <1>2, <1>4, <2>1, <2>2
<1> QED BY <1>3, <1>4

LEMMA LookStep ==
  ASSUME SchemaTypeOK, NotKilled, NEW s \in Services, Look(s)
  PROVE  LET i == Min(boot[s].todo)
             t == Columns[i].table
             seen == Shown(s, t)
         IN  /\ boot[s].pc = "look" /\ i \in boot[s].todo /\ i \in DOMAIN Columns
             /\ UNCHANGED <<schema, undated, locks>>
             /\ \/ /\ i \in seen
                   /\ Becomes(s, "look", boot[s].todo \ {i}, boot[s].looked \cup {t}, seen,
                              boot[s].clean, boot[s].wrote)
                \/ /\ i \notin seen
                   /\ Becomes(s, "alter", boot[s].todo, boot[s].looked \cup {t}, seen,
                              boot[s].clean, boot[s].wrote)
<1>1. boot[s].pc = "look" /\ boot[s].todo # {} /\ UNCHANGED <<schema, undated, locks>>
  BY DEF Look
<1> DEFINE i == Min(boot[s].todo)
           t == Columns[i].table
           seen == Shown(s, t)
<1>2. i \in boot[s].todo /\ Rest(boot[s].todo) = boot[s].todo \ {i}
  BY <1>1, FirstToDo, RecordTyped
<1>3. i \in DOMAIN Columns /\ t \in Elements(Tables)
  BY <1>1, <1>2, Positions DEF SchemaTypeOK, ColumnsOf
<1>4. seen \subseteq DOMAIN Columns
  BY RecordTyped DEF Shown
<1> DEFINE looked == boot[s].looked \cup {t}
           rest == Rest(boot[s].todo)
<1>5. boot' = [boot EXCEPT ![s].pc = IF i \in seen THEN "look" ELSE "alter",
                           ![s].todo = IF i \in seen THEN rest ELSE boot[s].todo,
                           ![s].looked = looked, ![s].seen = seen]
  BY DEF Look
<1>8. looked \subseteq Elements(Tables) /\ rest \in SUBSET (DOMAIN Tables \cup DOMAIN Columns)
  BY <1>2, <1>3, RecordTyped
<1> HIDE DEF i, t, seen, looked, rest
<1>6. CASE i \in seen
  <2>0. boot' = [boot EXCEPT ![s].pc = "look", ![s].todo = rest, ![s].looked = looked, ![s].seen = seen]
    BY <1>5, <1>6
  <2>1. Becomes(s, "look", rest, looked, seen, boot[s].clean, boot[s].wrote)
    BY <1>4, <1>8, <2>0, RecordTyped DEF Becomes, BootType
  <2> QED BY <1>1, <1>2, <1>3, <1>6, <2>1 DEF i, t, seen, looked, rest
<1>7. CASE i \notin seen
  <2>0. boot' = [boot EXCEPT ![s].pc = "alter", ![s].todo = boot[s].todo, ![s].looked = looked, ![s].seen = seen]
    BY <1>5, <1>7
  <2>1. Becomes(s, "alter", boot[s].todo, looked, seen, boot[s].clean, boot[s].wrote)
    BY <1>4, <1>8, <2>0, RecordTyped DEF Becomes, BootType
  <2> QED BY <1>1, <1>2, <1>3, <1>7, <2>1 DEF i, t, seen, looked
<1> QED BY <1>6, <1>7

LEMMA AlterStep ==
  ASSUME SchemaTypeOK, NotKilled, NEW s \in Services, Alter(s)
  PROVE  LET i == Min(boot[s].todo)
         IN  /\ boot[s].pc = "alter" /\ i \in boot[s].todo /\ i \in DOMAIN Columns /\ i \notin boot[s].seen
             /\ UNCHANGED <<undated, locks>>
             /\ \/ /\ i \in schema.columns /\ UNCHANGED schema
                   /\ Becomes(s, "look", boot[s].todo \ {i}, boot[s].looked, boot[s].seen,
                              boot[s].clean, boot[s].wrote)
                \/ /\ i \notin schema.columns
                   /\ schema' = [tables |-> schema.tables, columns |-> schema.columns \cup {i}]
                   /\ Becomes(s, "look", boot[s].todo \ {i}, boot[s].looked, boot[s].seen,
                              boot[s].clean, TRUE)
<1> DEFINE i == Min(boot[s].todo)
<1>1. /\ boot[s].pc = "alter" /\ boot[s].todo # {} /\ i \notin boot[s].seen
      /\ UNCHANGED <<undated, locks>>
  BY DEF Alter, SchemaTypeOK
<1>2. i \in boot[s].todo /\ Rest(boot[s].todo) = boot[s].todo \ {i}
  BY <1>1, FirstToDo, RecordTyped
<1>3. i \in DOMAIN Columns
  BY <1>1, <1>2 DEF SchemaTypeOK, ColumnsOf
<1>4. IF i \in schema.columns
      THEN /\ boot' = [boot EXCEPT ![s].pc = "look", ![s].todo = Rest(boot[s].todo)]
           /\ UNCHANGED schema
      ELSE /\ schema' = [schema EXCEPT !.columns = @ \cup {i}]
           /\ boot' = [boot EXCEPT ![s].pc = "look", ![s].todo = Rest(@), ![s].wrote = TRUE]
  BY DEF Alter, AlreadyThere, Go
<1> HIDE DEF i
<1>5. CASE i \in schema.columns
  <2>1. Becomes(s, "look", Rest(boot[s].todo), boot[s].looked, boot[s].seen, boot[s].clean, boot[s].wrote)
    BY <1>2, <1>4, <1>5, RecordTyped DEF Becomes, BootType
  <2> QED BY <1>1, <1>2, <1>3, <1>4, <1>5, <2>1 DEF i
<1>6. CASE i \notin schema.columns
  <2>1. Becomes(s, "look", Rest(boot[s].todo), boot[s].looked, boot[s].seen, boot[s].clean, TRUE)
    BY <1>2, <1>4, <1>6, RecordTyped DEF Becomes, BootType
  <2>2. schema' = [tables |-> schema.tables, columns |-> schema.columns \cup {i}]
    BY <1>4, <1>6 DEF SchemaTypeOK
  <2> QED BY <1>1, <1>2, <1>3, <1>6, <2>1, <2>2 DEF i
<1> QED BY <1>5, <1>6

(* The steps after the columns, and those that end a boot.                 *)
Ending(s) ==
    \/ Altered(s) \/ BackfillRead(s) \/ BackfillUpdate(s) \/ Locked(s) \/ StartAgain(s)

LEMMA EndingStep ==
  ASSUME SchemaTypeOK, NotKilled, NEW s \in Services, Ending(s)
  PROVE  /\ UNCHANGED schema /\ undated' \subseteq undated /\ locks' \in 0 .. MaxLocks
         /\ boot[s].pc # "down"
         /\ \/ Becomes(s, "down", {}, {}, {}, FALSE, FALSE)
            \/ /\ boot[s].pc = "look" /\ boot[s].todo = {}
               /\ Becomes(s, "read", {}, boot[s].looked, boot[s].seen, boot[s].clean, boot[s].wrote)
            \/ /\ boot[s].pc = "read" /\ "fillable" \in undated
               /\ Becomes(s, "update", {}, boot[s].looked, boot[s].seen, boot[s].clean, boot[s].wrote)
            \/ /\ boot[s].pc \in {"read", "update"}
               /\ Becomes(s, "up", {}, boot[s].looked, boot[s].seen, boot[s].clean, boot[s].wrote)
            \/ /\ boot[s].pc = "update"
               /\ Becomes(s, "up", boot[s].todo, boot[s].looked, boot[s].seen, boot[s].clean, TRUE)
<1> USE RecordTyped
<1>0. locks \in Nat /\ locks \in 0 .. MaxLocks /\ MaxLocks \in Nat
  BY SchemaAssumption DEF SchemaTypeOK
<1>1. CASE Altered(s)
  BY <1>0, <1>1 DEF Altered, Go, Becomes, BootType
<1>2. CASE BackfillRead(s)
  BY <1>0, <1>2 DEF BackfillRead, Go, Becomes, BootType
<1>3. CASE BackfillUpdate(s)
  BY <1>0, <1>3 DEF BackfillUpdate, Go, Becomes, BootType
<1>4. CASE Locked(s)
  <2>1. UNCHANGED <<schema, undated>> /\ locks' \in 0 .. MaxLocks
    BY <1>0, <1>4 DEF Locked
  <2>2. CASE boot[s].pc = "update" /\ boot' = Go(s, "up", {})
    <3>1. Becomes(s, "up", {}, boot[s].looked, boot[s].seen, boot[s].clean, boot[s].wrote)
      BY <2>2 DEF Go, Becomes, BootType
    <3> QED BY <2>1, <2>2, <3>1
  <2>3. CASE boot[s].pc \in {"alter", "create"} /\ boot' = [boot EXCEPT ![s] = [Down EXCEPT !.killed = "locked"]]
    <3> DEFINE r == [Down EXCEPT !.killed = "locked"]
    <3>1. /\ r \in BootType /\ r.pc = "down" /\ r.todo = {} /\ r.looked = {} /\ r.seen = {}
          /\ r.clean = FALSE /\ r.wrote = FALSE /\ r.killed = "locked"
      BY DEF Down, BootType
    <3>2. boot' = [boot EXCEPT ![s] = r]
      BY <2>3
    <3> HIDE DEF r
    <3>3. Becomes(s, "down", {}, {}, {}, FALSE, FALSE)
      BY <3>1, <3>2 DEF Becomes
    <3> QED BY <2>1, <2>3, <3>3
  <2> QED BY <1>4, <2>2, <2>3 DEF Locked
<1>5. CASE StartAgain(s)
  BY <1>0, <1>5 DEF StartAgain, Go, Becomes, BootType, Down
<1> QED BY <1>1, <1>2, <1>3, <1>4, <1>5 DEF Ending

(* A set of tables that are made in order stays so.                        *)
LEMMA MissingGrows ==
  ASSUME NEW tables, NEW t
  PROVE  MissingTables(tables \cup {t}) = {i \in MissingTables(tables) : Tables[i] # t}
BY DEF MissingTables

LEMMA MissingButOne ==
  ASSUME NEW tables, NEW i \in DOMAIN Tables, Tables[i] \notin tables
  PROVE  MissingTables(tables \cup {Tables[i]}) = MissingTables(tables) \ {i} /\ i \in MissingTables(tables)
BY SchemaAssumption DEF MissingTables

(* The schema only grows, and rows are only dated.                         *)
Grown ==
    /\ schema.tables \subseteq schema'.tables /\ schema.columns \subseteq schema'.columns
    /\ undated' \subseteq undated

LEMMA MigratingInv ==
  ASSUME SchemaInv, NEW s \in Services, boot' = Migrating(s), UNCHANGED <<schema, undated, locks>>,
         boot[s].pc = "create", MissingTables(schema.tables) # {} => ~Maker(s)
  PROVE  SchemaInv'
<1>1. /\ SchemaTypeOK /\ NotKilled /\ CleanStaysIdle /\ MadeInOrder /\ SomebodyMakesThem
      /\ ColumnsToCome /\ SeenIsThere
  BY DEF SchemaInv
<1>2. Becomes(s, "look", ColumnsOf(schema.tables), boot[s].looked, boot[s].seen, boot[s].clean, boot[s].wrote)
  BY <1>1, MigratingStep
<1>3. ColumnsOf(schema.tables) \subseteq DOMAIN Columns
  BY DEF ColumnsOf
<1>4. SchemaTypeOK'
  BY <1>1, <1>2, <1>3 DEF SchemaTypeOK, Becomes, ColumnsOf
<1>5. CleanStaysIdle'
  BY <1>1, <1>2 DEF CleanStaysIdle, Becomes, Whole, ColumnsOf
<1>6. MadeInOrder'
  BY <1>1, <1>2 DEF MadeInOrder, Becomes, MissingTables
<1>7. SomebodyMakesThem'
  BY <1>1, <1>2 DEF SomebodyMakesThem, Maker, Becomes, MissingTables
<1>8. ColumnsToCome'
  BY <1>1, <1>2 DEF ColumnsToCome, Becomes, ColumnsOf
<1>9. SeenIsThere' /\ NotKilled'
  BY <1>1, <1>2 DEF SeenIsThere, NotKilled, Becomes
<1> QED BY <1>4, <1>5, <1>6, <1>7, <1>8, <1>9 DEF SchemaInv

LEMMA BootInv ==
  ASSUME SchemaInv, NEW s \in Services, Boot(s)
  PROVE  SchemaInv'
<1>1. /\ SchemaTypeOK /\ NotKilled /\ CleanStaysIdle /\ MadeInOrder /\ SomebodyMakesThem
      /\ ColumnsToCome /\ SeenIsThere
  BY DEF SchemaInv
<1> DEFINE clean == Whole /\ "fillable" \notin undated
<1>2. /\ Becomes(s, "create", MissingTables(schema.tables), {}, {}, clean, FALSE)
      /\ UNCHANGED <<schema, undated, locks>>
  BY <1>1, BootStep
<1>3. clean => MissingTables(schema.tables) = {} /\ Whole /\ "fillable" \notin undated
  BY DEF Whole, MissingTables, Elements
<1> HIDE DEF clean
<1>4. SchemaTypeOK'
  BY <1>1, <1>2 DEF SchemaTypeOK, Becomes, ColumnsOf, MissingTables
<1>5. CleanStaysIdle'
  BY <1>1, <1>2, <1>3 DEF CleanStaysIdle, Becomes, Whole, ColumnsOf
<1>6. MadeInOrder'
  BY <1>1, <1>2 DEF MadeInOrder, Becomes, MissingTables
<1>7. SomebodyMakesThem'
  <2>1. Maker(s)'
    BY <1>2 DEF Maker, Becomes, MissingTables
  <2> QED BY <2>1 DEF SomebodyMakesThem
<1>8. ColumnsToCome'
  BY <1>1, <1>2 DEF ColumnsToCome, Becomes, ColumnsOf
<1>9. SeenIsThere' /\ NotKilled'
  BY <1>1, <1>2 DEF SeenIsThere, NotKilled, Becomes
<1> QED BY <1>4, <1>5, <1>6, <1>7, <1>8, <1>9 DEF SchemaInv

LEMMA CreateTableInv ==
  ASSUME SchemaInv, NEW s \in Services, CreateTable(s)
  PROVE  SchemaInv'
<1>1. /\ SchemaTypeOK /\ NotKilled /\ CleanStaysIdle /\ MadeInOrder /\ SomebodyMakesThem
      /\ ColumnsToCome /\ SeenIsThere
  BY DEF SchemaInv
<1> DEFINE i == Min(boot[s].todo)
           t == Tables[i]
<1>2. /\ boot[s].pc = "create" /\ i \in boot[s].todo /\ \A j \in boot[s].todo : i <= j
      /\ UNCHANGED <<undated, locks>>
      /\ \/ /\ t \in schema.tables /\ UNCHANGED schema /\ boot' = Migrating(s)
         \/ /\ t \notin schema.tables
            /\ schema' = [tables |-> schema.tables \cup {t},
                          columns |-> schema.columns \cup ColumnsOf({t})]
            /\ Becomes(s, "create", boot[s].todo \ {i}, boot[s].looked, boot[s].seen,
                       boot[s].clean, TRUE)
  BY <1>1, CreateTableStep
<1>3. i \in DOMAIN Tables /\ t \in Elements(Tables)
  BY <1>1, <1>2 DEF SchemaTypeOK, Elements
<1> HIDE DEF i
<1>4. CASE t \in schema.tables
  <2>1. MissingTables(schema.tables) # {} => ~Maker(s)
    BY <1>2, <1>4 DEF Maker, MissingTables
  <2> QED BY <1>2, <1>4, <2>1, MigratingInv
<1>5. CASE t \notin schema.tables
  <2>1. /\ schema' = [tables |-> schema.tables \cup {t}, columns |-> schema.columns \cup ColumnsOf({t})]
        /\ Becomes(s, "create", boot[s].todo \ {i}, boot[s].looked, boot[s].seen, boot[s].clean, TRUE)
        /\ UNCHANGED <<undated, locks>>
    BY <1>2, <1>5
  <2>2. /\ MissingTables(schema'.tables) = MissingTables(schema.tables) \ {i} /\ i \in MissingTables(schema.tables)
        /\ MissingTables(schema.tables)' = MissingTables(schema.tables) \ {i}
    <3>1. schema'.tables = schema.tables \cup {t}
      BY <2>1
    <3>2. MissingTables(schema.tables \cup {t}) = MissingTables(schema.tables) \ {i} /\ i \in MissingTables(schema.tables)
      BY <1>3, <1>5, MissingButOne
    <3> QED BY <3>1, <3>2 DEF MissingTables
  <2>3. ~boot[s].clean /\ \A x \in Services : ~boot[x].clean
    BY <1>1, <1>3, <1>5 DEF CleanStaysIdle, Whole
  <2>4. ColumnsOf(schema'.tables) = ColumnsOf(schema.tables) \cup ColumnsOf({t})
        /\ ColumnsOf({t}) \subseteq DOMAIN Columns
        /\ ColumnsOf(schema.tables)' = ColumnsOf(schema.tables) \cup ColumnsOf({t})
    BY <2>1 DEF ColumnsOf
  <2>5. SchemaTypeOK'
    <3>1. schema' \in [tables : SUBSET Elements(Tables), columns : SUBSET DOMAIN Columns]
          /\ schema'.columns \subseteq ColumnsOf(schema.tables)'
      BY <1>1, <1>3, <2>1, <2>4 DEF SchemaTypeOK
    <3>2. \A x \in Services :
            /\ boot'[x].pc = "create" => boot'[x].todo \subseteq DOMAIN Tables
            /\ boot'[x].pc \in {"look", "alter"} => boot'[x].todo \subseteq ColumnsOf(schema.tables)'
            /\ boot'[x].pc \notin {"create", "look", "alter"} => boot'[x].todo = {}
            /\ boot'[x].pc = "alter" => boot'[x].todo # {} /\ Min(boot'[x].todo) \notin boot'[x].seen
      BY <1>1, <1>2, <2>1, <2>4 DEF SchemaTypeOK, Becomes
    <3> QED BY <1>1, <2>1, <3>1, <3>2 DEF SchemaTypeOK, Becomes
  <2>6. CleanStaysIdle'
    BY <2>1, <2>3 DEF CleanStaysIdle, Becomes
  <2>11. boot[s].todo = MissingTables(schema.tables)
    <3>1. \A j \in boot[s].todo : j \in Nat /\ i \in Nat /\ i <= j
      BY <1>1, <1>2, RecordTyped
    <3>2. /\ MissingTables(schema.tables) \subseteq boot[s].todo
          /\ \A j \in boot[s].todo \ MissingTables(schema.tables) : j < i
      BY <1>1, <1>2, <2>2 DEF MadeInOrder
    <3>3. \A j \in boot[s].todo : j \in MissingTables(schema.tables)
      BY <3>1, <3>2
    <3> QED BY <3>2, <3>3
  <2>7. MadeInOrder'
    <3>1. \A j \in MissingTables(schema.tables) : j \in Nat /\ i \in Nat /\ i <= j
      BY <1>1, <1>2, <2>11, RecordTyped
    <3>2. ASSUME NEW x \in Services, boot'[x].pc = "create"
          PROVE  /\ MissingTables(schema.tables)' \subseteq boot'[x].todo
                 /\ \A a \in boot'[x].todo \ MissingTables(schema.tables)', b \in MissingTables(schema.tables)' : a < b
      <4>1. CASE x = s
        <5>1. boot'[x].todo = MissingTables(schema.tables)'
          BY <2>1, <2>2, <2>11, <4>1 DEF Becomes
        <5> QED BY <5>1
      <4>2. CASE x # s
        <5>1. boot'[x] = boot[x]
          BY <2>1, <4>2 DEF Becomes
        <5>2. /\ MissingTables(schema.tables) \subseteq boot[x].todo
              /\ \A a \in boot[x].todo \ MissingTables(schema.tables), b \in MissingTables(schema.tables) : a < b
          BY <1>1, <3>2, <5>1 DEF MadeInOrder
        <5>3. ASSUME NEW a \in boot[x].todo \ MissingTables(schema.tables)', NEW b \in MissingTables(schema.tables)'
              PROVE  a < b
          <6>1. b \in MissingTables(schema.tables) /\ b # i
            BY <2>2
          <6>2. CASE a = i
            BY <3>1, <6>1, <6>2
          <6>3. CASE a # i
            BY <2>2, <5>2, <6>1, <6>3
          <6> QED BY <6>2, <6>3
        <5> QED BY <2>2, <5>1, <5>2, <5>3
      <4> QED BY <4>1, <4>2
    <3> QED BY <3>2 DEF MadeInOrder
  <2>8. SomebodyMakesThem'
    <3>2. Maker(s)'
      BY <2>1, <2>2, <2>11 DEF Maker, Becomes
    <3> QED BY <3>2 DEF SomebodyMakesThem
  <2>9. ColumnsToCome'
    BY <1>1, <2>1, <2>4 DEF ColumnsToCome, Becomes
  <2>10. SeenIsThere' /\ NotKilled'
    BY <1>1, <2>1 DEF SeenIsThere, NotKilled, Becomes
  <2> QED BY <2>5, <2>6, <2>7, <2>8, <2>9, <2>10 DEF SchemaInv
<1> QED BY <1>4, <1>5

LEMMA CreatedInv ==
  ASSUME SchemaInv, NEW s \in Services, Created(s)
  PROVE  SchemaInv'
<1>1. MissingTables(schema.tables) # {} => ~Maker(s)
  BY DEF Created, Maker
<1> QED BY <1>1, MigratingInv DEF Created

LEMMA LookInv ==
  ASSUME SchemaInv, NEW s \in Services, Look(s)
  PROVE  SchemaInv'
<1>1. /\ SchemaTypeOK /\ NotKilled /\ CleanStaysIdle /\ MadeInOrder /\ SomebodyMakesThem
      /\ ColumnsToCome /\ SeenIsThere
  BY DEF SchemaInv
<1> DEFINE i == Min(boot[s].todo)
           t == Columns[i].table
           seen == Shown(s, t)
<1>2. /\ boot[s].pc = "look" /\ i \in boot[s].todo /\ i \in DOMAIN Columns
      /\ UNCHANGED <<schema, undated, locks>>
      /\ \/ /\ i \in seen
            /\ Becomes(s, "look", boot[s].todo \ {i}, boot[s].looked \cup {t}, seen,
                       boot[s].clean, boot[s].wrote)
         \/ /\ i \notin seen
            /\ Becomes(s, "alter", boot[s].todo, boot[s].looked \cup {t}, seen,
                       boot[s].clean, boot[s].wrote)
  BY <1>1, LookStep
<1>3. seen \subseteq schema.columns /\ boot[s].seen \subseteq seen
  BY <1>1 DEF Shown, SeenIsThere
<1>4. i \in ColumnsOf({t})
  BY <1>2 DEF ColumnsOf
<1>5. boot[s].clean => ColumnsOf(boot[s].looked \cup {t}) \subseteq seen
  <2>1. SUFFICES ASSUME boot[s].clean, NEW j \in ColumnsOf(boot[s].looked \cup {t}) PROVE j \in seen
    OBVIOUS
  <2>2. ColumnsOf(boot[s].looked) \subseteq boot[s].seen /\ schema.columns = DOMAIN Columns
    BY <1>1, <2>1 DEF CleanStaysIdle, Whole
  <2>3. j \in DOMAIN Columns /\ (j \in ColumnsOf(boot[s].looked) \/ j \in ColumnsOf({t}))
    BY DEF ColumnsOf
  <2>4. CASE j \in ColumnsOf(boot[s].looked)
    BY <1>3, <2>2, <2>4
  <2>5. CASE j \in ColumnsOf({t})
    <3>1. CASE t \in boot[s].looked
      <4>1. j \in ColumnsOf(boot[s].looked)
        BY <2>5, <3>1 DEF ColumnsOf
      <4> QED BY <1>3, <2>2, <4>1
    <3>2. CASE t \notin boot[s].looked
      BY <2>2, <2>3, <2>5, <3>2 DEF Shown
    <3> QED BY <3>1, <3>2
  <2> QED BY <2>3, <2>4, <2>5
<1>6. boot[s].clean => i \in seen
  BY <1>4, <1>5 DEF ColumnsOf
<1> HIDE DEF seen, t
<1>7. SchemaTypeOK'
  <2>1. i \notin seen => boot[s].todo # {} /\ Min(boot[s].todo) \notin seen
    BY <1>2
  <2> HIDE DEF i
  <2> QED BY <1>1, <1>2, <2>1 DEF SchemaTypeOK, Becomes, ColumnsOf
<1> HIDE DEF i
<1>8. CleanStaysIdle'
  BY <1>1, <1>2, <1>5, <1>6 DEF CleanStaysIdle, Becomes, Whole, ColumnsOf
<1>9. MadeInOrder'
  BY <1>1, <1>2 DEF MadeInOrder, Becomes, MissingTables
<1>10. SomebodyMakesThem'
  BY <1>1, <1>2 DEF SomebodyMakesThem, Maker, Becomes, MissingTables
<1>11. ColumnsToCome'
  BY <1>1, <1>2, <1>3 DEF ColumnsToCome, Becomes, ColumnsOf
<1>12. SeenIsThere' /\ NotKilled'
  BY <1>1, <1>2, <1>3 DEF SeenIsThere, NotKilled, Becomes
<1> QED BY <1>7, <1>8, <1>9, <1>10, <1>11, <1>12 DEF SchemaInv

LEMMA AlterInv ==
  ASSUME SchemaInv, NEW s \in Services, Alter(s)
  PROVE  SchemaInv'
<1>1. /\ SchemaTypeOK /\ NotKilled /\ CleanStaysIdle /\ MadeInOrder /\ SomebodyMakesThem
      /\ ColumnsToCome /\ SeenIsThere
  BY DEF SchemaInv
<1> DEFINE i == Min(boot[s].todo)
<1>2. /\ boot[s].pc = "alter" /\ i \in boot[s].todo /\ i \in DOMAIN Columns /\ i \notin boot[s].seen
      /\ UNCHANGED <<undated, locks>>
      /\ \/ /\ i \in schema.columns /\ UNCHANGED schema
            /\ Becomes(s, "look", boot[s].todo \ {i}, boot[s].looked, boot[s].seen,
                       boot[s].clean, boot[s].wrote)
         \/ /\ i \notin schema.columns
            /\ schema' = [tables |-> schema.tables, columns |-> schema.columns \cup {i}]
            /\ Becomes(s, "look", boot[s].todo \ {i}, boot[s].looked, boot[s].seen,
                       boot[s].clean, TRUE)
  BY <1>1, AlterStep
<1> HIDE DEF i
<1>3. ~boot[s].clean
  BY <1>1, <1>2 DEF CleanStaysIdle
<1>4. /\ schema'.tables = schema.tables
      /\ schema'.columns \in {schema.columns, schema.columns \cup {i}} /\ i \in schema'.columns
      /\ schema' \in [tables : SUBSET Elements(Tables), columns : SUBSET DOMAIN Columns]
  <2>1. CASE i \in schema.columns
    BY <1>1, <1>2, <2>1 DEF SchemaTypeOK
  <2>2. CASE i \notin schema.columns
    <3>1. schema' = [tables |-> schema.tables, columns |-> schema.columns \cup {i}]
      BY <1>2, <2>2
    <3>2. schema.tables \subseteq Elements(Tables) /\ schema.columns \cup {i} \subseteq DOMAIN Columns
      BY <1>1, <1>2 DEF SchemaTypeOK
    <3> QED BY <3>1, <3>2
  <2> QED BY <2>1, <2>2
<1>5. i \notin schema.columns => ~Whole
  BY <1>2 DEF Whole
<1>6. /\ boot' \in [Services -> BootType] /\ \A x \in Services \ {s} : boot'[x] = boot[x]
      /\ boot'[s].pc = "look" /\ boot'[s].todo = boot[s].todo \ {i} /\ boot'[s].seen = boot[s].seen
      /\ ~boot'[s].clean /\ boot'[s].killed # "duplicate"
  BY <1>2, <1>3 DEF Becomes
<1>7. SchemaTypeOK'
  <2>1. i \in ColumnsOf(schema.tables)
    BY <1>1, <1>2 DEF SchemaTypeOK
  <2> QED BY <1>1, <1>2, <1>4, <1>6, <2>1 DEF SchemaTypeOK, ColumnsOf
<1>8. CleanStaysIdle'
  BY <1>1, <1>2, <1>4, <1>5, <1>6 DEF CleanStaysIdle, Whole, ColumnsOf
<1>9. MadeInOrder'
  BY <1>1, <1>4, <1>6 DEF MadeInOrder, MissingTables
<1>10. SomebodyMakesThem'
  BY <1>1, <1>2, <1>4, <1>6 DEF SomebodyMakesThem, Maker, MissingTables
<1>11. ColumnsToCome'
  BY <1>1, <1>2, <1>4, <1>6 DEF ColumnsToCome, ColumnsOf
<1>12. SeenIsThere' /\ NotKilled'
  BY <1>1, <1>4, <1>6 DEF SeenIsThere, NotKilled
<1> QED BY <1>7, <1>8, <1>9, <1>10, <1>11, <1>12 DEF SchemaInv

LEMMA EndingInv ==
  ASSUME SchemaInv, NEW s \in Services, Ending(s)
  PROVE  SchemaInv'
<1>1. /\ SchemaTypeOK /\ NotKilled /\ CleanStaysIdle /\ MadeInOrder /\ SomebodyMakesThem
      /\ ColumnsToCome /\ SeenIsThere
  BY DEF SchemaInv
<1>2. /\ UNCHANGED schema /\ undated' \subseteq undated /\ locks' \in 0 .. MaxLocks
      /\ \A x \in Services \ {s} : boot'[x] = boot[x]
      /\ boot' \in [Services -> BootType] /\ boot'[s].killed # "duplicate"
      /\ boot'[s].pc \in {"down", "read", "update", "up"}
      /\ boot'[s].pc = "down" => /\ boot'[s].todo = {} /\ boot'[s].seen = {} /\ boot'[s].clean = FALSE
      /\ boot'[s].pc # "down" => /\ boot'[s].clean = boot[s].clean /\ boot'[s].seen = boot[s].seen
                                 /\ boot'[s].looked = boot[s].looked
                                 /\ boot[s].pc \in {"look", "read", "update"}
                                 /\ boot[s].todo = {}
                                 /\ boot[s].clean => boot'[s].wrote = boot[s].wrote
                                                     /\ boot'[s].pc # "update"
      /\ boot'[s].todo = {}
  BY <1>1, EndingStep DEF Becomes, CleanStaysIdle, SchemaTypeOK
<1>3. SchemaTypeOK'
  <2>1. ColumnsOf(schema.tables)' = ColumnsOf(schema.tables)
    BY <1>2 DEF ColumnsOf
  <2>2. ASSUME NEW x \in Services
        PROVE  /\ boot'[x].pc = "create" => boot'[x].todo \subseteq DOMAIN Tables
               /\ boot'[x].pc \in {"look", "alter"} => boot'[x].todo \subseteq ColumnsOf(schema.tables)'
               /\ boot'[x].pc \notin {"create", "look", "alter"} => boot'[x].todo = {}
               /\ boot'[x].pc = "alter" => boot'[x].todo # {} /\ Min(boot'[x].todo) \notin boot'[x].seen
    <3>1. CASE x = s
      BY <1>2, <3>1
    <3>2. CASE x # s
      <4>1. boot'[x] = boot[x]
        BY <1>2, <3>2
      <4> QED BY <1>1, <2>1, <4>1 DEF SchemaTypeOK
    <3> QED BY <3>1, <3>2
  <2> QED BY <1>1, <1>2, <2>1, <2>2 DEF SchemaTypeOK
<1>4. CleanStaysIdle'
  BY <1>1, <1>2 DEF CleanStaysIdle, Whole, ColumnsOf
<1>5. MadeInOrder'
  BY <1>1, <1>2 DEF MadeInOrder, MissingTables
<1>6. SomebodyMakesThem'
  BY <1>1, <1>2 DEF SomebodyMakesThem, Maker, MissingTables
<1>8. SeenIsThere' /\ NotKilled'
  BY <1>1, <1>2 DEF SeenIsThere, NotKilled
<1>7. ColumnsToCome'
  BY <1>1, <1>2 DEF ColumnsToCome, ColumnsOf
<1> QED BY <1>3, <1>4, <1>5, <1>6, <1>7, <1>8 DEF SchemaInv

(* The invariant holds throughout.                                         *)
LEMMA SchemaInvHolds == SchemaSpec => []SchemaInv
<1>1. SchemaInv /\ [SchemaNext]_schemaVars => SchemaInv'
  <2> SUFFICES ASSUME SchemaInv, [SchemaNext]_schemaVars PROVE SchemaInv'
    OBVIOUS
  <2>1. CASE UNCHANGED schemaVars
    BY <2>1 DEF schemaVars, SchemaInv, SchemaTypeOK, CleanStaysIdle, MadeInOrder, SomebodyMakesThem,
         ColumnsToCome, SeenIsThere, NotKilled, Maker, Whole, MissingTables, ColumnsOf
  <2>2. CASE SchemaNext
    <3>1. PICK s \in Services :
            Boot(s) \/ CreateTable(s) \/ Created(s) \/ Look(s) \/ Alter(s) \/ Ending(s)
      BY <2>2 DEF SchemaNext, Ending
    <3> QED BY <3>1, BootInv, CreateTableInv, CreatedInv, LookInv, AlterInv, EndingInv
  <2> QED BY <2>1, <2>2
<1> QED BY <1>1, SchemaInitInv, PTL DEF SchemaSpec

(* Services that start together on one file come up together: none ends    *)
(* because another was first, the schema is complete once all run, and one *)
(* that finds it complete writes nothing, for any services, tables and     *)
(* columns (init_engine).                                                  *)
THEOREM ServicesBootTogether == SchemaSpec => []BootsTogether
<1>1. SchemaInv => BootsTogether
  <2> SUFFICES ASSUME SchemaInv PROVE BootsTogether
    OBVIOUS
  <2>1. \A s \in Services : boot[s].killed # "duplicate" /\ (boot[s].clean => ~boot[s].wrote)
    BY DEF SchemaInv, NotKilled, CleanStaysIdle
  <2>2. ASSUME \A s \in Services : boot[s].pc = "up" PROVE Whole
    <3>1. MissingTables(schema.tables) = {}
      BY <2>2 DEF SchemaInv, SomebodyMakesThem, Maker
    <3>2. schema.tables = Elements(Tables)
      BY <3>1 DEF SchemaInv, SchemaTypeOK, MissingTables, Elements
    <3>3. PICK s \in Services : TRUE
      BY SchemaAssumption
    <3>4. ColumnsOf(schema.tables) \subseteq schema.columns
      BY <2>2, <3>3 DEF SchemaInv, ColumnsToCome, SchemaTypeOK
    <3>5. ColumnsOf(schema.tables) = DOMAIN Columns
      BY <3>2, Positions DEF ColumnsOf
    <3> QED BY <3>2, <3>4, <3>5 DEF Whole, SchemaInv, SchemaTypeOK
  <2> QED BY <2>1, <2>2 DEF BootsTogether
<1> QED BY <1>1, SchemaInvHolds, PTL

(* The file, the services and what each is about stay of their types, and  *)
(* no column is of a table that is not there.                              *)
THEOREM SchemaIsTyped == SchemaSpec => []SchemaTypeOK
<1>1. SchemaInv => SchemaTypeOK
  BY DEF SchemaInv
<1> QED BY <1>1, SchemaInvHolds, PTL

-----------------------------------------------------------------------------
(***************************************************************************)
(* ApiClient: any jobs, calls, limit, window and quota.                    *)
(***************************************************************************)

(* Every request of the window has its stamp: those sent are the newest of *)
(* the stamps, in the same order.                                          *)
Stamped(c) ==
    /\ Len(c.sent) <= Len(c.stamps)
    /\ \A i \in 1 .. Len(c.sent) : c.sent[i] = c.stamps[Len(c.stamps) - Len(c.sent) + i]

OldestFirst(ages) == \A i, k \in 1 .. Len(ages) : i <= k => ages[k] <= ages[i]

(* Calls to come are the last of those a job makes.                        *)
LastCalls(calls) ==
    calls \in Seq(Paths) /\ Len(calls) <= Len(Calls)
    /\ calls = SubSeq(Calls, Len(Calls) - Len(calls) + 1, Len(Calls))

Good(c) ==
    /\ c \in ClientType /\ LastCalls(c.calls)
    /\ c.pc # "idle" => c.calls # << >>
    /\ Len(c.stamps) <= Limit /\ Stamped(c) /\ OldestFirst(c.stamps)

GrantedInOrder ==
    granted \in Seq(0 .. Window - 1) /\ Len(granted) <= Quota /\ OldestFirst(granted)

ClientInv ==
    client \in [Clients -> ClientType] /\ (\A j \in Clients : Good(client[j])) /\ GrantedInOrder

LEMMA OlderTyped ==
  ASSUME NEW old \in Nat, NEW age \in 0 .. old
  PROVE  Older(age, old) \in 0 .. old /\ Older(age, old) >= age
BY DEF Older

(* A sequence is of what its elements are of.                              *)
LEMMA SequenceOf ==
  ASSUME NEW S, NEW T, NEW seq \in Seq(S), \A i \in 1 .. Len(seq) : seq[i] \in T
  PROVE  seq \in Seq(T)
<1>1. Len(seq) \in Nat /\ seq \in [1 .. Len(seq) -> S]
  BY LenProperties
<1>2. seq \in [1 .. Len(seq) -> T]
  BY <1>1
<1> QED BY <1>1, <1>2

(* What is left of a list of ages is its end.                              *)
LEMMA WindowIsEnd ==
  ASSUME NEW ages \in Seq(0 .. Window)
  PROVE  \E k \in 0 .. Len(ages) :
            /\ InWindow(ages) = SubSeq(ages, k + 1, Len(ages))
            /\ InWindow(ages) \in Seq(0 .. Window - 1) /\ Len(InWindow(ages)) = Len(ages) - k
            /\ \A i \in 1 .. Len(ages) - k : InWindow(ages)[i] = ages[k + i]
<1> DEFINE T == {n \in 0 .. Len(ages) : \A i \in n + 1 .. Len(ages) : ages[i] < Window}
           k == Min(T)
<1>0. Len(ages) \in Nat /\ Window \in Nat
  BY ClientAssumption
<1>1. Len(ages) \in T
  BY <1>0
<1>2. k \in T
  <2>1. T \in SUBSET Nat
    BY <1>0
  <2> HIDE DEF T
  <2> QED BY <1>1, <2>1, MinIsLeast
<1>3. InWindow(ages) = SubSeq(ages, k + 1, Len(ages))
  BY DEF InWindow
<1>4. k \in 0 .. Len(ages) /\ \A i \in k + 1 .. Len(ages) : ages[i] < Window
  BY <1>2
<1> HIDE DEF k, T
<1> DEFINE w == SubSeq(ages, k + 1, Len(ages))
<1> DEFINE A == 0 .. Window
<1>8. ages \in Seq(A)
  OBVIOUS
<1>5. w \in Seq(A) /\ Len(w) = Len(ages) - k /\ \A i \in 1 .. Len(ages) - k : w[i] = ages[k + i]
  <2> HIDE DEF A
  <2> QED BY <1>0, <1>4, <1>8
<1>6. \A i \in 1 .. Len(w) : w[i] \in 0 .. Window - 1
  <2>1. ASSUME NEW i \in 1 .. Len(ages) - k PROVE ages[k + i] \in A /\ ages[k + i] < Window
    <3>1. k + i \in 1 .. Len(ages) /\ k + i \in k + 1 .. Len(ages)
      BY <1>0, <1>4
    <3> HIDE DEF A
    <3> QED BY <1>4, <1>8, <3>1, ElementOfSeq
  <2> HIDE DEF w
  <2>2. SUFFICES ASSUME NEW i \in 1 .. Len(w) PROVE w[i] \in 0 .. Window - 1
    OBVIOUS
  <2>3. i \in 1 .. Len(ages) - k /\ w[i] = ages[k + i]
    BY <1>5
  <2>4. ages[k + i] \in 0 .. Window /\ ages[k + i] < Window
    BY <2>1, <2>3
  <2> QED BY <1>0, <2>3, <2>4
<1>7. w \in Seq(0 .. Window - 1)
  <2> HIDE DEF w, A
  <2> QED BY <1>5, <1>6, SequenceOf
<1> QED BY <1>3, <1>4, <1>5, <1>7

LEMMA AgedTyped ==
  ASSUME NEW ages \in Seq(0 .. Window)
  PROVE  /\ OlderAll(ages) \in Seq(0 .. Window) /\ Len(OlderAll(ages)) = Len(ages)
         /\ \A i \in 1 .. Len(ages) : OlderAll(ages)[i] = Older(ages[i], Window)
<1>0. Window \in Nat
  BY ClientAssumption
<1>1. ASSUME NEW i \in 1 .. Len(ages) PROVE Older(ages[i], Window) \in 0 .. Window
  <2>1. ages[i] \in 0 .. Window
    BY ElementOfSeq
  <2> QED BY <1>0, <2>1, OlderTyped
<1> DEFINE A == 0 .. Window
<1>2. Len(ages) \in Nat /\ DOMAIN ages = 1 .. Len(ages)
  BY LenProperties
<1>3. OlderAll(ages) = [i \in 1 .. Len(ages) |-> Older(ages[i], Window)]
  BY <1>2 DEF OlderAll
<1>4. OlderAll(ages) \in [1 .. Len(ages) -> A]
  BY <1>1, <1>3
<1>5. OlderAll(ages) \in Seq(A) /\ Len(OlderAll(ages)) = Len(ages)
  <2> HIDE DEF A
  <2> QED BY <1>2, <1>4
<1> QED BY <1>3, <1>5

LEMMA OrderKept ==
  ASSUME NEW ages \in Seq(0 .. Window), OldestFirst(ages)
  PROVE  OldestFirst(OlderAll(ages)) /\ OldestFirst(InWindow(OlderAll(ages)))
<1>0. Window \in Nat
  BY ClientAssumption
<1>1. OldestFirst(OlderAll(ages))
  <2>1. \A i \in 1 .. Len(ages) : ages[i] \in 0 .. Window
    BY ElementOfSeq
  <2> QED BY <1>0, <2>1, AgedTyped DEF OldestFirst, Older
<1> DEFINE old == OlderAll(ages)
<1>2. old \in Seq(0 .. Window)
  BY AgedTyped
<1> HIDE DEF old
<1>3. PICK k \in 0 .. Len(old) :
         /\ Len(InWindow(old)) = Len(old) - k
         /\ \A i \in 1 .. Len(old) - k : InWindow(old)[i] = old[k + i]
  BY <1>2, WindowIsEnd
<1>4. OldestFirst(old)
  BY <1>1 DEF old
<1>5. OldestFirst(InWindow(old))
  <2> DEFINE w == InWindow(old)
  <2>1. SUFFICES ASSUME NEW i \in 1 .. Len(w), NEW n \in 1 .. Len(w), i <= n PROVE w[n] <= w[i]
    BY DEF OldestFirst
  <2>2. Len(old) \in Nat
    BY <1>2
  <2>3. w[i] = old[k + i] /\ w[n] = old[k + n]
    BY <1>3
  <2>4. k + i \in 1 .. Len(old) /\ k + n \in 1 .. Len(old) /\ k + i <= k + n
    BY <1>3, <2>1, <2>2
  <2> HIDE DEF w
  <2> QED BY <1>4, <2>3, <2>4 DEF OldestFirst
<1> QED BY <1>1, <1>5 DEF old

(* Ageing the stamps and the requests keeps the requests stamped.          *)
LEMMA AgingKeepsStamps ==
  ASSUME NEW stamps \in Seq(0 .. Window), NEW sent \in Seq(0 .. Window - 1),
         Stamped([stamps |-> stamps, sent |-> sent])
  PROVE  Stamped([stamps |-> OlderAll(stamps), sent |-> InWindow(OlderAll(sent))])
<1>0. Window \in Nat /\ sent \in Seq(0 .. Window)
  BY ClientAssumption
<1> DEFINE s == OlderAll(stamps)  o == OlderAll(sent)  w == InWindow(o)
<1>1. /\ s \in Seq(0 .. Window) /\ Len(s) = Len(stamps)
      /\ \A i \in 1 .. Len(stamps) : s[i] = Older(stamps[i], Window)
  BY AgedTyped
<1>2. /\ o \in Seq(0 .. Window) /\ Len(o) = Len(sent)
      /\ \A i \in 1 .. Len(sent) : o[i] = Older(sent[i], Window)
  BY <1>0, AgedTyped
<1> HIDE DEF s, o
<1>3. PICK k \in 0 .. Len(o) : /\ Len(w) = Len(o) - k
                               /\ \A i \in 1 .. Len(o) - k : w[i] = o[k + i]
  BY <1>2, WindowIsEnd
<1> HIDE DEF w
<1>4. /\ Len(sent) <= Len(stamps) /\ Len(sent) \in Nat /\ Len(stamps) \in Nat
      /\ \A i \in 1 .. Len(sent) : sent[i] = stamps[Len(stamps) - Len(sent) + i]
  BY DEF Stamped
<1>5. Len(w) <= Len(s)
  BY <1>1, <1>2, <1>3, <1>4
<1>6. ASSUME NEW i \in 1 .. Len(w) PROVE w[i] = s[Len(s) - Len(w) + i]
  <2>1. k + i \in 1 .. Len(sent) /\ w[i] = o[k + i]
    BY <1>2, <1>3, <1>4
  <2>2. o[k + i] = Older(stamps[Len(stamps) - Len(sent) + (k + i)], Window)
    BY <1>2, <1>4, <2>1
  <2>3. Len(stamps) - Len(sent) + (k + i) = Len(s) - Len(w) + i
        /\ Len(s) - Len(w) + i \in 1 .. Len(stamps)
    BY <1>1, <1>2, <1>3, <1>4, <2>1
  <2> QED BY <1>1, <2>1, <2>2, <2>3
<1>7. Stamped([stamps |-> s, sent |-> w])
  BY <1>5, <1>6 DEF Stamped
<1> QED BY <1>7 DEF s, w, o

LEMMA PathsOfCalls == Calls \in Seq(Paths)
BY ClientAssumption DEF Paths

(* The first of the calls is answered, or given up.                        *)
LEMMA CallDone ==
  ASSUME NEW calls, LastCalls(calls), calls # << >>
  PROVE  LastCalls(Tail(calls)) /\ Head(calls) \in Paths
<1>1. calls \in Seq(Paths) /\ Len(calls) \in 1 .. Len(Calls) /\ Len(Calls) \in Nat /\ Calls \in Seq(Paths)
  BY PathsOfCalls, EmptySeq DEF LastCalls
<1> DEFINE t == Tail(calls)  n == Len(Calls)
<1>2. t \in Seq(Paths) /\ Len(t) = Len(calls) - 1
  BY <1>1
<1>3. t = SubSeq(calls, 2, Len(calls))
  BY <1>1, TailIsSubSeq
<1>4. t = SubSeq(Calls, n - Len(t) + 1, n)
  <2>1. calls = SubSeq(Calls, n - Len(calls) + 1, n)
    BY DEF LastCalls
  <2>2. \A i \in 1 .. Len(t) : t[i] = calls[i + 1]
    BY <1>1
  <2>3. \A i \in 1 .. Len(calls) : calls[i] = Calls[n - Len(calls) + i]
    BY <1>1, <2>1
  <2> DEFINE e == SubSeq(Calls, n - Len(t) + 1, n)
  <2>4. e \in Seq(Paths) /\ Len(e) = Len(t) /\ \A i \in 1 .. Len(t) : e[i] = Calls[n - Len(t) + i]
    BY <1>1, <1>2
  <2>5. \A i \in 1 .. Len(t) : t[i] = e[i]
    <3> SUFFICES ASSUME NEW i \in 1 .. Len(t) PROVE t[i] = e[i]
      OBVIOUS
    <3>1. t[i] = calls[i + 1] /\ e[i] = Calls[n - Len(t) + i]
      BY <2>2, <2>4
    <3>2. i + 1 \in 1 .. Len(calls) /\ n - Len(calls) + (i + 1) = n - Len(t) + i
      BY <1>1, <1>2
    <3>3. calls[i + 1] = Calls[n - Len(calls) + (i + 1)]
      BY <2>3, <3>2
    <3> HIDE DEF t, e, n
    <3> QED BY <3>1, <3>2, <3>3
  <2> HIDE DEF t, e
  <2> QED BY <1>2, <2>4, <2>5, SeqEqual
<1>5. Head(calls) \in Paths
  BY <1>1
<1> QED BY <1>1, <1>2, <1>4, <1>5 DEF LastCalls

LEMMA NoCalls == LastCalls(<< >>) /\ LastCalls(Calls)
BY PathsOfCalls DEF LastCalls

LEMMA OpenedGood ==
  ASSUME NEW runs \in 0 .. MaxReruns
  PROVE  Good(Opened(runs))
<1>1. CacheTtl \in 0 .. CacheTtl /\ 0 \in 0 .. Window /\ Limit \in Nat
  BY ClientAssumption
<1>2. [p \in Paths |-> CacheTtl] \in [Paths -> 0 .. CacheTtl]
  BY <1>1
<1>3. Opened(runs) \in ClientType
  BY <1>1, <1>2, PathsOfCalls DEF Opened, ClientType
<1> QED BY <1>1, <1>3, NoCalls DEF Opened, Good, Stamped, OldestFirst

LEMMA ReturnedGood ==
  ASSUME NEW c, Good(c), c.calls # << >>
  PROVE  Good(Returned(c))
<1>1. c \in ClientType /\ LastCalls(Tail(c.calls))
  BY CallDone DEF Good
<1>2. /\ Returned(c) \in ClientType /\ Returned(c).pc = "idle" /\ Returned(c).calls = Tail(c.calls)
      /\ Returned(c).stamps = c.stamps /\ Returned(c).sent = c.sent
  BY <1>1 DEF Returned, ClientType, LastCalls
<1> QED BY <1>1, <1>2 DEF Good, Stamped

(* A request that is sent is stamped.                                      *)
LEMMA SendStamped ==
  ASSUME NEW stamps \in Seq(0 .. Window), NEW sent \in Seq(0 .. Window - 1),
         Stamped([stamps |-> stamps, sent |-> sent]), OldestFirst(stamps)
  PROVE  /\ Stamped([stamps |-> Append(stamps, 0), sent |-> Append(sent, 0)])
         /\ OldestFirst(Append(stamps, 0))
         /\ Append(stamps, 0) \in Seq(0 .. Window) /\ Append(sent, 0) \in Seq(0 .. Window - 1)
         /\ Len(Append(stamps, 0)) = Len(stamps) + 1
<1> DEFINE s == Append(stamps, 0)  o == Append(sent, 0)  A == 0 .. Window  Q == 0 .. Window - 1
<1>1. 0 \in A /\ 0 \in Q
  BY ClientAssumption
<1>2. stamps \in Seq(A) /\ sent \in Seq(Q)
  OBVIOUS
<1> HIDE DEF A, Q
<1>3. /\ s \in Seq(A) /\ Len(s) = Len(stamps) + 1 /\ Len(stamps) \in Nat
      /\ s[Len(stamps) + 1] = 0 /\ \A i \in 1 .. Len(stamps) : s[i] = stamps[i]
  BY <1>1, <1>2, AppendProperties, LenProperties
<1>4. /\ o \in Seq(Q) /\ Len(o) = Len(sent) + 1 /\ Len(sent) \in Nat
      /\ o[Len(sent) + 1] = 0 /\ \A i \in 1 .. Len(sent) : o[i] = sent[i]
  BY <1>1, <1>2, AppendProperties, LenProperties
<1> HIDE DEF s, o
<1>5. Len(sent) <= Len(stamps) /\ \A i \in 1 .. Len(sent) : sent[i] = stamps[Len(stamps) - Len(sent) + i]
  BY DEF Stamped
<1>6. ASSUME NEW i \in 1 .. Len(o) PROVE o[i] = s[Len(s) - Len(o) + i]
  <2>1. CASE i = Len(o)
    BY <1>3, <1>4, <2>1
  <2>2. CASE i # Len(o)
    <3>1. i \in 1 .. Len(sent) /\ Len(s) - Len(o) + i = Len(stamps) - Len(sent) + i
          /\ Len(stamps) - Len(sent) + i \in 1 .. Len(stamps)
      BY <1>3, <1>4, <1>5, <2>2
    <3> QED BY <1>3, <1>4, <1>5, <3>1
  <2> QED BY <2>1, <2>2
<1>9. Len(o) <= Len(s)
  BY <1>3, <1>4, <1>5
<1>7. Stamped([stamps |-> s, sent |-> o])
  BY <1>6, <1>9 DEF Stamped
<1>8. OldestFirst(s)
  <2>1. \A i \in 1 .. Len(stamps) : stamps[i] \in A
    BY <1>2, ElementOfSeq
  <2>2. \A i \in 1 .. Len(stamps) : stamps[i] \in Int /\ stamps[i] >= 0
    BY <2>1, ClientAssumption DEF A
  <2>3. SUFFICES ASSUME NEW i \in 1 .. Len(s), NEW k \in 1 .. Len(s), i <= k PROVE s[k] <= s[i]
    BY DEF OldestFirst
  <2>4. CASE k = Len(s)
    BY <1>3, <2>2, <2>4
  <2>5. CASE k # Len(s)
    <3>1. i \in 1 .. Len(stamps) /\ k \in 1 .. Len(stamps)
      BY <1>3, <2>3, <2>5
    <3> QED BY <1>3, <2>3, <3>1 DEF OldestFirst
  <2> QED BY <2>4, <2>5
<1> QED BY <1>3, <1>4, <1>7, <1>8 DEF s, o, A, Q

(* A stamp that has left the window is of no request that is in it.        *)
LEMMA DropStamped ==
  ASSUME NEW stamps \in Seq(0 .. Window), NEW sent \in Seq(0 .. Window - 1),
         Stamped([stamps |-> stamps, sent |-> sent]), OldestFirst(stamps),
         stamps # << >>, Head(stamps) >= Window
  PROVE  /\ Stamped([stamps |-> Tail(stamps), sent |-> sent]) /\ OldestFirst(Tail(stamps))
         /\ Tail(stamps) \in Seq(0 .. Window) /\ Len(Tail(stamps)) = Len(stamps) - 1
<1> DEFINE t == Tail(stamps)  A == 0 .. Window  Q == 0 .. Window - 1
<1>1. stamps \in Seq(A) /\ sent \in Seq(Q)
  OBVIOUS
<1>2. \A a \in Q : a < Window
  BY ClientAssumption
<1> HIDE DEF A, Q
<1>3. /\ Len(stamps) \in Nat \ {0} /\ Len(sent) \in Nat /\ Head(stamps) = stamps[1]
      /\ t \in Seq(A) /\ Len(t) = Len(stamps) - 1 /\ \A i \in 1 .. Len(t) : t[i] = stamps[i + 1]
  BY <1>1, LenProperties, EmptySeq, HeadTailProperties
<1> HIDE DEF t
<1>4. Len(sent) <= Len(stamps) /\ \A i \in 1 .. Len(sent) : sent[i] = stamps[Len(stamps) - Len(sent) + i]
  BY DEF Stamped
<1>5. Len(sent) # Len(stamps)
  <2> SUFFICES ASSUME Len(sent) = Len(stamps) PROVE FALSE
    OBVIOUS
  <2>1. 1 \in 1 .. Len(sent) /\ Len(stamps) - Len(sent) + 1 = 1
    BY <1>3
  <2>2. sent[1] = stamps[1] /\ sent[1] \in Q
    BY <1>1, <1>4, <2>1, ElementOfSeq
  <2> QED BY <1>2, <1>3, <2>2, ClientAssumption
<1>6. ASSUME NEW i \in 1 .. Len(sent) PROVE sent[i] = t[Len(t) - Len(sent) + i]
  <2>1. Len(t) - Len(sent) + i \in 1 .. Len(t)
        /\ (Len(t) - Len(sent) + i) + 1 = Len(stamps) - Len(sent) + i
    BY <1>3, <1>4, <1>5
  <2> QED BY <1>3, <1>4, <2>1
<1>7. Stamped([stamps |-> t, sent |-> sent])
  BY <1>3, <1>4, <1>5, <1>6 DEF Stamped
<1>8. OldestFirst(t)
  <2> SUFFICES ASSUME NEW i \in 1 .. Len(t), NEW k \in 1 .. Len(t), i <= k PROVE t[k] <= t[i]
    BY DEF OldestFirst
  <2>1. i + 1 \in 1 .. Len(stamps) /\ k + 1 \in 1 .. Len(stamps) /\ i + 1 <= k + 1
    BY <1>3
  <2> QED BY <1>3, <2>1 DEF OldestFirst
<1> QED BY <1>3, <1>7, <1>8 DEF t, A

LEMMA SendGood ==
  ASSUME NEW c, Good(c), c.calls # << >>,
         NEW left \in Seq(0 .. Window), Len(left) < Limit,
         Stamped([stamps |-> left, sent |-> c.sent]), OldestFirst(left)
  PROVE  Good([c EXCEPT !.pc = "sent", !.stamps = Append(left, 0), !.sent = Append(@, 0)])
<1>1. c \in ClientType /\ c.sent \in Seq(0 .. Window - 1)
  BY DEF Good, ClientType
<1> DEFINE s == Append(left, 0)  o == Append(c.sent, 0)
<1>2. /\ Stamped([stamps |-> s, sent |-> o]) /\ OldestFirst(s)
      /\ s \in Seq(0 .. Window) /\ o \in Seq(0 .. Window - 1) /\ Len(s) = Len(left) + 1
  BY <1>1, SendStamped
<1>3. Len(s) <= Limit
  BY <1>2, ClientAssumption, LenProperties
<1> HIDE DEF s, o
<1> DEFINE d == [c EXCEPT !.pc = "sent", !.stamps = s, !.sent = o]
<1>4. /\ d \in ClientType /\ d.stamps = s /\ d.sent = o /\ d.calls = c.calls
  BY <1>1, <1>2 DEF ClientType
<1> HIDE DEF d
<1>5. Good(d)
  BY <1>2, <1>3, <1>4 DEF Good, Stamped
<1> QED BY <1>5 DEF d, s, o

LEMMA AcquiredGood ==
  ASSUME NEW c, Good(c), c.calls # << >>
  PROVE  Good(Acquired(c))
<1>1. /\ c \in ClientType /\ c.stamps \in Seq(0 .. Window) /\ c.sent \in Seq(0 .. Window - 1)
      /\ Len(c.stamps) <= Limit /\ Stamped(c) /\ OldestFirst(c.stamps)
      /\ Limit \in Nat \ {0} /\ Window \in Nat \ {0} /\ Len(c.stamps) \in Nat
  BY ClientAssumption, LenProperties DEF Good, ClientType
<1>2. Stamped([stamps |-> c.stamps, sent |-> c.sent])
  BY <1>1 DEF Stamped
<1>3. CASE Len(c.stamps) < Limit
  <2>1. Acquired(c) = [c EXCEPT !.pc = "sent", !.stamps = Append(c.stamps, 0), !.sent = Append(@, 0)]
    <3>1. Room(c.stamps) = c.stamps
      BY <1>1, <1>3 DEF Room
    <3> QED BY <1>3, <3>1 DEF Acquired
  <2> QED BY <1>1, <1>2, <1>3, <2>1, SendGood
<1>4. CASE Len(c.stamps) >= Limit /\ Head(c.stamps) >= Window
  <2>2. c.stamps # << >>
    BY <1>1, <1>4, EmptySeq
  <2>3. /\ Stamped([stamps |-> Tail(c.stamps), sent |-> c.sent]) /\ OldestFirst(Tail(c.stamps))
        /\ Tail(c.stamps) \in Seq(0 .. Window) /\ Len(Tail(c.stamps)) = Len(c.stamps) - 1
    BY <1>1, <1>2, <1>4, <2>2, DropStamped
  <2>4. Len(Tail(c.stamps)) < Limit
    BY <1>1, <2>3
  <2>1. Acquired(c) = [c EXCEPT !.pc = "sent", !.stamps = Append(Tail(c.stamps), 0), !.sent = Append(@, 0)]
    <3>1. Room(c.stamps) = Tail(c.stamps)
      BY <1>1, <1>4 DEF Room
    <3> QED BY <2>4, <3>1 DEF Acquired
  <2> HIDE DEF Acquired
  <2> QED BY <2>1, <2>3, <2>4, SendGood
<1>5. CASE Len(c.stamps) >= Limit /\ ~(Head(c.stamps) >= Window)
  <2> DEFINE wait == Window - Head(c.stamps)
             d == [c EXCEPT !.pc = "limited", !.wait = wait]
  <2>1. Acquired(c) = d
    <3>1. Room(c.stamps) = c.stamps /\ ~(Len(c.stamps) < Limit)
      BY <1>1, <1>5 DEF Room
    <3> QED BY <3>1 DEF Acquired
  <2>2. Head(c.stamps) \in 0 .. Window
    <3>1. c.stamps # << >>
      BY <1>1, <1>5, EmptySeq
    <3> QED BY <1>1, <3>1, HeadTailProperties
  <2>3. wait \in 0 .. Window
    BY <1>1, <2>2
  <2> HIDE DEF wait
  <2>4. /\ d \in ClientType /\ d.stamps = c.stamps /\ d.sent = c.sent /\ d.calls = c.calls
    BY <1>1, <2>3 DEF ClientType
  <2> HIDE DEF d
  <2>5. Good(d)
    BY <1>1, <2>4 DEF Good, Stamped
  <2> QED BY <2>1, <2>5
<1> QED BY <1>1, <1>3, <1>4, <1>5

(* One client takes a step, and is as it should be after it.               *)
LEMMA OneStep ==
  ASSUME ClientInv, NEW j \in Clients, NEW d, Good(d), client' = [client EXCEPT ![j] = d],
         GrantedInOrder'
  PROVE  ClientInv'
<1>1. d \in ClientType
  BY DEF Good
<1>2. client' \in [Clients -> ClientType] /\ client'[j] = d
      /\ \A i \in Clients \ {j} : client'[i] = client[i]
  BY <1>1 DEF ClientInv
<1>3. \A i \in Clients : Good(client'[i])
  BY <1>2 DEF ClientInv
<1> QED BY <1>2, <1>3 DEF ClientInv

LEMMA TickInv ==
  ASSUME ClientInv, ClientTick
  PROVE  ClientInv'
<1>0. Window \in Nat \ {0} /\ CacheTtl \in Nat
  BY ClientAssumption
<1>1. ASSUME NEW j \in Clients PROVE Good(client'[j])
  <2> DEFINE c == client[j]  s == OlderAll(c.stamps)  o == InWindow(OlderAll(c.sent))
             w == IF c.wait = 0 THEN 0 ELSE c.wait - 1
             k == [p \in Paths |-> Older(c.cache[p], CacheTtl)]
             d == [c EXCEPT !.stamps = s, !.sent = o, !.wait = w, !.cache = k]
  <2>1. client'[j] = d
    BY DEF ClientTick
  <2>2. /\ Good(c) /\ c \in ClientType /\ c.stamps \in Seq(0 .. Window) /\ c.sent \in Seq(0 .. Window - 1)
        /\ c.wait \in 0 .. Window /\ c.cache \in [Paths -> 0 .. CacheTtl]
    BY DEF ClientInv, ClientType
  <2> HIDE DEF c
  <2>3. c.sent \in Seq(0 .. Window)
    <3>1. \A i \in 1 .. Len(c.sent) : c.sent[i] \in 0 .. Window - 1
      BY <2>2, ElementOfSeq
    <3>2. \A i \in 1 .. Len(c.sent) : c.sent[i] \in 0 .. Window
      BY <1>0, <3>1
    <3> QED BY <2>2, <3>2, SequenceOf
  <2>4. Stamped([stamps |-> s, sent |-> o])
    <3>1. Stamped([stamps |-> c.stamps, sent |-> c.sent])
      BY <2>2 DEF Good, Stamped
    <3> QED BY <2>2, <3>1, AgingKeepsStamps
  <2>5. s \in Seq(0 .. Window) /\ Len(s) = Len(c.stamps) /\ OldestFirst(s)
    BY <2>2, AgedTyped, OrderKept DEF Good
  <2>6. o \in Seq(0 .. Window - 1)
    <3>1. OlderAll(c.sent) \in Seq(0 .. Window)
      BY <2>3, AgedTyped
    <3> QED BY <3>1, WindowIsEnd
  <2>7. w \in 0 .. Window
    BY <1>0, <2>2
  <2>8. k \in [Paths -> 0 .. CacheTtl]
    BY <1>0, <2>2, OlderTyped
  <2> HIDE DEF s, o, w, k
  <2>9. /\ d \in ClientType /\ d.stamps = s /\ d.sent = o /\ d.calls = c.calls /\ d.pc = c.pc
    BY <2>2, <2>5, <2>6, <2>7, <2>8 DEF ClientType
  <2> HIDE DEF d
  <2>10. Good(d)
    BY <2>2, <2>4, <2>5, <2>9 DEF Good, Stamped
  <2> QED BY <2>1, <2>10
<1>2. client' \in [Clients -> ClientType]
  <2>1. \A j \in Clients : client'[j] \in ClientType
    BY <1>1 DEF Good
  <2>2. client' = [j \in Clients |-> client'[j]]
    BY DEF ClientTick
  <2> QED BY <2>1, <2>2
<1>3. GrantedInOrder'
  <2>1. granted \in Seq(0 .. Window)
    <3>1. granted \in Seq(0 .. Window - 1)
      BY DEF ClientInv, GrantedInOrder
    <3>2. \A i \in 1 .. Len(granted) : granted[i] \in 0 .. Window - 1
      BY <3>1, ElementOfSeq
    <3>3. \A i \in 1 .. Len(granted) : granted[i] \in 0 .. Window
      BY <1>0, <3>2
    <3> QED BY <3>1, <3>3, SequenceOf
  <2>2. /\ OlderAll(granted) \in Seq(0 .. Window) /\ Len(OlderAll(granted)) = Len(granted)
        /\ OldestFirst(InWindow(OlderAll(granted)))
    BY <2>1, AgedTyped, OrderKept DEF ClientInv, GrantedInOrder
  <2>3. PICK k \in 0 .. Len(granted) :
          /\ InWindow(OlderAll(granted)) \in Seq(0 .. Window - 1)
          /\ Len(InWindow(OlderAll(granted))) = Len(granted) - k
    BY <2>2, WindowIsEnd
  <2>4. Len(granted) \in Nat /\ Len(granted) <= Quota /\ Quota \in Nat
    BY <2>1, LenProperties, ClientAssumption DEF ClientInv, GrantedInOrder
  <2> DEFINE g == InWindow(OlderAll(granted))
  <2>5. granted' = g
    BY DEF ClientTick
  <2>6. g \in Seq(0 .. Window - 1) /\ OldestFirst(g) /\ Len(g) <= Quota
    BY <2>2, <2>3, <2>4
  <2> HIDE DEF g
  <2> QED BY <2>5, <2>6 DEF GrantedInOrder
<1> QED BY <1>1, <1>2, <1>3 DEF ClientInv

LEMMA ClientStepInv ==
  ASSUME ClientInv, NEW j \in Clients, ClientStep(j) \/ Failed(j) \/ NextRun(j)
  PROVE  ClientInv'
<1> DEFINE c == client[j]
<1>1. /\ Good(c) /\ c \in ClientType /\ LastCalls(c.calls) /\ (c.pc # "idle" => c.calls # << >>)
      /\ c.runs \in 0 .. MaxReruns /\ c.cache \in [Paths -> 0 .. CacheTtl]
  BY DEF ClientInv, Good, ClientType
<1>2. GrantedInOrder /\ (UNCHANGED granted => GrantedInOrder')
  BY DEF ClientInv, GrantedInOrder
<1>3. CASE Get(j) \/ Awake(j) \/ Retry(j)
  <2>1. c.calls # << >> /\ UNCHANGED granted
    BY <1>1, <1>3 DEF Get, Awake, Retry
  <2>2. Good(Acquired(c)) /\ Good(Returned(c))
    BY <1>1, <2>1, AcquiredGood, ReturnedGood
  <2>3. client' = [client EXCEPT ![j] = Acquired(c)] \/ client' = [client EXCEPT ![j] = Returned(c)]
    BY <1>3 DEF Get, Awake, Retry, Retried
  <2> HIDE DEF c
  <2> QED BY <1>2, <2>1, <2>2, <2>3, OneStep
<1>4. CASE Answered(j)
  <2> DEFINE k == [c.cache EXCEPT ![Head(c.calls)] = 0]
             d == [c EXCEPT !.cache = k]
  <2>1. c.calls # << >> /\ client' = [client EXCEPT ![j] = Returned(d)]
    BY <1>1, <1>4 DEF Answered
  <2>2. k \in [Paths -> 0 .. CacheTtl]
    <3>1. 0 \in 0 .. CacheTtl
      BY ClientAssumption
    <3> HIDE DEF c
    <3> QED BY <1>1, <3>1
  <2> HIDE DEF k
  <2>3. d \in ClientType /\ d.calls = c.calls /\ d.pc = c.pc /\ d.stamps = c.stamps /\ d.sent = c.sent
    BY <1>1, <2>2 DEF ClientType
  <2> HIDE DEF c, d
  <2>4. Good(d)
    BY <1>1, <2>3 DEF Good, Stamped
  <2>5. Good(Returned(d))
    BY <2>1, <2>3, <2>4, ReturnedGood
  <2>6. GrantedInOrder'
    <3>1. granted' = Append(granted, 0) /\ Len(granted) < Quota
      BY <1>4 DEF Answered
    <3> DEFINE Q == 0 .. Window - 1
    <3>2. 0 \in Q /\ granted \in Seq(Q) /\ \A a \in Q : a \in Int /\ a >= 0
      BY <1>2, ClientAssumption DEF GrantedInOrder
    <3> HIDE DEF Q
    <3>3. /\ granted' \in Seq(Q) /\ Len(granted') = Len(granted) + 1 /\ Len(granted) \in Nat
          /\ granted'[Len(granted) + 1] = 0 /\ \A i \in 1 .. Len(granted) : granted'[i] = granted[i]
      BY <3>1, <3>2, AppendProperties, LenProperties
    <3>4. \A i \in 1 .. Len(granted) : granted[i] \in Int /\ granted[i] >= 0
      BY <3>2, ElementOfSeq
    <3>5. OldestFirst(granted')
      BY <1>2, <3>3, <3>4 DEF GrantedInOrder, OldestFirst
    <3>6. Len(granted') <= Quota
      BY <3>1, <3>3, ClientAssumption
    <3> QED BY <3>3, <3>5, <3>6 DEF GrantedInOrder, Q
  <2> QED BY <2>1, <2>5, <2>6, OneStep
<1>5. CASE Failed(j)
  <2>1. PICK calls \in {Tail(c.calls), << >>} :
          client' = [client EXCEPT ![j].pc = "idle", ![j].calls = calls]
    BY <1>5 DEF Failed
  <2>2. LastCalls(calls) /\ calls \in Seq(Paths)
    BY <1>1, <1>5, CallDone, NoCalls DEF Failed, LastCalls
  <2> DEFINE d == [c EXCEPT !.pc = "idle", !.calls = calls]
  <2>3. client' = [client EXCEPT ![j] = d]
    BY <2>1 DEF ClientInv
  <2>4. d \in ClientType /\ d.pc = "idle" /\ d.calls = calls /\ d.stamps = c.stamps /\ d.sent = c.sent
    BY <1>1, <2>2 DEF ClientType
  <2> HIDE DEF c, d
  <2>5. Good(d)
    BY <1>1, <2>2, <2>4 DEF Good, Stamped
  <2> QED BY <1>2, <1>5, <2>3, <2>5, OneStep DEF Failed
<1>6. CASE \E after \in 1 .. Window : Refused(j, after)
  <2>1. PICK after \in 1 .. Window : Refused(j, after)
    BY <1>6
  <2> DEFINE d == [c EXCEPT !.pc = "refused", !.wait = after]
  <2>2. client' = [client EXCEPT ![j] = d] /\ c.pc # "idle" /\ UNCHANGED granted
    BY <2>1 DEF Refused, ClientInv
  <2>3. after \in 0 .. Window
    BY ClientAssumption
  <2>4. d \in ClientType /\ d.calls = c.calls /\ d.stamps = c.stamps /\ d.sent = c.sent
    BY <1>1, <2>3 DEF ClientType
  <2> HIDE DEF c, d
  <2>5. Good(d)
    BY <1>1, <2>2, <2>4 DEF Good, Stamped
  <2> QED BY <1>2, <2>2, <2>5, OneStep
<1>7. CASE NextRun(j)
  <2>1. c.runs + 1 \in 0 .. MaxReruns
    BY <1>1, <1>7, ClientAssumption DEF NextRun
  <2>2. client' = [client EXCEPT ![j] = Opened(c.runs + 1)] /\ UNCHANGED granted
    BY <1>7 DEF NextRun
  <2> HIDE DEF c
  <2> QED BY <1>2, <2>1, <2>2, OpenedGood, OneStep
<1> QED BY <1>3, <1>4, <1>5, <1>6, <1>7 DEF ClientStep

LEMMA ClientInvHolds == ClientSpec => []ClientInv
<1>1. ClientInit => ClientInv
  <2> SUFFICES ASSUME ClientInit PROVE ClientInv
    OBVIOUS
  <2>1. 0 \in 0 .. MaxReruns /\ Quota \in Nat
    BY ClientAssumption
  <2>2. Good(Opened(0)) /\ Opened(0) \in ClientType
    BY <2>1, OpenedGood DEF Good
  <2>3. GrantedInOrder
    BY <2>1 DEF ClientInit, GrantedInOrder, OldestFirst
  <2> QED BY <2>2, <2>3 DEF ClientInit, ClientInv
<1>2. ClientInv /\ [ClientNext]_clientVars => ClientInv'
  <2>1. ASSUME ClientInv, UNCHANGED clientVars PROVE ClientInv'
    BY <2>1 DEF clientVars, ClientInv, GrantedInOrder
  <2> QED BY <2>1, TickInv, ClientStepInv DEF ClientNext
<1> QED BY <1>1, <1>2, PTL DEF ClientSpec

(* A client never sends more than its limit within a window, retries of    *)
(* refused requests included, for any limit, window, quota and calls       *)
(* (_SlidingWindow.acquire, _get).                                         *)
THEOREM ClientKeepsItsLimit == ClientSpec => []WindowRespected
<1>1. ClientInv => WindowRespected
  <2> SUFFICES ASSUME ClientInv, NEW j \in Clients PROVE Len(client[j].sent) <= Limit
    BY DEF WindowRespected
  <2>1. /\ client[j].sent \in Seq(0 .. Window - 1) /\ client[j].stamps \in Seq(0 .. Window)
        /\ Len(client[j].sent) <= Len(client[j].stamps) /\ Len(client[j].stamps) <= Limit
    BY DEF ClientInv, Good, Stamped, ClientType
  <2>2. Len(client[j].sent) \in Nat /\ Len(client[j].stamps) \in Nat /\ Limit \in Nat
    BY <2>1, LenProperties, ClientAssumption
  <2> QED BY <2>1, <2>2
<1> QED BY <1>1, ClientInvHolds, PTL

(* Clients and the requests granted to them stay of their types, a client  *)
(* that is not at rest has a call to make, and its calls to come are the   *)
(* last of those it was given.                                             *)
THEOREM ClientIsTyped == ClientSpec => []ClientTypeOK
<1>1. ClientInv => ClientTypeOK
  BY DEF ClientInv, Good, LastCalls, GrantedInOrder, ClientTypeOK
<1> QED BY <1>1, ClientInvHolds, PTL

-----------------------------------------------------------------------------
(***************************************************************************)
(* EloSnapshot: any page, reference, aliases, likenesses and countries.    *)
(***************************************************************************)

(* Rows are given to clubs of a reference: none to two of them, and each   *)
(* to a club of its country.                                               *)
Rowed(rows, ref, taken) ==
    /\ taken \in [DOMAIN ref -> Nat]
    /\ \A i \in DOMAIN ref : taken[i] # 0 =>
         taken[i] \in Named(rows, ref) /\ CountryOf(taken[i]) = Fold[ref[i].country]
    /\ \A i, k \in DOMAIN ref : taken[i] # 0 /\ taken[i] = taken[k] => i = k

OwnRows(rows, ref, i) ==
    {r \in rows : Canon[Site[r].name] = Canon[ref[i].club] /\ CountryOf(r) = Fold[ref[i].country]}

(* The exact pass has come to club n: only rows of their own are given, and*)
(* every club up to it that the page shows by its own name has one.        *)
ExactUpTo(rows, ref, taken, n) ==
    /\ \A i \in DOMAIN ref : taken[i] # 0 => taken[i] \in OwnRows(rows, ref, i)
    /\ \A i \in 1 .. n : OwnRows(rows, ref, i) # {} => taken[i] # 0

LEMMA SiteAndPin ==
  /\ DOMAIN Site \subseteq Nat \ {0} /\ Len(Pin) \in Nat /\ DOMAIN Pin = 1 .. Len(Pin)
  /\ DOMAIN << >> = 1 .. Len(<< >>) /\ Len(<< >>) = 0
<1> DEFINE S == {Site[r] : r \in DOMAIN Site}  P == {Pin[i] : i \in DOMAIN Pin}
<1>1. Site \in Seq(S) /\ Pin \in Seq(P)
  BY EloAssumption
<1> HIDE DEF S, P
<1> QED BY <1>1, LenProperties

LEMMA NamedIsShown ==
  ASSUME NEW rows \in SUBSET DOMAIN Site, NEW ref
  PROVE  Named(rows, ref) \subseteq rows /\ Named(rows, ref) \subseteq Nat \ {0}
BY SiteAndPin DEF Named, Pool

(* A row that is shown has a named one of its name and country.            *)
LEMMA NamesakeIsNamed ==
  ASSUME NEW rows \in SUBSET DOMAIN Site, NEW ref, NEW r \in Pool(rows, ref)
  PROVE  \E q \in Named(rows, ref) : Site[q].name = Site[r].name /\ CountryOf(q) = CountryOf(r)
<1> DEFINE T == {q \in Pool(rows, ref) : Site[q].name = Site[r].name /\ CountryOf(q) = CountryOf(r)}
<1>1. T \in SUBSET Nat /\ r \in T
  BY SiteAndPin DEF Pool
<1>2. PICK q \in T : \A p \in T : q <= p
  <2> HIDE DEF T
  <2> QED BY <1>1, LeastNumber
<1>3. q \in Nat /\ \A p \in T : p \in Nat
  BY <1>1
<1>4. q \in Named(rows, ref)
  BY <1>2, <1>3 DEF Named
<1> QED BY <1>2, <1>4

(* A club is given a free row or none; without fuzzy matching, a row of its*)
(* own name, and one if there is one.                                      *)
LEMMA HitIsFree ==
  ASSUME NEW club, NEW free \in SUBSET (Nat \ {0}), NEW fuzzy
  PROVE  /\ Hit(club, free, fuzzy) \in free \cup {0}
         /\ Hit(club, free, FALSE) # 0 => Canon[Site[Hit(club, free, FALSE)].name] = Canon[club]
         /\ (\E r \in free : Canon[Site[r].name] = Canon[club]) => Hit(club, free, FALSE) # 0
<1> DEFINE c == Canon[club]
           exact == {r \in free : Canon[Site[r].name] = c}
           top == {r \in free : /\ Ratio(c, Canon[Site[r].name]) >= Bar
                                /\ \A q \in free : Ratio(c, Canon[Site[q].name]) <= Ratio(c, Canon[Site[r].name])}
           names == {Canon[Site[r].name] : r \in top}
<1>1. \A f : Hit(club, free, f) = IF exact # {} THEN Min(exact)
                                 ELSE IF f /\ Cardinality(names) = 1 THEN Min(top) ELSE 0
  BY DEF Hit
<1>2. exact \in SUBSET Nat /\ top \in SUBSET Nat /\ exact \subseteq free /\ top \subseteq free
      /\ \A r \in exact : Canon[Site[r].name] = c
  OBVIOUS
<1>3. (\E r \in free : Canon[Site[r].name] = Canon[club]) <=> exact # {}
  OBVIOUS
<1>4. top = {} => names = {}
  OBVIOUS
<1> HIDE DEF exact, top, names
<1>5. exact # {} => Min(exact) \in exact
  BY <1>2, MinIsLeast
<1>6. Cardinality(names) = 1 => top # {}
  BY <1>4, FS_EmptySet
<1>7. top # {} => Min(top) \in top
  BY <1>2, MinIsLeast
<1>8. CASE exact # {}
  BY <1>1, <1>2, <1>3, <1>5, <1>8
<1>9. CASE exact = {}
  <2>1. Hit(club, free, FALSE) = 0
    BY <1>1, <1>9
  <2>2. Hit(club, free, fuzzy) \in top \cup {0}
    BY <1>1, <1>6, <1>7, <1>9
  <2> QED BY <1>2, <1>3, <1>9, <2>1, <2>2
<1> QED BY <1>8, <1>9

LEMMA PlacedRowed ==
  ASSUME NEW rows \in SUBSET DOMAIN Site, NEW ref, NEW fuzzy, NEW taken, Rowed(rows, ref, taken),
         NEW i \in DOMAIN ref
  PROVE  /\ Rowed(rows, ref, Placed(rows, ref, fuzzy, taken, i))
         /\ \A k \in DOMAIN ref : taken[k] # 0 => Placed(rows, ref, fuzzy, taken, i)[k] = taken[k]
<1>1. CASE taken[i] # 0
  BY <1>1 DEF Placed
<1>2. CASE taken[i] = 0
  <2> DEFINE free == Free(rows, ref, taken, i)  h == Hit(ref[i].club, free, fuzzy)
             t == [taken EXCEPT ![i] = h]
  <2>1. Placed(rows, ref, fuzzy, taken, i) = t
    BY <1>2 DEF Placed
  <2>2. /\ free \in SUBSET (Nat \ {0}) /\ free \subseteq Named(rows, ref)
        /\ \A r \in free : CountryOf(r) = Fold[ref[i].country] /\ \A k \in DOMAIN ref : taken[k] # r
    BY NamedIsShown DEF Free
  <2> HIDE DEF free
  <2>3. h \in free \cup {0}
    BY <2>2, HitIsFree
  <2> HIDE DEF h
  <2>4. /\ t \in [DOMAIN ref -> Nat] /\ t[i] = h /\ \A k \in DOMAIN ref \ {i} : t[k] = taken[k]
    BY <2>2, <2>3 DEF Rowed
  <2> HIDE DEF t
  <2>5. Rowed(rows, ref, t)
    BY <2>2, <2>3, <2>4 DEF Rowed
  <2>6. \A k \in DOMAIN ref : taken[k] # 0 => t[k] = taken[k]
    BY <1>2, <2>4
  <2> QED BY <2>1, <2>5, <2>6
<1> QED BY <1>1, <1>2

(* A pass is the placing of one club after the other.                      *)
Passing(rows, ref, fuzzy, before, row) ==
    /\ row[0] = before /\ row[Len(ref)] = Pass(rows, ref, fuzzy, before)
    /\ \A i \in 1 .. Len(ref) : row[i] = Placed(rows, ref, fuzzy, row[i - 1], i)
    /\ \A i \in 0 .. Len(ref) : Rowed(rows, ref, row[i])

LEMMA PassIsPlacing ==
  ASSUME NEW rows \in SUBSET DOMAIN Site, NEW ref \in {<< >>, Pin}, NEW fuzzy, NEW before,
         Rowed(rows, ref, before)
  PROVE  \E row : Passing(rows, ref, fuzzy, before, row)
<1> DEFINE N == Len(ref)
           V == {t \in [DOMAIN ref -> Nat] : Rowed(rows, ref, t)}
           step == [p \in V \X (1 .. N) |-> Placed(rows, ref, fuzzy, p[1], p[2])]
           Is(g) == g = [i \in 0 .. N |-> IF i = 0 THEN before ELSE Placed(rows, ref, fuzzy, g[i - 1], i)]
<1>1. N \in Nat /\ DOMAIN ref = 1 .. N
  BY SiteAndPin
<1>2. before \in V
  BY DEF Rowed
<1>3. ASSUME NEW t \in V, NEW i \in 1 .. N PROVE Placed(rows, ref, fuzzy, t, i) \in V
  <2>1. Rowed(rows, ref, Placed(rows, ref, fuzzy, t, i))
    BY <1>1, PlacedRowed
  <2> QED BY <2>1 DEF Rowed
<1> HIDE DEF V, N
<1>4. step \in [V \X (1 .. N) -> V]
  BY <1>3
<1>5. \A t \in V, i \in 1 .. N : step[<<t, i>>] = Placed(rows, ref, fuzzy, t, i)
  OBVIOUS
<1> HIDE DEF step
<1>6. PICK g \in [0 .. N -> V] : g = [i \in 0 .. N |-> IF i = 0 THEN before ELSE step[<<g[i - 1], i>>]]
  BY <1>1, <1>2, <1>4, RecursionUpTo
<1>7. \A i \in 1 .. N : g[i] = Placed(rows, ref, fuzzy, g[i - 1], i)
  <2> SUFFICES ASSUME NEW i \in 1 .. N PROVE g[i] = Placed(rows, ref, fuzzy, g[i - 1], i)
    OBVIOUS
  <2>1. i \in 0 .. N /\ i - 1 \in 0 .. N /\ i # 0
    BY <1>1
  <2>2. g[i] = step[<<g[i - 1], i>>] /\ g[i - 1] \in V
    BY <1>6, <2>1
  <2> QED BY <1>5, <2>2
<1>8. Is(g)
  <2>1. g[0] = before
    BY <1>1, <1>6
  <2>2. \A i \in 0 .. N : g[i] = IF i = 0 THEN before ELSE Placed(rows, ref, fuzzy, g[i - 1], i)
    BY <1>1, <1>7, <2>1
  <2>3. g = [i \in 0 .. N |-> g[i]]
    BY <1>6
  <2> QED BY <2>2, <2>3
<1> DEFINE row == CHOOSE r : Is(r)
<1>9. Is(row)
  <2> HIDE DEF Is
  <2> QED BY <1>8
<1>10. Pass(rows, ref, fuzzy, before) = row[N]
  BY DEF Pass, N
<1> HIDE DEF row
<1>11. row[0] = before /\ \A i \in 1 .. N : row[i] = Placed(rows, ref, fuzzy, row[i - 1], i)
  <2>1. \A i \in 0 .. N : row[i] = IF i = 0 THEN before ELSE Placed(rows, ref, fuzzy, row[i - 1], i)
    BY <1>9
  <2> QED BY <1>1, <2>1
<1>12. \A i \in 0 .. N : row[i] \in V
  <2> DEFINE S == {i \in 0 .. N : row[i] \in V}
  <2>1. 0 \in S /\ \A i \in 1 .. N : i - 1 \in S => i \in S
    BY <1>1, <1>2, <1>3, <1>11
  <2>2. 0 .. N \subseteq S
    <3> HIDE DEF S
    <3> QED BY <1>1, <2>1, InductUpTo
  <2> QED BY <2>2
<1>13. row \in [0 .. N -> [DOMAIN ref -> Nat]] /\ \A i \in 0 .. N : Rowed(rows, ref, row[i])
  <2>1. row = [i \in 0 .. N |-> row[i]]
    BY <1>9
  <2> QED BY <1>12, <2>1 DEF V
<1> QED BY <1>10, <1>11, <1>13 DEF N, Passing

(* Placing one more club by its exact name.                                *)
LEMMA ExactPlaced ==
  ASSUME NEW rows \in SUBSET DOMAIN Site, NEW ref \in {<< >>, Pin}, NEW taken,
         Rowed(rows, ref, taken), NEW i \in DOMAIN ref, ExactUpTo(rows, ref, taken, i - 1)
  PROVE  ExactUpTo(rows, ref, Placed(rows, ref, FALSE, taken, i), i)
<1>0. i \in Nat \ {0} /\ DOMAIN ref \subseteq Nat /\ \A k \in 1 .. i : k = i \/ k \in 1 .. i - 1
  BY SiteAndPin
<1>1. CASE taken[i] # 0
  BY <1>0, <1>1 DEF Placed, ExactUpTo
<1>2. CASE taken[i] = 0
  <2> DEFINE free == Free(rows, ref, taken, i)  h == Hit(ref[i].club, free, FALSE)
             t == [taken EXCEPT ![i] = h]
  <2>1. Placed(rows, ref, FALSE, taken, i) = t
    BY <1>2 DEF Placed
  <2>2. free \in SUBSET (Nat \ {0}) /\ free \subseteq rows /\ \A r \in free : CountryOf(r) = Fold[ref[i].country]
    BY NamedIsShown DEF Free
  <2>3. ASSUME OwnRows(rows, ref, i) # {} PROVE \E r \in free : Canon[Site[r].name] = Canon[ref[i].club]
    <3>1. PICK r \in OwnRows(rows, ref, i) : TRUE
      BY <2>3
    <3>2. r \in Pool(rows, ref)
      BY <3>1 DEF OwnRows, Pool, Scope
    <3>3. PICK q \in Named(rows, ref) : Site[q].name = Site[r].name /\ CountryOf(q) = CountryOf(r)
      BY <3>2, NamesakeIsNamed
    <3>4. q \in Nat \ {0} /\ Canon[Site[q].name] = Canon[ref[i].club] /\ CountryOf(q) = Fold[ref[i].country]
      BY <3>1, <3>3, NamedIsShown DEF OwnRows
    <3>5. ASSUME NEW k \in DOMAIN ref, taken[k] = q PROVE FALSE
      <4>1. q \in OwnRows(rows, ref, k)
        BY <3>4, <3>5 DEF ExactUpTo
      <4>2. Canon[ref[k].club] = Canon[ref[i].club] /\ Fold[ref[k].country] = Fold[ref[i].country]
        BY <3>4, <4>1 DEF OwnRows
      <4>3. ref = Pin
        BY SiteAndPin
      <4>4. k = i
        BY <4>2, <4>3, EloAssumption
      <4> QED BY <1>2, <3>4, <3>5, <4>4
    <3> QED BY <3>3, <3>4, <3>5 DEF Free
  <2> HIDE DEF free
  <2>4. /\ h \in free \cup {0} /\ (h # 0 => Canon[Site[h].name] = Canon[ref[i].club])
        /\ (OwnRows(rows, ref, i) # {} => h # 0)
    BY <2>2, <2>3, HitIsFree
  <2> HIDE DEF h
  <2>5. h # 0 => h \in OwnRows(rows, ref, i)
    BY <2>2, <2>4 DEF OwnRows
  <2>6. t[i] = h /\ \A k \in DOMAIN ref \ {i} : t[k] = taken[k]
    BY DEF Rowed
  <2> HIDE DEF t
  <2>7. \A k \in 1 .. i : k \in DOMAIN ref
    BY SiteAndPin
  <2>8. \A k \in 1 .. i : OwnRows(rows, ref, k) # {} => t[k] # 0
    <3> SUFFICES ASSUME NEW k \in 1 .. i, OwnRows(rows, ref, k) # {} PROVE t[k] # 0
      OBVIOUS
    <3>1. CASE k = i
      BY <2>4, <2>6, <3>1
    <3>2. CASE k # i
      BY <1>0, <2>6, <2>7, <3>2 DEF ExactUpTo
    <3> QED BY <3>1, <3>2
  <2>9. \A k \in DOMAIN ref : t[k] # 0 => t[k] \in OwnRows(rows, ref, k)
    <3> SUFFICES ASSUME NEW k \in DOMAIN ref, t[k] # 0 PROVE t[k] \in OwnRows(rows, ref, k)
      OBVIOUS
    <3>1. CASE k = i
      BY <2>5, <2>6, <3>1
    <3>2. CASE k # i
      BY <2>6, <3>2 DEF ExactUpTo
    <3> QED BY <3>1, <3>2
  <2> QED BY <2>1, <2>8, <2>9 DEF ExactUpTo
<1> QED BY <1>1, <1>2

(* The exact pass gives every club that is shown by its own name such a    *)
(* row.                                                                    *)
LEMMA ExactPass ==
  ASSUME NEW rows \in SUBSET DOMAIN Site, NEW ref \in {<< >>, Pin}
  PROVE  LET e == Pass(rows, ref, FALSE, NobodyYet(ref))
         IN  Rowed(rows, ref, e) /\ ExactUpTo(rows, ref, e, Len(ref))
<1> DEFINE none == NobodyYet(ref)  N == Len(ref)  no == FALSE
<1>0. N \in Nat /\ DOMAIN ref = 1 .. N
  BY SiteAndPin
<1>1. Rowed(rows, ref, none)
  BY DEF Rowed, NobodyYet
<1>2. ExactUpTo(rows, ref, none, 0)
  BY DEF ExactUpTo, NobodyYet
<1> HIDE DEF none, no
<1>3. PICK row : Passing(rows, ref, no, none, row)
  BY <1>1, PassIsPlacing
<1> DEFINE S == {i \in 0 .. N : ExactUpTo(rows, ref, row[i], i)}
<1> HIDE DEF N
<1>4. 0 \in S
  BY <1>0, <1>2, <1>3 DEF Passing
<1>5. ASSUME NEW i \in 1 .. N, i - 1 \in S PROVE i \in S
  <2>1. i \in DOMAIN ref /\ i - 1 \in 0 .. N /\ i \in 0 .. N
    BY <1>0
  <2>2. Rowed(rows, ref, row[i - 1]) /\ row[i] = Placed(rows, ref, no, row[i - 1], i)
    BY <1>3, <2>1 DEF Passing, N
  <2>3. ExactUpTo(rows, ref, row[i - 1], i - 1)
    BY <1>5
  <2>4. ExactUpTo(rows, ref, row[i], i)
    BY <2>1, <2>2, <2>3, ExactPlaced DEF no
  <2> QED BY <2>1, <2>4
<1>6. 0 .. N \subseteq S
  <2> HIDE DEF S
  <2> QED BY <1>0, <1>4, <1>5, InductUpTo
<1>7. N \in 0 .. N
  BY <1>0
<1>8. Rowed(rows, ref, row[N]) /\ ExactUpTo(rows, ref, row[N], N)
  BY <1>3, <1>6, <1>7 DEF Passing, N
<1>9. row[N] = Pass(rows, ref, no, none)
  BY <1>3 DEF Passing, N
<1> QED BY <1>8, <1>9 DEF N, none, no

(* The second pass keeps what the first gave.                              *)
Keeps(ref, before, after) == \A k \in DOMAIN ref : before[k] # 0 => after[k] = before[k]

LEMMA PassKeeps ==
  ASSUME NEW rows \in SUBSET DOMAIN Site, NEW ref \in {<< >>, Pin}, NEW fuzzy, NEW before,
         Rowed(rows, ref, before)
  PROVE  /\ Rowed(rows, ref, Pass(rows, ref, fuzzy, before))
         /\ Keeps(ref, before, Pass(rows, ref, fuzzy, before))
<1> DEFINE N == Len(ref)
<1>0. N \in Nat /\ DOMAIN ref = 1 .. N
  BY SiteAndPin
<1>1. PICK row : Passing(rows, ref, fuzzy, before, row)
  BY PassIsPlacing
<1> DEFINE S == {i \in 0 .. N : \A k \in DOMAIN ref : before[k] # 0 => row[i][k] = before[k]}
<1> HIDE DEF N
<1>2. 0 \in S
  BY <1>0, <1>1 DEF Passing
<1>3. ASSUME NEW i \in 1 .. N, i - 1 \in S PROVE i \in S
  <2>1. i \in DOMAIN ref /\ i - 1 \in 0 .. N /\ i \in 0 .. N
    BY <1>0
  <2>2. Rowed(rows, ref, row[i - 1]) /\ row[i] = Placed(rows, ref, fuzzy, row[i - 1], i)
    BY <1>1, <2>1 DEF Passing, N
  <2>3. \A k \in DOMAIN ref : row[i - 1][k] # 0 => row[i][k] = row[i - 1][k]
    BY <2>1, <2>2, PlacedRowed
  <2> QED BY <1>3, <2>1, <2>3
<1>4. 0 .. N \subseteq S
  <2> HIDE DEF S
  <2> QED BY <1>0, <1>2, <1>3, InductUpTo
<1>5. N \in 0 .. N
  BY <1>0
<1> QED BY <1>1, <1>4, <1>5 DEF Passing, N, Keeps

LEMMA AssignedIsOwn ==
  ASSUME NEW rows \in SUBSET DOMAIN Site, NEW ref \in {<< >>, Pin}
  PROVE  /\ Rowed(rows, ref, Assigned(rows, ref))
         /\ \A i \in DOMAIN ref : OwnRows(rows, ref, i) # {} =>
              Assigned(rows, ref)[i] \in OwnRows(rows, ref, i) /\ Assigned(rows, ref)[i] # 0
<1> DEFINE e == Pass(rows, ref, FALSE, NobodyYet(ref))  yes == TRUE
<1>1. Rowed(rows, ref, e) /\ ExactUpTo(rows, ref, e, Len(ref))
  BY ExactPass
<1>2. Assigned(rows, ref) = Pass(rows, ref, yes, e)
  BY DEF Assigned
<1> HIDE DEF e, yes
<1>3. Rowed(rows, ref, Assigned(rows, ref)) /\ \A k \in DOMAIN ref : e[k] # 0 => Assigned(rows, ref)[k] = e[k]
  <2>1. Rowed(rows, ref, e)
    BY <1>1
  <2>2. /\ Rowed(rows, ref, Pass(rows, ref, yes, e))
        /\ Keeps(ref, e, Pass(rows, ref, yes, e))
    BY <2>1, PassKeeps
  <2> QED BY <1>2, <2>2 DEF Keeps
<1>4. DOMAIN ref = 1 .. Len(ref)
  BY SiteAndPin
<1> QED BY <1>1, <1>3, <1>4 DEF ExactUpTo

(* What a snapshot made from the rows of a page and a reference promises.  *)
Faithful(set, rows, ref) ==
    /\ \A m, n \in set : m.row = n.row => m = n
    /\ \A m \in set : m.row \in rows /\ CountryOf(m.row) = Fold[m.country]
    /\ ref # << >> => \A i \in DOMAIN ref : OwnRows(rows, ref, i) # {} =>
         \E m \in set : m.club = ref[i].club /\ m.row \in OwnRows(rows, ref, i)

LEMMA BuiltIsFaithful ==
  ASSUME NEW rows \in SUBSET DOMAIN Site, NEW ref \in {<< >>, Pin}
  PROVE  Faithful(Built(rows, ref), rows, ref)
<1> DEFINE own(set) == {[club |-> Site[r].name, country |-> Site[r].country, row |-> r] : r \in set}
           row == Assigned(rows, ref)
           found == {i \in DOMAIN ref : row[i] # 0}
           given == {[club |-> ref[i].club, country |-> ref[i].country, row |-> row[i]] : i \in found}
           free == {r \in Named(rows, ref) : Site[r].level = 1 /\ \A i \in found : row[i] # r}
<1>1. Built(rows, ref) = IF ref = << >> THEN own(Named(rows, ref)) ELSE given \cup own(free)
  BY DEF Built
<1>2. Rowed(rows, ref, row) /\ \A i \in DOMAIN ref : OwnRows(rows, ref, i) # {} =>
              row[i] \in OwnRows(rows, ref, i) /\ row[i] # 0
  BY AssignedIsOwn
<1> HIDE DEF row
<1>3. Named(rows, ref) \subseteq rows
  BY NamedIsShown
<1>4. ASSUME NEW set \in SUBSET Named(rows, ref)
      PROVE  /\ \A m \in own(set) : m.row \in set /\ m.row \in rows /\ CountryOf(m.row) = Fold[m.country]
             /\ \A m, n \in own(set) : m.row = n.row => m = n
  BY <1>3 DEF CountryOf
<1>5. free \in SUBSET Named(rows, ref) /\ \A r \in free : \A i \in found : row[i] # r
  OBVIOUS
<1>6. /\ \A m \in given : \E i \in found : m = [club |-> ref[i].club, country |-> ref[i].country, row |-> row[i]]
      /\ \A i \in found : [club |-> ref[i].club, country |-> ref[i].country, row |-> row[i]] \in given
  OBVIOUS
<1>7. /\ \A i \in found : row[i] \in rows /\ CountryOf(row[i]) = Fold[ref[i].country]
      /\ \A i, k \in found : row[i] = row[k] => i = k
  BY <1>2, <1>3 DEF Rowed
<1> HIDE DEF own, free, given
<1>8. CASE ref = << >>
  <2>1. Built(rows, ref) = own(Named(rows, ref))
    BY <1>1, <1>8
  <2> QED BY <1>4, <1>8, <2>1 DEF Faithful
<1>9. CASE ref # << >>
  <2>1. Built(rows, ref) = given \cup own(free)
    BY <1>1, <1>9
  <2>2. ASSUME NEW m \in given \cup own(free)
        PROVE  m.row \in rows /\ CountryOf(m.row) = Fold[m.country]
    BY <1>4, <1>5, <1>6, <1>7
  <2>3. ASSUME NEW m \in given, NEW n \in own(free) PROVE m.row # n.row
    BY <1>4, <1>5, <1>6
  <2>4. ASSUME NEW m \in given, NEW n \in given, m.row = n.row PROVE m = n
    <3>1. PICK i \in found : m = [club |-> ref[i].club, country |-> ref[i].country, row |-> row[i]]
      BY <1>6
    <3>2. PICK k \in found : n = [club |-> ref[k].club, country |-> ref[k].country, row |-> row[k]]
      BY <1>6
    <3>3. i = k
      BY <1>7, <2>4, <3>1, <3>2
    <3> QED BY <3>1, <3>2, <3>3
  <2>5. ASSUME NEW m \in given \cup own(free), NEW n \in given \cup own(free), m.row = n.row PROVE m = n
    BY <1>4, <1>5, <2>3, <2>4, <2>5
  <2>6. ASSUME NEW i \in DOMAIN ref, OwnRows(rows, ref, i) # {}
        PROVE  \E m \in given : m.club = ref[i].club /\ m.row \in OwnRows(rows, ref, i)
    <3>1. row[i] \in OwnRows(rows, ref, i) /\ i \in found
      BY <1>2, <2>6
    <3> DEFINE m == [club |-> ref[i].club, country |-> ref[i].country, row |-> row[i]]
    <3>2. m \in given /\ m.club = ref[i].club /\ m.row = row[i]
      BY <1>6, <3>1
    <3> HIDE DEF m
    <3> QED BY <3>1, <3>2
  <2> QED BY <2>1, <2>2, <2>5, <2>6 DEF Faithful
<1> QED BY <1>8, <1>9

LEMMA BuiltIsFinite ==
  ASSUME NEW rows \in SUBSET DOMAIN Site, NEW ref \in {<< >>, Pin}
  PROVE  IsFiniteSet(Built(rows, ref))
<1> DEFINE set == Built(rows, ref)
<1>1. Faithful(set, rows, ref)
  BY BuiltIsFaithful
<1> HIDE DEF set
<1> DEFINE f == [m \in set |-> m.row]
<1>2. IsFiniteSet(DOMAIN Site)
  <2> DEFINE S == {Site[r] : r \in DOMAIN Site}
  <2>1. Site \in Seq(S)
    BY EloAssumption
  <2> HIDE DEF S
  <2>2. Len(Site) \in Nat /\ DOMAIN Site = 1 .. Len(Site)
    BY <2>1, LenProperties
  <2> QED BY <2>2, FS_Interval
<1>3. f \in Injection(set, DOMAIN Site)
  BY <1>1 DEF Faithful, Injection, IsInjective
<1> HIDE DEF f
<1>4. IsFiniteSet(set)
  BY <1>2, <1>3, FS_Injection
<1> QED BY <1>4 DEF set

-----------------------------------------------------------------------------
(* The rating file, the old one and one about to replace it, is empty or   *)
(* the work of one scrape: a page and the reference as it was when the     *)
(* scrape began.                                                           *)
Sound(file) ==
    \/ file = NoFile
    \/ /\ file.page \subseteq DOMAIN Site /\ file.ref \in {<< >>, Pin}
       /\ file.rows = Built(file.page, file.ref) /\ Cardinality(file.rows) >= MinRows

EloInv ==
    /\ EloTypeOK
    /\ work = [s \in Scrapers |-> work[s]]
    /\ Sound(snapshot)
    /\ \A s \in Scrapers : work[s].pc = "write" => Sound(work[s].file)

LEMMA SoundFile ==
  ASSUME NEW file, Sound(file)
  PROVE  /\ Faithful(file.rows, file.page, file.ref)
         /\ file.ref \in {<< >>, Pin}
         /\ file.rows # {} => Cardinality(file.rows) >= MinRows
<1>1. CASE file = NoFile
  BY <1>1 DEF NoFile, Faithful
<1>2. CASE file # NoFile
  <2>1. file.page \in SUBSET DOMAIN Site /\ file.ref \in {<< >>, Pin} /\ file.rows = Built(file.page, file.ref)
        /\ Cardinality(file.rows) >= MinRows
    BY <1>2 DEF Sound
  <2>2. Faithful(Built(file.page, file.ref), file.page, file.ref)
    BY <2>1, BuiltIsFaithful
  <2> QED BY <2>1, <2>2
<1> QED BY <1>1, <1>2

LEMMA EloStarts == EloInit => EloInv
<1> SUFFICES ASSUME EloInit PROVE EloInv
  OBVIOUS
<1>1. work = [s \in Scrapers |-> NoWork] /\ snapshot = NoFile
  BY DEF EloInit
<1>2. \A s \in Scrapers : work[s].pc = "idle" /\ work[s].ref = << >>
  BY <1>1 DEF NoWork
<1>3. Sound(snapshot) /\ snapshot.rows = {}
  BY <1>1 DEF Sound, NoFile
<1>4. EloTypeOK
  BY <1>2, <1>3, EloAssumption DEF EloInit, EloTypeOK
<1> QED BY <1>1, <1>2, <1>3, <1>4 DEF EloInv

(* A step of one scrape that leaves it idle, or with the snapshot to write.*)
LEMMA ScrapeSteps ==
  ASSUME EloInv, NEW s \in Scrapers, NEW w, work' = [work EXCEPT ![s] = w],
         w.pc \in {"idle", "fetch", "write"}, w.ref \in {<< >>, Pin}, w.pc = "write" => Sound(w.file),
         UNCHANGED <<page, pin>>, Sound(snapshot'), troubles' \in 0 .. MaxTroubles
  PROVE  EloInv'
<1>1. work' = [t \in Scrapers |-> IF t = s THEN w ELSE work[t]]
  BY DEF EloInv
<1>2. \A t \in Scrapers : work'[t] = IF t = s THEN w ELSE work[t]
  BY <1>1
<1>3. work' = [t \in Scrapers |-> work'[t]]
  BY <1>1
<1>4. \A t \in Scrapers : /\ work'[t].pc \in {"idle", "fetch", "write"} /\ work'[t].ref \in {<< >>, Pin}
                          /\ work'[t].pc = "write" => Sound(work'[t].file)
  BY <1>2 DEF EloInv, EloTypeOK
<1>5. /\ \A m \in snapshot'.rows : m.row \in snapshot'.page
      /\ snapshot'.rows # {} => Cardinality(snapshot'.rows) >= MinRows
  <2> DEFINE f == snapshot'
  <2>1. Sound(f)
    OBVIOUS
  <2> HIDE DEF f
  <2>2. Faithful(f.rows, f.page, f.ref) /\ (f.rows # {} => Cardinality(f.rows) >= MinRows)
    BY <2>1, SoundFile
  <2>3. \A m \in f.rows : m.row \in f.page
    BY <2>2 DEF Faithful
  <2> QED BY <2>2, <2>3 DEF f
<1>6. Sound(snapshot)' /\ \A t \in Scrapers : work'[t].pc = "write" => Sound(work[t].file)'
  BY <1>4 DEF Sound
<1>7. EloTypeOK'
  BY <1>4, <1>5 DEF EloInv, EloTypeOK
<1> QED BY <1>3, <1>6, <1>7 DEF EloInv

LEMMA EloStep == EloInv /\ [EloNext]_eloVars => EloInv'
<1> SUFFICES ASSUME EloInv, [EloNext]_eloVars PROVE EloInv'
  OBVIOUS
<1>0. EloTypeOK /\ Sound(snapshot)
  BY DEF EloInv
<1>1. CASE PageMoves
  <2>1. page' \in [rows : SUBSET DOMAIN Site, dated : BOOLEAN]
    <3>0. page \in [rows : SUBSET DOMAIN Site, dated : BOOLEAN]
      BY <1>0 DEF EloTypeOK
    <3>1. CASE page' = [page EXCEPT !.dated = ~@]
      BY <3>0, <3>1
    <3>2. ASSUME NEW r \in DOMAIN Site,
                 page' = [page EXCEPT !.rows = IF r \in @ THEN @ \ {r} ELSE @ \cup {r}]
          PROVE  page' \in [rows : SUBSET DOMAIN Site, dated : BOOLEAN]
      <4> DEFINE q == IF r \in page.rows THEN page.rows \ {r} ELSE page.rows \cup {r}
      <4>1. q \in SUBSET DOMAIN Site /\ page' = [page EXCEPT !.rows = q]
        BY <3>0, <3>2
      <4> HIDE DEF q
      <4> QED BY <3>0, <4>1
    <3>3. CASE page' = [page EXCEPT !.rows = {}]
      BY <3>0, <3>3
    <3> QED BY <1>1, <3>1, <3>2, <3>3 DEF PageMoves
  <2>2. troubles' \in 0 .. MaxTroubles /\ UNCHANGED <<pin, snapshot, work>>
    BY <1>0, <1>1, EloAssumption DEF PageMoves, EloTypeOK
  <2>3. EloTypeOK'
    BY <1>0, <2>1, <2>2 DEF EloTypeOK
  <2> QED BY <2>2, <2>3 DEF EloInv, Sound
<1>2. CASE RefreshPin
  <2>1. pin' \in {<< >>, Pin} /\ troubles' \in 0 .. MaxTroubles /\ UNCHANGED <<page, snapshot, work>>
    BY <1>0, <1>2, EloAssumption DEF RefreshPin, EloTypeOK
  <2>2. EloTypeOK'
    BY <1>0, <2>1 DEF EloTypeOK
  <2> QED BY <2>1, <2>2 DEF EloInv, Sound
<1>3. ASSUME NEW s \in Scrapers, StartScrape(s) PROVE EloInv'
  <2> DEFINE w == [NoWork EXCEPT !.pc = "fetch", !.ref = pin]
  <2>1. w.pc = "fetch" /\ w.ref \in {<< >>, Pin}
    BY <1>0 DEF NoWork, EloTypeOK
  <2>2. work' = [work EXCEPT ![s] = w] /\ UNCHANGED <<page, pin, snapshot, troubles>>
    BY <1>3 DEF StartScrape
  <2> HIDE DEF w
  <2>3. Sound(snapshot') /\ troubles' \in 0 .. MaxTroubles
    BY <1>0, <2>2 DEF EloTypeOK
  <2> QED BY <2>1, <2>2, <2>3, ScrapeSteps
<1>4. ASSUME NEW s \in Scrapers, Scraped(s) PROVE EloInv'
  <2> DEFINE rows == Built(page.rows, work[s].ref)
             file == [rows |-> rows, page |-> page.rows, ref |-> work[s].ref]
             w == IF page.rows = {} \/ ~page.dated \/ Cardinality(rows) < MinRows THEN NoWork
                  ELSE [pc |-> "write", ref |-> << >>, file |-> file]
  <2>1. work' = [work EXCEPT ![s] = w] /\ UNCHANGED <<page, pin, snapshot, troubles>>
    BY <1>4 DEF Scraped
  <2>2. w = NoWork \/ (~(Cardinality(rows) < MinRows) /\ w = [pc |-> "write", ref |-> << >>, file |-> file])
    OBVIOUS
  <2>3. page.rows \in SUBSET DOMAIN Site /\ work[s].ref \in {<< >>, Pin}
    BY <1>0 DEF EloTypeOK
  <2>4. ASSUME w # NoWork PROVE Sound(file)
    <3>1. ~(Cardinality(rows) < MinRows)
      BY <2>2, <2>4
    <3>2. page.rows # {}
      BY <2>4
    <3>3. Cardinality(rows) >= MinRows
      <4>1. IsFiniteSet(rows)
        BY <2>3, BuiltIsFinite
      <4>2. Cardinality(rows) \in Nat
        BY <4>1, FS_CardinalityType
      <4> QED BY <3>1, <4>2, EloAssumption
    <3> QED BY <2>3, <3>3 DEF Sound
  <2> HIDE DEF file, w, rows
  <2>5. w.pc \in {"idle", "fetch", "write"} /\ w.ref \in {<< >>, Pin} /\ (w.pc = "write" => Sound(w.file))
    BY <2>2, <2>4 DEF NoWork
  <2>6. Sound(snapshot') /\ troubles' \in 0 .. MaxTroubles
    BY <1>0, <2>1 DEF EloTypeOK
  <2> QED BY <2>1, <2>5, <2>6, ScrapeSteps
<1>5. ASSUME NEW s \in Scrapers, Replace(s) PROVE EloInv'
  <2>1. Sound(snapshot') /\ work' = [work EXCEPT ![s] = NoWork] /\ UNCHANGED <<page, pin, troubles>>
    BY <1>5 DEF Replace, EloInv
  <2>2. NoWork.pc = "idle" /\ NoWork.ref = << >> /\ troubles' \in 0 .. MaxTroubles
    BY <1>0, <2>1 DEF NoWork, EloTypeOK
  <2> QED BY <2>1, <2>2, ScrapeSteps
<1>6. ASSUME NEW s \in Scrapers, ScrapeEnds(s) PROVE EloInv'
  <2>1. work' = [work EXCEPT ![s] = NoWork] /\ UNCHANGED <<page, pin, snapshot>>
        /\ troubles' \in 0 .. MaxTroubles
    BY <1>0, <1>6, EloAssumption DEF ScrapeEnds, EloTypeOK
  <2>2. NoWork.pc = "idle" /\ NoWork.ref = << >> /\ Sound(snapshot')
    BY <1>0, <2>1 DEF NoWork
  <2> QED BY <2>1, <2>2, ScrapeSteps
<1>7. CASE UNCHANGED eloVars
  <2>1. EloTypeOK'
    BY <1>0, <1>7 DEF EloTypeOK, eloVars
  <2> QED BY <1>7, <2>1 DEF EloInv, Sound, eloVars
<1> QED BY <1>1, <1>2, <1>3, <1>4, <1>5, <1>6, <1>7 DEF EloNext

LEMMA EloInvIsOwnRating == EloInv => OwnRatingFirst
<1> SUFFICES ASSUME EloInv PROVE OwnRatingFirst
  OBVIOUS
<1>1. Faithful(snapshot.rows, snapshot.page, snapshot.ref) /\ snapshot.ref \in {<< >>, Pin}
  BY SoundFile DEF EloInv
<1> QED BY <1>1 DEF Faithful, OwnRows, OwnRatingFirst

(* However the page changes and whoever writes the file last: no row of the*)
(* page rates two clubs or a club of another country, and a club that the  *)
(* page shows by its own name is rated by that row, for every reference    *)
(* whose clubs have names of their own.                                    *)
THEOREM SnapshotIsOwnRating == EloSpec => []OwnRatingFirst
<1>1. EloInit => EloInv
  BY EloStarts
<1>2. EloInv /\ [EloNext]_eloVars => EloInv'
  BY EloStep
<1>3. EloInv => OwnRatingFirst
  BY EloInvIsOwnRating
<1> QED BY <1>1, <1>2, <1>3, PTL DEF EloSpec

(* The files of the snapshot and the scrapes keep their types, and a       *)
(* snapshot is never smaller than the least one.                           *)
THEOREM SnapshotIsTyped == EloSpec => []EloTypeOK
<1>1. EloInit => EloInv
  BY EloStarts
<1>2. EloInv /\ [EloNext]_eloVars => EloInv'
  BY EloStep
<1>3. EloInv => EloTypeOK
  BY DEF EloInv
<1> QED BY <1>1, <1>2, <1>3, PTL DEF EloSpec

-----------------------------------------------------------------------------
(***************************************************************************)
(* MarketRoute: any board, fixtures, page sizes and number of changes.     *)
(***************************************************************************)

Distinct(seq) == \A i, j \in DOMAIN seq : seq[i] = seq[j] => i = j

(* The bet of fixture i has an event of the match and a leg of its side.   *)
Routed(i) ==
    LET f == Scored[i]
        b == bet[i]
    IN  /\ b.event \in Events /\ b.outcome \in Outcomes
        /\ Classified(b.event, f) /\ ~Board[b.event].propWords /\ Score(b.event, f) # 0
        /\ b.leg \in LegsOf(b.event, f, b.outcome)

BetType == [how : {"none", "due", "unpriced", "vetoed", "priced"}, outcome : Outcomes \cup {Absent},
            event : Events \cup {Absent}, leg : Nat]
ScanType == [pc : {"idle", "league", "generic", "wc", "book"}, offset : Nat,
             got : Seq(Events), wc : Seq(Events)]

RouteTyped ==
    /\ board \in Seq(Events) /\ Distinct(board)
    /\ scan \in ScanType /\ Distinct(scan.got)
    /\ known \in Seq(Events) \cup {Absent}
    /\ bet \in [DOMAIN Scored -> BetType]
    /\ turns \in 0 .. MaxTurns

(* One fixture at most is under way, its event is chosen before the book   *)
(* is asked, and what was quoted keeps the event it was quoted for.        *)
DueIsRouted ==
    \A i \in DOMAIN Scored : bet[i].how = "due" =>
        /\ scan.pc # "idle" /\ bet[i].outcome \in Outcomes
        /\ scan.pc = "book" => Routed(i)
OneIsDue == \A i, j \in DOMAIN Scored : bet[i].how = "due" /\ bet[j].how = "due" => i = j
QuotedIsRouted == \A i \in DOMAIN Scored : bet[i].how \in {"vetoed", "priced"} => Routed(i)

RouteInv == RouteTyped /\ DueIsRouted /\ OneIsDue /\ QuotedIsRouted

-----------------------------------------------------------------------------
(* Among takes one member after the other and keeps their order.           *)
Taking(S, seq, set, row) ==
    /\ row[0] = << >> /\ Among(seq, set) = row[Len(seq)]
    /\ \A n \in 1 .. Len(seq) : row[n] = IF seq[n] \in set THEN Append(row[n - 1], seq[n]) ELSE row[n - 1]
    /\ \A n \in 0 .. Len(seq) : row[n] \in Seq(S)

LEMMA AmongIsTaking ==
  ASSUME NEW S, NEW seq \in Seq(S), NEW set
  PROVE  \E row : Taking(S, seq, set, row)
<1> DEFINE N == Len(seq)
           V == Seq(S)
           next(s, n) == IF seq[n] \in set THEN Append(s, seq[n]) ELSE s
           step == [p \in V \X (1 .. N) |-> next(p[1], p[2])]
           none == << >>
           Is(g) == g = [i \in 0 .. N |-> IF i = 0 THEN none ELSE next(g[i - 1], i)]
<1>1. N \in Nat /\ none \in V /\ \A n \in 1 .. N : seq[n] \in S
  OBVIOUS
<1>2. ASSUME NEW s \in V, NEW n \in 1 .. N PROVE next(s, n) \in V
  BY <1>1
<1> HIDE DEF V, N, next, none
<1>4. step \in [V \X (1 .. N) -> V]
  BY <1>2
<1>5. \A s \in V, n \in 1 .. N : step[<<s, n>>] = next(s, n)
  OBVIOUS
<1> HIDE DEF step
<1>6. PICK g : Recurses(N, V, none, step, g)
  <2>1. N \in Nat /\ none \in V
    BY <1>1
  <2> QED BY <1>4, <2>1, RecursionExists, Zenon
<1>7. \A i \in 1 .. N : g[i] = next(g[i - 1], i)
  <2> SUFFICES ASSUME NEW i \in 1 .. N PROVE g[i] = next(g[i - 1], i)
    OBVIOUS
  <2>1. i \in 0 .. N /\ i - 1 \in 0 .. N /\ i # 0
    BY <1>1
  <2>2. g[i] = step[<<g[i - 1], i>>] /\ g[i - 1] \in V
    BY <1>6, <2>1 DEF Recurses
  <2> QED BY <1>5, <2>2
<1>8. Is(g)
  <2>1. g[0] = none
    BY <1>6 DEF Recurses
  <2>2. \A i \in 0 .. N : g[i] = IF i = 0 THEN none ELSE next(g[i - 1], i)
    BY <1>1, <1>7, <2>1
  <2>3. g = [i \in 0 .. N |-> g[i]]
    BY <1>6 DEF Recurses
  <2> QED BY <2>2, <2>3
<1> DEFINE row == CHOOSE r : Is(r)
<1>9. Is(row)
  <2> HIDE DEF Is
  <2> QED BY <1>8
<1>10. Among(seq, set) = row[N]
  BY DEF Among, N, next, none
<1> HIDE DEF row
<1>11. row[0] = none /\ \A i \in 1 .. N : row[i] = next(row[i - 1], i)
  <2>1. \A i \in 0 .. N : row[i] = IF i = 0 THEN none ELSE next(row[i - 1], i)
    BY <1>9
  <2> QED BY <1>1, <2>1
<1>12. \A i \in 0 .. N : row[i] \in V
  <2> DEFINE Q == {i \in 0 .. N : row[i] \in V}
  <2>1. 0 \in Q /\ \A i \in 1 .. N : i - 1 \in Q => i \in Q
    BY <1>1, <1>2, <1>11
  <2>2. 0 .. N \subseteq Q
    <3> HIDE DEF Q
    <3> QED BY <1>1, <2>1, InductUpTo
  <2> QED BY <2>2
<1>13. Taking(S, seq, set, row)
  BY <1>10, <1>11, <1>12 DEF N, V, next, none, Taking
<1> QED BY <1>13

LEMMA AmongIsPart ==
  ASSUME NEW S, NEW seq \in Seq(S), NEW set
  PROVE  /\ Among(seq, set) \in Seq(S)
         /\ Slugs(Among(seq, set)) \subseteq Slugs(seq) \cap set
         /\ Distinct(seq) => Distinct(Among(seq, set))
<1>0. PICK g : Taking(S, seq, set, g)
  BY AmongIsTaking
<1> DEFINE N == Len(seq)
           Before(n) == \A i \in DOMAIN g[n] : \E j \in 1 .. n : g[n][i] = seq[j] /\ seq[j] \in set
           UpTo(n) == Before(n) /\ (Distinct(seq) => Distinct(g[n]))
           P == {n \in 0 .. N : UpTo(n)}
<1>1. /\ g[0] = << >> /\ Among(seq, set) = g[N]
      /\ \A n \in 1 .. N : g[n] = IF seq[n] \in set THEN Append(g[n - 1], seq[n]) ELSE g[n - 1]
  BY <1>0 DEF Taking
<1>2. N \in Nat /\ DOMAIN seq = 1 .. N /\ \A n \in 0 .. N : g[n] \in Seq(S)
  BY <1>0 DEF Taking
<1>3. 0 \in P
  BY <1>1, <1>2 DEF Distinct
<1>4. \A n \in 1 .. N : n - 1 \in P => n \in P
  <2> SUFFICES ASSUME NEW n \in 1 .. N, n - 1 \in P PROVE n \in P
    OBVIOUS
  <2>1. Before(n - 1) /\ (Distinct(seq) => Distinct(g[n - 1])) /\ n - 1 \in 0 .. N /\ g[n - 1] \in Seq(S)
    BY <1>2
  <2>2. CASE seq[n] \notin set
    <3>1. g[n] = g[n - 1]
      BY <1>1, <2>2
    <3>2. Before(n)
      BY <2>1, <3>1
    <3> QED BY <2>1, <3>1, <3>2
  <2>3. CASE seq[n] \in set
    <3> DEFINE old == g[n - 1]
    <3>1. g[n] = Append(old, seq[n])
      BY <1>1, <2>3
    <3>2. old \in Seq(S) /\ DOMAIN old = 1 .. Len(old) /\ Len(old) \in Nat
      BY <2>1
    <3>3. /\ DOMAIN g[n] = 1 .. Len(old) + 1 /\ g[n][Len(old) + 1] = seq[n]
          /\ \A i \in 1 .. Len(old) : g[n][i] = old[i]
      BY <3>1, <3>2
    <3>4. \A i \in 1 .. Len(old) : \E j \in 1 .. n - 1 : old[i] = seq[j] /\ seq[j] \in set
      BY <2>1, <3>2
    <3>5. Distinct(seq) => Distinct(old)
      BY <2>1
    <3> HIDE DEF old
    <3>6. Before(n)
      <4> SUFFICES ASSUME NEW i \in DOMAIN g[n]
                   PROVE  \E j \in 1 .. n : g[n][i] = seq[j] /\ seq[j] \in set
        OBVIOUS
      <4>1. CASE i = Len(old) + 1
        BY <2>3, <3>3, <4>1
      <4>2. CASE i \in 1 .. Len(old)
        <5>1. PICK j \in 1 .. n - 1 : old[i] = seq[j] /\ seq[j] \in set
          BY <3>4, <4>2
        <5>2. j \in 1 .. n
          OBVIOUS
        <5> QED BY <3>3, <4>2, <5>1, <5>2
      <4> QED BY <3>2, <3>3, <4>1, <4>2
    <3>7. ASSUME Distinct(seq) PROVE Distinct(g[n])
      <4>1. \A i \in 1 .. Len(old) : old[i] # seq[n]
        <5> SUFFICES ASSUME NEW i \in 1 .. Len(old), old[i] = seq[n] PROVE FALSE
          OBVIOUS
        <5>1. PICK j \in 1 .. n - 1 : old[i] = seq[j]
          BY <3>4
        <5>2. j \in DOMAIN seq /\ n \in DOMAIN seq /\ j # n
          BY <1>2
        <5> QED BY <3>7, <5>1, <5>2 DEF Distinct
      <4>2. \A i, j \in 1 .. Len(old) : old[i] = old[j] => i = j
        BY <3>2, <3>5, <3>7 DEF Distinct
      <4> SUFFICES ASSUME NEW i \in DOMAIN g[n], NEW j \in DOMAIN g[n], g[n][i] = g[n][j] PROVE i = j
        BY DEF Distinct
      <4> QED BY <3>2, <3>3, <4>1, <4>2
    <3> QED BY <3>6, <3>7
  <2>4. UpTo(n) /\ n \in 0 .. N
    BY <1>2, <2>2, <2>3
  <2> HIDE DEF UpTo
  <2> QED BY <2>4
<1>5. N \in P
  <2>1. N \in Nat
    BY <1>2
  <2> HIDE DEF P, N
  <2>2. 0 .. N \subseteq P
    BY <1>3, <1>4, <2>1, InductUpTo
  <2> QED BY <2>1, <2>2
<1>6. Before(N) /\ (Distinct(seq) => Distinct(g[N]))
  BY <1>5
<1>7. Among(seq, set) = g[N] /\ g[N] \in Seq(S)
  BY <1>1, <1>2
<1>8. Slugs(g[N]) \subseteq Slugs(seq) \cap set
  <2> SUFFICES ASSUME NEW i \in DOMAIN g[N] PROVE g[N][i] \in Slugs(seq) \cap set
    BY DEF Slugs
  <2>1. PICK j \in 1 .. N : g[N][i] = seq[j] /\ seq[j] \in set
    BY <1>6
  <2> QED BY <1>2, <2>1 DEF Slugs
<1> HIDE DEF N
<1> QED BY <1>6, <1>7, <1>8

(* A sequence without repetitions is as long as the set of its members.    *)
LEMMA DistinctIsCounted ==
  ASSUME NEW S, NEW seq \in Seq(S)
  PROVE  Len(seq) = Cardinality(Slugs(seq)) <=> Distinct(seq)
<1> DEFINE N == Len(seq)  T == Slugs(seq)
<1>1. N \in Nat /\ DOMAIN seq = 1 .. N
  OBVIOUS
<1>2. seq \in [1 .. N -> T] /\ \A t \in T : \E i \in 1 .. N : seq[i] = t
  BY <1>1 DEF Slugs
<1>3. IsFiniteSet(1 .. N) /\ Cardinality(1 .. N) = N
  BY <1>1, FS_Interval
<1>4. seq \in Surjection(1 .. N, T)
  <2> HIDE DEF N, T
  <2> QED BY <1>2 DEF Surjection
<1>5. Cardinality(T) = Cardinality(1 .. N) <=> seq \in Injection(1 .. N, T)
  <2> HIDE DEF N, T
  <2> QED BY <1>3, <1>4, FS_Surjection
<1>6. seq \in Injection(1 .. N, T) <=> Distinct(seq)
  <2> HIDE DEF N, T
  <2> QED BY <1>1, <1>2 DEF Injection, IsInjective, Distinct
<1> QED BY <1>3, <1>5, <1>6

LEMMA MergedIsDistinct ==
  ASSUME NEW got \in Seq(Events), NEW batch \in Seq(Events)
  PROVE  /\ Merged(got, batch) \in Seq(Events)
         /\ Distinct(got) /\ Distinct(batch) => Distinct(Merged(got, batch))
<1> DEFINE more == Among(batch, Events \ Slugs(got))
<1>1. more \in Seq(Events) /\ Slugs(more) \subseteq Events \ Slugs(got) /\ (Distinct(batch) => Distinct(more))
  BY AmongIsPart
<1> HIDE DEF more
<1>2. Merged(got, batch) = got \o more
  BY DEF Merged, more
<1>3. got \o more \in Seq(Events)
  BY <1>1
<1>4. ASSUME Distinct(got), Distinct(batch) PROVE Distinct(got \o more)
  <2> DEFINE n == Len(got)  m == Len(more)  all == got \o more
  <2>1. n \in Nat /\ m \in Nat /\ DOMAIN got = 1 .. n /\ DOMAIN more = 1 .. m /\ DOMAIN all = 1 .. n + m
    BY <1>1
  <2>2. /\ \A i \in 1 .. n : all[i] = got[i]
        /\ \A i \in n + 1 .. n + m : all[i] = more[i - n]
    BY <1>1
  <2>3. Distinct(more)
    BY <1>1, <1>4
  <2>4. \A i \in 1 .. n, j \in 1 .. m : got[i] # more[j]
    BY <1>1, <2>1 DEF Slugs
  <2> HIDE DEF n, m, all
  <2> SUFFICES ASSUME NEW i \in 1 .. n + m, NEW j \in 1 .. n + m, all[i] = all[j] PROVE i = j
    BY <2>1 DEF Distinct, all
  <2>5. CASE i \in 1 .. n /\ j \in 1 .. n
    <3>1. got[i] = got[j]
      BY <2>2, <2>5
    <3> QED BY <1>4, <2>1, <2>5, <3>1 DEF Distinct
  <2>6. CASE i \in n + 1 .. n + m /\ j \in n + 1 .. n + m
    <3>1. i - n \in 1 .. m /\ j - n \in 1 .. m
      BY <2>1, <2>6
    <3>2. more[i - n] = more[j - n]
      BY <2>2, <2>6
    <3>3. i - n = j - n
      BY <2>1, <2>3, <3>1, <3>2 DEF Distinct
    <3> QED BY <2>1, <3>3
  <2>7. ASSUME NEW a \in 1 .. n, NEW b \in n + 1 .. n + m PROVE all[a] # all[b]
    <3>1. b - n \in 1 .. m
      BY <2>1
    <3> QED BY <2>2, <2>4, <3>1
  <2>8. (i \in 1 .. n \/ i \in n + 1 .. n + m) /\ (j \in 1 .. n \/ j \in n + 1 .. n + m)
    BY <2>1
  <2> QED BY <2>5, <2>6, <2>7, <2>8
<1> QED BY <1>2, <1>3, <1>4

(* A page is a part of the listing of its source.                          *)
LEMMA BatchIsDistinct ==
  ASSUME RouteData, board \in Seq(Events), Distinct(board), scan \in ScanType, NEW origin
  PROVE  Batch(origin) \in Seq(Events) /\ Distinct(Batch(origin)) /\ Len(Batch(origin)) \in Nat
<1> DEFINE all == Listing(origin)
           first == scan.offset + 1
           last == IF scan.offset + PageSize < Len(all) THEN scan.offset + PageSize ELSE Len(all)
<1>1. all \in Seq(Events) /\ Distinct(all)
  BY AmongIsPart DEF Listing
<1> HIDE DEF all
<1>2. /\ Len(all) \in Nat /\ first \in Nat \ {0} /\ last \in Nat /\ last <= Len(all)
      /\ DOMAIN all = 1 .. Len(all)
  BY <1>1 DEF ScanType, RouteData
<1> HIDE DEF first, last
<1>3. Batch(origin) = SubSeq(all, first, last)
  BY DEF Batch, all, first, last
<1>4. SubSeq(all, first, last) \in Seq(Events)
  BY <1>1, <1>2
<1>5. Distinct(SubSeq(all, first, last))
  <2> DEFINE cut == SubSeq(all, first, last)
  <2>1. DOMAIN cut = 1 .. Len(cut) /\ Len(cut) \in Nat
    BY <1>1, <1>2
  <2>2. \A i \in DOMAIN cut : i \in Nat /\ first + i - 1 \in DOMAIN all /\ cut[i] = all[first + i - 1]
    BY <1>1, <1>2
  <2> HIDE DEF cut
  <2> SUFFICES ASSUME NEW i \in DOMAIN cut, NEW j \in DOMAIN cut, cut[i] = cut[j] PROVE i = j
    BY DEF Distinct, cut
  <2>3. first + i - 1 = first + j - 1
    BY <1>1, <2>2 DEF Distinct
  <2> QED BY <1>2, <2>2, <2>3
<1> QED BY <1>3, <1>4, <1>5


-----------------------------------------------------------------------------
(* The choice of an event and a leg.                                       *)

(* The event that is chosen has passed every test.                         *)
LEMMA MarketIsCandidate ==
  ASSUME RouteData, NEW events \in Seq(Events), NEW f, Market(events, f) # Absent
  PROVE  LET e == Market(events, f)
         IN  e \in Events /\ Classified(e, f) /\ ~Board[e].propWords /\ Score(e, f) # 0
<1> DEFINE C == Candidates(events, f)
           T == {Score(events[i], f) : i \in C}
           best == {i \in C : \A j \in C : Score(events[j], f) <= Score(events[i], f)}
<1>1. C # {} /\ Market(events, f) = Best(events, f) /\ Score(Best(events, f), f) # 0
  BY DEF Market
<1>2. C \subseteq 1 .. Len(events) /\ Len(events) \in Nat /\ \A i \in 1 .. Len(events) : events[i] \in Events
  BY DEF Candidates
<1>3. \A e : Score(e, f) \in 0 .. 11
  BY DEF Score
<1> HIDE DEF C
<1>4. best # {}
  <2>1. T \in SUBSET (0 .. 11) /\ T # {}
    BY <1>1, <1>3
  <2> HIDE DEF T
  <2>2. Max(T) \in T /\ \A m \in T : m <= Max(T)
    BY <2>1, MaxIsGreatest
  <2>3. PICK i \in C : Max(T) = Score(events[i], f)
    BY <2>2 DEF T
  <2>4. \A j \in C : Score(events[j], f) <= Score(events[i], f)
    BY <2>2, <2>3 DEF T
  <2> QED BY <2>4
<1>5. best \in SUBSET Nat /\ best \subseteq C
  <2>1. \A i \in C : i \in Nat
    BY <1>2
  <2> QED BY <2>1
<1> DEFINE k == CHOOSE i \in best : \A j \in best : i <= j
<1>6. Best(events, f) = events[k]
  BY DEF Best, C
<1> HIDE DEF best
<1>7. k \in best
  <2>1. \E i \in best : \A j \in best : i <= j
    BY <1>4, <1>5, LeastNumber
  <2> QED BY <2>1
<1> HIDE DEF k
<1>8. k \in C /\ events[k] \in Events
  BY <1>2, <1>5, <1>7
<1>9. Classified(events[k], f) /\ ~Board[events[k]].propWords
  BY <1>8 DEF C, Candidates
<1> QED BY <1>1, <1>6, <1>8, <1>9

LEMMA LegOfIsLeg ==
  ASSUME RouteData, NEW e \in Events, NEW f, NEW o, LegsOf(e, f, o) # {}
  PROVE  LegOf(e, f, o) \in LegsOf(e, f, o) /\ LegOf(e, f, o) \in Nat
<1> DEFINE n == Len(Board[e].legs)  T == LegsOf(e, f, o)
<1>1. n \in Nat /\ DOMAIN Board[e].legs = 1 .. n
  BY DEF RouteData
<1>2. T \in SUBSET (0 .. n) /\ T # {}
  BY <1>1 DEF LegsOf
<1> HIDE DEF n, T
<1>3. Max(T) \in T /\ \A m \in T : m <= Max(T)
  BY <1>1, <1>2, MaxIsGreatest
<1>4. (CHOOSE i \in T : \A j \in T : j <= i) \in T
  BY <1>3
<1>5. LegOf(e, f, o) \in T
  BY <1>4 DEF LegOf, T
<1> QED BY <1>1, <1>2, <1>5 DEF T

(* What passes the tests is a match of two clubs that are like those of the*)
(* fixture, if the board is honest.                                        *)
HeadToHead(i) ==
    LET e == Board[bet[i].event]
    IN  \E a, b \in e.between :
          /\ a # b /\ e.between = {a, b}
          /\ Likened(a, Scored[i].home) /\ Likened(b, Scored[i].away)
          /\ e.pays[bet[i].leg] = CASE bet[i].outcome = "home" -> a
                                    [] bet[i].outcome = "away" -> b
                                    [] OTHER -> "draw"

(* A leg that is a side is like its team, and not like both.               *)
LEMMA SideIsLikened ==
  ASSUME RouteData, NEW label, NEW f
  PROVE  /\ Side(label, f) = "home" => label # "draw" /\ Likened(Canonical[label], f.home)
         /\ Side(label, f) = "away" => /\ label # "draw" /\ Likened(Canonical[label], f.away)
                                       /\ ~Likened(Canonical[label], f.home)
         /\ Side(label, f) = "draw" => label = "draw"
<1>1. Absent \notin {"home", "draw", "away"}
  BY DEF RouteData, Outcomes
<1>2. \A team : SameTeam(label, team) <=> Likened(Canonical[label], team)
  BY DEF SameTeam, Likened
<1>3. \/ label = "draw" /\ Side(label, f) = "draw"
      \/ label # "draw" /\ SameTeam(label, f.home) /\ Side(label, f) = "home"
      \/ /\ label # "draw" /\ ~SameTeam(label, f.home) /\ SameTeam(label, f.away)
         /\ Side(label, f) = "away"
      \/ Side(label, f) = Absent
  BY DEF Side
<1> QED BY <1>1, <1>2, <1>3

LEMMA RoutedIsHeadToHead ==
  ASSUME RouteData, ClubsDiffer, BoardIsHonest, NEW i \in DOMAIN Scored, Routed(i)
  PROVE  HeadToHead(i)
<1> DEFINE f == Scored[i]  o == bet[i].outcome  leg == bet[i].leg  ev == bet[i].event
           legs == Board[ev].legs
<1>1. /\ ev \in Events /\ o \in Outcomes /\ ~Board[ev].propWords /\ Score(ev, f) # 0
      /\ LegsOf(ev, f, "home") # {} /\ LegsOf(ev, f, "away") # {} /\ leg \in LegsOf(ev, f, o)
  BY DEF Routed, Classified
<1>2. \A x, k : k \in LegsOf(ev, f, x) <=> k \in DOMAIN legs /\ Side(legs[k], f) = x
  BY DEF LegsOf
<1>3. leg \in DOMAIN legs /\ Side(legs[leg], f) = o
  BY <1>1, <1>2
<1>4. PICK k \in DOMAIN legs : Side(legs[k], f) = "home" /\ (o = "home" => k = leg)
  BY <1>1, <1>2, <1>3
<1>5. PICK l \in DOMAIN legs : Side(legs[l], f) = "away" /\ (o = "away" => l = leg)
  BY <1>1, <1>2, <1>3
<1> DEFINE a == Canonical[legs[k]]  b == Canonical[legs[l]]
<1>6. /\ legs[k] # "draw" /\ Likened(a, f.home)
      /\ legs[l] # "draw" /\ Likened(b, f.away) /\ ~Likened(b, f.home)
      /\ o = "draw" => legs[leg] = "draw"
  BY <1>3, <1>4, <1>5, SideIsLikened
<1>7. a # b
  BY <1>6
<1>8. \/ \E m \in DOMAIN legs : legs[m] = "draw"
      \/ \E n, t \in Board[ev].title : Canonical[n] # Canonical[t]
  <2>1. CASE LegsOf(ev, f, "draw") # {}
    <3>1. PICK m \in DOMAIN legs : Side(legs[m], f) = "draw"
      BY <1>2, <2>1
    <3>2. legs[m] = "draw"
      BY <3>1, SideIsLikened
    <3> QED BY <3>1, <3>2
  <2>2. CASE LegsOf(ev, f, "draw") = {}
    <3>1. {f.home, f.away} \subseteq Board[ev].title
      BY <1>1, <2>2 DEF Score
    <3> QED BY <3>1 DEF ClubsDiffer
  <2> QED BY <2>1, <2>2
<1>9. /\ Board[ev].between = {a, b}
      /\ \A m \in DOMAIN legs :
           Board[ev].pays[m] = IF legs[m] = "draw" THEN "draw" ELSE Canonical[legs[m]]
  BY <1>1, <1>6, <1>7, <1>8 DEF BoardIsHonest
<1>10. Board[ev].pays[leg] = CASE o = "home" -> a [] o = "away" -> b [] OTHER -> "draw"
  <2>1. CASE o = "home"
    BY <1>3, <1>4, <1>6, <1>9, <2>1
  <2>2. CASE o = "away"
    BY <1>3, <1>5, <1>6, <1>9, <2>2
  <2>3. CASE o = "draw"
    BY <1>3, <1>6, <1>9, <2>3
  <2> QED BY <1>1, <2>1, <2>2, <2>3 DEF Outcomes
<1> HIDE DEF a, b
<1> QED BY <1>6, <1>7, <1>9, <1>10 DEF HeadToHead

-----------------------------------------------------------------------------
(* The steps                                                               *)

(* Steps that leave every bet alone and do not reach the order book.       *)
LEMMA QuietRoute ==
  ASSUME RouteInv, RouteTyped', bet' = bet, scan' = scan \/ (scan.pc \notin {"idle", "book"} /\ scan'.pc \notin {"idle", "book"})
  PROVE  RouteInv'
<1>1. \A i \in DOMAIN Scored : Routed(i)' = Routed(i)
  BY DEF Routed
<1>2. DueIsRouted'
  BY <1>1 DEF RouteInv, DueIsRouted
<1>3. OneIsDue' /\ QuotedIsRouted'
  BY <1>1 DEF RouteInv, OneIsDue, QuotedIsRouted
<1> QED BY <1>2, <1>3 DEF RouteInv

(* Steps that settle what becomes of one fixture, the one under way if     *)
(* there is one.                                                           *)
LEMMA OneRouted ==
  ASSUME RouteInv, RouteTyped', NEW i \in DOMAIN Scored,
         \A j \in DOMAIN Scored \ {i} : bet'[j] = bet[j] /\ bet[j].how # "due",
         bet'[i].how = "due" => /\ scan'.pc # "idle" /\ bet'[i].outcome \in Outcomes
                                /\ scan'.pc = "book" => Routed(i)',
         bet'[i].how \in {"vetoed", "priced"} => Routed(i)'
  PROVE  RouteInv'
<1>1. \A j \in DOMAIN Scored \ {i} : Routed(j)' = Routed(j)
  BY DEF Routed
<1>2. DueIsRouted'
  BY DEF DueIsRouted
<1>3. OneIsDue'
  BY DEF OneIsDue
<1>4. QuotedIsRouted'
  BY <1>1 DEF RouteInv, QuotedIsRouted
<1> QED BY <1>2, <1>3, <1>4 DEF RouteInv

LEMMA IdleScan ==
  /\ NoScan \in ScanType /\ NoScan.pc = "idle" /\ NoScan.got = << >> /\ Distinct(NoScan.got)
  /\ [NoScan EXCEPT !.pc = "book"] \in ScanType /\ [NoScan EXCEPT !.pc = "book"].pc = "book"
  /\ [NoScan EXCEPT !.pc = "book"].got = << >> /\ Distinct([NoScan EXCEPT !.pc = "book"].got)
  /\ [NoScan EXCEPT !.pc = "league"] \in ScanType /\ [NoScan EXCEPT !.pc = "league"].pc = "league"
  /\ [NoScan EXCEPT !.pc = "league"].got = << >> /\ Distinct([NoScan EXCEPT !.pc = "league"].got)
<1>1. << >> \in Seq(Events) /\ Distinct(<< >>)
  BY DEF Distinct
<1> QED BY <1>1 DEF NoScan, ScanType

(* Without a price: the fixture is done with.                              *)
LEMMA UnpricedDone ==
  ASSUME bet \in [DOMAIN Scored -> BetType], NEW i \in DOMAIN Scored, NEW o \in Outcomes, Unpriced(i, o)
  PROVE  /\ bet' \in [DOMAIN Scored -> BetType] /\ bet'[i].how = "unpriced"
         /\ \A j \in DOMAIN Scored \ {i} : bet'[j] = bet[j]
<1> DEFINE new == [NoBet EXCEPT !.how = "unpriced", !.outcome = o]
<1>1. new \in BetType /\ new.how = "unpriced"
  BY DEF NoBet, BetType
<1>2. bet' = [bet EXCEPT ![i] = new]
  BY DEF Unpriced
<1> HIDE DEF new
<1> QED BY <1>1, <1>2

(* A fixture is looked up: it is done with, or its event and leg are those *)
(* of its side.                                                            *)
LEMMA LookUpRoutes ==
  ASSUME RouteData, bet \in [DOMAIN Scored -> BetType], NEW i \in DOMAIN Scored, NEW o \in Outcomes,
         NEW events \in Seq(Events), LookUp(i, o, events)
  PROVE  /\ bet' \in [DOMAIN Scored -> BetType] /\ scan' \in ScanType /\ Distinct(scan'.got)
         /\ \A j \in DOMAIN Scored \ {i} : bet'[j] = bet[j]
         /\ \/ bet'[i].how = "unpriced"
            \/ bet'[i].how = "due" /\ bet'[i].outcome = o /\ scan'.pc = "book" /\ Routed(i)'
<1> DEFINE f == Scored[i]
           e == Market(events, f)
           due == [how |-> "due", outcome |-> o, event |-> e, leg |-> LegOf(e, f, o)]
<1>1. CASE e # Absent /\ LegsOf(e, f, o) # {}
  <2>1. scan' = [NoScan EXCEPT !.pc = "book"] /\ bet' = [bet EXCEPT ![i] = due]
    BY <1>1 DEF LookUp
  <2>2. e \in Events /\ Classified(e, f) /\ ~Board[e].propWords /\ Score(e, f) # 0
    BY <1>1, MarketIsCandidate
  <2>3. LegOf(e, f, o) \in LegsOf(e, f, o) /\ LegOf(e, f, o) \in Nat
    BY <1>1, <2>2, LegOfIsLeg
  <2> DEFINE leg == LegOf(e, f, o)
  <2>4. due = [how |-> "due", outcome |-> o, event |-> e, leg |-> leg]
    OBVIOUS
  <2> HIDE DEF e, leg
  <2>5. due \in BetType /\ due.how = "due" /\ due.outcome = o /\ due.event = e /\ due.leg = leg
    BY <2>2, <2>3 DEF BetType, leg
  <2> HIDE DEF due
  <2>6. bet' \in [DOMAIN Scored -> BetType] /\ bet'[i] = due /\ \A j \in DOMAIN Scored \ {i} : bet'[j] = bet[j]
    BY <2>1, <2>5
  <2>7. Routed(i)'
    BY <2>2, <2>3, <2>5, <2>6 DEF Routed, leg
  <2> QED BY <2>1, <2>5, <2>6, <2>7, IdleScan
<1>2. CASE ~(e # Absent /\ LegsOf(e, f, o) # {})
  <2>1. scan' = NoScan /\ Unpriced(i, o)
    BY <1>2 DEF LookUp
  <2> QED BY <2>1, UnpricedDone, IdleScan
<1> QED BY <1>1, <1>2


LEMMA ScoreFixtureInv ==
  ASSUME RouteData, RouteInv, NEW i \in DOMAIN Scored, NEW o \in Outcomes, ScoreFixture(i, o)
  PROVE  RouteInv'
<1>1. scan.pc = "idle" /\ UNCHANGED <<board, known, turns>>
  BY DEF ScoreFixture
<1>2. RouteTyped /\ \A j \in DOMAIN Scored : bet[j].how # "due"
  BY <1>1 DEF RouteInv, DueIsRouted
<1>3. CASE known # Absent
  <2>1. LookUp(i, o, known) /\ known \in Seq(Events)
    BY <1>2, <1>3 DEF ScoreFixture, RouteTyped
  <2>2. /\ bet' \in [DOMAIN Scored -> BetType] /\ scan' \in ScanType /\ Distinct(scan'.got)
        /\ \A j \in DOMAIN Scored \ {i} : bet'[j] = bet[j]
        /\ \/ bet'[i].how = "unpriced"
           \/ bet'[i].how = "due" /\ bet'[i].outcome = o /\ scan'.pc = "book" /\ Routed(i)'
    BY <1>2, <2>1, LookUpRoutes DEF RouteTyped
  <2>3. RouteTyped'
    BY <1>1, <1>2, <2>2 DEF RouteTyped
  <2> QED BY <1>2, <2>2, <2>3, OneRouted
<1>4. CASE known = Absent
  <2> DEFINE due == [NoBet EXCEPT !.how = "due", !.outcome = o]
  <2>1. scan' = [NoScan EXCEPT !.pc = "league"] /\ bet' = [bet EXCEPT ![i] = due]
    BY <1>4 DEF ScoreFixture
  <2>2. due \in BetType /\ due.how = "due" /\ due.outcome = o
    BY DEF NoBet, BetType
  <2> HIDE DEF due
  <2>3. bet' \in [DOMAIN Scored -> BetType] /\ bet'[i] = due /\ \A j \in DOMAIN Scored \ {i} : bet'[j] = bet[j]
    BY <1>2, <2>1, <2>2 DEF RouteTyped
  <2>4. RouteTyped'
    BY <1>1, <1>2, <2>1, <2>3, IdleScan DEF RouteTyped
  <2> QED BY <1>2, <2>1, <2>2, <2>3, <2>4, IdleScan, OneRouted
<1> QED BY <1>3, <1>4

(* A page is merged into what the listing has.                             *)
LEMMA ListingGoesOn ==
  ASSUME RouteData, RouteInv, UNCHANGED <<board, known, bet>>, turns' \in 0 .. MaxTurns,
         scan.pc \in {"league", "generic"}, NEW batch \in Seq(Events), Distinct(batch),
         NEW pc \in {"league", "generic", "wc"}, NEW offset \in Nat,
         scan' = [scan EXCEPT !.got = Merged(@, batch), !.pc = pc, !.offset = offset]
  PROVE  RouteInv'
<1> DEFINE got == Merged(scan.got, batch)
<1>1. RouteTyped /\ scan \in ScanType /\ scan.got \in Seq(Events) /\ Distinct(scan.got)
  BY DEF RouteInv, RouteTyped, ScanType
<1>2. got \in Seq(Events) /\ Distinct(got)
  BY <1>1, MergedIsDistinct
<1>3. scan' = [scan EXCEPT !.got = got, !.pc = pc, !.offset = offset]
  OBVIOUS
<1> HIDE DEF got
<1>4. scan' \in ScanType /\ scan'.got = got /\ scan'.pc = pc
  BY <1>1, <1>2, <1>3 DEF ScanType
<1>5. RouteTyped'
  BY <1>1, <1>2, <1>4 DEF RouteTyped
<1> QED BY <1>4, <1>5, QuietRoute

LEMMA LeaguePageInv ==
  ASSUME RouteData, RouteInv, NEW fails \in BOOLEAN, LeaguePage(fails)
  PROVE  RouteInv'
<1> DEFINE batch == IF fails THEN << >> ELSE Batch("league")
           over == Len(batch) < PageSize \/ scan.offset + PageSize = LeaguePages * PageSize
           pc == IF over THEN "generic" ELSE "league"
           offset == IF over THEN 0 ELSE scan.offset + PageSize
<1>1. /\ board \in Seq(Events) /\ Distinct(board) /\ scan \in ScanType /\ scan.offset \in Nat
      /\ turns \in 0 .. MaxTurns /\ MaxTurns \in Nat /\ PageSize \in Nat
  BY DEF RouteInv, RouteTyped, ScanType, RouteData
<1>2. batch \in Seq(Events) /\ Distinct(batch)
  <2>1. << >> \in Seq(Events) /\ Distinct(<< >>)
    BY DEF Distinct
  <2>2. Batch("league") \in Seq(Events) /\ Distinct(Batch("league"))
    BY <1>1, BatchIsDistinct
  <2> QED BY <2>1, <2>2
<1>3. turns' \in 0 .. MaxTurns
  BY <1>1 DEF LeaguePage
<1>4. pc \in {"league", "generic", "wc"} /\ offset \in Nat
  BY <1>1
<1>5. /\ scan.pc = "league" /\ UNCHANGED <<board, known, bet>>
      /\ scan' = [scan EXCEPT !.got = Merged(@, batch), !.pc = pc, !.offset = offset]
  BY <1>1 DEF LeaguePage, ScanType
<1> HIDE DEF batch, over, pc, offset
<1> QED BY <1>2, <1>3, <1>4, <1>5, ListingGoesOn

LEMMA GenericPageInv ==
  ASSUME RouteData, RouteInv, GenericPage
  PROVE  RouteInv'
<1> DEFINE batch == Batch("generic")
           over == Len(batch) < PageSize \/ scan.offset + Len(batch) >= ListLimit
           pc == IF over THEN "wc" ELSE "generic"
           offset == IF over THEN 0 ELSE scan.offset + PageSize
<1>1. /\ board \in Seq(Events) /\ Distinct(board) /\ scan \in ScanType /\ scan.offset \in Nat
      /\ turns \in 0 .. MaxTurns /\ PageSize \in Nat
  BY DEF RouteInv, RouteTyped, ScanType, RouteData
<1>2. batch \in Seq(Events) /\ Distinct(batch)
  BY <1>1, BatchIsDistinct
<1>4. pc \in {"league", "generic", "wc"} /\ offset \in Nat
  BY <1>1
<1>5. /\ scan.pc = "generic" /\ UNCHANGED <<board, known, bet>> /\ turns' \in 0 .. MaxTurns
      /\ scan' = [scan EXCEPT !.got = Merged(@, batch), !.pc = pc, !.offset = offset]
  BY <1>1 DEF GenericPage, ScanType
<1> HIDE DEF batch, over, pc, offset
<1> QED BY <1>2, <1>4, <1>5, ListingGoesOn

LEMMA GenericFailsInv ==
  ASSUME RouteData, RouteInv, GenericFails
  PROVE  RouteInv'
<1>1. RouteTyped /\ scan.pc = "generic" /\ scan' = NoScan /\ UNCHANGED <<board, known>>
      /\ turns' \in 0 .. MaxTurns
  BY DEF GenericFails, RouteInv, RouteTyped, RouteData
<1>2. PICK i \in DOMAIN Scored : Due(i) /\ Unpriced(i, bet[i].outcome)
  BY DEF GenericFails
<1>3. bet[i].outcome \in Outcomes /\ \A j \in DOMAIN Scored \ {i} : bet[j].how # "due"
  BY <1>2 DEF Due, RouteInv, DueIsRouted, OneIsDue
<1>4. /\ bet' \in [DOMAIN Scored -> BetType] /\ bet'[i].how = "unpriced"
      /\ \A j \in DOMAIN Scored \ {i} : bet'[j] = bet[j]
  BY <1>1, <1>2, <1>3, UnpricedDone DEF RouteTyped
<1>5. RouteTyped'
  BY <1>1, <1>4, IdleScan DEF RouteTyped
<1> QED BY <1>3, <1>4, <1>5, OneRouted

LEMMA WcPageInv ==
  ASSUME RouteData, RouteInv, NEW fails \in BOOLEAN, WcPage(fails)
  PROVE  RouteInv'
<1> DEFINE batch == Batch("wc")
           wc == IF fails THEN << >> ELSE scan.wc \o batch
           kept == SubSeq(wc, 1, IF Len(wc) < ListLimit THEN Len(wc) ELSE ListLimit)
           got == Merged(scan.got, kept)
           over == fails \/ Len(batch) < PageSize \/ Len(wc) >= ListLimit
<1>1. /\ RouteTyped /\ board \in Seq(Events) /\ Distinct(board) /\ scan \in ScanType
      /\ scan.offset \in Nat /\ scan.got \in Seq(Events) /\ scan.wc \in Seq(Events)
      /\ turns \in 0 .. MaxTurns /\ MaxTurns \in Nat /\ PageSize \in Nat /\ ListLimit \in Nat
  BY DEF RouteInv, RouteTyped, ScanType, RouteData
<1>2. batch \in Seq(Events)
  BY <1>1, BatchIsDistinct
<1> HIDE DEF batch
<1>3. wc \in Seq(Events)
  BY <1>1, <1>2
<1>4. kept \in Seq(Events)
  <2> HIDE DEF wc
  <2> QED BY <1>1, <1>3
<1>5. got \in Seq(Events)
  <2> HIDE DEF kept
  <2> QED BY <1>1, <1>4, MergedIsDistinct
<1>6. turns' \in 0 .. MaxTurns /\ scan.pc = "wc" /\ board' = board
  BY <1>1 DEF WcPage
<1>7. \/ known' = got /\ \E i \in DOMAIN Scored : Due(i) /\ LookUp(i, bet[i].outcome, got)
      \/ scan' = [scan EXCEPT !.wc = wc, !.offset = @ + PageSize] /\ UNCHANGED <<known, bet>>
  BY DEF WcPage, batch
<1> HIDE DEF wc, kept, got, over
<1>8. CASE known' = got /\ \E i \in DOMAIN Scored : Due(i) /\ LookUp(i, bet[i].outcome, got)
  <2>1. PICK i \in DOMAIN Scored : Due(i) /\ LookUp(i, bet[i].outcome, got)
    BY <1>8
  <2>2. bet[i].outcome \in Outcomes /\ \A j \in DOMAIN Scored \ {i} : bet[j].how # "due"
    BY <2>1 DEF Due, RouteInv, DueIsRouted, OneIsDue
  <2>3. /\ bet' \in [DOMAIN Scored -> BetType] /\ scan' \in ScanType /\ Distinct(scan'.got)
        /\ \A j \in DOMAIN Scored \ {i} : bet'[j] = bet[j]
        /\ \/ bet'[i].how = "unpriced"
           \/ bet'[i].how = "due" /\ bet'[i].outcome = bet[i].outcome /\ scan'.pc = "book" /\ Routed(i)'
    BY <1>1, <1>5, <2>1, <2>2, LookUpRoutes DEF RouteTyped
  <2>4. RouteTyped'
    BY <1>1, <1>5, <1>6, <1>8, <2>3 DEF RouteTyped
  <2> QED BY <2>2, <2>3, <2>4, OneRouted
<1>9. CASE scan' = [scan EXCEPT !.wc = wc, !.offset = @ + PageSize] /\ UNCHANGED <<known, bet>>
  <2> DEFINE next == scan.offset + PageSize
  <2>0. scan' = [scan EXCEPT !.wc = wc, !.offset = next] /\ next \in Nat
    BY <1>1, <1>9 DEF ScanType
  <2> HIDE DEF next
  <2>1. scan' \in ScanType /\ scan'.got = scan.got /\ scan'.pc = scan.pc
    BY <1>1, <1>3, <2>0 DEF ScanType
  <2>2. RouteTyped'
    BY <1>1, <1>6, <1>9, <2>1 DEF RouteTyped
  <2> QED BY <1>6, <1>9, <2>1, <2>2, QuietRoute
<1> QED BY <1>7, <1>8, <1>9

LEMMA QuotedInv ==
  ASSUME RouteInv, NEW how \in {"unpriced", "vetoed", "priced"}, Quoted(how)
  PROVE  RouteInv'
<1>1. RouteTyped /\ scan.pc = "book" /\ scan' = NoScan /\ UNCHANGED <<board, known, turns>>
  BY DEF Quoted, RouteInv
<1>2. PICK i \in DOMAIN Scored : Due(i) /\ (IF how = "unpriced" THEN Unpriced(i, bet[i].outcome)
                                           ELSE bet' = [bet EXCEPT ![i].how = how])
  BY DEF Quoted
<1>3. /\ bet[i].outcome \in Outcomes /\ Routed(i) /\ bet[i].how = "due"
      /\ \A j \in DOMAIN Scored \ {i} : bet[j].how # "due"
  BY <1>1, <1>2 DEF Due, RouteInv, DueIsRouted, OneIsDue
<1>4. CASE how = "unpriced"
  <2>1. /\ bet' \in [DOMAIN Scored -> BetType] /\ bet'[i].how = "unpriced"
        /\ \A j \in DOMAIN Scored \ {i} : bet'[j] = bet[j]
    BY <1>1, <1>2, <1>3, <1>4, UnpricedDone DEF RouteTyped
  <2>2. RouteTyped'
    BY <1>1, <2>1, IdleScan DEF RouteTyped
  <2> QED BY <1>3, <2>1, <2>2, OneRouted
<1>5. CASE how # "unpriced"
  <2> DEFINE new == [bet[i] EXCEPT !.how = how]
  <2>1. bet' = [bet EXCEPT ![i] = new]
    BY <1>1, <1>2, <1>5 DEF RouteTyped
  <2>2. new \in BetType /\ new.how = how /\ new.outcome = bet[i].outcome /\ new.event = bet[i].event
        /\ new.leg = bet[i].leg
    BY <1>1 DEF RouteTyped, BetType
  <2> HIDE DEF new
  <2>3. bet' \in [DOMAIN Scored -> BetType] /\ bet'[i] = new /\ \A j \in DOMAIN Scored \ {i} : bet'[j] = bet[j]
    BY <1>1, <2>1, <2>2 DEF RouteTyped
  <2>4. RouteTyped'
    BY <1>1, <2>3, IdleScan DEF RouteTyped
  <2>5. Routed(i)'
    BY <1>3, <2>2, <2>3 DEF Routed
  <2>6. bet'[i].how # "due"
    BY <1>5, <2>2, <2>3
  <2> QED BY <1>3, <2>3, <2>4, <2>5, <2>6, OneRouted
<1> QED BY <1>4, <1>5

LEMMA EventChangesInv ==
  ASSUME RouteData, RouteInv, EventChanges
  PROVE  RouteInv'
<1>1. RouteTyped /\ turns' \in 0 .. MaxTurns /\ UNCHANGED <<scan, known, bet>>
  BY DEF EventChanges, RouteInv, RouteTyped, RouteData
<1>2. PICK e \in Events : board' = IF e \in Slugs(board) THEN Among(board, Events \ {e}) ELSE Append(board, e)
  BY DEF EventChanges
<1>3. board' \in Seq(Events) /\ Distinct(board')
  <2>1. CASE e \in Slugs(board)
    BY <1>1, <1>2, <2>1, AmongIsPart DEF RouteTyped
  <2>2. CASE e \notin Slugs(board)
    <3> DEFINE n == Len(board)
    <3>1. board' = Append(board, e) /\ board \in Seq(Events) /\ n \in Nat /\ DOMAIN board = 1 .. n
      BY <1>1, <1>2, <2>2 DEF RouteTyped
    <3>2. /\ board' \in Seq(Events) /\ DOMAIN board' = 1 .. n + 1 /\ board'[n + 1] = e
          /\ \A i \in 1 .. n : board'[i] = board[i] /\ board[i] # e
      BY <2>2, <3>1 DEF Slugs
    <3>3. \A i, j \in 1 .. n : board[i] = board[j] => i = j
      BY <1>1, <3>1 DEF RouteTyped, Distinct
    <3> HIDE DEF n
    <3>4. \A i \in 1 .. n + 1 : i = n + 1 \/ i \in 1 .. n
      BY <3>1
    <3> QED BY <3>2, <3>3, <3>4 DEF Distinct
  <2> QED BY <2>1, <2>2
<1>4. RouteTyped'
  BY <1>1, <1>3 DEF RouteTyped
<1> QED BY <1>1, <1>4, QuietRoute

LEMMA RouteStarts ==
  ASSUME RouteData, RouteInit
  PROVE  RouteInv
<1>1. /\ board \in [1 .. Cardinality(Events) -> Events] /\ Len(board) = Cardinality(Slugs(board))
      /\ scan = NoScan /\ known = Absent /\ turns = 0 /\ bet = [i \in DOMAIN Scored |-> NoBet]
  BY DEF RouteInit
<1>2. Cardinality(Events) \in Nat
  BY FS_CardinalityType DEF RouteData
<1>3. board \in Seq(Events)
  BY <1>1, <1>2
<1>4. Distinct(board)
  BY <1>1, <1>3, DistinctIsCounted
<1>5. NoBet \in BetType /\ NoBet.how = "none"
  BY DEF NoBet, BetType
<1>6. turns \in 0 .. MaxTurns
  BY <1>1 DEF RouteData
<1>7. RouteTyped
  BY <1>1, <1>3, <1>4, <1>5, <1>6, IdleScan DEF RouteTyped
<1> QED BY <1>1, <1>5, <1>7 DEF RouteInv, DueIsRouted, OneIsDue, QuotedIsRouted

LEMMA RouteStep ==
  ASSUME RouteData, RouteInv, [RouteNext]_routeVars
  PROVE  RouteInv'
<1>1. CASE UNCHANGED routeVars
  <2>1. RouteTyped'
    BY <1>1 DEF routeVars, RouteInv, RouteTyped
  <2> QED BY <1>1, <2>1, QuietRoute DEF routeVars
<1> QED BY <1>1, EventChangesInv, GenericPageInv, GenericFailsInv, LeaguePageInv, WcPageInv,
           ScoreFixtureInv, QuotedInv DEF RouteNext

(* For any board, fixtures, likeness of names, page sizes, limits, changes *)
(* and failures, if the board is honest: no fixture is priced or vetoed on *)
(* an outright or a prop, or on a match whose clubs the matcher does not   *)
(* take for its teams, or on the side that is not the one it is bet on,    *)
(* and a list of events that is kept for the run mixes nothing up          *)
(* (find_market, _classify_event, list_soccer_events, find_best_route).    *)
THEOREM RouteIsHeadToHeadTheorem == RouteSpec => []RouteIsHeadToHead
<1> USE RouteAssumption
<1>1. RouteInit => RouteInv
  BY RouteStarts
<1>2. RouteInv /\ [RouteNext]_routeVars => RouteInv'
  BY RouteStep
<1>3. RouteInv => RouteIsHeadToHead
  BY RoutedIsHeadToHead DEF RouteInv, QuotedIsRouted, HeadToHead, RouteIsHeadToHead
<1> QED BY <1>1, <1>2, <1>3, PTL DEF RouteSpec

(* The open events and the listing under way repeat none, a fixture's leg  *)
(* is one of its event, and the rest is of its type, for any board.        *)
THEOREM RouteIsTyped == RouteSpec => []RouteTypeOK
<1> USE RouteAssumption
<1>1. RouteInit => RouteInv
  BY RouteStarts
<1>2. RouteInv /\ [RouteNext]_routeVars => RouteInv'
  BY RouteStep
<1>3. RouteInv => RouteTypeOK
  <2> SUFFICES ASSUME RouteInv PROVE RouteTypeOK
    OBVIOUS
  <2>1. /\ board \in Seq(Events) /\ Distinct(board) /\ scan \in ScanType /\ Distinct(scan.got)
        /\ known \in Seq(Events) \cup {Absent} /\ bet \in [DOMAIN Scored -> BetType] /\ turns \in 0 .. MaxTurns
    BY DEF RouteInv, RouteTyped
  <2>2. \A seq \in Seq(Events) : Slugs(seq) \subseteq Events
    BY DEF Slugs
  <2>3. scan.got \in Seq(Events) /\ scan.pc \in {"idle", "league", "generic", "wc", "book"}
    BY <2>1 DEF ScanType
  <2>4. Len(board) = Cardinality(Slugs(board)) /\ Len(scan.got) = Cardinality(Slugs(scan.got))
    BY <2>1, <2>3, DistinctIsCounted
  <2>5. ASSUME NEW i \in DOMAIN Scored
        PROVE  /\ bet[i].how \in {"none", "due", "unpriced", "vetoed", "priced"}
               /\ bet[i].how \in {"vetoed", "priced"} => bet[i].leg \in 1 .. Len(Board[bet[i].event].legs)
    <3>1. bet[i].how \in {"none", "due", "unpriced", "vetoed", "priced"}
      BY <2>1 DEF BetType
    <3>2. ASSUME bet[i].how \in {"vetoed", "priced"}
          PROVE  bet[i].leg \in 1 .. Len(Board[bet[i].event].legs)
      <4>1. bet[i].event \in Events /\ bet[i].leg \in DOMAIN Board[bet[i].event].legs
        BY <3>2 DEF RouteInv, QuotedIsRouted, Routed, LegsOf
      <4>2. DOMAIN Board[bet[i].event].legs = 1 .. Len(Board[bet[i].event].legs)
        BY <4>1 DEF RouteData
      <4> QED BY <4>1, <4>2
    <3> QED BY <3>1, <3>2
  <2> QED BY <2>1, <2>2, <2>3, <2>4, <2>5 DEF RouteTypeOK
<1> QED BY <1>1, <1>2, <1>3, PTL DEF RouteSpec

-----------------------------------------------------------------------------
(***************************************************************************)
(* OddsAnchor: any fixtures and number of failures and restarts.           *)
(***************************************************************************)

JobType == [pc : {"idle", "pick", "form", "prime", "fetch", "close"},
            f : Fixtures \cup {Nil}, todo : SUBSET Fixtures, anchored : BOOLEAN]

(* What a step of job j alone may do to the jobs, the lock and the rows.   *)
JobStep(j) ==
    /\ job' \in [Jobs -> JobType] /\ stored' \in [Fixtures -> {Nil, "raw", "odds"}]
    /\ \A k \in Jobs \ {j} : job'[k] = job[k]

(* A job set to a record of the type is a step of that job.                *)
LEMMA JobSet ==
  ASSUME OddsTypeOK, NEW j \in Jobs, NEW r \in JobType, job' = [job EXCEPT ![j] = r],
         stored' \in [Fixtures -> {Nil, "raw", "odds"}]
  PROVE  JobStep(j) /\ job'[j] = r
  BY DEF OddsTypeOK, JobType, JobStep

LEMMA IdleTyped == Idle \in JobType /\ \A j \in Jobs : OddsTypeOK => Onward(j) \in JobType /\ Onward(j).pc # "fetch"
<1>1. Idle \in JobType
  BY DEF Idle, JobType
<1>2. ASSUME NEW j \in Jobs, OddsTypeOK PROVE Onward(j) \in JobType /\ Onward(j).pc # "fetch"
  <2>1. job[j] \in JobType
    BY <1>2 DEF OddsTypeOK, JobType
  <2>2. CASE j = "alert"
    BY <2>1, <2>2 DEF Onward, JobType
  <2>3. CASE j # "alert"
    BY <2>1, <2>3 DEF Onward, JobType
  <2> QED BY <2>2, <2>3
<1> QED BY <1>1, <1>2

LEMMA UpsertTyped ==
  ASSUME OddsTypeOK, NEW f, NEW a \in BOOLEAN
  PROVE  Upserted(f, a) \in [Fixtures -> {Nil, "raw", "odds"}]
  BY DEF OddsTypeOK, Upserted

(* Whatever the cache holds, a job uses it and does not fetch.             *)
LEMMA UseTyped ==
  ASSUME OddsTypeOK, NEW j \in Jobs, NEW rows, Use(j, rows)
  PROVE  JobStep(j) /\ job'[j].pc # "fetch"
<1>1. job[j] \in JobType /\ stored \in [Fixtures -> {Nil, "raw", "odds"}]
  BY DEF OddsTypeOK, JobType
<1>2. Idle.pc # "fetch"
  BY DEF Idle
<1>3. CASE job[j].f = Nil
  BY <1>1, <1>2, <1>3, IdleTyped, JobSet DEF Use
<1>4. CASE job[j].f # Nil /\ j = "daily"
  <2> DEFINE a == job[j].f \in rows
  <2>1. job' = [job EXCEPT ![j] = Onward(j)] /\ stored' = Upserted(job[j].f, a)
    BY <1>4 DEF Use
  <2>2. a \in BOOLEAN
    OBVIOUS
  <2> HIDE DEF a
  <2>3. stored' \in [Fixtures -> {Nil, "raw", "odds"}]
    BY <2>1, <2>2, UpsertTyped
  <2>4. Onward(j) \in JobType /\ Onward(j).pc # "fetch"
    BY IdleTyped
  <2> QED BY <2>1, <2>3, <2>4, JobSet
<1>5. CASE job[j].f # Nil /\ j # "daily"
  <2> DEFINE a == job[j].f \in rows
             r == [job[j] EXCEPT !.pc = "close", !.anchored = a]
  <2>1. job' = [job EXCEPT ![j] = r] /\ stored' = stored
    BY <1>5 DEF Use
  <2>2. a \in BOOLEAN
    OBVIOUS
  <2> HIDE DEF a
  <2>3. r \in JobType /\ r.pc # "fetch"
    BY <1>1, <2>2 DEF JobType
  <2> QED BY <1>1, <2>1, <2>3, JobSet
<1> QED BY <1>3, <1>4, <1>5

LEMMA OddsStep == OddsTypeOK /\ [OddsNext]_oddsVars => OddsTypeOK'
<1> SUFFICES ASSUME OddsTypeOK, [OddsNext]_oddsVars PROVE OddsTypeOK'
  OBVIOUS
<1>0. /\ feed \in [up : BOOLEAN, card : SUBSET Rows]
      /\ index \subseteq Rows /\ loaded \in BOOLEAN /\ recent \in BOOLEAN
      /\ stored \in [Fixtures -> {Nil, "raw", "odds"}] /\ kicked \subseteq Fixtures
      /\ job \in [Jobs -> JobType] /\ failures \in 0 .. MaxBreaks
      /\ lock = Nil \/ (lock \in Jobs /\ job[lock].pc = "fetch")
  BY DEF OddsTypeOK, JobType
<1>a. ASSUME NEW j \in Jobs, JobStep(j), lock' = lock, job[j].pc # "fetch"
      PROVE  /\ job' \in [Jobs -> JobType] /\ stored' \in [Fixtures -> {Nil, "raw", "odds"}]
             /\ lock' = Nil \/ (lock' \in Jobs /\ job'[lock'].pc = "fetch")
  BY <1>0, <1>a DEF JobStep
<1>b. ASSUME NEW j \in Jobs, NEW r \in JobType, job' = [job EXCEPT ![j] = r], stored' = stored,
             job[j].pc # "fetch", lock' = lock
      PROVE  /\ job' \in [Jobs -> JobType] /\ stored' \in [Fixtures -> {Nil, "raw", "odds"}]
             /\ lock' = Nil \/ (lock' \in Jobs /\ job'[lock'].pc = "fetch")
  <2>1. JobStep(j)
    BY <1>b, <1>0, JobSet
  <2> QED BY <1>a, <1>b, <2>1
<1>1. CASE FeedChanges
  <2>1. feed' \in [up : BOOLEAN, card : SUBSET Rows]
    <3>1. PICK file \in {FileDown} \cup [up : {TRUE}, card : {{}, {Past}, Fixtures}] : feed' = file
      BY <1>1 DEF FeedChanges
    <3>2. CASE file = FileDown
      BY <3>1, <3>2 DEF FileDown
    <3>3. CASE file \in [up : {TRUE}, card : {{}, {Past}, Fixtures}]
      <4>1. {} \in SUBSET Rows /\ {Past} \in SUBSET Rows /\ Fixtures \in SUBSET Rows
        BY DEF Rows
      <4> QED BY <3>1, <3>3, <4>1
    <3> QED BY <3>2, <3>3
  <2> QED BY <1>1, <2>1 DEF FeedChanges, cached, OddsTypeOK
<1>2. CASE MinutePasses
  BY <1>2 DEF MinutePasses, OddsTypeOK
<1>3. CASE TtlPasses
  BY <1>3 DEF TtlPasses, OddsTypeOK
<1>4. CASE OddsRestart
  <2>1. job' \in [Jobs -> JobType]
    BY <1>4, IdleTyped DEF OddsRestart
  <2>2. failures' \in 0 .. MaxBreaks
    BY <1>4, <1>0, OddsAssumption DEF OddsRestart
  <2>3. index' \subseteq Rows /\ loaded' \in BOOLEAN /\ recent' \in BOOLEAN /\ lock' = Nil
    BY <1>4 DEF OddsRestart
  <2>4. UNCHANGED <<feed, stored, kicked>>
    BY <1>4 DEF OddsRestart
  <2> QED BY <2>1, <2>2, <2>3, <2>4, <1>0 DEF OddsTypeOK, JobType
<1>5. CASE StartDaily
  <2> DEFINE r == [Idle EXCEPT !.pc = "pick", !.todo = Fixtures \ kicked]
  <2>1. r \in JobType
    BY <1>0 DEF Idle, JobType
  <2>2. job' = [job EXCEPT !["daily"] = r] /\ job["daily"].pc # "fetch" /\ "daily" \in Jobs
    BY <1>5 DEF StartDaily, Idle, Jobs
  <2> HIDE DEF r
  <2> QED BY <1>5, <2>1, <2>2, <1>0, <1>b DEF StartDaily, cached, OddsTypeOK, JobType
<1>6. CASE StartRetry
  <2> DEFINE r == [Idle EXCEPT !.pc = "prime", !.todo = Unanchored]
  <2>1. r \in JobType
    BY <1>0 DEF Idle, JobType, Unanchored
  <2>2. job' = [job EXCEPT !["retry"] = r] /\ job["retry"].pc # "fetch" /\ "retry" \in Jobs
    BY <1>6 DEF StartRetry, Idle, Jobs
  <2> HIDE DEF r
  <2> QED BY <1>6, <2>1, <2>2, <1>0, <1>b DEF StartRetry, Invalidated, OddsTypeOK, JobType
<1>7. ASSUME NEW f \in Fixtures, KickOff(f) PROVE OddsTypeOK'
  BY <1>7 DEF KickOff, cached, OddsTypeOK
<1>8. ASSUME NEW f \in Fixtures, RescoreForAlert(f) PROVE OddsTypeOK'
  <2> DEFINE r == [Idle EXCEPT !.pc = "form", !.f = f]
  <2>1. r \in JobType
    BY <1>0 DEF Idle, JobType
  <2>2. job' = [job EXCEPT !["alert"] = r] /\ job["alert"].pc # "fetch" /\ "alert" \in Jobs
    BY <1>8 DEF RescoreForAlert, Idle, Jobs
  <2> HIDE DEF r
  <2> QED BY <1>8, <2>1, <2>2, <1>0, <1>b DEF RescoreForAlert, cached, OddsTypeOK, JobType
<1>9. ASSUME NEW j \in Jobs, Pick(j) PROVE OddsTypeOK'
  <2>1. job[j].pc # "fetch" /\ UNCHANGED <<feed, cached, stored, kicked, failures>>
    BY <1>9 DEF Pick
  <2>2. CASE job[j].todo = {}
    BY <1>9, <2>1, <2>2, <1>0, <1>b, IdleTyped DEF Pick, cached, OddsTypeOK, JobType
  <2>3. CASE job[j].todo # {}
    <3>1. PICK f \in job[j].todo :
            job' = [job EXCEPT ![j] = [job[j] EXCEPT !.pc = "form", !.f = f, !.todo = job[j].todo \ {f}]]
      BY <1>9, <2>3 DEF Pick
    <3> DEFINE r == [job[j] EXCEPT !.pc = "form", !.f = f, !.todo = job[j].todo \ {f}]
    <3>2. r \in JobType
      BY <1>0 DEF JobType
    <3> HIDE DEF r
    <3> QED BY <3>1, <3>2, <2>1, <1>0, <1>b DEF r, cached, OddsTypeOK, JobType
  <2> QED BY <2>2, <2>3
<1>10. ASSUME NEW j \in Jobs, ReadForm(j) PROVE OddsTypeOK'
  <2> DEFINE r == [job[j] EXCEPT !.pc = "prime"]
  <2>1. r \in JobType
    BY <1>0 DEF JobType
  <2>2. job' = [job EXCEPT ![j] = r] /\ job[j].pc # "fetch"
    BY <1>10 DEF ReadForm
  <2> HIDE DEF r
  <2> QED BY <1>10, <2>1, <2>2, <1>0, <1>b DEF ReadForm, cached, OddsTypeOK, JobType
<1>11. ASSUME NEW j \in Jobs, FormFails(j) PROVE OddsTypeOK'
  BY <1>11, IdleTyped, <1>0, <1>b, OddsAssumption DEF FormFails, cached, OddsTypeOK, JobType
<1>12. ASSUME NEW j \in Jobs, PrimeFromCache(j) PROVE OddsTypeOK'
  BY <1>12, UseTyped, <1>0, <1>a DEF PrimeFromCache, cached, OddsTypeOK, JobType
<1>13. ASSUME NEW j \in Jobs, Request(j) PROVE OddsTypeOK'
  <2> DEFINE r == [job[j] EXCEPT !.pc = "fetch"]
  <2>1. r \in JobType /\ r.pc = "fetch"
    BY <1>0 DEF JobType
  <2>2. job' = [job EXCEPT ![j] = r] /\ stored' = stored
    BY <1>13 DEF Request
  <2> HIDE DEF r
  <2>3. JobStep(j) /\ job'[j].pc = "fetch"
    BY <2>1, <2>2, <1>0, JobSet
  <2> QED BY <1>13, <2>3, <1>0 DEF Request, JobStep, OddsTypeOK, JobType
<1>14. ASSUME NEW j \in Jobs, Answer(j) PROVE OddsTypeOK'
  <2>1. JobStep(j)
    BY <1>14, UseTyped DEF Answer
  <2>2. index' \subseteq Rows /\ loaded' \in BOOLEAN
    BY <1>14, <1>0 DEF Answer, Refreshed
  <2> QED BY <1>14, <2>1, <2>2, <1>0 DEF Answer, JobStep, OddsTypeOK, JobType
<1>15. ASSUME NEW j \in Jobs, Store(j) PROVE OddsTypeOK'
  <2>1. job[j].anchored \in BOOLEAN
    BY <1>0 DEF JobType
  <2>2. stored' \in [Fixtures -> {Nil, "raw", "odds"}]
    BY <1>15, <2>1, <1>0, UpsertTyped DEF Store
  <2>3. JobStep(j)
    BY <1>15, <2>2, IdleTyped, JobSet DEF Store
  <2> QED BY <1>15, <2>3, <1>0, <1>a DEF Store, cached, OddsTypeOK, JobType
<1>16. CASE UNCHANGED oddsVars
  BY <1>16 DEF oddsVars, OddsTypeOK
<1> QED BY <1>1, <1>2, <1>3, <1>4, <1>5, <1>6, <1>7, <1>8, <1>9, <1>10, <1>11, <1>12, <1>13, <1>14, <1>15, <1>16
        DEF OddsNext, Step

(* Rows are raw or anchored, the jobs are of their type, and the lock of   *)
(* OddsService is free or held by a job that awaits a request.             *)
THEOREM OddsAreTyped == OddsSpec => []OddsTypeOK
<1>1. OddsInit => OddsTypeOK
  <2> SUFFICES ASSUME OddsInit PROVE OddsTypeOK
    OBVIOUS
  <2>1. job \in [Jobs -> JobType]
    BY IdleTyped DEF OddsInit
  <2>2. failures \in 0 .. MaxBreaks
    BY OddsAssumption DEF OddsInit
  <2>3. feed \in [up : BOOLEAN, card : SUBSET Rows]
    <3>1. {Past} \in SUBSET Rows
      BY DEF Rows
    <3> QED BY <3>1 DEF OddsInit
  <2> QED BY <2>1, <2>2, <2>3 DEF OddsInit, OddsTypeOK, JobType
<1> QED BY <1>1, OddsStep, PTL DEF OddsSpec

-----------------------------------------------------------------------------
(***************************************************************************)
(* OperatorNotify: any kinds, watchdogs, cooldowns and numbers of rejected,*)
(* lost or late sends and restarts.                                        *)
(***************************************************************************)

CallType == [key : Keys, stamp : Times, attempt : Attempts]

(* Unset is no instant and no open call.                                   *)
LEMMA UnsetIsNothing == Unset \notin Times /\ Unset \notin CallType
  BY PagesAssumption DEF Times, Attempts, CallType

PagesInv == PagesTypeOK /\ CooldownNeedsDelivery

LEMMA PagesStart == PagesInit => PagesInv
<1> SUFFICES ASSUME PagesInit PROVE PagesInv
  OBVIOUS
<1>1. mishaps \in [failures : 0 .. MaxFailures, timeouts : 0 .. MaxTimeouts, restarts : 0 .. MaxRestarts]
  BY PagesAssumption DEF PagesInit
<1> QED BY <1>1, PagesAssumption DEF PagesInit, PagesInv, PagesTypeOK, CooldownNeedsDelivery, Times

(* An attempt ends the call or turns to the verbatim one, and it starts    *)
(* the cooldown only with the message it delivered.                        *)
LEMMA SendKeepsPages ==
  ASSUME PagesInv, NEW w \in Watchdogs, NEW landed \in BOOLEAN, NEW ack \in BOOLEAN, Send(w, landed, ack)
  PROVE  PagesInv'
<1> DEFINE c == call[w]
           m == <<c.key, c.stamp, w, c.attempt>>
<1>1. /\ clock \in Times /\ lastSent \in [Keys -> Times \cup {Unset}]
      /\ call \in [Watchdogs -> CallType \cup {Unset}]
      /\ delivered \subseteq Keys \X Times \X Watchdogs \X Attempts
      /\ mishaps \in [failures : 0 .. MaxFailures, timeouts : 0 .. MaxTimeouts, restarts : 0 .. MaxRestarts]
  BY DEF PagesInv, PagesTypeOK, CallType
<1>2. c \in CallType /\ (ack => landed) /\ clock' = clock
  BY <1>1 DEF Send
<1>3. m \in Keys \X Times \X Watchdogs \X Attempts /\ m[1] = c.key /\ m[2] = c.stamp
  BY <1>2 DEF CallType
<1>4. delivered' \subseteq Keys \X Times \X Watchdogs \X Attempts /\ delivered \subseteq delivered'
      /\ (landed => m \in delivered')
  <2>1. delivered' = IF landed THEN delivered \cup {m} ELSE delivered
    BY DEF Send
  <2> HIDE DEF m
  <2> QED BY <1>1, <1>3, <2>1
<1>5. mishaps' \in [failures : 0 .. MaxFailures, timeouts : 0 .. MaxTimeouts, restarts : 0 .. MaxRestarts]
  <2>1. CASE mishaps' = mishaps
    BY <1>1, <2>1
  <2>2. CASE mishaps.timeouts < MaxTimeouts /\ mishaps' = [mishaps EXCEPT !.timeouts = mishaps.timeouts + 1]
    BY <1>1, <2>2, PagesAssumption
  <2>3. CASE mishaps.failures < MaxFailures /\ mishaps' = [mishaps EXCEPT !.failures = mishaps.failures + 1]
    BY <1>1, <2>3, PagesAssumption
  <2> QED BY <2>1, <2>2, <2>3 DEF Send
<1>6. call' \in [Watchdogs -> CallType \cup {Unset}]
  <2>1. CASE call' = [call EXCEPT ![w] = Unset]
    BY <1>1, <2>1
  <2>2. CASE call' = [call EXCEPT ![w].attempt = "plain"]
    BY <1>1, <1>2, <2>2 DEF CallType, Attempts
  <2> QED BY <2>1, <2>2 DEF Send
<1>7. lastSent' = lastSent \/ (landed /\ lastSent' = [lastSent EXCEPT ![c.key] = c.stamp])
  BY <1>2 DEF Send, Stamp
<1> HIDE DEF m
<1>8. lastSent' \in [Keys -> Times \cup {Unset}]
  BY <1>1, <1>2, <1>7 DEF CallType
<1>9. ASSUME NEW k \in Keys, lastSent'[k] # Unset
      PROVE  \E n \in delivered' : n[1] = k /\ n[2] = lastSent'[k]
  <2>1. CASE lastSent'[k] = lastSent[k]
    BY <1>9, <2>1, <1>4 DEF PagesInv, CooldownNeedsDelivery
  <2>2. CASE lastSent'[k] # lastSent[k]
    <3>1. landed /\ k = c.key /\ lastSent'[k] = c.stamp
      BY <1>1, <1>2, <1>7, <2>2 DEF CallType
    <3> QED BY <3>1, <1>3, <1>4
  <2> QED BY <2>1, <2>2
<1> QED BY <1>1, <1>2, <1>4, <1>5, <1>6, <1>8, <1>9
        DEF PagesInv, PagesTypeOK, CooldownNeedsDelivery, CallType

LEMMA PagesStep == PagesInv /\ [PagesNext]_pagesVars => PagesInv'
<1> SUFFICES ASSUME PagesInv, [PagesNext]_pagesVars PROVE PagesInv'
  OBVIOUS
<1>1. CASE Tick
  <2>1. clock' \in Times
    BY <1>1, PagesAssumption DEF Tick, PagesInv, PagesTypeOK, Times
  <2> QED BY <1>1, <2>1 DEF Tick, PagesInv, PagesTypeOK, CooldownNeedsDelivery
<1>2. ASSUME NEW k \in Keys, NEW w \in Watchdogs, Notify(w, k) PROVE PagesInv'
  <2>1. [key |-> k, stamp |-> clock, attempt |-> "markdown"] \in CallType
    BY DEF PagesInv, PagesTypeOK, CallType, Attempts
  <2>2. call' \in [Watchdogs -> CallType \cup {Unset}]
    BY <1>2, <2>1 DEF Notify, PagesInv, PagesTypeOK, CallType
  <2> QED BY <1>2, <2>2 DEF Notify, PagesInv, PagesTypeOK, CooldownNeedsDelivery, CallType
<1>3. CASE NotifyRestart
  <2>1. mishaps' \in [failures : 0 .. MaxFailures, timeouts : 0 .. MaxTimeouts, restarts : 0 .. MaxRestarts]
    <3>1. mishaps.restarts < MaxRestarts /\ mishaps' = [mishaps EXCEPT !.restarts = mishaps.restarts + 1]
      BY <1>3 DEF NotifyRestart
    <3> QED BY <3>1, PagesAssumption DEF PagesInv, PagesTypeOK
  <2> QED BY <1>3, <2>1 DEF NotifyRestart, PagesInv, PagesTypeOK, CooldownNeedsDelivery
<1>4. CASE UNCHANGED pagesVars
  BY <1>4 DEF pagesVars, PagesInv, PagesTypeOK, CooldownNeedsDelivery
<1> QED BY <1>1, <1>2, <1>3, <1>4, SendKeepsPages DEF PagesNext, Notifying, Suppress, Sending

(* A cooldown never runs on a page that did not reach the operator, for    *)
(* any kinds, cooldowns, overlapping watchdogs, rejected sends and         *)
(* restarts: what notify_operator suppresses is a repetition.              *)
THEOREM CooldownIsEarned == PagesSpec => []CooldownNeedsDelivery
<1>1. PagesInv => CooldownNeedsDelivery
  BY DEF PagesInv
<1> QED BY <1>1, PagesStart, PagesStep, PTL DEF PagesSpec

(* The cooldowns, the open calls and the messages are of their types.      *)
THEOREM PagesAreTyped == PagesSpec => []PagesTypeOK
<1>1. PagesInv => PagesTypeOK
  BY DEF PagesInv
<1> QED BY <1>1, PagesStart, PagesStep, PTL DEF PagesSpec

-----------------------------------------------------------------------------
(***************************************************************************)
(* The components together: a behaviour of all of them is one of each.     *)
(***************************************************************************)

LEMMA EachIsItself ==
  /\ FairSpec => LineupSpec /\ OddsSpec /\ PagesSpec
  /\ FairSpec => ClientSpec /\ RouteSpec /\ SchemaSpec /\ EloSpec
<1>1. Init => LineupInit /\ OddsInit /\ PagesInit /\ ClientInit /\ RouteInit /\ SchemaInit /\ EloInit
  BY Zenon DEF Init
<1>2. [Next]_vars => [LineupNext]_lineupVars
  <2>1. ASSUME MinutesNext PROVE LineupNext
    BY <2>1, Zenon DEF LineupNext
  <2> QED BY <2>1, Zenon DEF Next, vars, OddsOnly, PagesOnly, LineupOnly, MinutesOnly
<1>3. [Next]_vars => [OddsNext]_oddsVars
  BY Zenon DEF Next, vars, OddsOnly, PagesOnly, LineupOnly, MinutesOnly
<1>4. [Next]_vars => [PagesNext]_pagesVars
  BY Zenon DEF Next, vars, OddsOnly, PagesOnly, LineupOnly, MinutesOnly
<1>5. [Next]_vars => [ClientNext]_clientVars
  BY Zenon DEF Next, vars, OddsOnly, PagesOnly, LineupOnly, MinutesOnly
<1>6. [Next]_vars => [RouteNext]_routeVars
  BY Zenon DEF Next, vars, OddsOnly, PagesOnly, LineupOnly, MinutesOnly
<1>7. [Next]_vars => [SchemaNext]_schemaVars
  BY Zenon DEF Next, vars, OddsOnly, PagesOnly, LineupOnly, MinutesOnly
<1>8. [Next]_vars => [EloNext]_eloVars
  BY Zenon DEF Next, vars, OddsOnly, PagesOnly, LineupOnly, MinutesOnly
<1>9. FairSpec => Init /\ [][Next]_vars
  BY PTL DEF FairSpec
<1>10. FairSpec => LineupSpec
  BY <1>1, <1>2, <1>9, PTL DEF LineupSpec
<1>11. FairSpec => OddsSpec
  BY <1>1, <1>3, <1>9, PTL DEF OddsSpec
<1>12. FairSpec => PagesSpec
  BY <1>1, <1>4, <1>9, PTL DEF PagesSpec
<1>13. FairSpec => ClientSpec
  BY <1>1, <1>5, <1>9, PTL DEF ClientSpec
<1>14. FairSpec => RouteSpec
  BY <1>1, <1>6, <1>9, PTL DEF RouteSpec
<1>15. FairSpec => SchemaSpec
  BY <1>1, <1>7, <1>9, PTL DEF SchemaSpec
<1>16. FairSpec => EloSpec
  BY <1>1, <1>8, <1>9, PTL DEF EloSpec
<1> QED BY <1>10, <1>11, <1>12, <1>13, <1>14, <1>15, <1>16

(* Whichever component runs is well typed.                                 *)
THEOREM ServicesAreTyped == FairSpec => []TypeOK
<1>1. Init => part \in Parts
  BY Zenon DEF Init
<1>2. part \in Parts /\ [Next]_vars => (part \in Parts)'
  BY Zenon DEF Next, vars, OddsOnly, PagesOnly, LineupOnly, MinutesOnly
<1>3. FairSpec => Init /\ [][Next]_vars
  BY PTL DEF FairSpec
<1>4. FairSpec => [](part \in Parts)
  BY <1>1, <1>2, <1>3, PTL
<1>5. part \in Parts /\ OddsTypeOK /\ PagesTypeOK /\ ClientTypeOK /\ LineupTypeOK /\ RouteTypeOK
      /\ SchemaTypeOK /\ EloTypeOK => TypeOK
  BY Zenon DEF TypeOK
<1> QED BY <1>4, <1>5, EachIsItself, OddsAreTyped, PagesAreTyped, ClientIsTyped, LineupIsTyped,
           RouteIsTyped, SchemaIsTyped, SnapshotIsTyped, PTL

(* What is proved of each component holds of all of them together.         *)
THEOREM ServicesAreSound ==
  FairSpec => /\ [](WindowRespected /\ RouteIsHeadToHead /\ BootsTogether /\ OwnRatingFirst)
              /\ []CooldownNeedsDelivery /\ LineupMissHasCause
BY EachIsItself, ClientKeepsItsLimit, RouteIsHeadToHeadTheorem, ServicesBootTogether,
   SnapshotIsOwnRating, CooldownIsEarned, LineupMissTheorem, PTL
==============================================================================
