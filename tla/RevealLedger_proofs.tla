------------------------ MODULE RevealLedger_proofs ------------------------
(***************************************************************************)
(* Machine-checked facts about RevealLedger for any users, fixtures and    *)
(* alert jobs, and for any bounds.                                         *)
(***************************************************************************)
EXTENDS RevealLedger, FiniteSetTheorems, TLAPS

(* A handler between a render and the end of its commit serves a user.     *)
Serving == \A t \in Tasks : task[t].pc \in {"sending"} \cup Section => task[t].user \in Users

(* Changing one handler's record to a well-typed one keeps task typed.     *)
LEMMA TaskUpdate ==
  ASSUME TypeOK, NEW t \in Tasks, NEW r \in TaskType, task' = [task EXCEPT ![t] = r]
  PROVE  task' \in [Tasks -> TaskType]
  BY DEF TypeOK

(* A body only offers fixtures of the day.                                 *)
LEMMA NewToTyped ==
  ASSUME NEW t \in Tasks, NEW u \in Users PROVE NewTo(t, u) \subseteq Fixtures
  BY LedgerAssumption DEF NewTo, Offered, Tasks

(* Every variable keeps its type.                                          *)
THEOREM TypeCorrect == Spec => [](TypeOK /\ Serving)
<1>1. Init => TypeOK /\ Serving
  BY LedgerAssumption DEF Init, TypeOK, Idle, TaskType, Steps, Section, Serving
<1>2. TypeOK /\ Serving /\ [Next]_vars => TypeOK'
  <2> SUFFICES ASSUME TypeOK, Serving, [Next]_vars PROVE TypeOK'
    OBVIOUS
  <2>0. Bot \in Tasks /\ Jobs \subseteq Tasks /\ Idle \in TaskType
    BY DEF Tasks, Idle, TaskType, Steps, Section
  <2>1. ASSUME NEW u \in Users, Deposit(u) PROVE TypeOK'
    BY <2>1 DEF Deposit, TypeOK
  <2>2. ASSUME NEW u \in Users, TrialEnds(u) PROVE TypeOK'
    BY <2>2 DEF TrialEnds, TypeOK
  <2>3. ASSUME NEW u \in Users, Command(u) PROVE TypeOK'
    <3> DEFINE r == [task[Bot] EXCEPT !.pc = "loop", !.todo = {u}, !.snap = consumed]
    <3>1. r \in TaskType
      BY <2>0 DEF TypeOK, TaskType, Steps, Section
    <3>2. task' = [task EXCEPT ![Bot] = r]
      BY <2>3 DEF Command
    <3>3. task' \in [Tasks -> TaskType]
      BY <2>0, <3>1, <3>2, TaskUpdate
    <3> QED BY <2>0, <2>3, <3>3 DEF Command, TypeOK
  <2>4. ASSUME NEW f \in Fixtures, Rescore(f) PROVE TypeOK'
    BY <2>4 DEF Rescore, TypeOK
  <2>5. ASSUME NEW p \in {"bot", "daemon"}, Crash(p) PROVE TypeOK'
    BY <2>0, <2>5 DEF Crash, TypeOK
  <2>6. ASSUME NEW j \in Jobs, FireAlert(j) PROVE TypeOK'
    <3> DEFINE r == [task[j] EXCEPT !.pc = "scoring"]
    <3>1. r \in TaskType
      BY <2>0 DEF TypeOK, TaskType, Steps, Section
    <3>2. task' = [task EXCEPT ![j] = r]
      BY <2>6 DEF FireAlert
    <3>3. task' \in [Tasks -> TaskType]
      BY <2>0, <3>1, <3>2, TaskUpdate
    <3> QED BY <2>0, <2>6, <3>3 DEF FireAlert, TypeOK
  <2>7. ASSUME NEW j \in Jobs, RescoreAndListUsers(j) PROVE TypeOK'
    <3> DEFINE r == [task[j] EXCEPT !.pc = "loop", !.todo = Users, !.snap = consumed]
    <3>1. r \in TaskType
      BY <2>0 DEF TypeOK, TaskType, Steps, Section
    <3>2. task' = [task EXCEPT ![j] = r]
      BY <2>7 DEF RescoreAndListUsers
    <3>3. task' \in [Tasks -> TaskType]
      BY <2>0, <3>1, <3>2, TaskUpdate
    <3> QED BY <2>0, <2>7, <3>3, LedgerAssumption DEF RescoreAndListUsers, TypeOK
  <2>8. ASSUME NEW j \in Jobs, AlertAbandoned(j) PROVE TypeOK'
    BY <2>0, <2>8, TaskUpdate DEF AlertAbandoned, TypeOK
  <2>9. ASSUME NEW t \in Tasks, NEW u \in Users, Render(t, u) PROVE TypeOK'
    <3>1. PICK reveals \in SUBSET NewTo(t, u), c \in BOOLEAN :
            task' = [task EXCEPT ![t] =
                       [task[t] EXCEPT !.pc = "sending", !.todo = task[t].todo \ {u}, !.user = u,
                                       !.reveals = reveals, !.charge = c, !.past = trialOver[u]]]
      BY <2>9 DEF Render
    <3> DEFINE r == [task[t] EXCEPT !.pc = "sending", !.todo = task[t].todo \ {u}, !.user = u,
                                    !.reveals = reveals, !.charge = c, !.past = trialOver[u]]
    <3>2. r \in TaskType
      BY NewToTyped DEF TypeOK, TaskType, Steps, Section
    <3>3. task' = [task EXCEPT ![t] = r]
      BY <3>1
    <3>4. task' \in [Tasks -> TaskType]
      BY <3>2, <3>3, TaskUpdate
    <3> QED BY <2>9, <3>4 DEF Render, TypeOK
  <2>10. ASSUME NEW t \in Tasks, SendConfirmed(t) PROVE TypeOK'
    <3> DEFINE r == [task[t] EXCEPT !.pc = "commit"]
    <3>1. r \in TaskType
      BY <2>0 DEF TypeOK, TaskType, Steps, Section
    <3>2. task' = [task EXCEPT ![t] = r]
      BY <2>10 DEF SendConfirmed
    <3>3. task' \in [Tasks -> TaskType]
      BY <2>0, <3>1, <3>2, TaskUpdate
    <3> QED BY <2>0, <2>10, <3>3 DEF SendConfirmed, TypeOK, TaskType
  <2>11. ASSUME NEW t \in Tasks, SendUnconfirmed(t) PROVE TypeOK'
    <3> DEFINE r == [task[t] EXCEPT !.pc = "loop", !.reveals = {}]
    <3>1. r \in TaskType
      BY <2>0 DEF TypeOK, TaskType, Steps, Section
    <3>2. task' = [task EXCEPT ![t] = r]
      BY <2>11 DEF SendUnconfirmed
    <3>3. task' \in [Tasks -> TaskType]
      BY <2>0, <3>1, <3>2, TaskUpdate
    <3>4. PICK arrived \in {{}, task[t].reveals} :
            seen' = [seen EXCEPT ![task[t].user] = @ \cup arrived]
      BY <2>11 DEF SendUnconfirmed
    <3>5. arrived \in SUBSET Fixtures
      BY DEF TypeOK, TaskType
    <3>6. seen' \in [Users -> SUBSET Fixtures]
      BY <3>4, <3>5 DEF TypeOK
    <3> QED BY <2>11, <3>3, <3>6 DEF SendUnconfirmed, TypeOK
  <2>12. ASSUME NEW t \in Tasks, RecordReveal(t) PROVE TypeOK'
    <3> DEFINE u == task[t].user
               c == task[t].charge
    <3>1. PICK f \in task[t].reveals :
            /\ ledger' = [ledger EXCEPT ![u][f] = RowAfter(u, f, c)]
            /\ task' = [task EXCEPT ![t] =
                          [@ EXCEPT !.reveals = task[t].reveals \ {f},
                                    !.pc = IF MustCount(u, f, c) THEN "count" ELSE "commit"]]
      BY <2>12 DEF RecordReveal
    <3>2. u \in Users /\ f \in Fixtures
      BY <2>12 DEF RecordReveal, Serving, Section, TypeOK, TaskType
    <3> DEFINE p == IF MustCount(u, f, c) THEN "count" ELSE "commit"
               r == [task[t] EXCEPT !.reveals = task[t].reveals \ {f}, !.pc = p]
    <3>3. r \in TaskType
      BY DEF TypeOK, TaskType, Steps, Section
    <3>4. task' = [task EXCEPT ![t] = r]
      BY <3>1
    <3>5. task' \in [Tasks -> TaskType]
      BY <3>3, <3>4, TaskUpdate
    <3>6. RowAfter(u, f, c) \in {"none", "free", "charged"}
      BY <3>2 DEF RowAfter, TypeOK
    <3>7. ledger' \in [Users -> [Fixtures -> {"none", "free", "charged"}]]
      BY <3>1, <3>2, <3>6 DEF TypeOK
    <3> QED BY <2>12, <3>5, <3>7 DEF RecordReveal, TypeOK
  <2>13. ASSUME NEW t \in Tasks, ReadConsumed(t) PROVE TypeOK'
    <3> DEFINE r == [task[t] EXCEPT !.pc = "write", !.read = consumed[task[t].user]]
    <3>1. r \in TaskType
      <4>1. task[t].user \in Users
        BY <2>13 DEF ReadConsumed, Serving, Section
      <4> QED BY <4>1 DEF TypeOK, TaskType, Steps, Section
    <3>2. task' = [task EXCEPT ![t] = r]
      BY <2>13 DEF ReadConsumed
    <3>3. task' \in [Tasks -> TaskType]
      BY <2>0, <3>1, <3>2, TaskUpdate
    <3> QED BY <2>0, <2>13, <3>3 DEF ReadConsumed, TypeOK
  <2>14. ASSUME NEW t \in Tasks, WriteConsumed(t) PROVE TypeOK'
    <3> DEFINE r == [task[t] EXCEPT !.pc = "commit", !.read = 0]
    <3>1. r \in TaskType
      BY <2>0 DEF TypeOK, TaskType, Steps, Section
    <3>2. task' = [task EXCEPT ![t] = r]
      BY <2>14 DEF WriteConsumed
    <3>3. task' \in [Tasks -> TaskType]
      BY <2>0, <3>1, <3>2, TaskUpdate
    <3>4. task[t].read + 1 \in Nat
      BY DEF TypeOK, TaskType
    <3>5. consumed' \in [Users -> Nat]
      BY <2>14, <3>4 DEF WriteConsumed, TypeOK
    <3> QED BY <2>14, <3>3, <3>5 DEF WriteConsumed, TypeOK
  <2>15. ASSUME NEW t \in Tasks, CommitDone(t) PROVE TypeOK'
    <3> DEFINE r == [task[t] EXCEPT !.pc = "loop"]
    <3>1. r \in TaskType
      BY <2>0 DEF TypeOK, TaskType, Steps, Section
    <3>2. task' = [task EXCEPT ![t] = r]
      BY <2>15 DEF CommitDone
    <3>3. task' \in [Tasks -> TaskType]
      BY <2>0, <3>1, <3>2, TaskUpdate
    <3> QED BY <2>0, <2>15, <3>3 DEF CommitDone, TypeOK
  <2>16. ASSUME NEW t \in Tasks, DatabaseLocked(t) PROVE TypeOK'
    <3> DEFINE r == [task[t] EXCEPT !.pc = "loop", !.reveals = {}, !.read = 0]
    <3>1. r \in TaskType
      BY <2>0 DEF TypeOK, TaskType, Steps, Section
    <3>2. task' = [task EXCEPT ![t] = r]
      BY <2>16 DEF DatabaseLocked
    <3>3. task' \in [Tasks -> TaskType]
      BY <2>0, <3>1, <3>2, TaskUpdate
    <3> QED BY <2>0, <2>16, <3>3 DEF DatabaseLocked, TypeOK
  <2>17. ASSUME NEW t \in Tasks, Finish(t) PROVE TypeOK'
    BY <2>0, <2>17, TaskUpdate DEF Finish, TypeOK
  <2>18. CASE UNCHANGED vars
    BY <2>18 DEF vars, TypeOK
  <2> QED
    BY <2>1, <2>2, <2>3, <2>4, <2>5, <2>6, <2>7, <2>8, <2>9, <2>10, <2>11, <2>12, <2>13, <2>14, <2>15, <2>16, <2>17, <2>18
    DEF Next, World, AlertStart, TaskStep
<1>3. TypeOK /\ Serving /\ [Next]_vars => Serving'
  <2> SUFFICES ASSUME TypeOK, Serving, [Next]_vars, NEW s \in Tasks,
                      task'[s].pc \in {"sending"} \cup Section
               PROVE  task'[s].user \in Users
    BY DEF Serving
  <2>0. Bot \in Tasks /\ Jobs \subseteq Tasks
    BY DEF Tasks
  <2>1. ASSUME NEW u \in Users, Command(u) PROVE task'[s].user \in Users
    BY <2>0, <2>1 DEF Command, TypeOK, TaskType, Serving, Section
  <2>2. ASSUME NEW p \in {"bot", "daemon"}, Crash(p) PROVE task'[s].user \in Users
    BY <2>0, <2>2 DEF Crash, Idle, TypeOK, TaskType, Serving, Section
  <2>3. ASSUME NEW j \in Jobs, FireAlert(j) PROVE task'[s].user \in Users
    BY <2>0, <2>3 DEF FireAlert, TypeOK, TaskType, Serving, Section
  <2>4. ASSUME NEW j \in Jobs, RescoreAndListUsers(j) PROVE task'[s].user \in Users
    BY <2>0, <2>4 DEF RescoreAndListUsers, TypeOK, TaskType, Serving, Section
  <2>5. ASSUME NEW j \in Jobs, AlertAbandoned(j) PROVE task'[s].user \in Users
    BY <2>0, <2>5 DEF AlertAbandoned, Idle, TypeOK, TaskType, Serving, Section
  <2>6. ASSUME NEW t \in Tasks, NEW u \in Users, Render(t, u) PROVE task'[s].user \in Users
    BY <2>0, <2>6 DEF Render, TypeOK, TaskType, Serving, Section
  <2>7. ASSUME NEW t \in Tasks, SendConfirmed(t) PROVE task'[s].user \in Users
    BY <2>0, <2>7 DEF SendConfirmed, TypeOK, TaskType, Serving, Section
  <2>8. ASSUME NEW t \in Tasks, SendUnconfirmed(t) PROVE task'[s].user \in Users
    BY <2>0, <2>8 DEF SendUnconfirmed, TypeOK, TaskType, Serving, Section
  <2>9. ASSUME NEW t \in Tasks, RecordReveal(t) PROVE task'[s].user \in Users
    BY <2>0, <2>9 DEF RecordReveal, TypeOK, TaskType, Serving, Section
  <2>10. ASSUME NEW t \in Tasks, ReadConsumed(t) PROVE task'[s].user \in Users
    BY <2>0, <2>10 DEF ReadConsumed, TypeOK, TaskType, Serving, Section
  <2>11. ASSUME NEW t \in Tasks, WriteConsumed(t) PROVE task'[s].user \in Users
    BY <2>0, <2>11 DEF WriteConsumed, TypeOK, TaskType, Serving, Section
  <2>12. ASSUME NEW t \in Tasks, CommitDone(t) PROVE task'[s].user \in Users
    BY <2>0, <2>12 DEF CommitDone, TypeOK, TaskType, Serving, Section
  <2>13. ASSUME NEW t \in Tasks, DatabaseLocked(t) PROVE task'[s].user \in Users
    BY <2>0, <2>13 DEF DatabaseLocked, TypeOK, TaskType, Serving, Section
  <2>14. ASSUME NEW t \in Tasks, Finish(t) PROVE task'[s].user \in Users
    BY <2>0, <2>14 DEF Finish, Idle, TypeOK, TaskType, Serving, Section
  <2>15. CASE UNCHANGED task
    BY <2>15 DEF Serving
  <2>16. ASSUME NEW u \in Users, Deposit(u) \/ TrialEnds(u) PROVE UNCHANGED task
    BY <2>16 DEF Deposit, TrialEnds
  <2>17. ASSUME NEW f \in Fixtures, Rescore(f) PROVE UNCHANGED task
    BY <2>17 DEF Rescore
  <2> QED
    BY <2>1, <2>2, <2>3, <2>4, <2>5, <2>6, <2>7, <2>8, <2>9, <2>10, <2>11, <2>12, <2>13, <2>14, <2>15, <2>16, <2>17
    DEF Next, World, AlertStart, TaskStep, vars
<1> QED
  BY <1>1, <1>2, <1>3, PTL DEF Spec

-----------------------------------------------------------------------------
(* Billing.  A handler that inserted a charged row and has not yet written *)
(* the counter owes one increment; the counter plus what is owed never     *)
(* exceeds the charged rows, and neither does a value read for a write.    *)

Pending(u) == {t \in Tasks : task[t].pc \in {"count", "write"} /\ task[t].user = u}

Counted == \A u \in Users :
    consumed[u] + Cardinality(Pending(u)) <= Cardinality(Charged(u))

ReadBounded == \A t \in Tasks, u \in Users :
    task[t].pc = "write" /\ task[t].user = u
        => task[t].read + Cardinality(Pending(u)) <= Cardinality(Charged(u))

(* Both sets are finite.                                                   *)
LEMMA FiniteSides ==
  ASSUME NEW u PROVE /\ IsFiniteSet(Pending(u)) /\ Cardinality(Pending(u)) \in Nat
                     /\ IsFiniteSet(Charged(u)) /\ Cardinality(Charged(u)) \in Nat
<1>1. IsFiniteSet(Tasks)
  BY LedgerAssumption, FS_AddElement DEF Tasks
<1>2. Pending(u) \subseteq Tasks /\ Charged(u) \subseteq Fixtures
  BY DEF Pending, Charged
<1> QED
  BY <1>1, <1>2, LedgerAssumption, FS_Subset, FS_CardinalityType

(* A step that inserts no row, counts nothing and adds no debtor keeps the *)
(* balance of the books.                                                   *)
LEMMA CalmStep ==
  ASSUME TypeOK, Serving, Counted, ReadBounded, UNCHANGED <<ledger, consumed>>,
         \A s \in Tasks : task'[s].pc \in {"count", "write"} => task'[s] = task[s]
  PROVE  Counted' /\ ReadBounded'
<1>1. ASSUME NEW u PROVE /\ Pending(u)' \subseteq Pending(u)
                         /\ Cardinality(Pending(u)') \in Nat
                         /\ Cardinality(Pending(u)') <= Cardinality(Pending(u))
  <2>1. Pending(u)' \subseteq Pending(u)
    BY DEF Pending
  <2> QED BY <2>1, FiniteSides, FS_Subset, FS_CardinalityType
<1>2. ASSUME NEW u PROVE Charged(u)' = Charged(u)
  BY DEF Charged
<1>3. Counted'
  <2> SUFFICES ASSUME NEW u \in Users
               PROVE  consumed'[u] + Cardinality(Pending(u)') <= Cardinality(Charged(u)')
    BY DEF Counted
  <2> consumed[u] \in Nat
    BY DEF TypeOK
  <2> QED BY <1>1, <1>2, FiniteSides DEF Counted
<1>4. ReadBounded'
  <2> SUFFICES ASSUME NEW t \in Tasks, NEW v \in Users,
                      task'[t].pc = "write", task'[t].user = v
               PROVE  task'[t].read + Cardinality(Pending(v)') <= Cardinality(Charged(v)')
    BY DEF ReadBounded
  <2>1. task'[t] = task[t] /\ task[t].pc = "write" /\ task[t].read \in Nat
    BY DEF TypeOK, TaskType
  <2> QED BY <2>1, <1>1, <1>2, FiniteSides DEF ReadBounded
<1> QED BY <1>3, <1>4

(* Inserting a row: a new charged row brings one debtor, any other insert  *)
(* changes neither side.                                                   *)
LEMMA RecordSides ==
  ASSUME TypeOK, Serving, NEW t \in Tasks, RecordReveal(t), NEW v \in Users
  PROVE  Cardinality(Charged(v)') + Cardinality(Pending(v))
           = Cardinality(Charged(v)) + Cardinality(Pending(v)')
<1> PICK u \in Users : u = task[t].user
  BY DEF RecordReveal, Serving, Section
<1> DEFINE c == task[t].charge
<1>1. PICK f \in task[t].reveals :
        /\ ledger' = [ledger EXCEPT ![u][f] = RowAfter(u, f, c)]
        /\ task' = [task EXCEPT ![t] =
                      [@ EXCEPT !.reveals = task[t].reveals \ {f},
                                !.pc = IF MustCount(u, f, c) THEN "count" ELSE "commit"]]
  BY DEF RecordReveal
<1>2. u \in Users /\ f \in Fixtures /\ task[t].pc = "commit"
  BY DEF RecordReveal, Serving, Section, TypeOK, TaskType
<1>3. \A s \in Tasks : task'[s].user = task[s].user
  BY <1>1 DEF TypeOK, TaskType
<1>4. \A s \in Tasks \ {t} : task'[s] = task[s]
  BY <1>1 DEF TypeOK
<1>5. task'[t].pc = IF MustCount(u, f, c) THEN "count" ELSE "commit"
  BY <1>1 DEF TypeOK, TaskType
<1>6. CASE ~MustCount(u, f, c)
  <2>1. Pending(v)' = Pending(v)
    BY <1>2, <1>3, <1>4, <1>5, <1>6 DEF Pending
  <2>2. \A g \in Fixtures : ledger'[v][g] = "charged" <=> ledger[v][g] = "charged"
    BY <1>1, <1>2, <1>6 DEF TypeOK, RowAfter, MustCount
  <2>3. Charged(v)' = Charged(v)
    BY <2>2 DEF Charged
  <2> QED BY <2>1, <2>3
<1>7. CASE MustCount(u, f, c) /\ v = u
  <2>1. Pending(u)' = Pending(u) \cup {t} /\ t \notin Pending(u)
    BY <1>2, <1>3, <1>4, <1>5, <1>7 DEF Pending
  <2>2. ledger'[u][f] = "charged" /\ ledger[u][f] = "none"
    BY <1>1, <1>2, <1>7 DEF TypeOK, RowAfter, MustCount
  <2>3. \A g \in Fixtures \ {f} : ledger'[u][g] = ledger[u][g]
    BY <1>1, <1>2 DEF TypeOK
  <2>4. Charged(u)' = Charged(u) \cup {f} /\ f \notin Charged(u)
    BY <1>2, <2>2, <2>3 DEF Charged
  <2>5. /\ Cardinality(Pending(u)') = Cardinality(Pending(u)) + 1
        /\ Cardinality(Charged(u)') = Cardinality(Charged(u)) + 1
    BY <2>1, <2>4, FiniteSides, FS_AddElement
  <2> QED BY <1>7, <2>5, FiniteSides
<1>8. CASE MustCount(u, f, c) /\ v # u
  <2>1. Pending(v)' = Pending(v)
    BY <1>2, <1>3, <1>4, <1>5, <1>8 DEF Pending
  <2>2. Charged(v)' = Charged(v)
    BY <1>1, <1>2, <1>8 DEF Charged, TypeOK
  <2> QED BY <2>1, <2>2
<1> QED BY <1>6, <1>7, <1>8

LEMMA RecordKeepsBooks ==
  ASSUME TypeOK, Serving, Counted, ReadBounded, NEW t \in Tasks, RecordReveal(t)
  PROVE  Counted' /\ ReadBounded'
<1>1. /\ consumed' = consumed
      /\ \A s \in Tasks : task'[s].pc = "write" => task'[s] = task[s]
  <2>1. consumed' = consumed
    BY DEF RecordReveal
  <2>2. \A s \in Tasks : task'[s].pc = "write" => task'[s] = task[s]
    BY DEF RecordReveal, TypeOK, TaskType
  <2> QED BY <2>1, <2>2
<1>2. ASSUME NEW v \in Users
      PROVE  /\ Cardinality(Charged(v)') + Cardinality(Pending(v))
                   = Cardinality(Charged(v)) + Cardinality(Pending(v)')
             /\ Cardinality(Pending(v)') \in Nat /\ Cardinality(Charged(v)') \in Nat
  <2>1. IsFiniteSet(Pending(v)') /\ IsFiniteSet(Charged(v)')
    <3>1. Pending(v)' \subseteq Tasks /\ Charged(v)' \subseteq Fixtures
      BY DEF Pending, Charged
    <3>2. IsFiniteSet(Tasks)
      BY LedgerAssumption, FS_AddElement DEF Tasks
    <3> QED BY <3>1, <3>2, LedgerAssumption, FS_Subset
  <2> QED BY <2>1, RecordSides, FS_CardinalityType
<1>3. ASSUME NEW v \in Users PROVE consumed'[v] + Cardinality(Pending(v)') <= Cardinality(Charged(v)')
  <2>1. consumed[v] \in Nat
    BY DEF TypeOK
  <2> QED BY <1>1, <1>2, <2>1, FiniteSides DEF Counted
<1>4. ASSUME NEW s \in Tasks, NEW v \in Users, task'[s].pc = "write", task'[s].user = v
      PROVE  task'[s].read + Cardinality(Pending(v)') <= Cardinality(Charged(v)')
  <2>1. task'[s] = task[s] /\ task[s].read \in Nat
    BY <1>1, <1>4 DEF TypeOK, TaskType
  <2> QED BY <1>2, <1>4, <2>1, FiniteSides DEF ReadBounded
<1> QED BY <1>3, <1>4 DEF Counted, ReadBounded

(* Reading the counter takes a value that satisfies the bound already.     *)
LEMMA ReadKeepsBooks ==
  ASSUME TypeOK, Serving, Counted, ReadBounded, NEW t \in Tasks, ReadConsumed(t)
  PROVE  Counted' /\ ReadBounded'
<1>1. task[t].user \in Users /\ task[t].pc = "count" /\ UNCHANGED <<ledger, consumed>>
  BY DEF ReadConsumed, Serving, Section
<1>2. \A s \in Tasks \ {t} : task'[s] = task[s]
  BY DEF ReadConsumed, TypeOK
<1>3. /\ task'[t].pc = "write" /\ task'[t].user = task[t].user
      /\ task'[t].read = consumed[task[t].user]
  BY DEF ReadConsumed, TypeOK, TaskType
<1>4. ASSUME NEW v PROVE Pending(v)' = Pending(v) /\ Charged(v)' = Charged(v)
  BY <1>1, <1>2, <1>3 DEF Pending, Charged
<1>5. Counted'
  BY <1>1, <1>4 DEF Counted
<1>6. ReadBounded'
  <2> SUFFICES ASSUME NEW s \in Tasks, NEW v \in Users,
                      task'[s].pc = "write", task'[s].user = v
               PROVE  task'[s].read + Cardinality(Pending(v)') <= Cardinality(Charged(v)')
    BY DEF ReadBounded
  <2>1. CASE s = t
    BY <1>1, <1>3, <1>4, <2>1 DEF Counted
  <2>2. CASE s # t
    BY <1>2, <1>4, <2>2 DEF ReadBounded
  <2> QED BY <2>1, <2>2
<1> QED BY <1>5, <1>6

(* Writing pays one debt, even when the value written is out of date.      *)
LEMMA WriteKeepsBooks ==
  ASSUME TypeOK, Serving, Counted, ReadBounded, NEW t \in Tasks, WriteConsumed(t)
  PROVE  Counted' /\ ReadBounded'
<1> PICK u \in Users : u = task[t].user
  BY DEF WriteConsumed, Serving, Section
<1>1. u \in Users /\ task[t].pc = "write" /\ ledger' = ledger /\ task[t].read \in Nat
  BY DEF WriteConsumed, Serving, Section, TypeOK, TaskType
<1>2. \A s \in Tasks \ {t} : task'[s] = task[s]
  BY DEF WriteConsumed, TypeOK
<1>3. task'[t].pc = "commit" /\ consumed' = [consumed EXCEPT ![u] = task[t].read + 1]
  BY DEF WriteConsumed, TypeOK, TaskType
<1>4. ASSUME NEW v PROVE Charged(v)' = Charged(v)
  BY <1>1 DEF Charged
<1>5. Pending(u)' = Pending(u) \ {t} /\ t \in Pending(u)
  BY <1>1, <1>2, <1>3 DEF Pending
<1>6. ASSUME NEW v, v # u PROVE Pending(v)' = Pending(v)
  BY <1>1, <1>2, <1>3, <1>6 DEF Pending
<1>7. Cardinality(Pending(u)') = Cardinality(Pending(u)) - 1
  BY <1>5, FiniteSides, FS_RemoveElement
<1>8. Counted'
  <2> SUFFICES ASSUME NEW v \in Users
               PROVE  consumed'[v] + Cardinality(Pending(v)') <= Cardinality(Charged(v)')
    BY DEF Counted
  <2>1. CASE v = u
    <3>1. consumed'[v] = task[t].read + 1
      BY <1>1, <1>3, <2>1 DEF TypeOK
    <3> QED BY <1>1, <1>4, <1>7, <2>1, <3>1, FiniteSides DEF ReadBounded
  <2>2. CASE v # u
    BY <1>3, <1>4, <1>6, <2>2 DEF Counted, TypeOK
  <2> QED BY <2>1, <2>2
<1>9. ReadBounded'
  <2> SUFFICES ASSUME NEW s \in Tasks, NEW v \in Users,
                      task'[s].pc = "write", task'[s].user = v
               PROVE  task'[s].read + Cardinality(Pending(v)') <= Cardinality(Charged(v)')
    BY DEF ReadBounded
  <2>1. s # t /\ task'[s] = task[s] /\ task[s].read \in Nat
    BY <1>2, <1>3 DEF TypeOK, TaskType
  <2>2. CASE v = u
    BY <1>4, <1>7, <2>1, <2>2, FiniteSides DEF ReadBounded
  <2>3. CASE v # u
    BY <1>4, <1>6, <2>1, <2>3 DEF ReadBounded
  <2> QED BY <2>2, <2>3
<1> QED BY <1>8, <1>9

-----------------------------------------------------------------------------
(* Every step keeps the books: all actions but the three above only drop   *)
(* handlers from the set of debtors, or leave it alone.                    *)
LEMMA StepKeepsBooks ==
  ASSUME TypeOK, Serving, Counted, ReadBounded, [Next]_vars
  PROVE  Counted' /\ ReadBounded'
<1> DEFINE Calm == /\ UNCHANGED <<ledger, consumed>>
                   /\ \A s \in Tasks : task'[s].pc \in {"count", "write"} => task'[s] = task[s]
<1>0. Bot \in Tasks /\ Jobs \subseteq Tasks
  BY DEF Tasks
<1>1. ASSUME NEW u \in Users, Deposit(u) \/ TrialEnds(u) \/ Command(u) PROVE Calm
  BY <1>0, <1>1 DEF Deposit, TrialEnds, Command, TypeOK, TaskType
<1>2. ASSUME NEW f \in Fixtures, Rescore(f) PROVE Calm
  BY <1>2 DEF Rescore
<1>3. ASSUME NEW p \in {"bot", "daemon"}, Crash(p) PROVE Calm
  BY <1>3 DEF Crash, Idle
<1>4. ASSUME NEW j \in Jobs, FireAlert(j) PROVE Calm
  <2>1. UNCHANGED <<ledger, consumed>>
    BY <1>4 DEF FireAlert
  <2>2. \A s \in Tasks : task'[s].pc \in {"count", "write"} => task'[s] = task[s]
    BY <1>0, <1>4 DEF FireAlert, TypeOK, TaskType
  <2> QED BY <2>1, <2>2
<1>5. ASSUME NEW j \in Jobs, RescoreAndListUsers(j) PROVE Calm
  <2>1. UNCHANGED <<ledger, consumed>>
    BY <1>5 DEF RescoreAndListUsers
  <2>2. \A s \in Tasks : task'[s].pc \in {"count", "write"} => task'[s] = task[s]
    BY <1>0, <1>5 DEF RescoreAndListUsers, TypeOK, TaskType
  <2> QED BY <2>1, <2>2
<1>6. ASSUME NEW j \in Jobs, AlertAbandoned(j) PROVE Calm
  <2>1. UNCHANGED <<ledger, consumed>>
    BY <1>6 DEF AlertAbandoned
  <2>2. \A s \in Tasks : task'[s].pc \in {"count", "write"} => task'[s] = task[s]
    BY <1>0, <1>6 DEF AlertAbandoned, Idle, TypeOK, TaskType
  <2> QED BY <2>1, <2>2
<1>7. ASSUME NEW t \in Tasks, NEW u \in Users, Render(t, u) PROVE Calm
  <2>1. UNCHANGED <<ledger, consumed>>
    BY <1>7 DEF Render
  <2>2. \A s \in Tasks : task'[s].pc \in {"count", "write"} => task'[s] = task[s]
    BY <1>7 DEF Render, TypeOK, TaskType
  <2> QED BY <2>1, <2>2
<1>8. ASSUME NEW t \in Tasks, SendConfirmed(t) PROVE Calm
  <2>1. UNCHANGED <<ledger, consumed>>
    BY <1>8 DEF SendConfirmed
  <2>2. \A s \in Tasks : task'[s].pc \in {"count", "write"} => task'[s] = task[s]
    BY <1>8 DEF SendConfirmed, TypeOK, TaskType
  <2> QED BY <2>1, <2>2
<1>9. ASSUME NEW t \in Tasks, SendUnconfirmed(t) PROVE Calm
  <2>1. UNCHANGED <<ledger, consumed>>
    BY <1>9 DEF SendUnconfirmed
  <2>2. \A s \in Tasks : task'[s].pc \in {"count", "write"} => task'[s] = task[s]
    BY <1>9 DEF SendUnconfirmed, TypeOK, TaskType
  <2> QED BY <2>1, <2>2
<1>10. ASSUME NEW t \in Tasks, CommitDone(t) PROVE Calm
  <2>1. UNCHANGED <<ledger, consumed>>
    BY <1>10 DEF CommitDone
  <2>2. \A s \in Tasks : task'[s].pc \in {"count", "write"} => task'[s] = task[s]
    BY <1>10 DEF CommitDone, TypeOK, TaskType
  <2> QED BY <2>1, <2>2
<1>11. ASSUME NEW t \in Tasks, DatabaseLocked(t) PROVE Calm
  <2>1. UNCHANGED <<ledger, consumed>>
    BY <1>11 DEF DatabaseLocked
  <2>2. \A s \in Tasks : task'[s].pc \in {"count", "write"} => task'[s] = task[s]
    BY <1>11 DEF DatabaseLocked, TypeOK, TaskType
  <2> QED BY <2>1, <2>2
<1>12. ASSUME NEW t \in Tasks, Finish(t) PROVE Calm
  <2>1. UNCHANGED <<ledger, consumed>>
    BY <1>12 DEF Finish
  <2>2. \A s \in Tasks : task'[s].pc \in {"count", "write"} => task'[s] = task[s]
    BY <1>12 DEF Finish, Idle, TypeOK, TaskType
  <2> QED BY <2>1, <2>2
<1>13. ASSUME UNCHANGED vars PROVE Calm
  <2>1. ledger' = ledger /\ consumed' = consumed /\ task' = task
    BY <1>13 DEF vars
  <2> QED BY <2>1
<1>14. Calm \/ \E t \in Tasks : RecordReveal(t) \/ ReadConsumed(t) \/ WriteConsumed(t)
  <2> HIDE DEF Calm
  <2> QED
    BY <1>1, <1>2, <1>3, <1>4, <1>5, <1>6, <1>7, <1>8, <1>9, <1>10, <1>11, <1>12, <1>13
    DEF Next, World, AlertStart, TaskStep
<1> QED
  BY <1>14, CalmStep, RecordKeepsBooks, ReadKeepsBooks, WriteKeepsBooks

(* No user is ever billed for more fixtures than were revealed to him      *)
(* against payment, whatever the audience, the jobs and the crashes:       *)
(* record_reveal's unique row guards increment_predictions_consumed.       *)
THEOREM NeverOverBilledTheorem == Spec => []NeverOverBilled
<1>1. Init => Counted /\ ReadBounded
  <2> SUFFICES ASSUME Init PROVE Counted /\ ReadBounded
    OBVIOUS
  <2>1. \A t \in Tasks : task[t].pc = "idle"
    BY DEF Init, Idle
  <2>2. ASSUME NEW u \in Users PROVE consumed[u] + Cardinality(Pending(u)) <= Cardinality(Charged(u))
    <3>1. Pending(u) = {} /\ consumed[u] = 0
      BY <2>1 DEF Pending, Init
    <3>2. Cardinality(Pending(u)) = 0
      BY <3>1, FS_EmptySet
    <3> QED BY <3>1, <3>2, FiniteSides
  <2> QED BY <2>1, <2>2 DEF Counted, ReadBounded
<1>2. TypeOK /\ Serving /\ Counted /\ ReadBounded /\ [Next]_vars => Counted' /\ ReadBounded'
  BY StepKeepsBooks
<1>3. TypeOK /\ Counted => NeverOverBilled
  <2> SUFFICES ASSUME TypeOK, Counted, NEW u \in Users PROVE consumed[u] <= Cardinality(Charged(u))
    BY DEF NeverOverBilled
  <2> consumed[u] \in Nat
    BY DEF TypeOK
  <2> QED BY FiniteSides DEF Counted
<1> QED
  BY <1>1, <1>2, <1>3, TypeCorrect, PTL DEF Spec

-----------------------------------------------------------------------------
(* Exactness.  While only alerts have charged and nothing has failed, the  *)
(* event loop lets one handler at a time into its commit: what it read of  *)
(* the counter is still there when it writes, and what is not counted yet  *)
(* is owed by that handler.                                                *)

Alone == faults = 0 /\ fired[Bot] = 0

Exclusive ==
    /\ task[Bot].pc = "idle"
    /\ \A s, t \in Jobs : task[s].pc \in Section /\ task[t].pc \in Section => s = t

ReadFresh == \A t \in Tasks : task[t].pc = "write" => task[t].read = consumed[task[t].user]

Settled == \A u \in Users : consumed[u] + Cardinality(Pending(u)) = Cardinality(Charged(u))

AloneExact == Alone => Exclusive /\ ReadFresh /\ Settled

(* Crashes, lock timeouts and commands are never taken back.               *)
LEMMA AloneBefore ==
  ASSUME TypeOK, [Next]_vars, Alone' PROVE Alone
<1>0. Bot \in Tasks /\ Jobs \subseteq Tasks /\ Bot \notin Jobs /\ faults \in Nat /\ fired \in [Tasks -> Nat]
  BY LedgerAssumption DEF Tasks, TypeOK
<1>1. ASSUME NEW u \in Users, Command(u) PROVE FALSE
  BY <1>0, <1>1 DEF Command, Alone
<1>2. ASSUME NEW p \in {"bot", "daemon"}, Crash(p) PROVE FALSE
  BY <1>0, <1>2 DEF Crash, Alone
<1>3. ASSUME NEW t \in Tasks, DatabaseLocked(t) PROVE FALSE
  BY <1>0, <1>3 DEF DatabaseLocked, Alone
<1>4. ASSUME NEW j \in Jobs, FireAlert(j) PROVE Alone
  BY <1>0, <1>4 DEF FireAlert, Alone
<1>5. CASE UNCHANGED <<faults, fired>>
  BY <1>5 DEF Alone
<1> QED
  BY <1>1, <1>2, <1>3, <1>4, <1>5 DEF Next, World, AlertStart, TaskStep, vars, Deposit, TrialEnds, Rescore,
     RescoreAndListUsers, AlertAbandoned, Render, SendConfirmed, SendUnconfirmed, RecordReveal,
     ReadConsumed, WriteConsumed, CommitDone, Finish

(* A handler enters its commit only when no other of its loop is in one.   *)
LEMMA CommitsExclude ==
  ASSUME TypeOK, [Next]_vars, Alone, Alone', Exclusive PROVE Exclusive'
<1>0. Bot \in Tasks /\ Jobs \subseteq Tasks /\ Bot \notin Jobs /\ Tasks = Jobs \cup {Bot}
      /\ fired \in [Tasks -> Nat] /\ faults \in Nat /\ task \in [Tasks -> TaskType]
  BY LedgerAssumption DEF Tasks, TypeOK
<1> DEFINE Moves(j) ==
      /\ \A s \in Tasks \ {j} : task'[s] = task[s]
      /\ task'[j].pc \in Section => task[j].pc \in Section \/ LoopFree(j)
<1>1. ASSUME NEW j \in Jobs, FireAlert(j) PROVE Moves(j)
  BY <1>0, <1>1 DEF FireAlert
<1>2. ASSUME NEW j \in Jobs, RescoreAndListUsers(j) PROVE Moves(j)
  BY <1>0, <1>2 DEF RescoreAndListUsers
<1>3. ASSUME NEW j \in Jobs, AlertAbandoned(j) PROVE Moves(j)
  BY <1>0, <1>3 DEF AlertAbandoned
<1>4. ASSUME NEW j \in Jobs, NEW u \in Users, Render(j, u) PROVE Moves(j)
  BY <1>0, <1>4 DEF Render
<1>5. ASSUME NEW j \in Jobs, SendConfirmed(j) \/ SendUnconfirmed(j) PROVE Moves(j)
  BY <1>0, <1>5 DEF SendConfirmed, SendUnconfirmed
<1>6. ASSUME NEW j \in Jobs, RecordReveal(j) \/ ReadConsumed(j) \/ WriteConsumed(j) \/ CommitDone(j)
      PROVE  Moves(j)
  BY <1>0, <1>6 DEF RecordReveal, ReadConsumed, WriteConsumed, CommitDone, Section
<1>7. ASSUME NEW j \in Jobs, Finish(j) PROVE Moves(j)
  BY <1>0, <1>7 DEF Finish
<1>8. ASSUME NEW j \in Jobs, DatabaseLocked(j) PROVE FALSE
  BY <1>0, <1>8 DEF DatabaseLocked, Alone
<1>9. ~TaskStep(Bot)
  BY DEF Exclusive, TaskStep, Render, SendConfirmed, SendUnconfirmed, RecordReveal, ReadConsumed,
         WriteConsumed, CommitDone, DatabaseLocked, Finish, Section
<1>10. ASSUME NEW u \in Users, Command(u) PROVE FALSE
  BY <1>0, <1>10 DEF Command, Alone
<1>11. ASSUME NEW p \in {"bot", "daemon"}, Crash(p) PROVE FALSE
  BY <1>0, <1>11 DEF Crash, Alone
<1>12. task' = task \/ \E j \in Jobs : Moves(j)
  <2> HIDE DEF Moves
  <2>1. ASSUME NEW u \in Users, Deposit(u) \/ TrialEnds(u) PROVE task' = task
    BY <2>1 DEF Deposit, TrialEnds
  <2>2. ASSUME NEW f \in Fixtures, Rescore(f) PROVE task' = task
    BY <2>2 DEF Rescore
  <2>3. ASSUME NEW j \in Jobs, TaskStep(j) PROVE Moves(j)
    BY <1>4, <1>5, <1>6, <1>7, <1>8, <2>3 DEF TaskStep
  <2>4. ASSUME NEW j \in Jobs, AlertStart(j) PROVE Moves(j)
    BY <1>1, <1>2, <1>3, <2>4 DEF AlertStart
  <2> QED BY <1>0, <1>9, <1>10, <1>11, <2>1, <2>2, <2>3, <2>4 DEF Next, World, vars
<1>13. ASSUME NEW j \in Jobs, Moves(j) PROVE Exclusive'
  <2>1. task'[Bot].pc = "idle"
    BY <1>0, <1>13 DEF Exclusive
  <2>2. ASSUME NEW s \in Jobs, s # j, task'[s].pc \in Section PROVE task'[j].pc \notin Section
    <3>1. task[s].pc \in Section
      BY <1>0, <1>13, <2>2
    <3>2. task[j].pc \notin Section
      BY <2>2, <3>1 DEF Exclusive
    <3>3. ~LoopFree(j)
      BY <1>0, <2>2, <3>1 DEF LoopFree, Process
    <3> QED BY <1>13, <3>2, <3>3
  <2>3. ASSUME NEW s \in Jobs, NEW t \in Jobs, task'[s].pc \in Section, task'[t].pc \in Section, s # t
        PROVE  FALSE
    <3>1. s # j /\ t # j
      BY <2>2, <2>3
    <3>2. task[s].pc \in Section /\ task[t].pc \in Section
      BY <1>0, <1>13, <2>3, <3>1
    <3> QED BY <2>3, <3>2 DEF Exclusive
  <2> QED BY <2>1, <2>3 DEF Exclusive
<1>14. ASSUME task' = task PROVE Exclusive'
  BY <1>14 DEF Exclusive
<1> QED BY <1>12, <1>13, <1>14

(* A step outside the three of the counter changes neither the books nor   *)
(* who owes.                                                               *)
LEMMA AloneCalm ==
  ASSUME TypeOK, [Next]_vars, Alone, Alone',
         ~\E t \in Tasks : RecordReveal(t) \/ ReadConsumed(t) \/ WriteConsumed(t)
  PROVE  /\ UNCHANGED <<ledger, consumed>>
         /\ \A s \in Tasks : task[s].pc \in {"count", "write"} \/ task'[s].pc \in {"count", "write"}
              => task'[s] = task[s]
<1> DEFINE Calm == /\ UNCHANGED <<ledger, consumed>>
                   /\ \A s \in Tasks :
                        task[s].pc \in {"count", "write"} \/ task'[s].pc \in {"count", "write"}
                          => task'[s] = task[s]
<1>0. Bot \in Tasks /\ Jobs \subseteq Tasks /\ faults \in Nat /\ fired \in [Tasks -> Nat]
      /\ task \in [Tasks -> TaskType]
  BY DEF Tasks, TypeOK
<1>1. ASSUME NEW u \in Users, Deposit(u) \/ TrialEnds(u) PROVE Calm
  BY <1>1 DEF Deposit, TrialEnds
<1>2. ASSUME NEW f \in Fixtures, Rescore(f) PROVE Calm
  BY <1>2 DEF Rescore
<1>3. ASSUME NEW u \in Users, Command(u) PROVE FALSE
  BY <1>0, <1>3 DEF Command, Alone
<1>4. ASSUME NEW p \in {"bot", "daemon"}, Crash(p) PROVE FALSE
  BY <1>0, <1>4 DEF Crash, Alone
<1>5. ASSUME NEW t \in Tasks, DatabaseLocked(t) PROVE FALSE
  BY <1>0, <1>5 DEF DatabaseLocked, Alone
<1>6. ASSUME NEW t \in Tasks, NEW r \in TaskType, UNCHANGED <<ledger, consumed>>,
             task[t].pc \notin {"count", "write"}, r.pc \notin {"count", "write"},
             task' = [task EXCEPT ![t] = r]
      PROVE  Calm
  BY <1>0, <1>6
<1>7. ASSUME NEW j \in Jobs, FireAlert(j) PROVE Calm
  <2>1. task[j] \in TaskType
    BY <1>0
  <2>2. /\ [task[j] EXCEPT !.pc = "scoring"] \in TaskType
        /\ [task[j] EXCEPT !.pc = "scoring"].pc = "scoring"
    BY <2>1 DEF TaskType, Steps
  <2> HIDE DEF Calm
  <2> QED BY <1>0, <1>6, <1>7, <2>2 DEF FireAlert
<1>8. ASSUME NEW j \in Jobs, RescoreAndListUsers(j) PROVE Calm
  <2>1. UNCHANGED <<ledger, consumed>>
    BY <1>8 DEF RescoreAndListUsers
  <2> QED BY <1>0, <1>8, <2>1 DEF RescoreAndListUsers, TaskType
<1>9. ASSUME NEW j \in Jobs, AlertAbandoned(j) PROVE Calm
  <2>1. UNCHANGED <<ledger, consumed>>
    BY <1>9 DEF AlertAbandoned
  <2> QED BY <1>0, <1>9, <2>1 DEF AlertAbandoned, Idle
<1>10. ASSUME NEW t \in Tasks, NEW u \in Users, Render(t, u) PROVE Calm
  <2>1. UNCHANGED <<ledger, consumed>>
    BY <1>10 DEF Render
  <2> QED BY <1>0, <1>10, <2>1 DEF Render, TaskType
<1>11. ASSUME NEW t \in Tasks, SendConfirmed(t) PROVE Calm
  <2>1. UNCHANGED <<ledger, consumed>>
    BY <1>11 DEF SendConfirmed
  <2> QED BY <1>0, <1>11, <2>1 DEF SendConfirmed, TaskType
<1>12. ASSUME NEW t \in Tasks, SendUnconfirmed(t) PROVE Calm
  <2>1. UNCHANGED <<ledger, consumed>>
    BY <1>12 DEF SendUnconfirmed
  <2> QED BY <1>0, <1>12, <2>1 DEF SendUnconfirmed, TaskType
<1>13. ASSUME NEW t \in Tasks, CommitDone(t) PROVE Calm
  <2>1. UNCHANGED <<ledger, consumed>>
    BY <1>13 DEF CommitDone
  <2> QED BY <1>0, <1>13, <2>1 DEF CommitDone, TaskType
<1>14. ASSUME NEW t \in Tasks, Finish(t) PROVE Calm
  <2>1. UNCHANGED <<ledger, consumed>>
    BY <1>14 DEF Finish
  <2> QED BY <1>0, <1>14, <2>1 DEF Finish, Idle
<1>15. ASSUME UNCHANGED vars PROVE Calm
  <2>1. UNCHANGED <<ledger, consumed, task>>
    BY <1>15 DEF vars
  <2> QED BY <2>1
<1>16. Calm
  <2> HIDE DEF Calm
  <2> QED BY <1>1, <1>2, <1>3, <1>4, <1>5, <1>7, <1>8, <1>9, <1>10, <1>11, <1>12, <1>13, <1>14, <1>15
          DEF Next, World, AlertStart, TaskStep
<1> QED BY <1>16

(* Every step keeps the books exact.                                       *)
LEMMA StepKeepsExact ==
  ASSUME TypeOK, Serving, AloneExact, [Next]_vars PROVE AloneExact'
<1> SUFFICES ASSUME Alone' PROVE Exclusive' /\ ReadFresh' /\ Settled'
  BY DEF AloneExact
<1>0. Alone /\ Exclusive /\ ReadFresh /\ Settled
  BY AloneBefore DEF AloneExact
<1>1. Exclusive'
  BY <1>0, CommitsExclude
<1>2. Bot \in Tasks /\ Jobs \subseteq Tasks /\ Tasks = Jobs \cup {Bot} /\ task \in [Tasks -> TaskType]
  BY DEF Tasks, TypeOK
<1>3. \A s, t \in Tasks : task[s].pc \in Section /\ task[t].pc \in Section => s = t
  BY <1>0, <1>2 DEF Exclusive, Section
<1>4. ASSUME NEW t \in Tasks, RecordReveal(t) PROVE ReadFresh' /\ Settled'
  <2>1. consumed' = consumed /\ consumed \in [Users -> Nat]
    BY <1>4 DEF RecordReveal, TypeOK
  <2>2. \A s \in Tasks : task'[s].pc = "write" => task'[s] = task[s]
    BY <1>2, <1>4 DEF RecordReveal, TaskType
  <2>3. ReadFresh'
    BY <1>0, <2>1, <2>2 DEF ReadFresh
  <2>4. ASSUME NEW u \in Users PROVE consumed'[u] + Cardinality(Pending(u)') = Cardinality(Charged(u)')
    <3>1. Cardinality(Pending(u)') \in Nat /\ Cardinality(Charged(u)') \in Nat
      <4>1. Pending(u)' \subseteq Tasks /\ Charged(u)' \subseteq Fixtures
        BY DEF Pending, Charged
      <4>2. IsFiniteSet(Tasks)
        BY LedgerAssumption, FS_AddElement DEF Tasks
      <4> QED BY <4>1, <4>2, LedgerAssumption, FS_Subset, FS_CardinalityType
    <3>2. consumed[u] + Cardinality(Pending(u)) = Cardinality(Charged(u))
      BY <1>0 DEF Settled
    <3>3. Cardinality(Charged(u)') + Cardinality(Pending(u))
            = Cardinality(Charged(u)) + Cardinality(Pending(u)')
      BY <1>4, RecordSides
    <3> QED BY <2>1, <3>1, <3>2, <3>3, FiniteSides
  <2> QED BY <2>3, <2>4 DEF Settled
<1>5. ASSUME NEW t \in Tasks, ReadConsumed(t) PROVE ReadFresh' /\ Settled'
  <2>1. task[t].pc = "count" /\ UNCHANGED <<ledger, consumed>>
    BY <1>5 DEF ReadConsumed
  <2>2. \A s \in Tasks \ {t} : task'[s] = task[s]
    BY <1>2, <1>5 DEF ReadConsumed
  <2>3. /\ task'[t].pc = "write" /\ task'[t].user = task[t].user
        /\ task'[t].read = consumed[task[t].user]
    BY <1>2, <1>5 DEF ReadConsumed, TaskType
  <2>4. ASSUME NEW v PROVE Pending(v)' = Pending(v) /\ Charged(v)' = Charged(v)
    BY <2>1, <2>2, <2>3 DEF Pending, Charged
  <2>5. ReadFresh'
    BY <1>0, <2>1, <2>2, <2>3 DEF ReadFresh
  <2> QED BY <1>0, <2>1, <2>4, <2>5 DEF Settled
<1>6. ASSUME NEW t \in Tasks, WriteConsumed(t) PROVE ReadFresh' /\ Settled'
  <2> PICK u \in Users : u = task[t].user
    BY <1>6 DEF WriteConsumed, Serving, Section
  <2>1. task[t].pc = "write" /\ ledger' = ledger /\ task[t].read = consumed[u]
    BY <1>0, <1>6 DEF WriteConsumed, ReadFresh
  <2>2. \A s \in Tasks \ {t} : task'[s] = task[s]
    BY <1>2, <1>6 DEF WriteConsumed
  <2>3. task'[t].pc = "commit" /\ consumed' = [consumed EXCEPT ![u] = consumed[u] + 1]
    BY <1>2, <1>6, <2>1 DEF WriteConsumed, TaskType
  <2>4. ASSUME NEW v PROVE Charged(v)' = Charged(v)
    BY <2>1 DEF Charged
  <2>5. Pending(u)' = Pending(u) \ {t} /\ t \in Pending(u)
    BY <2>1, <2>2, <2>3 DEF Pending
  <2>6. ASSUME NEW v, v # u PROVE Pending(v)' = Pending(v)
    BY <2>1, <2>2, <2>3, <2>6 DEF Pending
  <2>7. Cardinality(Pending(u)') = Cardinality(Pending(u)) - 1
    BY <2>5, FiniteSides, FS_RemoveElement
  <2>8. ASSUME NEW v \in Users PROVE consumed'[v] + Cardinality(Pending(v)') = Cardinality(Charged(v)')
    <3>1. consumed[v] \in Nat /\ consumed[v] + Cardinality(Pending(v)) = Cardinality(Charged(v))
      BY <1>0 DEF Settled, TypeOK
    <3>2. consumed'[v] = IF v = u THEN consumed[v] + 1 ELSE consumed[v]
      BY <2>3 DEF TypeOK
    <3> QED BY <2>4, <2>6, <2>7, <3>1, <3>2, FiniteSides
  <2>9. \A s \in Tasks : task'[s].pc # "write"
    BY <1>3, <2>1, <2>2, <2>3 DEF Section
  <2> QED BY <2>8, <2>9 DEF Settled, ReadFresh
<1>7. ASSUME ~\E t \in Tasks : RecordReveal(t) \/ ReadConsumed(t) \/ WriteConsumed(t)
      PROVE  ReadFresh' /\ Settled'
  <2>1. /\ UNCHANGED <<ledger, consumed>>
        /\ \A s \in Tasks : task[s].pc \in {"count", "write"} \/ task'[s].pc \in {"count", "write"}
             => task'[s] = task[s]
    BY <1>0, <1>7, AloneCalm
  <2>2. ASSUME NEW v PROVE Pending(v)' = Pending(v) /\ Charged(v)' = Charged(v)
    BY <2>1 DEF Pending, Charged
  <2>3. ReadFresh'
    BY <1>0, <2>1 DEF ReadFresh
  <2> QED BY <1>0, <2>1, <2>2, <2>3 DEF Settled
<1>8. ReadFresh' /\ Settled'
  BY <1>4, <1>5, <1>6, <1>7
<1> QED BY <1>1, <1>8

(* The counter is exact between commits, whatever the audience and the     *)
(* number of alerts, as long as only alerts charged and nothing crashed.   *)
THEOREM BillingIsExactTheorem == Spec => []BillingIsExact
<1>1. Init => AloneExact
  <2> SUFFICES ASSUME Init PROVE Exclusive /\ ReadFresh /\ Settled
    BY DEF AloneExact
  <2>1. \A t \in Tasks : task[t].pc = "idle"
    BY DEF Init, Idle
  <2>2. ASSUME NEW u \in Users PROVE consumed[u] + Cardinality(Pending(u)) = Cardinality(Charged(u))
    <3>1. Pending(u) = {} /\ Charged(u) = {} /\ consumed[u] = 0
      BY <2>1 DEF Pending, Charged, Init
    <3>2. Cardinality(Pending(u)) = 0 /\ Cardinality(Charged(u)) = 0
      BY <3>1, FS_EmptySet
    <3> QED BY <3>1, <3>2
  <2>3. Bot \in Tasks /\ Jobs \subseteq Tasks
    BY DEF Tasks
  <2> QED BY <2>1, <2>2, <2>3 DEF Exclusive, ReadFresh, Settled, Section
<1>2. TypeOK /\ Serving /\ AloneExact /\ [Next]_vars => AloneExact'
  BY StepKeepsExact
<1>3. TypeOK /\ AloneExact => BillingIsExact
  <2> SUFFICES ASSUME TypeOK, AloneExact, Alone, \A t \in Tasks : task[t].pc \notin Section,
                      NEW u \in Users
               PROVE  consumed[u] = Cardinality(Charged(u))
    BY DEF BillingIsExact, Alone
  <2>1. Pending(u) = {}
    BY DEF Pending, Section
  <2>2. Cardinality(Pending(u)) = 0 /\ consumed[u] \in Nat
    BY <2>1, FS_EmptySet DEF TypeOK
  <2> QED BY <2>2, FiniteSides DEF AloneExact, Settled
<1> QED
  BY <1>1, <1>2, <1>3, TypeCorrect, PTL DEF Spec

-----------------------------------------------------------------------------
(* A ledger row only ever appears in the middle of a commit.               *)
LEMMA RowStep ==
  ASSUME TypeOK, Serving, [Next]_vars, NEW u \in Users, NEW f \in Fixtures,
         ledger'[u][f] # ledger[u][f]
  PROVE  /\ ledger[u][f] = "none"
         /\ \E t \in Tasks : /\ task[t].pc = "commit" /\ task[t].user = u /\ f \in task[t].reveals
                             /\ ledger'[u][f] = IF task[t].charge THEN "charged" ELSE "free"
                             /\ ledger' = [ledger EXCEPT ![u][f] = ledger'[u][f]]
                             /\ consumed' = consumed
<1>1. PICK t \in Tasks : RecordReveal(t)
  BY DEF Next, World, AlertStart, TaskStep, vars, Deposit, TrialEnds, Command, Rescore, Crash,
         FireAlert, RescoreAndListUsers, AlertAbandoned, Render, SendConfirmed, SendUnconfirmed,
         ReadConsumed, WriteConsumed, CommitDone, DatabaseLocked, Finish
<1>2. PICK g \in task[t].reveals :
        ledger' = [ledger EXCEPT ![task[t].user][g] = RowAfter(task[t].user, g, task[t].charge)]
  BY <1>1 DEF RecordReveal
<1>3. task[t].user \in Users /\ g \in Fixtures /\ task[t].pc = "commit" /\ consumed' = consumed
  BY <1>1, <1>2 DEF RecordReveal, Serving, Section, TypeOK, TaskType
<1>4. task[t].user = u /\ g = f
  BY <1>2, <1>3 DEF TypeOK
<1>5. ledger'[u][f] = RowAfter(u, f, task[t].charge)
  BY <1>2, <1>3, <1>4 DEF TypeOK
<1>6. ledger[u][f] = "none" /\ ledger'[u][f] = IF task[t].charge THEN "charged" ELSE "free"
  BY <1>5 DEF RowAfter
<1> QED BY <1>2, <1>3, <1>4, <1>5, <1>6

(* First reveal wins: no step rewrites a ledger row.                       *)
THEOREM FirstRevealWinsTheorem == Spec => FirstRevealWins
<1>1. TypeOK /\ Serving /\ [Next]_vars
        => [\A u \in Users, f \in Fixtures :
              ledger[u][f] # "none" => ledger'[u][f] = ledger[u][f]]_vars
  BY RowStep
<1> QED
  BY <1>1, TypeCorrect, PTL DEF Spec, FirstRevealWins

(* The money path implements the promise of Billing: every step is a first *)
(* reveal, an update of the counter within the charged rows, or invisible. *)
THEOREM ImplementsBillingTheorem == Spec => ImplementsBilling
<1>1. Init => Promise!Init
  BY DEF Init, Promise!Init
<1>2. TypeOK /\ Serving /\ NeverOverBilled' /\ TypeOK' /\ [Next]_vars
        => [Promise!Next]_(Promise!vars)
  <2> SUFFICES ASSUME TypeOK, Serving, NeverOverBilled', TypeOK', [Next]_vars
               PROVE  [Promise!Next]_(Promise!vars)
    OBVIOUS
  <2>1. CASE ledger' # ledger
    <3>1. PICK u \in Users, f \in Fixtures : ledger'[u][f] # ledger[u][f]
      BY <2>1 DEF TypeOK
    <3>2. Promise!Reveal(u, f)
      BY <3>1, RowStep DEF Promise!Reveal
    <3> QED BY <3>2 DEF Promise!Next
  <2>2. CASE ledger' = ledger /\ consumed' # consumed
    <3>1. PICK t \in Tasks : WriteConsumed(t)
      BY <2>2 DEF Next, World, AlertStart, TaskStep, vars, Deposit, TrialEnds, Command, Rescore,
             Crash, FireAlert, RescoreAndListUsers, AlertAbandoned, Render, SendConfirmed,
             SendUnconfirmed, RecordReveal, ReadConsumed, CommitDone, DatabaseLocked, Finish
    <3>2. PICK u \in Users : u = task[t].user
      BY <3>1 DEF WriteConsumed, Serving, Section
    <3>3. consumed' = [consumed EXCEPT ![u] = consumed'[u]] /\ consumed'[u] \in Nat
      BY <3>1, <3>2 DEF WriteConsumed, TypeOK
    <3>4. /\ Charged(u)' = Charged(u) /\ Promise!Charged(u) = Charged(u)
          /\ Promise!Cardinality(Charged(u)) = Cardinality(Charged(u))
      BY <2>2 DEF Charged, Promise!Charged, Promise!Cardinality, Cardinality
    <3>5. consumed'[u] <= Cardinality(Charged(u))
      BY <3>4 DEF NeverOverBilled
    <3>6. consumed'[u] \in 0 .. Promise!Cardinality(Promise!Charged(u))
      BY <3>3, <3>4, <3>5, FiniteSides
    <3>7. Promise!Bill(u)
      <4>1. ledger' = ledger
        BY <2>2
      <4>2. \E n \in 0 .. Promise!Cardinality(Promise!Charged(u)) : consumed' = [consumed EXCEPT ![u] = n]
        BY <3>3, <3>6
      <4> QED BY <4>1, <4>2 DEF Promise!Bill
    <3> QED BY <3>7 DEF Promise!Next
  <2>3. CASE ledger' = ledger /\ consumed' = consumed
    BY <2>3 DEF Promise!vars
  <2> QED BY <2>1, <2>2, <2>3
<1> QED
  BY <1>1, <1>2, TypeCorrect, NeverOverBilledTheorem, PTL DEF Spec, ImplementsBilling, Promise!Spec

-----------------------------------------------------------------------------
(* What a handler is about to commit has reached the user.                 *)
Arrived == \A t \in Tasks :
    task[t].pc \in Section => task[t].reveals \subseteq seen[task[t].user]

(* A handler that is going to charge serves a user past his trial.         *)
Paying == \A t \in Tasks :
    task[t].pc \in {"sending"} \cup Section /\ task[t].charge
        => task[t].user # Operator /\ task[t].past

(* What reached a chat stays there.                                        *)
LEMMA SeenGrows ==
  ASSUME TypeOK, [Next]_vars, NEW u \in Users PROVE seen[u] \subseteq seen'[u]
<1>1. ASSUME NEW t \in Tasks, SendConfirmed(t) PROVE seen[u] \subseteq seen'[u]
  BY <1>1 DEF SendConfirmed, TypeOK
<1>2. ASSUME NEW t \in Tasks, SendUnconfirmed(t) PROVE seen[u] \subseteq seen'[u]
  <2>1. PICK arrived \in {{}, task[t].reveals} :
          seen' = [seen EXCEPT ![task[t].user] = @ \cup arrived]
    BY <1>2 DEF SendUnconfirmed
  <2> QED BY <2>1 DEF TypeOK
<1>3. ASSUME ~\E t \in Tasks : SendConfirmed(t) \/ SendUnconfirmed(t) PROVE seen' = seen
  BY <1>3 DEF Next, World, AlertStart, TaskStep, vars, Deposit, TrialEnds, Command, Rescore, Crash,
         FireAlert, RescoreAndListUsers, AlertAbandoned, Render, RecordReveal, ReadConsumed,
         WriteConsumed, CommitDone, DatabaseLocked, Finish
<1> QED BY <1>1, <1>2, <1>3

(* A reveal is recorded only for a body that reached its user: the commit  *)
(* comes after the confirmed send in every alert and command.              *)
THEOREM DeliveredTheorem == Spec => []RevealedOnlyWhatWasDelivered
<1>1. Init => Arrived /\ RevealedOnlyWhatWasDelivered
  BY DEF Init, Idle, Arrived, Section, RevealedOnlyWhatWasDelivered
<1>2. TypeOK /\ Serving /\ Arrived /\ [Next]_vars => Arrived'
  <2> SUFFICES ASSUME TypeOK, Serving, Arrived, [Next]_vars, NEW s \in Tasks,
                      task'[s].pc \in Section
               PROVE  task'[s].reveals \subseteq seen'[task'[s].user]
    BY DEF Arrived
  <2>0. Bot \in Tasks /\ Jobs \subseteq Tasks /\ \A u \in Users : seen[u] \subseteq seen'[u]
    BY SeenGrows DEF Tasks
  <2>1. ASSUME NEW u \in Users, Deposit(u) PROVE task'[s].reveals \subseteq seen'[task'[s].user]
    BY <2>0, <2>1 DEF Deposit, TypeOK, TaskType, Serving, Arrived, Section
  <2>2. ASSUME NEW u \in Users, TrialEnds(u) PROVE task'[s].reveals \subseteq seen'[task'[s].user]
    BY <2>0, <2>2 DEF TrialEnds, TypeOK, TaskType, Serving, Arrived, Section
  <2>3. ASSUME NEW u \in Users, Command(u) PROVE task'[s].reveals \subseteq seen'[task'[s].user]
    BY <2>0, <2>3 DEF Command, TypeOK, TaskType, Serving, Arrived, Section
  <2>4. ASSUME NEW f \in Fixtures, Rescore(f) PROVE task'[s].reveals \subseteq seen'[task'[s].user]
    BY <2>0, <2>4 DEF Rescore, TypeOK, TaskType, Serving, Arrived, Section
  <2>5. ASSUME NEW p \in {"bot", "daemon"}, Crash(p) PROVE task'[s].reveals \subseteq seen'[task'[s].user]
    BY <2>0, <2>5 DEF Crash, Idle, TypeOK, TaskType, Serving, Arrived, Section
  <2>6. ASSUME NEW j \in Jobs, FireAlert(j) PROVE task'[s].reveals \subseteq seen'[task'[s].user]
    BY <2>0, <2>6 DEF FireAlert, TypeOK, TaskType, Serving, Arrived, Section
  <2>7. ASSUME NEW j \in Jobs, RescoreAndListUsers(j) PROVE task'[s].reveals \subseteq seen'[task'[s].user]
    BY <2>0, <2>7 DEF RescoreAndListUsers, TypeOK, TaskType, Serving, Arrived, Section
  <2>8. ASSUME NEW j \in Jobs, AlertAbandoned(j) PROVE task'[s].reveals \subseteq seen'[task'[s].user]
    BY <2>0, <2>8 DEF AlertAbandoned, Idle, TypeOK, TaskType, Serving, Arrived, Section
  <2>9. ASSUME NEW t \in Tasks, NEW u \in Users, Render(t, u) PROVE task'[s].reveals \subseteq seen'[task'[s].user]
    BY <2>0, <2>9 DEF Render, TypeOK, TaskType, Serving, Arrived, Section
  <2>10. ASSUME NEW t \in Tasks, SendConfirmed(t) PROVE task'[s].reveals \subseteq seen'[task'[s].user]
    BY <2>0, <2>10 DEF SendConfirmed, TypeOK, TaskType, Serving, Arrived, Section
  <2>11. ASSUME NEW t \in Tasks, SendUnconfirmed(t) PROVE task'[s].reveals \subseteq seen'[task'[s].user]
    BY <2>0, <2>11 DEF SendUnconfirmed, TypeOK, TaskType, Serving, Arrived, Section
  <2>12. ASSUME NEW t \in Tasks, RecordReveal(t) PROVE task'[s].reveals \subseteq seen'[task'[s].user]
    BY <2>0, <2>12 DEF RecordReveal, TypeOK, TaskType, Serving, Arrived, Section
  <2>13. ASSUME NEW t \in Tasks, ReadConsumed(t) PROVE task'[s].reveals \subseteq seen'[task'[s].user]
    BY <2>0, <2>13 DEF ReadConsumed, TypeOK, TaskType, Serving, Arrived, Section
  <2>14. ASSUME NEW t \in Tasks, WriteConsumed(t) PROVE task'[s].reveals \subseteq seen'[task'[s].user]
    BY <2>0, <2>14 DEF WriteConsumed, TypeOK, TaskType, Serving, Arrived, Section
  <2>15. ASSUME NEW t \in Tasks, CommitDone(t) PROVE task'[s].reveals \subseteq seen'[task'[s].user]
    BY <2>0, <2>15 DEF CommitDone, TypeOK, TaskType, Serving, Arrived, Section
  <2>16. ASSUME NEW t \in Tasks, DatabaseLocked(t) PROVE task'[s].reveals \subseteq seen'[task'[s].user]
    BY <2>0, <2>16 DEF DatabaseLocked, TypeOK, TaskType, Serving, Arrived, Section
  <2>17. ASSUME NEW t \in Tasks, Finish(t) PROVE task'[s].reveals \subseteq seen'[task'[s].user]
    BY <2>0, <2>17 DEF Finish, Idle, TypeOK, TaskType, Serving, Arrived, Section
  <2>18. ASSUME UNCHANGED vars PROVE task'[s].reveals \subseteq seen'[task'[s].user]
    BY <2>18 DEF vars, TypeOK, TaskType, Serving, Arrived, Section
  <2> QED
    BY <2>1, <2>2, <2>3, <2>4, <2>5, <2>6, <2>7, <2>8, <2>9, <2>10, <2>11, <2>12, <2>13, <2>14, <2>15, <2>16, <2>17, <2>18
    DEF Next, World, AlertStart, TaskStep
<1>3. TypeOK /\ Serving /\ Arrived /\ RevealedOnlyWhatWasDelivered /\ [Next]_vars
        => RevealedOnlyWhatWasDelivered'
  <2> SUFFICES ASSUME TypeOK, Serving, Arrived, RevealedOnlyWhatWasDelivered, [Next]_vars,
                      NEW u \in Users, NEW f \in Fixtures, ledger'[u][f] # "none"
               PROVE  f \in seen'[u]
    BY DEF RevealedOnlyWhatWasDelivered
  <2>1. CASE ledger'[u][f] = ledger[u][f]
    BY <2>1, SeenGrows DEF RevealedOnlyWhatWasDelivered
  <2>2. CASE ledger'[u][f] # ledger[u][f]
    BY <2>2, RowStep, SeenGrows DEF Arrived, Section
  <2> QED BY <2>1, <2>2
<1> QED
  BY <1>1, <1>2, <1>3, TypeCorrect, PTL DEF Spec

(* A fixture is charged only by the commit of a body that was rendered to  *)
(* a user past his trial who is not the operator, whatever happened since. *)
THEOREM FreeUsersTheorem == Spec => FreeUsersNeverCharged
<1>1. Init => Paying
  BY DEF Init, Idle, Paying, Section
<1>2. TypeOK /\ Serving /\ Paying /\ [Next]_vars => Paying'
  <2> SUFFICES ASSUME TypeOK, Serving, Paying, [Next]_vars, NEW s \in Tasks,
                      task'[s].pc \in {"sending"} \cup Section, task'[s].charge
               PROVE  task'[s].user # Operator /\ task'[s].past
    BY DEF Paying
  <2>0. Bot \in Tasks /\ Jobs \subseteq Tasks
    BY DEF Tasks
  <2>1. ASSUME NEW u \in Users, Deposit(u) PROVE task'[s].user # Operator /\ task'[s].past
    BY <2>0, <2>1 DEF Deposit, TypeOK, TaskType, Serving, Paying, Section
  <2>2. ASSUME NEW u \in Users, TrialEnds(u) PROVE task'[s].user # Operator /\ task'[s].past
    BY <2>0, <2>2 DEF TrialEnds, TypeOK, TaskType, Serving, Paying, Section
  <2>3. ASSUME NEW u \in Users, Command(u) PROVE task'[s].user # Operator /\ task'[s].past
    BY <2>0, <2>3 DEF Command, TypeOK, TaskType, Serving, Paying, Section
  <2>4. ASSUME NEW f \in Fixtures, Rescore(f) PROVE task'[s].user # Operator /\ task'[s].past
    BY <2>0, <2>4 DEF Rescore, TypeOK, TaskType, Serving, Paying, Section
  <2>5. ASSUME NEW p \in {"bot", "daemon"}, Crash(p) PROVE task'[s].user # Operator /\ task'[s].past
    BY <2>0, <2>5 DEF Crash, Idle, TypeOK, TaskType, Serving, Paying, Section
  <2>6. ASSUME NEW j \in Jobs, FireAlert(j) PROVE task'[s].user # Operator /\ task'[s].past
    BY <2>0, <2>6 DEF FireAlert, TypeOK, TaskType, Serving, Paying, Section
  <2>7. ASSUME NEW j \in Jobs, RescoreAndListUsers(j) PROVE task'[s].user # Operator /\ task'[s].past
    BY <2>0, <2>7 DEF RescoreAndListUsers, TypeOK, TaskType, Serving, Paying, Section
  <2>8. ASSUME NEW j \in Jobs, AlertAbandoned(j) PROVE task'[s].user # Operator /\ task'[s].past
    BY <2>0, <2>8 DEF AlertAbandoned, Idle, TypeOK, TaskType, Serving, Paying, Section
  <2>9. ASSUME NEW t \in Tasks, NEW u \in Users, Render(t, u) PROVE task'[s].user # Operator /\ task'[s].past
    <3>1. PICK funds \in {0, balance[u]}, reveals \in SUBSET NewTo(t, u) :
            task' = [task EXCEPT ![t] =
                       [@ EXCEPT !.pc = "sending", !.todo = task[t].todo \ {u}, !.user = u,
                                 !.reveals = reveals,
                                 !.charge = (Reason(u, funds, task[t].snap[u]) = "credit"),
                                 !.past = trialOver[u]]]
      BY <2>9 DEF Render
    <3>2. CASE s = t
      <4>1. /\ task'[s].user = u /\ task'[s].past = trialOver[u]
            /\ task'[s].charge = (Reason(u, funds, task[t].snap[u]) = "credit")
        BY <3>1, <3>2 DEF TypeOK, TaskType
      <4>2. u # Operator /\ trialOver[u]
        BY <4>1 DEF Reason
      <4> QED BY <2>9, <4>1, <4>2 DEF Render
    <3>3. CASE s # t
      BY <2>9, <3>1, <3>3 DEF Render, TypeOK, Paying
    <3> QED BY <3>2, <3>3
  <2>10. ASSUME NEW t \in Tasks, SendConfirmed(t) PROVE task'[s].user # Operator /\ task'[s].past
    BY <2>0, <2>10 DEF SendConfirmed, TypeOK, TaskType, Serving, Paying, Section
  <2>11. ASSUME NEW t \in Tasks, SendUnconfirmed(t) PROVE task'[s].user # Operator /\ task'[s].past
    BY <2>0, <2>11 DEF SendUnconfirmed, TypeOK, TaskType, Serving, Paying, Section
  <2>12. ASSUME NEW t \in Tasks, RecordReveal(t) PROVE task'[s].user # Operator /\ task'[s].past
    BY <2>0, <2>12 DEF RecordReveal, TypeOK, TaskType, Serving, Paying, Section
  <2>13. ASSUME NEW t \in Tasks, ReadConsumed(t) PROVE task'[s].user # Operator /\ task'[s].past
    BY <2>0, <2>13 DEF ReadConsumed, TypeOK, TaskType, Serving, Paying, Section
  <2>14. ASSUME NEW t \in Tasks, WriteConsumed(t) PROVE task'[s].user # Operator /\ task'[s].past
    BY <2>0, <2>14 DEF WriteConsumed, TypeOK, TaskType, Serving, Paying, Section
  <2>15. ASSUME NEW t \in Tasks, CommitDone(t) PROVE task'[s].user # Operator /\ task'[s].past
    BY <2>0, <2>15 DEF CommitDone, TypeOK, TaskType, Serving, Paying, Section
  <2>16. ASSUME NEW t \in Tasks, DatabaseLocked(t) PROVE task'[s].user # Operator /\ task'[s].past
    BY <2>0, <2>16 DEF DatabaseLocked, TypeOK, TaskType, Serving, Paying, Section
  <2>17. ASSUME NEW t \in Tasks, Finish(t) PROVE task'[s].user # Operator /\ task'[s].past
    BY <2>0, <2>17 DEF Finish, Idle, TypeOK, TaskType, Serving, Paying, Section
  <2>18. ASSUME UNCHANGED vars PROVE task'[s].user # Operator /\ task'[s].past
    BY <2>18 DEF vars, TypeOK, TaskType, Serving, Paying, Section
  <2> QED
    BY <2>1, <2>2, <2>3, <2>4, <2>5, <2>6, <2>7, <2>8, <2>9, <2>10, <2>11, <2>12, <2>13, <2>14, <2>15, <2>16, <2>17, <2>18
    DEF Next, World, AlertStart, TaskStep
<1>3. TypeOK /\ Serving /\ Paying /\ [Next]_vars
        => [\A u \in Users, f \in Fixtures :
              f \in Charged(u)' \ Charged(u) => \E t \in Tasks : RenderedToPayer(t, u, f)]_vars
  <2> SUFFICES ASSUME TypeOK, Serving, Paying, [Next]_vars,
                      NEW u \in Users, NEW f \in Fixtures, f \in Charged(u)' \ Charged(u)
               PROVE  \E t \in Tasks : RenderedToPayer(t, u, f)
    OBVIOUS
  <2>1. ledger'[u][f] = "charged" /\ ledger[u][f] # "charged"
    BY DEF Charged
  <2>2. PICK t \in Tasks : /\ task[t].pc = "commit" /\ task[t].user = u /\ f \in task[t].reveals
                          /\ ledger'[u][f] = IF task[t].charge THEN "charged" ELSE "free"
    BY <2>1, RowStep
  <2>3. task[t].charge
    BY <2>1, <2>2 DEF TypeOK, TaskType
  <2>4. task[t].past /\ u # Operator
    BY <2>2, <2>3 DEF Paying, Section
  <2> QED BY <2>2, <2>4 DEF RenderedToPayer
<1> QED
  BY <1>1, <1>2, <1>3, TypeCorrect, PTL DEF Spec, FreeUsersNeverCharged
=============================================================================
