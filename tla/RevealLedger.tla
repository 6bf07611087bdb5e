---------------------------- MODULE RevealLedger ----------------------------
(***************************************************************************)
(* The money path of the tipster: pre-match alert jobs of the daemon       *)
(* process and the /predictions command of the bot process render a gated  *)
(* body for a user, await the Telegram send, and only then commit the      *)
(* reveals: one row per (user, fixture) in prediction_reveals and, for a   *)
(* paid row that is new, one more on users.predictions_consumed.           *)
(* The two processes share the SQLite file and nothing else.  All jobs of  *)
(* the daemon run on one event loop, so they interleave at awaits only.    *)
(***************************************************************************)
EXTENDS Naturals, FiniteSets

CONSTANTS
    Users,        \* active users (list_users)
    Operator,     \* telegram_allowed_user_id, always free
    NoUser,       \* no user is being served
    Fixtures,     \* today's scored fixtures
    Jobs,         \* alert jobs predict_early_<fid> / predict_late_<fid>
    FixtureOf,    \* the fixture of a job
    Bot,          \* the handler of the bot process (updates run one at a time)
    MaxBalance,   \* bound: whole USDC a user ever deposits
    MaxFires,     \* bound: times one job is registered and fires
    MaxCommands,  \* bound: /predictions commands
    MaxFaults,    \* bound: crashes and lock timeouts of either process
    MaxInFlight   \* bound: tasks between their first and last step at once

ASSUME LedgerAssumption ==
    /\ Bot \notin Jobs
    /\ NoUser \notin Users
    /\ FixtureOf \in [Jobs -> Fixtures]
    /\ IsFiniteSet(Users) /\ IsFiniteSet(Fixtures) /\ IsFiniteSet(Jobs)
    /\ MaxBalance \in Nat /\ MaxFires \in Nat /\ MaxCommands \in Nat
    /\ MaxFaults \in Nat /\ MaxInFlight \in Nat

VARIABLES
    balance,    \* balance[u]: whole USDC in the user's deposit wallet
    trialOver,  \* trialOver[u]: TRIAL_DAYS have passed since created_at
    passes,     \* fixtures whose stored triple clears the confidence gate
    ledger,     \* ledger[u][f]: prediction_reveals row, "none" if absent
    consumed,   \* consumed[u]: users.predictions_consumed
    seen,       \* seen[u]: fixtures whose revealed body reached u's chat
    task,       \* task[t]: the in-memory state of a handler
    fired,      \* fired[t]: how often the handler has been started
    faults      \* crashes and lock timeouts so far

vars == <<balance, trialOver, passes, ledger, consumed, seen, task, fired, faults>>

Tasks == Jobs \cup {Bot}
Process(t) == IF t = Bot THEN "bot" ELSE "daemon"

(* Steps of a handler.  Between "commit", "count" and "write" there is no  *)
(* await: only another process or a crash can come in between.             *)
Section == {"commit", "count", "write"}
Steps == {"idle", "scoring", "loop", "sending"} \cup Section

(* past, read by a property only: the trial was over at the render.        *)
Idle == [pc |-> "idle", todo |-> {}, snap |-> [u \in Users |-> 0], user |-> NoUser,
         reveals |-> {}, charge |-> FALSE, past |-> FALSE, read |-> 0]

TaskType == [pc : Steps, todo : SUBSET Users, snap : [Users -> Nat], user : Users \cup {NoUser},
             reveals : SUBSET Fixtures, charge : BOOLEAN, past : BOOLEAN, read : Nat]

TypeOK ==
    /\ balance \in [Users -> Nat]
    /\ trialOver \in [Users -> BOOLEAN]
    /\ passes \in SUBSET Fixtures
    /\ ledger \in [Users -> [Fixtures -> {"none", "free", "charged"}]]
    /\ consumed \in [Users -> Nat]
    /\ seen \in [Users -> SUBSET Fixtures]
    /\ task \in [Tasks -> TaskType]
    /\ fired \in [Tasks -> Nat]
    /\ faults \in Nat

Init ==
    /\ balance \in [Users -> 0 .. MaxBalance]
    /\ trialOver \in [Users -> BOOLEAN]
    /\ passes \in SUBSET Fixtures
    /\ ledger = [u \in Users |-> [f \in Fixtures |-> "none"]]
    /\ consumed = [u \in Users |-> 0]
    /\ seen = [u \in Users |-> {}]
    /\ task = [t \in Tasks |-> Idle]
    /\ fired = [t \in Tasks |-> 0]
    /\ faults = 0

-----------------------------------------------------------------------------
(* Helpers                                                                 *)

InFlight == {t \in Tasks : task[t].pc # "idle"}

(* Mutant: an await between the two halves of a commit.                    *)
LoopFreeAwaitInCommit(t) == t \in Tasks

(* t's event loop is not inside the await-free section of another task.    *)
LoopFree(t) ==
    \A s \in Tasks \ {t} : Process(s) = Process(t) => task[s].pc \notin Section

ClampSub(a, b) == IF a > b THEN a - b ELSE 0

(* entitlement.evaluate: one paid credit per whole USDC, minus consumption. *)
CreditsRemaining(funds, used) == ClampSub(funds, used)

Reason(u, funds, used) ==
    IF u = Operator THEN "operator"
    ELSE IF ~trialOver[u] THEN "trial"
    ELSE IF CreditsRemaining(funds, used) >= 1 THEN "credit" ELSE "locked"

(* How many of n new fixtures the body reveals; the others are teasers.    *)
Allowance(reason, credits, n) ==
    IF reason \in {"operator", "trial"} \/ n < credits THEN n ELSE credits

(* What the rendered body is about: an alert shows its own fixture, the    *)
(* command shows what clears the gate or was revealed to this user before. *)
Offered(t, u) ==
    IF t = Bot THEN {f \in Fixtures : f \in passes \/ ledger[u][f] # "none"}
               ELSE {FixtureOf[t]}

NewTo(t, u) == {f \in Offered(t, u) : ledger[u][f] = "none"}

Charged(u) == {f \in Fixtures : ledger[u][f] = "charged"}

-----------------------------------------------------------------------------
(* The world outside: deposits, the passing of the trial, rescoring runs   *)

Deposit(u) ==
    /\ balance[u] < MaxBalance
    /\ balance' = [balance EXCEPT ![u] = @ + 1]
    /\ UNCHANGED <<trialOver, passes, ledger, consumed, seen, task, fired, faults>>

TrialEnds(u) ==
    /\ ~trialOver[u]
    /\ trialOver' = [trialOver EXCEPT ![u] = TRUE]
    /\ UNCHANGED <<balance, passes, ledger, consumed, seen, task, fired, faults>>

(* A scoring run overwrites the stored triple of f in place.               *)
Rescore(f) ==
    /\ passes' = IF f \in passes THEN passes \ {f} ELSE passes \cup {f}
    /\ UNCHANGED <<balance, trialOver, ledger, consumed, seen, task, fired, faults>>

-----------------------------------------------------------------------------
(* Starting a handler                                                      *)

(* _fire_prediction_alert: the gate on the stored row, then the upstream   *)
(* check, the lineup and the rescore are awaited.                          *)
FireAlert(j) ==
    /\ task[j].pc = "idle" /\ LoopFree(j)
    /\ fired[j] < MaxFires /\ Cardinality(InFlight) < MaxInFlight
    /\ FixtureOf[j] \in passes
    /\ task' = [task EXCEPT ![j] = [@ EXCEPT !.pc = "scoring"]]
    /\ fired' = [fired EXCEPT ![j] = @ + 1]
    /\ UNCHANGED <<balance, trialOver, passes, ledger, consumed, seen, faults>>

(* The rescored row is stored (it may have left the gate; the alert goes   *)
(* out all the same) and list_users() takes the snapshot the loop serves.  *)
RescoreAndListUsers(j) ==
    /\ task[j].pc = "scoring" /\ LoopFree(j)
    /\ passes' \in {passes \ {FixtureOf[j]}, passes \cup {FixtureOf[j]}}
    /\ task' = [task EXCEPT ![j] = [@ EXCEPT !.pc = "loop", !.todo = Users, !.snap = consumed]]
    /\ UNCHANGED <<balance, trialOver, ledger, consumed, seen, fired, faults>>

(* The upstream check found the match moved or dead: nothing is sent.      *)
AlertAbandoned(j) ==
    /\ task[j].pc = "scoring" /\ LoopFree(j)
    /\ task' = [task EXCEPT ![j] = Idle]
    /\ UNCHANGED <<balance, trialOver, passes, ledger, consumed, seen, fired, faults>>

(* predictions_cmd: _register reads the user row, the render follows.      *)
Command(u) ==
    /\ task[Bot].pc = "idle"
    /\ fired[Bot] < MaxCommands /\ Cardinality(InFlight) < MaxInFlight
    /\ task' = [task EXCEPT ![Bot] = [@ EXCEPT !.pc = "loop", !.todo = {u}, !.snap = consumed]]
    /\ fired' = [fired EXCEPT ![Bot] = @ + 1]
    /\ UNCHANGED <<balance, trialOver, passes, ledger, consumed, seen, faults>>

-----------------------------------------------------------------------------
(* Serving one user: render, send, commit                                  *)

(* The reveal ledger is read now, predictions_consumed comes from the      *)
(* snapshot, and the balance read fails closed (0) on an RPC error.        *)
Render(t, u) ==
    /\ task[t].pc = "loop" /\ LoopFree(t)
    /\ u \in task[t].todo
    /\ \E funds \in {0, balance[u]}, reveals \in SUBSET NewTo(t, u) :
        LET used == task[t].snap[u]
            reason == Reason(u, funds, used)
        IN  /\ Cardinality(reveals) =
                 Allowance(reason, CreditsRemaining(funds, used), Cardinality(NewTo(t, u)))
            /\ task' = [task EXCEPT ![t] = [@ EXCEPT !.pc = "sending", !.todo = task[t].todo \ {u},
                                               !.user = u, !.reveals = reveals, !.charge = (reason = "credit"),
                                               !.past = trialOver[u]]]
    /\ UNCHANGED <<balance, trialOver, passes, ledger, consumed, seen, fired, faults>>

SendConfirmed(t) ==
    /\ task[t].pc = "sending" /\ LoopFree(t)
    /\ seen' = [seen EXCEPT ![task[t].user] = @ \cup task[t].reveals]
    /\ task' = [task EXCEPT ![t] = [@ EXCEPT !.pc = "commit"]]
    /\ UNCHANGED <<balance, trialOver, passes, ledger, consumed, fired, faults>>

(* Mutant: committing whatever the send answered.                          *)
SendUnconfirmedCommits(t) ==
    /\ task[t].pc = "sending" /\ LoopFree(t)
    /\ task' = [task EXCEPT ![t] = [@ EXCEPT !.pc = "commit"]]
    /\ UNCHANGED <<balance, trialOver, passes, ledger, consumed, seen, fired, faults>>

(* send_telegram_to returned False, or reply_text raised: the message may  *)
(* have arrived (the answer was lost) but nothing is committed.            *)
SendUnconfirmed(t) ==
    /\ task[t].pc = "sending" /\ LoopFree(t)
    /\ \E arrived \in {{}, task[t].reveals} :
         seen' = [seen EXCEPT ![task[t].user] = @ \cup arrived]
    /\ task' = [task EXCEPT ![t] = [@ EXCEPT !.pc = "loop", !.reveals = {}]]
    /\ UNCHANGED <<balance, trialOver, passes, ledger, consumed, fired, faults>>

(* Mutant: the reason of the reveal in place of its charged flag.          *)
RowAfterReason(u, f, charge) == IF charge THEN "credit" ELSE "trial"

(* Mutants: an upsert; counting without looking at the insert's answer.    *)
RowAfterUpsert(u, f, charge) == IF charge THEN "charged" ELSE "free"
MustCountAlways(u, f, charge) == charge

(* Mutant: what the body costs is decided anew when it is committed.       *)
RowAfterReread(u, f, charge) ==
    IF ledger[u][f] # "none" THEN ledger[u][f]
    ELSE IF Reason(u, balance[u], consumed[u]) = "credit" THEN "charged" ELSE "free"

(* record_reveal: the unique constraint makes the first row win ...        *)
RowAfter(u, f, charge) ==
    IF ledger[u][f] # "none" THEN ledger[u][f] ELSE IF charge THEN "charged" ELSE "free"

(* ... and only a new charged row goes on to the counter.                  *)
MustCount(u, f, charge) == charge /\ ledger[u][f] = "none"

RecordReveal(t) ==
    /\ task[t].pc = "commit"
    /\ \E f \in task[t].reveals :
        LET u == task[t].user
            charge == task[t].charge
        IN  /\ ledger' = [ledger EXCEPT ![u][f] = RowAfter(u, f, charge)]
            /\ task' = [task EXCEPT ![t] =
                          [@ EXCEPT !.reveals = task[t].reveals \ {f},
                                    !.pc = IF MustCount(u, f, charge) THEN "count" ELSE "commit"]]
    /\ UNCHANGED <<balance, trialOver, passes, consumed, seen, fired, faults>>

(* increment_predictions_consumed reads the counter ...                    *)
ReadConsumed(t) ==
    /\ task[t].pc = "count"
    /\ task' = [task EXCEPT ![t] = [@ EXCEPT !.pc = "write", !.read = consumed[task[t].user]]]
    /\ UNCHANGED <<balance, trialOver, passes, ledger, consumed, seen, fired, faults>>

(* ... and writes it back plus one.  No lock is held in between: the       *)
(* driver begins the transaction at the UPDATE, not at the SELECT.         *)
WriteConsumed(t) ==
    /\ task[t].pc = "write"
    /\ consumed' = [consumed EXCEPT ![task[t].user] = task[t].read + 1]
    /\ task' = [task EXCEPT ![t] = [@ EXCEPT !.pc = "commit", !.read = 0]]
    /\ UNCHANGED <<balance, trialOver, passes, ledger, seen, fired, faults>>

CommitDone(t) ==
    /\ task[t].pc = "commit" /\ task[t].reveals = {}
    /\ task' = [task EXCEPT ![t] = [@ EXCEPT !.pc = "loop"]]
    /\ UNCHANGED <<balance, trialOver, passes, ledger, consumed, seen, fired, faults>>

(* The other process holds the file past the busy timeout: the exception   *)
(* leaves commit_reveals, the rest of this user's reveals is dropped.      *)
DatabaseLocked(t) ==
    /\ task[t].pc \in Section
    /\ \E s \in Tasks : Process(s) # Process(t) /\ task[s].pc \in Section
    /\ faults < MaxFaults
    /\ faults' = faults + 1
    /\ task' = [task EXCEPT ![t] = [@ EXCEPT !.pc = "loop", !.reveals = {}, !.read = 0]]
    /\ UNCHANGED <<balance, trialOver, passes, ledger, consumed, seen, fired>>

Finish(t) ==
    /\ task[t].pc = "loop" /\ task[t].todo = {} /\ LoopFree(t)
    /\ task' = [task EXCEPT ![t] = Idle]
    /\ UNCHANGED <<balance, trialOver, passes, ledger, consumed, seen, fired, faults>>

(* A process dies and is started again: its handlers are gone, the file    *)
(* keeps what was written.                                                 *)
Crash(p) ==
    /\ faults < MaxFaults
    /\ faults' = faults + 1
    /\ task' = [t \in Tasks |-> IF Process(t) = p THEN Idle ELSE task[t]]
    /\ UNCHANGED <<balance, trialOver, passes, ledger, consumed, seen, fired>>

-----------------------------------------------------------------------------
TaskStep(t) ==
    \/ \E u \in Users : Render(t, u)
    \/ SendConfirmed(t) \/ SendUnconfirmed(t)
    \/ RecordReveal(t) \/ ReadConsumed(t) \/ WriteConsumed(t)
    \/ CommitDone(t) \/ DatabaseLocked(t) \/ Finish(t)

World ==
    \/ \E u \in Users : Deposit(u) \/ TrialEnds(u) \/ Command(u)
    \/ \E f \in Fixtures : Rescore(f)
    \/ \E p \in {"bot", "daemon"} : Crash(p)

AlertStart(j) == FireAlert(j) \/ RescoreAndListUsers(j) \/ AlertAbandoned(j)

Next ==
    \/ World
    \/ \E j \in Jobs : AlertStart(j)
    \/ \E t \in Tasks : TaskStep(t)

Spec == Init /\ [][Next]_vars

-----------------------------------------------------------------------------
(* Properties                                                              *)

(* A user is never billed for more fixtures than were revealed to him      *)
(* against payment: no interleaving of the early alert, the late alert,    *)
(* repeated /predictions, retried sends and crashes charges one twice.     *)
NeverOverBilled ==
    \A u \in Users : consumed[u] <= Cardinality(Charged(u))

(* A reveal is recorded, and a credit taken, only for a body that reached  *)
(* the user: commit_reveals runs after a confirmed send.                   *)
RevealedOnlyWhatWasDelivered ==
    \A u \in Users, f \in Fixtures : ledger[u][f] # "none" => f \in seen[u]

(* A fixture is charged only by the commit of a body that, when it was     *)
(* rendered, went to a user past his trial who is not the operator: one    *)
(* shown for free is not charged although the trial ends, or a deposit     *)
(* arrives, before its commit.                                             *)
RenderedToPayer(t, u, f) ==
    task[t].pc = "commit" /\ task[t].user = u /\ f \in task[t].reveals /\ task[t].past /\ u # Operator

FreeUsersNeverCharged ==
    [][\A u \in Users, f \in Fixtures :
          f \in Charged(u)' \ Charged(u) => \E t \in Tasks : RenderedToPayer(t, u, f)]_vars

(* First reveal wins: what a fixture was sold as (free or charged) is      *)
(* never rewritten by a later alert, command or retry.                     *)
FirstRevealWins ==
    [][\A u \in Users, f \in Fixtures :
          ledger[u][f] # "none" => ledger'[u][f] = ledger[u][f]]_vars

(* Credits are never overdrawn: 1 USDC pays for one reveal.  The code      *)
(* keeps it when one handler runs at a time; two that overlap both see the *)
(* same credit.                                                            *)
SpendWithinCredit == \A u \in Users : consumed[u] <= balance[u]

(* As long as only the alerts of the daemon have charged and nothing has   *)
(* crashed, the counter the entitlement is computed from is exact between  *)
(* commits: the loop is not left from the reveal row to the counter.  The  *)
(* bot's process knows no such boundary.                                   *)
BillingIsExact ==
    (faults = 0 /\ fired[Bot] = 0 /\ \A t \in Tasks : task[t].pc \notin Section)
        => \A u \in Users : consumed[u] = Cardinality(Charged(u))

(* The whole money path implements the promise of Billing.                 *)
Promise == INSTANCE Billing WITH row <- ledger, spent <- consumed
ImplementsBilling == Promise!Spec
=============================================================================
