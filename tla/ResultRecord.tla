---------------------------- MODULE ResultRecord ----------------------------
(***************************************************************************)
(* What the record promises of a result, without processes, fetches, sends *)
(* or restarts: it is entered once, its winner and its age are final, its  *)
(* flag only rises, its goals move within three checks and only to a score *)
(* that bears the winner out, and the ratings learn it once, from a row    *)
(* that was entered in time.  ResultLoop implements this module.           *)
(***************************************************************************)
EXTENDS Integers

CONSTANTS
    Fixtures, Winners, Goals, None, MaxChecks,
    Awarded,        \* scores that may stand against the winner
    Bears(_, _)     \* Bears(goals, winner): the score is one that winner wins by

VARIABLES
    row,        \* row[f]: what is on record of f, or None
    learned     \* learned[f]: how often the ratings learned f

vars == <<row, learned>>

Init ==
    /\ row = [f \in Fixtures |-> None]
    /\ learned = [f \in Fixtures |-> 0]

(* A row as it is entered: a backlog result counts as told already.        *)
NewRow ==
    {r \in [winner : Winners, goals : Goals, notified : BOOLEAN, stale : BOOLEAN, checks : {0}] :
        r.notified = r.stale}

Enter(f) ==
    /\ row[f] = None
    /\ row'[f] \in NewRow
    /\ row' = [row EXCEPT ![f] = row'[f]]
    /\ UNCHANGED learned

Notify(f) ==
    /\ row[f] # None
    /\ ~row[f].notified
    /\ row' = [row EXCEPT ![f] = [@ EXCEPT !.notified = TRUE]]
    /\ UNCHANGED learned

(* The score may move to one that is awarded or bears the winner out.  A   *)
(* check that changes nothing is counted all the same.                     *)
MayBecome(r, goals) ==
    goals = r.goals \/ goals \in Awarded \/ (goals \in Goals /\ Bears(goals, r.winner))

Check(f) ==
    /\ row[f] # None
    /\ row[f].checks < MaxChecks
    /\ row'[f].checks = row[f].checks + 1
    /\ MayBecome(row[f], row'[f].goals)
    /\ row' = [row EXCEPT ![f] = [row[f] EXCEPT !.checks = @ + 1, !.goals = row'[f].goals]]
    /\ UNCHANGED learned

Learn(f) ==
    /\ row[f] # None
    /\ ~row[f].stale
    /\ learned[f] = 0
    /\ learned' = [learned EXCEPT ![f] = 1]
    /\ UNCHANGED row

Next == \E f \in Fixtures : Enter(f) \/ Notify(f) \/ Check(f) \/ Learn(f)

Spec == Init /\ [][Next]_vars
=============================================================================
