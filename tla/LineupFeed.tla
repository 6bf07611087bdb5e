------------------------------ MODULE LineupFeed ------------------------------
(***************************************************************************)
(* Confirmed line-ups for the pre-match alerts of one league and day, and  *)
(* the player minutes that weight them.  All alerts share one service: it  *)
(* keeps the day's list and the id of each fixture for as long as the      *)
(* process lives, and its client repeats an answer for a while.  Whatever  *)
(* is missing makes the alert go out with the baseline and a caveat.       *)
(*                                                                         *)
(* A daily job fetches the minutes of one league after the other.  Instants*)
(* are kept as ages up to Ttl.                                             *)
(***************************************************************************)
EXTENDS Integers, Sequences

CONSTANTS
    Matches,        \* fixtures of the league on that day, in the order of their slots
    Leagues,        \* _BACKFILL_LEAGUES, in order
    Ttl,            \* cache_ttl_seconds of the client
    None,
    MaxErrors       \* bound: requests that fail

ASSUME LineupAssumption ==
    /\ Ttl \in Nat \ {0} /\ MaxErrors \in Nat
    /\ None \notin Nat /\ None \notin {"unknown", "known"}
    /\ None \notin [set : SUBSET Matches, age : Nat] /\ None \notin [out : BOOLEAN, age : Nat]

VARIABLES
    source,     \* the provider: [listed, posted]: ages since it lists f and its XI, None before
    answers,    \* the client's cache: the list and the line-ups last received, with their ages
    dayList,    \* _matches_cache: the day's list, None while it was never received
    ids,        \* _fixture_cache[f]: "unknown", "known", or None for a miss
    alert,      \* alert[f]: the alert of f under way or last sent
    passedOver, \* fixtures that were not on the day's list that is kept
    minutes,    \* minutes[i]: the file of league i, one of Files
    errors

lineupVars == <<source, answers, dayList, ids, alert, passedOver, minutes, errors>>

(* No file, one of no teams ("{}"), one that lacks teams or their minutes,  *)
(* one with the minutes of all.                                            *)
Files == {"none", "empty", "partial", "complete"}
Fetched == Files \ {"none"}
WithTeams == {"partial", "complete"}

Ages == 0 .. Ttl
NoAnswers == [list |-> None, xi |-> [f \in Matches |-> None]]
NoAlert == [pc |-> "idle", failed |-> FALSE, lineup |-> FALSE, adjusted |-> FALSE]

Lists == [set : SUBSET Matches, age : 0 .. Ttl - 1]
XIs == [out : BOOLEAN, age : 0 .. Ttl - 1]

LineupTypeOK ==
    /\ source \in [listed : [Matches -> Ages \cup {None}], posted : [Matches -> Ages \cup {None}]]
    /\ answers \in [list : Lists \cup {None}, xi : [Matches -> XIs \cup {None}]]
    /\ dayList = None \/ (dayList \subseteq Matches /\ dayList # {})
    /\ ids \in [Matches -> {"unknown", "known", None}]
    /\ alert \in [Matches -> [pc : {"idle", "resolve", "list", "ask", "lineup", "sent"},
                              failed : BOOLEAN, lineup : BOOLEAN, adjusted : BOOLEAN]]
    /\ passedOver \subseteq Matches
    /\ minutes \in [1 .. Len(Leagues) -> Files] /\ errors \in 0 .. MaxErrors

LineupInit ==
    /\ source = [listed |-> [f \in Matches |-> None], posted |-> [f \in Matches |-> None]]
    /\ answers = NoAnswers /\ dayList = None /\ ids = [f \in Matches |-> "unknown"]
    /\ alert = [f \in Matches |-> NoAlert] /\ passedOver = {}
    /\ minutes = [i \in 1 .. Len(Leagues) |-> "none"] /\ errors = 0

service == <<answers, dayList, ids, alert, passedOver>>

-----------------------------------------------------------------------------
(* Outside: a match is listed, its line-up is posted, time passes          *)

Listed(f) ==
    /\ source.listed[f] = None /\ source' = [source EXCEPT !.listed[f] = 0]
    /\ UNCHANGED <<service, minutes, errors>>

Posted(f) ==
    /\ source.listed[f] # None /\ source.posted[f] = None /\ source' = [source EXCEPT !.posted[f] = 0]
    /\ UNCHANGED <<service, minutes, errors>>

Aged(age) == IF age = None \/ age = Ttl THEN age ELSE age + 1
AgedAnswer(a) == IF a = None \/ a.age + 1 = Ttl THEN None ELSE [a EXCEPT !.age = @ + 1]

(* An answer that reaches its time to live is gone.                        *)
MinutesPass ==
    /\ source' = [source EXCEPT !.listed = [f \in Matches |-> Aged(@[f])],
                                !.posted = [f \in Matches |-> Aged(@[f])]]
    /\ answers' = [list |-> AgedAnswer(answers.list),
                   xi |-> [f \in Matches |-> AgedAnswer(answers.xi[f])]]
    /\ UNCHANGED <<dayList, ids, alert, passedOver, minutes, errors>>

-----------------------------------------------------------------------------
(* An alert asks for the line-up: lineup_fn of send_prediction_alert       *)

StartAlert(f) ==
    /\ alert[f].pc \in {"idle", "sent"}
    /\ alert' = [alert EXCEPT ![f] = [NoAlert EXCEPT !.pc = "resolve"]]
    /\ UNCHANGED <<source, answers, dayList, ids, passedOver, minutes, errors>>

(* The id is known, so the line-up is asked for, or known to be missing.   *)
ResolvedBefore(f) ==
    /\ alert[f].pc = "resolve" /\ ids[f] # "unknown"
    /\ alert' = [alert EXCEPT ![f].pc = IF ids[f] = None THEN "sent" ELSE "ask"]
    /\ UNCHANGED <<source, answers, dayList, ids, passedOver, minutes, errors>>

(* Mutant: an empty list is kept for the day.                              *)
KeptAny(list) == list

(* _day_matches: only a list with matches is kept.                         *)
Kept(list) == IF list = {} THEN dayList ELSE list

(* resolve_match_id on a list: a match missing from a list that has others *)
(* is missing for good, from an empty one it may still come.               *)
Resolve(f, list, failed) ==
    /\ ids' = IF f \in list THEN [ids EXCEPT ![f] = "known"]
              ELSE IF list # {} THEN [ids EXCEPT ![f] = None] ELSE ids
    /\ passedOver' = IF f \notin list /\ list # {} THEN passedOver \cup {f} ELSE passedOver
    /\ alert' = [alert EXCEPT ![f].pc = IF f \in list THEN "ask" ELSE "sent", ![f].failed = failed]

(* The day's list is at hand, or the client repeats its last answer.       *)
ResolveFromCache(f) ==
    /\ alert[f].pc = "resolve" /\ ids[f] = "unknown"
    /\ dayList # None \/ answers.list # None
    /\ LET list == IF dayList # None THEN dayList ELSE answers.list.set IN
         Resolve(f, list, FALSE) /\ dayList' = Kept(list)
    /\ UNCHANGED <<source, answers, minutes, errors>>

AskForList(f) ==
    /\ alert[f].pc = "resolve" /\ ids[f] = "unknown" /\ dayList = None /\ answers.list = None
    /\ alert' = [alert EXCEPT ![f].pc = "list"]
    /\ UNCHANGED <<source, answers, dayList, ids, passedOver, minutes, errors>>

(* Only what the provider answered is repeated, an error is not.           *)
ListAnswered(f) ==
    /\ alert[f].pc = "list"
    /\ LET list == {m \in Matches : source.listed[m] # None} IN
         /\ answers' = [answers EXCEPT !.list = [set |-> list, age |-> 0]]
         /\ Resolve(f, list, FALSE) /\ dayList' = Kept(list)
    /\ UNCHANGED <<source, minutes, errors>>

(* A request that failed is an empty list.                                 *)
ListFailed(f) ==
    /\ alert[f].pc = "list" /\ errors < MaxErrors /\ errors' = errors + 1
    /\ Resolve(f, {}, TRUE) /\ dayList' = Kept({})
    /\ UNCHANGED <<source, answers, minutes>>

AskForLineup(f) ==
    /\ alert[f].pc = "ask" /\ answers.xi[f] = None
    /\ alert' = [alert EXCEPT ![f].pc = "lineup"]
    /\ UNCHANGED <<source, answers, dayList, ids, passedOver, minutes, errors>>

(* The XI may shift the rating if the file of the league has teams.        *)
Sent(f, out, failed) ==
    \E adjusted \in BOOLEAN :
        /\ adjusted => out /\ minutes[1] \in WithTeams
        /\ alert' = [alert EXCEPT ![f] =
                       [pc |-> "sent", failed |-> failed, lineup |-> out, adjusted |-> adjusted]]

LineupRepeated(f) ==
    /\ alert[f].pc = "ask" /\ answers.xi[f] # None
    /\ Sent(f, answers.xi[f].out, FALSE)
    /\ UNCHANGED <<source, answers, dayList, ids, passedOver, minutes, errors>>

LineupAnswered(f) ==
    /\ alert[f].pc = "lineup"
    /\ LET out == source.posted[f] # None IN
         answers' = [answers EXCEPT !.xi[f] = [out |-> out, age |-> 0]] /\ Sent(f, out, FALSE)
    /\ UNCHANGED <<source, dayList, ids, passedOver, minutes, errors>>

LineupFailed(f) ==
    /\ alert[f].pc = "lineup" /\ errors < MaxErrors /\ errors' = errors + 1
    /\ Sent(f, FALSE, TRUE)
    /\ UNCHANGED <<source, answers, dayList, ids, passedOver, minutes>>

(* The service lives as long as the process.                               *)
ServiceRestarts ==
    /\ errors < MaxErrors /\ errors' = errors + 1
    /\ answers' = NoAnswers /\ dayList' = None /\ ids' = [f \in Matches |-> "unknown"]
    /\ alert' = [f \in Matches |-> NoAlert] /\ passedOver' = {}
    /\ UNCHANGED <<source, minutes>>

-----------------------------------------------------------------------------
(* The daily backfill                                                      *)

(* Mutant: a file that is there counts as populated.                       *)
PopulatedIfPresent(file) == file # "none"

(* The file has more than the two bytes of "{}", whatever it still lacks.  *)
Populated(file) == file \in WithTeams

Missing == {i \in DOMAIN minutes : ~Populated(minutes[i])}

(* pick_league_to_backfill: the first league that is missing.              *)
League == CHOOSE i \in Missing : \A j \in Missing : i <= j

(* fetch_player_minutes.py for one league.  Quota or budget may end before *)
(* a team is found, or in the middle: the rest of the teams is left out,   *)
(* or written without their minutes.  A run that is killed writes nothing. *)
Backfill(file) ==
    /\ Missing # {} /\ minutes' = [minutes EXCEPT ![League] = file]
    /\ UNCHANGED <<source, service, errors>>

(* The script by hand fetches leagues anew, whatever is on disk.           *)
FetchByHand(i, file) ==
    /\ errors < MaxErrors /\ errors' = errors + 1
    /\ minutes' = [minutes EXCEPT ![i] = file]
    /\ UNCHANGED <<source, service>>

MinutesNext ==
    \E file \in Fetched : Backfill(file) \/ \E i \in DOMAIN minutes : FetchByHand(i, file)

LineupNext ==
    \/ MinutesPass \/ ServiceRestarts \/ MinutesNext
    \/ \E f \in Matches :
         \/ Listed(f) \/ Posted(f) \/ StartAlert(f) \/ ResolvedBefore(f) \/ ResolveFromCache(f)
         \/ AskForList(f) \/ ListAnswered(f) \/ ListFailed(f)
         \/ AskForLineup(f) \/ LineupRepeated(f) \/ LineupAnswered(f) \/ LineupFailed(f)

LineupSpec == LineupInit /\ [][LineupNext]_lineupVars

-----------------------------------------------------------------------------
(* Properties                                                              *)

Young(age) == age = None \/ age < Ttl

(* An alert goes out without a line-up only if a request of its own failed,*)
(* the XI or the match was news to the provider, or the match was missing  *)
(* from a day's list that had others: an empty or failed list, or a "not   *)
(* posted yet" given to an earlier alert, is not held against it.          *)
MissHasCause ==
    \A f \in Matches : alert[f].pc # "sent" /\ alert'[f].pc = "sent" /\ ~alert'[f].lineup =>
        \/ alert'[f].failed \/ f \in passedOver'
        \/ Young(source.listed[f]) \/ Young(source.posted[f])
LineupMissHasCause == [][MissHasCause]_lineupVars

(* In the end every league has a file with teams and keeps one, although a *)
(* day whose quota is spent leaves an empty file behind and the script may *)
(* be run by hand.  The file may lack teams or minutes for good: a league  *)
(* broken off in the middle counts as done.                                *)
TeamsArrive == <>[](\A i \in DOMAIN minutes : minutes[i] \in WithTeams)
=============================================================================
