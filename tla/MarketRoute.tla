----------------------------- MODULE MarketRoute -----------------------------
(***************************************************************************)
(* One scoring run looks for the Polymarket price of the favourite of each *)
(* fixture.  The open events are listed once, page by page from three      *)
(* sources, and kept for the run; a listing that fails leaves a fixture    *)
(* with a favourite bet that has no price.  An event is open or closed at  *)
(* each page anew, so a page may skip or repeat one.                       *)
(***************************************************************************)
EXTENDS Integers, Sequences, FiniteSets

CONSTANTS
    Board,          \* Board[e]: what event e says, and what it is (see Events)
    Scored,         \* fixtures of the run, in order: [home, away]
    Canonical,      \* Canonical[name]: the name behind an alias
    Alike,          \* pairs of canonical names that fuzzy matching accepts
    PageSize,
    LeaguePages,    \* _LEAGUE_TAG_MAX_PAGES
    ListLimit,      \* limit: events taken from a listing without pages of its own
    Absent,         \* no event, no outcome, no listing
    MaxTurns        \* bound: events that open or close, and requests that fail

VARIABLES
    board,      \* slugs of the open events, in the order of their listing
    scan,       \* the listing under way: source, offset, what it has, and its fixture
    known,      \* _events_cache
    bet,        \* bet[i]: what came of Scored[i]
    turns

routeVars == <<board, scan, known, bet, turns>>

Events == DOMAIN Board
Outcomes == {"home", "draw", "away"}
NoBet == [how |-> "none", outcome |-> Absent, event |-> Absent, leg |-> 0]
NoScan == [pc |-> "idle", offset |-> 0, got |-> << >>, wc |-> << >>]
Slugs(seq) == {seq[i] : i \in DOMAIN seq}

(* The members of set that are in seq, in the order of seq.                *)
Among(seq, set) ==
    LET Upto[i \in 0 .. Len(seq)] ==
          IF i = 0 THEN << >>
          ELSE IF seq[i] \in set THEN Append(Upto[i - 1], seq[i]) ELSE Upto[i - 1]
    IN  Upto[Len(seq)]

RouteTypeOK ==
    /\ Slugs(board) \subseteq Events /\ Len(board) = Cardinality(Slugs(board))
    /\ scan.pc \in {"idle", "league", "generic", "wc", "book"}
    /\ Len(scan.got) = Cardinality(Slugs(scan.got))
    /\ known = Absent \/ Slugs(known) \subseteq Events
    /\ \A i \in DOMAIN Scored :
         /\ bet[i].how \in {"none", "due", "unpriced", "vetoed", "priced"}
         /\ bet[i].how \in {"vetoed", "priced"} => bet[i].leg \in 1 .. Len(Board[bet[i].event].legs)
    /\ turns \in 0 .. MaxTurns

RouteInit ==
    /\ board \in {s \in [1 .. Cardinality(Events) -> Events] : Len(s) = Cardinality(Slugs(s))}
    /\ scan = NoScan /\ known = Absent /\ turns = 0
    /\ bet = [i \in DOMAIN Scored |-> NoBet]

EventChanges ==
    /\ turns < MaxTurns /\ turns' = turns + 1
    /\ \E e \in Events : board' = IF e \in Slugs(board) THEN Among(board, Events \ {e})
                                  ELSE Append(board, e)
    /\ UNCHANGED <<scan, known, bet>>

-----------------------------------------------------------------------------
(* Which token of an event is the side of a fixture                        *)

(* TeamAliasResolver.same_team, on names that are one candidate each: one  *)
(* name behind two spellings, or a likeness, which two clubs may also have.*)
SameTeam(a, b) == Canonical[a] = Canonical[b] \/ <<Canonical[a], Canonical[b]>> \in Alike

(* classify_binary_outcome: draw, then the home team, then the away team.  *)
Side(label, f) ==
    IF label = "draw" THEN "draw"
    ELSE IF SameTeam(label, f.home) THEN "home"
    ELSE IF SameTeam(label, f.away) THEN "away" ELSE Absent

(* The legs that give an outcome; the last of them has its token.          *)
LegsOf(e, f, o) == {i \in DOMAIN Board[e].legs : Side(Board[e].legs[i], f) = o}
LegOf(e, f, o) == CHOOSE i \in LegsOf(e, f, o) : \A j \in LegsOf(e, f, o) : j <= i

(* _classify_event: one market of three outcomes, or one market for each.  *)
Classified(e, f) ==
    /\ Board[e].layout = "A" => Len(Board[e].legs) = 3
    /\ LegsOf(e, f, "home") # {} /\ LegsOf(e, f, "away") # {}

(* is_match_result_market of the title and of every question.              *)
Candidates(events, f) ==
    {i \in DOMAIN events : Classified(events[i], f) /\ ~Board[events[i]].propWords}

(* The title is searched for the names themselves, not for their aliases.  *)
Score(e, f) ==
    (IF {f.home, f.away} \subseteq Board[e].title THEN 10 ELSE 0)
      + (IF LegsOf(e, f, "draw") # {} THEN 1 ELSE 0)

Best(events, f) ==
    LET best == {i \in Candidates(events, f) :
                   \A j \in Candidates(events, f) : Score(events[j], f) <= Score(events[i], f)}
    IN  events[CHOOSE i \in best : \A j \in best : i <= j]

(* Mutant: the best of the candidates, an outright if there is no other.   *)
MarketAny(events, f) == IF Candidates(events, f) = {} THEN Absent ELSE Best(events, f)

(* find_market: an event with neither the teams nor a draw is no match.    *)
Market(events, f) ==
    IF Candidates(events, f) = {} \/ Score(Best(events, f), f) = 0 THEN Absent ELSE Best(events, f)

-----------------------------------------------------------------------------
(* The run                                                                 *)

Due(i) == bet[i].how = "due"
Turn(i) == bet[i].how = "none" /\ \A j \in 1 .. i - 1 : bet[j].how \notin {"none", "due"}

(* No market, or no quote that is plausible: the favourite has no price.   *)
Unpriced(i, o) == bet' = [bet EXCEPT ![i] = [NoBet EXCEPT !.how = "unpriced", !.outcome = o]]

(* find_market on the events that are known, then the order book; a        *)
(* market without the outcome has no token to ask for.                     *)
LookUp(i, o, events) ==
    LET f == Scored[i]
        e == Market(events, f)
    IN  IF e # Absent /\ LegsOf(e, f, o) # {}
        THEN /\ scan' = [NoScan EXCEPT !.pc = "book"]
             /\ bet' = [bet EXCEPT ![i] = [how |-> "due", outcome |-> o, event |-> e, leg |-> LegOf(e, f, o)]]
        ELSE scan' = NoScan /\ Unpriced(i, o)

(* A fixture that has passed the exposure gate asks for its favourite.     *)
ScoreFixture(i, o) ==
    /\ scan.pc = "idle" /\ Turn(i)
    /\ IF known # Absent THEN LookUp(i, o, known)
       ELSE /\ scan' = [NoScan EXCEPT !.pc = "league"]
            /\ bet' = [bet EXCEPT ![i] = [NoBet EXCEPT !.how = "due", !.outcome = o]]
    /\ UNCHANGED <<board, known, turns>>

Listing(source) == Among(board, {e \in Events : source \in Board[e].sources})
Batch(source) ==
    LET all == Listing(source)
        last == IF scan.offset + PageSize < Len(all) THEN scan.offset + PageSize ELSE Len(all)
    IN  SubSeq(all, scan.offset + 1, last)

(* _merge: the first event of a slug is kept.                              *)
Merged(got, batch) == got \o Among(batch, Events \ Slugs(got))

(* The tag of a league, up to a number of pages; a page that fails ends it.*)
LeaguePage(fails) ==
    /\ scan.pc = "league"
    /\ fails => turns < MaxTurns
    /\ turns' = IF fails THEN turns + 1 ELSE turns
    /\ LET batch == IF fails THEN << >> ELSE Batch("league")
           over == Len(batch) < PageSize \/ scan.offset + PageSize = LeaguePages * PageSize
       IN  scan' = [scan EXCEPT !.got = Merged(@, batch), !.pc = IF over THEN "generic" ELSE "league",
                                !.offset = IF over THEN 0 ELSE @ + PageSize]
    /\ UNCHANGED <<board, known, bet>>

(* The generic tag.                                                        *)
GenericPage ==
    /\ scan.pc = "generic"
    /\ LET batch == Batch("generic")
           over == Len(batch) < PageSize \/ scan.offset + Len(batch) >= ListLimit
       IN  scan' = [scan EXCEPT !.got = Merged(@, batch), !.pc = IF over THEN "wc" ELSE "generic",
                                !.offset = IF over THEN 0 ELSE @ + PageSize]
    /\ UNCHANGED <<board, known, bet, turns>>

(* It is not guarded: the router takes the error for a fixture without a   *)
(* market, and the next fixture lists anew.                                *)
GenericFails ==
    /\ scan.pc = "generic" /\ turns < MaxTurns /\ turns' = turns + 1
    /\ scan' = NoScan
    /\ \E i \in DOMAIN Scored : Due(i) /\ Unpriced(i, bet[i].outcome)
    /\ UNCHANGED <<board, known>>

(* The world-cup slug: its pages count together, and fail together.  Then  *)
(* the events are kept for the run.                                        *)
WcPage(fails) ==
    /\ scan.pc = "wc"
    /\ fails => turns < MaxTurns
    /\ turns' = IF fails THEN turns + 1 ELSE turns
    /\ LET batch == Batch("wc")
           wc == IF fails THEN << >> ELSE scan.wc \o batch
           got == Merged(scan.got, SubSeq(wc, 1, IF Len(wc) < ListLimit THEN Len(wc) ELSE ListLimit))
       IN  IF fails \/ Len(batch) < PageSize \/ Len(wc) >= ListLimit
           THEN /\ known' = got
                /\ \E i \in DOMAIN Scored : Due(i) /\ LookUp(i, bet[i].outcome, got)
           ELSE scan' = [scan EXCEPT !.wc = wc, !.offset = @ + PageSize] /\ UNCHANGED <<known, bet>>
    /\ UNCHANGED board

(* The best ask of the token: missing or outside the plausible band, worth *)
(* a bet, or not.                                                          *)
Quoted(how) ==
    /\ scan.pc = "book"
    /\ scan' = NoScan
    /\ \E i \in DOMAIN Scored : Due(i) /\ (IF how = "unpriced" THEN Unpriced(i, bet[i].outcome)
                                           ELSE bet' = [bet EXCEPT ![i].how = how])
    /\ UNCHANGED <<board, known, turns>>

RouteNext ==
    \/ EventChanges \/ GenericPage \/ GenericFails
    \/ \E fails \in BOOLEAN : LeaguePage(fails) \/ WcPage(fails)
    \/ \E i \in DOMAIN Scored, o \in Outcomes : ScoreFixture(i, o)
    \/ \E how \in {"unpriced", "vetoed", "priced"} : Quoted(how)

RouteSpec == RouteInit /\ [][RouteNext]_routeVars

-----------------------------------------------------------------------------
(* What is taken for granted of the constants                              *)

(* Kinds of constants: the legs of an event are a sequence.                *)
RouteData ==
    /\ IsFiniteSet(Events)
    /\ \A e \in Events : Board[e].legs \in Seq({Board[e].legs[k] : k \in DOMAIN Board[e].legs})
    /\ Absent \notin Events /\ Absent \notin Seq(Events) /\ Absent \notin Outcomes
    /\ PageSize \in Nat \ {0} /\ LeaguePages \in Nat \ {0} /\ ListLimit \in Nat \ {0}
    /\ MaxTurns \in Nat

(* No fixture is between two names of one club.                            *)
ClubsDiffer == \A i \in DOMAIN Scored : Canonical[Scored[i].home] # Canonical[Scored[i].away]

(* An event whose words are not those of a prop, with legs on two clubs    *)
(* and either a draw or two clubs in its title, is the match of these two, *)
(* and each of its legs pays what it says.                                 *)
BoardIsHonest ==
    \A e \in Events : ~Board[e].propWords =>
        \A k, l \in DOMAIN Board[e].legs :
            LET legs == Board[e].legs
            IN  /\ legs[k] # "draw" /\ legs[l] # "draw" /\ Canonical[legs[k]] # Canonical[legs[l]]
                /\ \/ \E m \in DOMAIN legs : legs[m] = "draw"
                   \/ \E n, o \in Board[e].title : Canonical[n] # Canonical[o]
                => /\ Board[e].between = {Canonical[legs[k]], Canonical[legs[l]]}
                   /\ \A m \in DOMAIN legs :
                        Board[e].pays[m] = IF legs[m] = "draw" THEN "draw" ELSE Canonical[legs[m]]

ASSUME RouteAssumption == RouteData /\ ClubsDiffer /\ BoardIsHonest

-----------------------------------------------------------------------------
(* Property                                                                *)

(* A club that the matcher takes for a team: the team, or one like it.     *)
Likened(club, team) == club = Canonical[team] \/ <<club, Canonical[team]>> \in Alike

(* The price a fixture is bet or vetoed at is that of the result of a      *)
(* match, never of an outright or a prop, whichever pages failed, moved or *)
(* were left out: the two clubs that play it are taken one for the home    *)
(* team and the other for the away team, and the leg pays the one that is  *)
(* taken for the side that is bet on.  No more than a likeness ties a club *)
(* to its team, so the match may be another one.                           *)
RouteIsHeadToHead ==
    \A i \in DOMAIN Scored : bet[i].how \in {"vetoed", "priced"} =>
        LET e == Board[bet[i].event]
        IN  \E a, b \in e.between :
              /\ a # b /\ e.between = {a, b}
              /\ Likened(a, Scored[i].home) /\ Likened(b, Scored[i].away)
              /\ e.pays[bet[i].leg] = CASE bet[i].outcome = "home" -> a
                                        [] bet[i].outcome = "away" -> b
                                        [] OTHER -> "draw"
=============================================================================
