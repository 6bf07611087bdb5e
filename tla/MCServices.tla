------------------------------ MODULE MCServices ------------------------------
(***************************************************************************)
(* The supporting components, each with a small instance.  They share no   *)
(* state, so a behaviour takes the steps of one of them, part, and the     *)
(* others stay as they were at the start.                                  *)
(***************************************************************************)
EXTENDS LineupFeed, SchemaBoot, ApiClient, EloSnapshot, MarketRoute, OddsAnchor, OperatorNotify, TLC

VARIABLE part

MCCooldown == [k \in Keys |-> 2]
MCLeagues == <<"PL", "PD">>
MCCalls == <<"table", "team", "table">>
MCTables == <<"outcomes", "listings">>
MCColumns ==
    <<[table |-> "listings", column |-> "sent_at"], [table |-> "outcomes", column |-> "stage"],
      [table |-> "outcomes", column |-> "kickoff"]>>

(* A club under an alias, one that is like it, one of a country with two   *)
(* codes, and strangers.                                                   *)
MCSite ==
    <<[name |-> "fc bayern", country |-> "GER", level |-> 1],
      [name |-> "bayern ii", country |-> "GER", level |-> 2],
      [name |-> "slovan", country |-> "SVK", level |-> 1],
      [name |-> "barcelona", country |-> "ECU", level |-> 1],
      [name |-> "union", country |-> "GER", level |-> 1],
      [name |-> "zamalek", country |-> "no flag", level |-> 1]>>
MCPin ==
    <<[club |-> "bayern", country |-> "GER"], [club |-> "bayern ii", country |-> "GER"],
      [club |-> "slovan", country |-> "SLK"]>>
MCCanon ==
    [n \in {"fc bayern", "bayern", "bayern ii", "slovan", "barcelona", "union", "zamalek"} |->
        IF n = "fc bayern" THEN "bayern" ELSE n]
MCLikeness == <<"bayern", "bayern ii">> :> 100 @@ <<"bayern ii", "bayern">> :> 100
MCFold ==
    [c \in {"GER", "SVK", "SLK", "ECU", "no flag"} |-> IF c = "SLK" THEN "SVK" ELSE c]

(* A match under an alias, a prop on it, an outright, and the match of a   *)
(* club that is like one of the first.  Of the fixtures one has no market. *)
MCBoard ==
    [game  |-> [title |-> {"villa", "utd"}, layout |-> "B", legs |-> <<"villa", "draw", "utd">>,
                propWords |-> FALSE, sources |-> {"league", "generic"},
                between |-> {"villa", "united"}, pays |-> <<"villa", "draw", "united">>],
     score |-> [title |-> {"villa", "united"}, layout |-> "B", legs |-> <<"villa", "united">>,
                propWords |-> TRUE, sources |-> {"league"},
                between |-> {}, pays |-> <<Absent, Absent>>],
     title |-> [title |-> {}, layout |-> "B", legs |-> <<"villa", "city", "leeds">>,
                propWords |-> FALSE, sources |-> {"league", "generic"},
                between |-> {}, pays |-> <<Absent, Absent, Absent>>],
     cup   |-> [title |-> {"city", "villa"}, layout |-> "A", legs |-> <<"city", "draw", "villa">>,
                propWords |-> FALSE, sources |-> {"generic", "wc"},
                between |-> {"city", "villa"}, pays |-> <<"city", "draw", "villa">>]]

MCScored == <<[home |-> "leeds", away |-> "villa"], [home |-> "villa", away |-> "united"]>>
MCNames == [n \in {"utd", "united", "city", "villa", "leeds", "draw"} |-> IF n = "utd" THEN "united" ELSE n]
MCAlike == {<<"city", "united">>, <<"united", "city">>}

vars == <<part, oddsVars, pagesVars, lineupVars, clientVars, schemaVars, eloVars, routeVars>>

Parts == {"odds", "pages", "client", "lineup", "minutes", "route", "schema", "elo"}

-----------------------------------------------------------------------------
(* What is not exercised starts in the first of its initial states.        *)
Init ==
    /\ part \in Parts
    /\ OddsInit /\ PagesInit /\ ClientInit /\ LineupInit
    /\ RouteInit /\ (part # "route" => board = <<"game", "score", "title", "cup">>)
    /\ SchemaInit /\ (part # "schema" => schema.tables = {})
    /\ EloInit /\ (part # "elo" => pin = << >>)

OddsOnly(act) ==
    part = "odds" /\ act /\ UNCHANGED <<part, pagesVars, lineupVars, clientVars, schemaVars, eloVars, routeVars>>
PagesOnly(act) ==
    part = "pages" /\ act /\ UNCHANGED <<part, oddsVars, lineupVars, clientVars, schemaVars, eloVars, routeVars>>
MinutesOnly(act) ==
    part = "minutes" /\ act /\ UNCHANGED <<part, oddsVars, pagesVars, clientVars, schemaVars, eloVars, routeVars>>
LineupOnly(act) ==
    part = "lineup" /\ act /\ UNCHANGED <<part, oddsVars, pagesVars, clientVars, schemaVars, eloVars, routeVars>>

Next ==
    \/ OddsOnly(OddsNext)
    \/ PagesOnly(PagesNext)
    \/ LineupOnly(LineupNext /\ UNCHANGED minutes)
    \/ MinutesOnly(MinutesNext)
    \/ part = "client" /\ ClientNext
         /\ UNCHANGED <<part, oddsVars, pagesVars, lineupVars, schemaVars, eloVars, routeVars>>
    \/ part = "route" /\ RouteNext
         /\ UNCHANGED <<part, oddsVars, pagesVars, lineupVars, clientVars, schemaVars, eloVars>>
    \/ part = "schema" /\ SchemaNext
         /\ UNCHANGED <<part, oddsVars, pagesVars, lineupVars, clientVars, eloVars, routeVars>>
    \/ part = "elo" /\ EloNext
         /\ UNCHANGED <<part, oddsVars, pagesVars, lineupVars, clientVars, schemaVars, routeVars>>

(* The fairness of OddsAnchor, OperatorNotify and LineupFeed.  Part never  *)
(* changes, so a fairness condition on a disjunction of steps of several   *)
(* parts is the conjunction of theirs.                                     *)
Persistent(j) == PrimeFromCache(j) \/ Request(j)

FairSpec ==
    /\ Init /\ [][Next]_vars
    /\ WF_oddsVars(OddsOnly(MinutePasses)) /\ WF_oddsVars(OddsOnly(StartRetry))
    /\ \A j \in Jobs : WF_oddsVars(OddsOnly(Step(j)))
    /\ \A w \in Watchdogs : WF_pagesVars(PagesOnly(\E landed, ack \in BOOLEAN : Send(w, landed, ack)))
    /\ \A k \in Keys : SF_vars(OddsOnly(Persistent("daily")) \/ PagesOnly(Notifying(k))
                                \/ MinutesOnly(\E file \in WithTeams : Backfill(file)))
    /\ SF_oddsVars(OddsOnly(Persistent("alert")))
    /\ SF_oddsVars(OddsOnly(Persistent("retry")))

-----------------------------------------------------------------------------
(* Properties: those of the parts.  LineupMissHasCause of LineupFeed,      *)
(* BootsTogether of SchemaBoot, WindowRespected of ApiClient,              *)
(* OwnRatingFirst of EloSnapshot, RouteIsHeadToHead of MarketRoute and     *)
(* CardReachesStore of OddsAnchor are checked as they stand.               *)

(* The component that runs is well typed.                                  *)
TypeOK ==
    /\ part \in Parts
    /\ part = "odds" => OddsTypeOK
    /\ part = "pages" => PagesTypeOK
    /\ part = "client" => ClientTypeOK
    /\ part \in {"lineup", "minutes"} => LineupTypeOK
    /\ part = "route" => RouteTypeOK
    /\ part = "schema" => SchemaTypeOK
    /\ part = "elo" => EloTypeOK

(* A standing fault reaches the operator (OperatorNotify).                 *)
StandingFaultIsTold == part = "pages" => FaultIsTold

(* Every league gets a file with teams (LineupFeed).                       *)
TeamsOfAllArrive == part = "minutes" => TeamsArrive
=============================================================================
