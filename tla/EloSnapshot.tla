----------------------------- MODULE EloSnapshot -----------------------------
(***************************************************************************)
(* The snapshot of club ratings that the Champions League engine prices    *)
(* from.  A scrape reads the ranking page of the site and gives its rows   *)
(* the names of a reference file, the last snapshot of the former API;     *)
(* the daemon and the command line may scrape at the same time.            *)
(***************************************************************************)
EXTENDS Integers, Sequences, FiniteSetsExt

CONSTANTS
    Site,           \* rows of the ranking page in rank order: [name, country, level]
    Pin,            \* rows of the last API snapshot: [club, country]
    Canon,          \* Canon[name]: the name behind an alias
    Likeness,       \* Likeness[<<a, b>>]: token_set_ratio of two canonical names, 0 if absent
    Fold,           \* COUNTRY_CODE_MAP; a row without a flag has a country of its own
    Bar,            \* DEFAULT_THRESHOLD
    MinRows,        \* fewer rows than this are not a snapshot
    Scrapers,       \* processes that scrape
    MaxTroubles     \* bound: page changes, failed fetches and crashes

VARIABLES
    page,       \* rows of Site that the page shows, and whether it shows its date
    pin,        \* clubelo_latest.csv: rows, or << >> while it is missing
    snapshot,   \* the rating file: its rows, and the page and the reference they come from
    work,       \* work[s]: the scrape of s under way
    troubles

(* Clubs of the reference differ in their country or in the name behind    *)
(* their alias.                                                            *)
ASSUME EloAssumption ==
    /\ Site \in Seq({Site[r] : r \in DOMAIN Site}) /\ Pin \in Seq({Pin[i] : i \in DOMAIN Pin})
    /\ \A i, k \in DOMAIN Pin :
         Canon[Pin[i].club] = Canon[Pin[k].club] /\ Fold[Pin[i].country] = Fold[Pin[k].country] => i = k
    /\ MinRows \in Nat /\ MaxTroubles \in Nat

eloVars == <<page, pin, snapshot, work, troubles>>

NoFile == [rows |-> {}, page |-> {}, ref |-> << >>]
NoWork == [pc |-> "idle", ref |-> << >>, file |-> NoFile]

EloTypeOK ==
    /\ page \in [rows : SUBSET DOMAIN Site, dated : BOOLEAN]
    /\ pin \in {<< >>, Pin}
    /\ \A s \in Scrapers : work[s].pc \in {"idle", "fetch", "write"} /\ work[s].ref \in {<< >>, Pin}
    /\ \A m \in snapshot.rows : m.row \in snapshot.page
    /\ snapshot.rows # {} => Cardinality(snapshot.rows) >= MinRows
    /\ troubles \in 0 .. MaxTroubles

EloInit ==
    /\ page = [rows |-> DOMAIN Site, dated |-> TRUE]
    /\ pin \in {<< >>, Pin} /\ snapshot = NoFile
    /\ work = [s \in Scrapers |-> NoWork] /\ troubles = 0

PageMoves ==
    /\ troubles < MaxTroubles /\ troubles' = troubles + 1
    /\ \/ \E r \in DOMAIN Site : page' = [page EXCEPT !.rows = IF r \in @ THEN @ \ {r} ELSE @ \cup {r}]
       \/ page' = [page EXCEPT !.dated = ~@]
       \/ page' = [page EXCEPT !.rows = {}]
    /\ UNCHANGED <<pin, snapshot, work>>

-----------------------------------------------------------------------------
(* _build_csv_from_scrape                                                  *)

CountryOf(r) == Fold[Site[r].country]
Scope(ref) == {Fold[ref[i].country] : i \in DOMAIN ref}

(* The rows in scope, the first of each name in a country.                 *)
Pool(rows, ref) == {r \in rows : ref = << >> \/ CountryOf(r) \in Scope(ref)}
Named(rows, ref) ==
    {r \in Pool(rows, ref) : ~\E q \in Pool(rows, ref) :
        q < r /\ Site[q].name = Site[r].name /\ CountryOf(q) = CountryOf(r)}

Ratio(a, b) == IF <<a, b>> \in DOMAIN Likeness THEN Likeness[<<a, b>>] ELSE 0

(* TeamAliasResolver.match: the exact name, or else a likeness that no     *)
(* other name has; a tie is no match.  0 stands for none.                  *)
Hit(club, free, fuzzy) ==
    LET c == Canon[club]
        exact == {r \in free : Canon[Site[r].name] = c}
        top == {r \in free : /\ Ratio(c, Canon[Site[r].name]) >= Bar
                             /\ \A q \in free : Ratio(c, Canon[Site[q].name]) <= Ratio(c, Canon[Site[r].name])}
    IN  IF exact # {} THEN Min(exact)
        ELSE IF fuzzy /\ Cardinality({Canon[Site[r].name] : r \in top}) = 1 THEN Min(top) ELSE 0

(* One pass over the reference in its order: each club without a row takes *)
(* one of its country that no other has.                                   *)
Free(rows, ref, taken, i) ==
    {r \in Named(rows, ref) : CountryOf(r) = Fold[ref[i].country] /\ \A k \in DOMAIN ref : taken[k] # r}

Placed(rows, ref, fuzzy, taken, i) ==
    IF taken[i] # 0 THEN taken
    ELSE [taken EXCEPT ![i] = Hit(ref[i].club, Free(rows, ref, taken, i), fuzzy)]

Pass(rows, ref, fuzzy, before) ==
    LET row[i \in 0 .. Len(ref)] == IF i = 0 THEN before ELSE Placed(rows, ref, fuzzy, row[i - 1], i)
    IN  row[Len(ref)]

NobodyYet(ref) == [i \in DOMAIN ref |-> 0]

(* Mutant: exact and fuzzy matches in one pass.                            *)
AssignedAtOnce(rows, ref) == Pass(rows, ref, TRUE, NobodyYet(ref))

(* All exact names first, so that a likeness cannot take one of them.      *)
Assigned(rows, ref) == Pass(rows, ref, TRUE, Pass(rows, ref, FALSE, NobodyYet(ref)))

(* The clubs of the reference that have a row, and first-level clubs it    *)
(* does not know; without a reference, every row by its own name.          *)
Built(rows, ref) ==
    LET own(set) == {[club |-> Site[r].name, country |-> Site[r].country, row |-> r] : r \in set}
        row == Assigned(rows, ref)
        found == {i \in DOMAIN ref : row[i] # 0}
    IN  IF ref = << >> THEN own(Named(rows, ref))
        ELSE {[club |-> ref[i].club, country |-> ref[i].country, row |-> row[i]] : i \in found}
               \cup own({r \in Named(rows, ref) : Site[r].level = 1 /\ \A i \in found : row[i] # r})

-----------------------------------------------------------------------------
(* scrape_latest: the reference is read first, then the page is fetched.   *)
StartScrape(s) ==
    /\ work[s] = NoWork
    /\ work' = [work EXCEPT ![s] = [NoWork EXCEPT !.pc = "fetch", !.ref = pin]]
    /\ UNCHANGED <<page, pin, snapshot, troubles>>

(* A page without rows or date, or too few rows after all, is no snapshot; *)
(* else the file is written beside the old one.                            *)
Scraped(s) ==
    /\ work[s].pc = "fetch"
    /\ LET rows == Built(page.rows, work[s].ref) IN
         work' = [work EXCEPT ![s] =
             IF page.rows = {} \/ ~page.dated \/ Cardinality(rows) < MinRows THEN NoWork
             ELSE [pc |-> "write", ref |-> << >>,
                   file |-> [rows |-> rows, page |-> page.rows, ref |-> work[s].ref]]]
    /\ UNCHANGED <<page, pin, snapshot, troubles>>

(* os.replace; the dated copy is best effort.                              *)
Replace(s) ==
    /\ work[s].pc = "write"
    /\ snapshot' = work[s].file /\ work' = [work EXCEPT ![s] = NoWork]
    /\ UNCHANGED <<page, pin, troubles>>

(* All attempts fail, or the process stops, with its file half written.    *)
ScrapeEnds(s) ==
    /\ work[s] # NoWork /\ troubles < MaxTroubles /\ troubles' = troubles + 1
    /\ work' = [work EXCEPT ![s] = NoWork]
    /\ UNCHANGED <<page, pin, snapshot>>

(* refresh_latest: only a valid answer of the API replaces its own file.   *)
RefreshPin ==
    /\ troubles < MaxTroubles /\ troubles' = troubles + 1
    /\ pin = << >> /\ pin' = Pin
    /\ UNCHANGED <<page, snapshot, work>>

EloNext ==
    \/ PageMoves \/ RefreshPin
    \/ \E s \in Scrapers : StartScrape(s) \/ Scraped(s) \/ Replace(s) \/ ScrapeEnds(s)

EloSpec == EloInit /\ [][EloNext]_eloVars

-----------------------------------------------------------------------------
(* Property                                                                *)

(* No row of the page rates two clubs, and none rates a club of another    *)
(* country.  A club of the reference that the page shows by its own name   *)
(* is rated by that row, whatever likeness other clubs have to it and      *)
(* however often it was missing from the page before.                      *)
OwnRatingFirst ==
    LET own(i) == {r \in snapshot.page : /\ Canon[Site[r].name] = Canon[Pin[i].club]
                                         /\ CountryOf(r) = Fold[Pin[i].country]}
    IN  /\ \A m, n \in snapshot.rows : m.row = n.row => m = n
        /\ \A m \in snapshot.rows : CountryOf(m.row) = Fold[m.country]
        /\ snapshot.ref # << >> => \A i \in DOMAIN Pin : own(i) # {} =>
             \E m \in snapshot.rows : m.club = Pin[i].club /\ m.row \in own(i)
=============================================================================
