------------------------------ MODULE SchemaBoot ------------------------------
(***************************************************************************)
(* The services of a deployment start at the same time on one SQLite file, *)
(* and each brings the schema up to date: missing tables, the columns that *)
(* came later, and the kickoff of outcomes recorded without one.  SQLite   *)
(* has one writer, commits each DDL statement on its own, and reports what *)
(* another service was first to do.                                        *)
(***************************************************************************)
EXTENDS Integers, Sequences, FiniteSetsExt

CONSTANTS
    Services,       \* processes that call init_engine
    Tables,         \* the tables of the models, in the order they are created
    Columns,        \* _ADDITIVE_COLUMNS: [table, column], in order
    OutcomeTable,   \* the table whose last column, a kickoff, is filled in later
    MaxLocks        \* bound: statements that find the database locked

VARIABLES
    schema,     \* [tables, columns]: what the file has
    undated,    \* outcomes without a kickoff: "fillable" from a prediction, or "orphan"
    boot,       \* boot[s]: how far s is
    locks

schemaVars == <<schema, undated, boot, locks>>

Elements(seq) == {seq[i] : i \in DOMAIN seq}

ASSUME SchemaAssumption ==
    /\ Services # {} /\ MaxLocks \in Nat
    /\ Tables \in Seq(Elements(Tables))
    /\ \A i, j \in DOMAIN Tables : Tables[i] = Tables[j] => i = j
    /\ Columns \in Seq([table : Elements(Tables), column : STRING])

MissingTables(tables) == {i \in DOMAIN Tables : Tables[i] \notin tables}
ColumnsOf(tables) == {i \in DOMAIN Columns : Columns[i].table \in tables}
Whole == schema.tables = Elements(Tables) /\ schema.columns = DOMAIN Columns

(* Tables or columns to come are their positions, dealt with in order.     *)
Down == [pc |-> "down", todo |-> {}, looked |-> {}, seen |-> {}, clean |-> FALSE, wrote |-> FALSE, killed |-> "no"]

BootType ==
    [pc : {"down", "create", "look", "alter", "read", "update", "up"},
     todo : SUBSET (DOMAIN Tables \cup DOMAIN Columns),
     looked : SUBSET Elements(Tables), seen : SUBSET DOMAIN Columns,
     clean : BOOLEAN, wrote : BOOLEAN, killed : {"no", "locked", "duplicate"}]

SchemaTypeOK ==
    /\ schema \in [tables : SUBSET Elements(Tables), columns : SUBSET DOMAIN Columns]
    /\ schema.columns \subseteq ColumnsOf(schema.tables)
    /\ undated \subseteq {"fillable", "orphan"} /\ locks \in 0 .. MaxLocks
    /\ boot \in [Services -> BootType]
    /\ \A s \in Services :
         /\ boot[s].pc = "create" => boot[s].todo \subseteq DOMAIN Tables
         /\ boot[s].pc \in {"look", "alter"} => boot[s].todo \subseteq ColumnsOf(schema.tables)
         /\ boot[s].pc \notin {"create", "look", "alter"} => boot[s].todo = {}
         /\ boot[s].pc = "alter" => boot[s].todo # {} /\ Min(boot[s].todo) \notin boot[s].seen

(* A new file, or one an earlier release left: its tables without some     *)
(* of the columns, and outcomes it could not date.                         *)
SchemaInit ==
    /\ \E tables \in SUBSET Elements(Tables) :
         /\ schema = [tables |-> tables, columns |-> {}]
         /\ undated \in IF OutcomeTable \in tables THEN {{"fillable"}, {"orphan"}} ELSE {{}}
    /\ boot = [s \in Services |-> Down] /\ locks = 0

Rest(todo) == todo \ {Min(todo)}
Go(s, pc, todo) == [boot EXCEPT ![s].pc = pc, ![s].todo = todo]

-----------------------------------------------------------------------------
(* init_engine.  create_all looks once for the tables that are missing.    *)
Boot(s) ==
    /\ boot[s].pc = "down"
    /\ boot' = [boot EXCEPT ![s] =
         [Down EXCEPT !.pc = "create", !.todo = MissingTables(schema.tables),
                      !.clean = Whole /\ "fillable" \notin undated]]
    /\ UNCHANGED <<schema, undated, locks>>

(* The columns of the tables there are now, in order.                      *)
Migrating(s) == [boot EXCEPT ![s].pc = "look", ![s].todo = ColumnsOf(schema.tables)]

(* A table is made with its columns.  One that another service has made    *)
(* meanwhile ends the whole of create_all, quietly.                        *)
CreateTable(s) ==
    /\ boot[s].pc = "create" /\ boot[s].todo # {}
    /\ LET t == Tables[Min(boot[s].todo)] IN
         IF t \in schema.tables
         THEN boot' = Migrating(s) /\ UNCHANGED schema
         ELSE /\ schema' = [tables |-> schema.tables \cup {t}, columns |-> schema.columns \cup ColumnsOf({t})]
              /\ boot' = [boot EXCEPT ![s].todo = Rest(@), ![s].wrote = TRUE]
    /\ UNCHANGED <<undated, locks>>

Created(s) ==
    /\ boot[s].pc = "create" /\ boot[s].todo = {}
    /\ boot' = Migrating(s)
    /\ UNCHANGED <<schema, undated, locks>>

(* The inspector reads the columns of a table once, and remembers them.    *)
Shown(s, t) == IF t \in boot[s].looked THEN boot[s].seen
               ELSE boot[s].seen \cup (schema.columns \cap ColumnsOf({t}))

(* _apply_additive_migrations: a column the inspector shows is passed over.*)
Look(s) ==
    /\ boot[s].pc = "look" /\ boot[s].todo # {}
    /\ LET i == Min(boot[s].todo)
           t == Columns[i].table
           there == i \in Shown(s, t)
       IN  boot' = [boot EXCEPT ![s].pc = IF there THEN "look" ELSE "alter",
                                ![s].todo = IF there THEN Rest(@) ELSE @,
                                ![s].looked = @ \cup {t}, ![s].seen = Shown(s, t)]
    /\ UNCHANGED <<schema, undated, locks>>

(* Mutant: a column that is there already ends the boot.                   *)
AlreadyThereKills(s) == [boot EXCEPT ![s] = [Down EXCEPT !.killed = "duplicate"]]

(* A column that another service has added meanwhile is as good.           *)
AlreadyThere(s) == Go(s, "look", Rest(boot[s].todo))

Alter(s) ==
    /\ boot[s].pc = "alter"
    /\ LET i == Min(boot[s].todo) IN
         IF i \in schema.columns
         THEN boot' = AlreadyThere(s) /\ UNCHANGED schema
         ELSE /\ schema' = [schema EXCEPT !.columns = @ \cup {i}]
              /\ boot' = [boot EXCEPT ![s].pc = "look", ![s].todo = Rest(@), ![s].wrote = TRUE]
    /\ UNCHANGED <<undated, locks>>

(* All columns are there, and CREATE INDEX IF NOT EXISTS.                  *)
Altered(s) ==
    /\ boot[s].pc = "look" /\ boot[s].todo = {}
    /\ boot' = Go(s, "read", {})
    /\ UNCHANGED <<schema, undated, locks>>

(* _backfill_outcome_kickoffs reads first, and only rows it can fill.      *)
BackfillRead(s) ==
    /\ boot[s].pc = "read"
    /\ boot' = Go(s, IF "fillable" \in undated THEN "update" ELSE "up", {})
    /\ UNCHANGED <<schema, undated, locks>>

BackfillUpdate(s) ==
    /\ boot[s].pc = "update"
    /\ undated' = undated \ {"fillable"}
    /\ boot' = [boot EXCEPT ![s].pc = "up", ![s].wrote = TRUE]
    /\ UNCHANGED <<schema, locks>>

(* "database is locked" ends the boot, except in the backfill, which the   *)
(* next boot does over.                                                    *)
Locked(s) ==
    /\ locks < MaxLocks /\ locks' = locks + 1
    /\ \/ /\ boot[s].pc = "alter" \/ (boot[s].pc = "create" /\ boot[s].todo # {})
          /\ boot' = [boot EXCEPT ![s] = [Down EXCEPT !.killed = "locked"]]
       \/ boot[s].pc = "update" /\ boot' = Go(s, "up", {})
    /\ UNCHANGED <<schema, undated>>

(* A service that runs is started again.                                   *)
StartAgain(s) ==
    /\ locks < MaxLocks /\ locks' = locks + 1
    /\ boot[s].pc = "up" /\ boot' = [boot EXCEPT ![s] = Down]
    /\ UNCHANGED <<schema, undated>>

SchemaNext ==
    \E s \in Services :
        \/ Boot(s) \/ CreateTable(s) \/ Created(s) \/ Look(s) \/ Alter(s) \/ Altered(s)
        \/ BackfillRead(s) \/ BackfillUpdate(s) \/ Locked(s) \/ StartAgain(s)

SchemaSpec == SchemaInit /\ [][SchemaNext]_schemaVars

-----------------------------------------------------------------------------
(* Property                                                                *)

(* Services that start together do not bring each other down, the schema   *)
(* is complete once all of them run (one alone may run before the others   *)
(* have made its tables), and a service that finds it complete writes      *)
(* nothing.                                                                *)
BootsTogether ==
    /\ \A s \in Services : boot[s].killed # "duplicate" /\ (boot[s].clean => ~boot[s].wrote)
    /\ (\A s \in Services : boot[s].pc = "up") => Whole
=============================================================================
