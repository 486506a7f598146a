------------------------------- MODULE Schema -------------------------------
(***************************************************************************)
(* The schema of the database over its life: init_db creates the tables    *)
(* the models have and the database lacks when the application starts,     *)
(* alembic runs the revisions, and either may fail or be killed half-way.  *)
(* PostgreSQL runs a command in one transaction; SQLite keeps what is done.*)
(***************************************************************************)
EXTENDS SchemaMigrations, SchemaModels

CONSTANTS
  MaxCommands, MaxKills  \* bounds: commands run, commands killed

ASSUME SchemaAssumption == MaxCommands \in Nat /\ MaxKills \in Nat

VARIABLES
  database, \* which database it is
  tables,   \* the columns of every table there is
  version,  \* the revision alembic_version holds, 0 for none
  job,      \* what the running command has left to do
  command,  \* the last command and how it ended
  undo,     \* tables and version when it began
  apart,    \* history: version and tables were not always written together
  commands, kills

vars == <<database, tables, version, job, command, undo, apart, commands, kills>>

\* What no revision creates but revision 003 alters: a database it fits has these tables
\* from init_db of the release before.
Before003 ==
  LET older == [path_analysis_role_presets |-> {"scope", "team_id", "created_by", "updated_by"},
                path_analysis_saved_queries |-> {"scope", "team_id", "created_by", "updated_by"},
                path_analysis_feedback |-> {"scope", "team_id"}]
  IN [t \in DOMAIN older |-> Models[t] \ older[t]] @@ PathAnalysisCacheModel

Fits(ts, o) ==
  CASE o.op = "create" -> o.table \notin DOMAIN ts
    [] o.op = "drop"   -> o.table \in DOMAIN ts
    [] o.op = "add"    -> o.table \in DOMAIN ts /\ o.column \notin ts[o.table]
    [] o.op = "remove" -> o.table \in DOMAIN ts /\ o.column \in ts[o.table]
    [] o.op = "stamp"  -> TRUE

Apply(ts, o) ==
  CASE o.op = "create" -> (o.table :> o.columns) @@ ts
    [] o.op = "drop"   -> [t \in DOMAIN ts \ {o.table} |-> ts[t]]
    [] o.op = "add"    -> [ts EXCEPT ![o.table] = @ \cup {o.column}]
    [] o.op = "remove" -> [ts EXCEPT ![o.table] = @ \ {o.column}]
    [] o.op = "stamp"  -> ts

\* The tables of each revision in a database that had the tables Before003.
Expected[k \in 0..LastRevision] ==
  IF k = 0 THEN Before003 ELSE FoldLeft(Apply, Expected[k-1], Upgrades[k])

Init ==
  /\ database \in {"postgresql", "sqlite"}
  /\ \/ tables = <<>> /\ version = 0
     \/ tables = Expected[2] /\ version = 2
  /\ job = <<>> /\ command = [name |-> "none", ended |-> "well"]
  /\ undo = [tables |-> tables, version |-> version]
  /\ apart = (version = 0) /\ commands = 0 /\ kills = 0

Idle == job = <<>>
Stamp(k) == <<[op |-> "stamp", version |-> k]>>
Begin(name, ops) ==
  /\ Idle /\ commands < MaxCommands
  /\ job' = ops
  /\ command' = [name |-> name, ended |-> IF ops = <<>> THEN "well" ELSE "not"]
  /\ undo' = [tables |-> tables, version |-> version]
  /\ commands' = commands + 1
  /\ UNCHANGED <<database, tables, version, apart, kills>>

\* startup calls init_db: create_all, of the tables that are missing when it begins.
StartApp ==
  LET missing == SelectSeq(ModelTables, LAMBDA m : DOMAIN m \cap DOMAIN tables = {})
  IN Begin("app", FlattenSeq([i \in DOMAIN missing |->
                     LET t == CHOOSE t \in DOMAIN missing[i] : TRUE IN Create(t, missing[i][t])]))

\* alembic upgrade head
UpgradeHead ==
  Begin("upgrade", FlattenSeq([i \in 1..(LastRevision - version) |-> Upgrades[version + i] \o Stamp(version + i)]))

\* alembic downgrade base
DowngradeBase ==
  Begin("downgrade", FlattenSeq([i \in 1..version |->
                       Downgrades[version + 1 - i] \o Stamp(version - i)]))

Step ==
  /\ ~Idle
  /\ Fits(tables, Head(job))
  /\ LET o == Head(job) IN
     /\ tables' = Apply(tables, o)
     /\ version' = IF o.op = "stamp" THEN o.version ELSE version
     /\ apart' = (apart \/ (command.name = "app" /\ o.table # "path_analysis_cache"))
  /\ job' = Tail(job)
  /\ command' = IF Len(job) = 1 THEN [command EXCEPT !.ended = "well"] ELSE command
  /\ UNCHANGED <<database, undo, commands, kills>>

Undone ==
  /\ job' = <<>>
  /\ IF database = "postgresql"
     THEN tables' = undo.tables /\ version' = undo.version /\ UNCHANGED apart
     ELSE apart' = TRUE /\ UNCHANGED <<tables, version>>
  /\ UNCHANGED <<database, undo, commands>>

\* A statement the database refuses ends the command.
Refused ==
  /\ ~Idle /\ ~Fits(tables, Head(job))
  /\ Undone
  /\ command' = [command EXCEPT !.ended = "refused"] /\ UNCHANGED kills

Killed ==
  /\ ~Idle /\ kills < MaxKills
  /\ Undone
  /\ command' = [command EXCEPT !.ended = "killed"] /\ kills' = kills + 1

Next == StartApp \/ UpgradeHead \/ DowngradeBase \/ Step \/ Refused \/ Killed
Spec == Init /\ [][Next]_vars

-----------------------------------------------------------------------------
(* Properties.                                                             *)

\* While only alembic touches a database that revision 003 fits, and is not killed where
\* that leaves half a revision, the database refuses no statement of it: every revision
\* can be applied after those before it, undone, and applied again (003_team_sharing.py:22).
RevisionsApply == command.ended = "refused" => apart

\* Such a database has at the last revision the very tables and columns the models
\* use (database.py:52).
HeadFitsModels == Idle /\ ~apart /\ version = LastRevision => tables = Models

=============================================================================
