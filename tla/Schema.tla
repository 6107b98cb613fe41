------------------------------- MODULE Schema -------------------------------
(***************************************************************************)
(* The schema of the database file and the programs that bring it up to    *)
(* date: InitDB, then migrations.Run or Check.  A statement commits by     *)
(* itself; the version is one more statement after those of a migration.   *)
(***************************************************************************)
EXTENDS Integers, FiniteSets, Sequences

CONSTANTS
  Programs,      \* processes of the operating system that open the file
  SchemaVersion,
  Kind,          \* what each migration is made of
  Operations     \* optional behaviour of the instance

Versions == 1 .. SchemaVersion

\* "again": CREATE ... IF NOT EXISTS; "once": ALTER TABLE ... ADD COLUMN and
\* more; "rebuild": a table is copied into a new one that takes its place.
ASSUME SchemaAssumption ==
  SchemaVersion \in Nat \ {0} /\ Kind \in [Versions -> {"again", "once", "rebuild"}]

VARIABLES
  version,    \* PRAGMA user_version
  schema,     \* how far each migration has changed the tables
  spare,      \* the table that a rebuild fills, under its temporary name
  program,    \* what each program is about to do
  disturbed,  \* history: a migration was cut short, or two programs ran some
  repeated    \* history: rebuilds that were done, and dropped their table once more

tables == <<schema, spare, repeated>>
schemaVars == <<version, tables, program, disturbed>>

\* "none": the table of a rebuild is dropped.
Progress == {"old", "part", "none", "new"}

ProgramSteps == {"down", "init", "run", "apply", "stamp", "defaults", "up", "failed"}

\* second: this is not InitDB's run, but the program's own.
Program == [step : ProgramSteps, auto : BOOLEAN, next : Versions, statement : 1 .. 4,
            second : BOOLEAN]

Down == [step |-> "down", auto |-> TRUE, next |-> 1, statement |-> 1, second |-> FALSE]

SchemaInit ==
  /\ version = 0
  /\ schema = [m \in Versions |-> "old"]
  /\ spare = [m \in Versions |-> "none"]
  /\ program = [s \in Programs |-> Down]
  /\ disturbed = FALSE /\ repeated = {}

-----------------------------------------------------------------------------
Doing(s, step) == program[s].step = step
Goes(s, step) == program' = [program EXCEPT ![s].step = step]
Leaves(s, step) == program' = [program EXCEPT ![s] = [Down EXCEPT !.step = step]]
Migrating(s) == program[s].step \in {"apply", "stamp"}
Up(s) == Doing(s, "up")

\* autentico start, with or without --no-auto-migrate; migrate; onboard.
StartProgram(s, auto) ==
  /\ program[s].step \in {"down", "failed"}
  /\ program' = [program EXCEPT ![s] = [Down EXCEPT !.step = "init", !.auto = auto]]
  /\ UNCHANGED <<version, tables, disturbed>>

\* Pending are the migrations after the version that was read.
BeginRun(s, second) ==
  /\ program' = [program EXCEPT ![s] = [@ EXCEPT !.step = "apply", !.next = version + 1,
                                                 !.statement = 1, !.second = second]]
  /\ disturbed' = (disturbed \/ \E t \in Programs \ {s} : Migrating(t))
  /\ UNCHANGED <<version, tables>>

\* Only an empty file is migrated here.
InitDB(s) ==
  /\ Doing(s, "init")
  /\ IF version = 0 THEN BeginRun(s, FALSE)
                    ELSE Goes(s, "run") /\ UNCHANGED <<version, tables, disturbed>>

RunMigrations(s) ==
  /\ Doing(s, "run") /\ program[s].auto /\ version < SchemaVersion
  /\ BeginRun(s, TRUE)

\* Run with nothing to do, or Check.
UpToDate(s) ==
  /\ Doing(s, "run") /\ version >= SchemaVersion
  /\ Leaves(s, "defaults")
  /\ UNCHANGED <<version, tables, disturbed>>

\* "database is at version ..., run: autentico migrate"
CheckFails(s) ==
  /\ Doing(s, "run") /\ ~program[s].auto /\ version < SchemaVersion
  /\ Leaves(s, "down")
  /\ UNCHANGED <<version, tables, disturbed>>

\* How many statements a migration has; the indexes behind a rebuild are left out.
Statements == [again |-> 1, once |-> 2, rebuild |-> 4]

\* What a statement needs to find.
Finds(m, k) ==
  \/ Kind[m] = "again"
  \/ Kind[m] = "once" /\ schema[m] = (IF k = 1 THEN "old" ELSE "part")
  \/ /\ Kind[m] = "rebuild"
     /\ \/ k = 1
        \/ k = 2 /\ schema[m] # "none" /\ spare[m] # "none"
        \/ k = 3 /\ schema[m] # "none"
        \/ k = 4 /\ schema[m] = "none" /\ spare[m] # "none"

\* CREATE TABLE IF NOT EXISTS: also a table that a later rebuild has dropped.
CreateTables(m) ==
  /\ \E back \in SUBSET {r \in Versions : Kind[r] = "rebuild" /\ schema[r] = "none"} :
       schema' = [r \in Versions |-> IF r \in back THEN "old" ELSE IF r = m THEN "new" ELSE schema[r]]
  /\ UNCHANGED <<spare, repeated>>

AddColumns(m, k) ==
  /\ schema' = [schema EXCEPT ![m] = IF k = 1 THEN "part" ELSE "new"]
  /\ UNCHANGED <<spare, repeated>>

\* CREATE IF NOT EXISTS, INSERT ... SELECT, DROP, RENAME.
Rebuild(m, k) ==
  \/ /\ k = 1 /\ spare' = [spare EXCEPT ![m] = IF @ = "none" THEN "empty" ELSE @]
     /\ UNCHANGED <<schema, repeated>>
  \/ /\ k = 2 /\ spare' = [spare EXCEPT ![m] = "full"]
     /\ UNCHANGED <<schema, repeated>>
  \/ /\ k = 3 /\ schema' = [schema EXCEPT ![m] = "none"]
     /\ repeated' = IF schema[m] = "new" THEN repeated \cup {m} ELSE repeated
     /\ UNCHANGED spare
  \/ /\ k = 4 /\ schema' = [schema EXCEPT ![m] = "new"] /\ spare' = [spare EXCEPT ![m] = "none"]
     /\ repeated' = repeated \ {m}

ExecMigration(s) ==
  LET m == program[s].next
      k == program[s].statement
  IN  /\ Doing(s, "apply") /\ Finds(m, k)
      /\ \/ Kind[m] = "again" /\ CreateTables(m)
         \/ Kind[m] = "once" /\ AddColumns(m, k)
         \/ Kind[m] = "rebuild" /\ Rebuild(m, k)
      /\ program' = [program EXCEPT ![s] =
                       IF k < Statements[Kind[m]] THEN [@ EXCEPT !.statement = k + 1]
                       ELSE [@ EXCEPT !.step = "stamp"]]
      /\ UNCHANGED <<version, disturbed>>

\* "duplicate column", "no such table"; rows that were copied before, if there are
\* any and they are there still.
MigrationFails(s) ==
  LET m == program[s].next
      k == program[s].statement
  IN  /\ Doing(s, "apply")
      /\ ~Finds(m, k) \/ (Kind[m] = "rebuild" /\ k = 2 /\ spare[m] = "full")
      /\ Leaves(s, "failed")
      /\ UNCHANGED <<version, tables, disturbed>>

AfterRun(prog) == [Down EXCEPT !.step = IF prog.second THEN "defaults" ELSE "run",
                               !.auto = prog.second \/ prog.auto]

\* Mutant: the version is set before the migration.
StampFirst(s) ==
  LET m == program[s].next
  IN  /\ Doing(s, "apply") /\ program[s].statement = 1
      /\ version' = m
      /\ program' = [program EXCEPT ![s] =
                       IF m < SchemaVersion THEN [@ EXCEPT !.next = m + 1]
                       ELSE AfterRun(program[s])]
      /\ UNCHANGED <<tables, disturbed>>

\* Mutant: the version is the index of the migration, which starts at 0.
StampIndex(s) ==
  LET m == program[s].next
  IN  /\ Doing(s, "stamp")
      /\ version' = m - 1
      /\ program' = [program EXCEPT ![s] =
                       IF m < SchemaVersion
                       THEN [@ EXCEPT !.step = "apply", !.next = m + 1, !.statement = 1]
                       ELSE AfterRun(program[s])]
      /\ UNCHANGED <<tables, disturbed>>

SetUserVersion(s) ==
  LET m == program[s].next
  IN  /\ Doing(s, "stamp")
      /\ version' = m
      /\ program' = [program EXCEPT ![s] =
                       IF m < SchemaVersion
                       THEN [@ EXCEPT !.step = "apply", !.next = m + 1, !.statement = 1]
                       ELSE AfterRun(program[s])]
      /\ UNCHANGED <<tables, disturbed>>

\* The program stops, or is stopped, between two statements.
StopProgram(s) ==
  /\ program[s].step \notin {"down", "failed"}
  /\ program' = [program EXCEPT ![s] = Down]
  /\ disturbed' = (disturbed \/ Migrating(s))
  /\ UNCHANGED <<version, tables>>

SchemaStep(s) ==
  \/ InitDB(s) \/ RunMigrations(s) \/ UpToDate(s) \/ CheckFails(s)
  \/ ExecMigration(s) \/ MigrationFails(s) \/ SetUserVersion(s)

-----------------------------------------------------------------------------
SchemaTypeOK ==
  /\ version \in 0 .. SchemaVersion
  /\ schema \in [Versions -> Progress] /\ spare \in [Versions -> {"none", "empty", "full"}]
  /\ program \in [Programs -> Program]
  /\ disturbed \in BOOLEAN /\ repeated \subseteq Versions

\* What a migration makes of the tables is there.
Applied(m) == schema[m] = "new"

\* A program serves requests only on a file that has what every migration makes of
\* the tables, although the version is set apart from them and can even go back
\* (migrations.Run).  Only when runs were cut short or overlapped may a table be
\* missing, or old: the one of a rebuild that had been done, that another run had
\* begun once more, and that this run has not finished.
SchemaComplete ==
  \A s \in Programs : Up(s) => \A m \in Versions : Applied(m) \/ (disturbed /\ m \in repeated)

\* A migration fails only after an earlier run was cut short between two
\* statements, or when two programs run them at the same time.
FailsOnlyDisturbed == (\E s \in Programs : Doing(s, "failed")) => disturbed
=============================================================================
