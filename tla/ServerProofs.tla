---------------------------- MODULE ServerProofs ----------------------------
(***************************************************************************)
(* What a program finds when it serves, the settings it goes by and the    *)
(* first administrator, for any programs, migrations, settings and users.  *)
(***************************************************************************)
EXTENDS Server, FiniteSetTheorems, TLAPS

USE SchemaAssumption, ServerAssumption

P == Cardinality(Procs)

Last(m) == Statements[Kind[m]]

\* A migration was carried out, although a rebuild may be going on once more.
Done(m) == schema[m] = "new" \/ m \in repeated

\* A migration is carried out from its first statement to its last, in programs
\* that know what they have seen carried out.
Reached(s) ==
  /\ Migrating(s) => program[s].statement <= Last(program[s].next)
  /\ Doing(s, "apply") => \A m \in Versions : m < program[s].next => Done(m)
  /\ Doing(s, "stamp") => \A m \in Versions : m <= program[s].next => Done(m)
  /\ program[s].step \in {"defaults", "up"} => \A m \in Versions : Done(m)

SchemaInv ==
  /\ \A m \in Versions : m <= version => Done(m)
  /\ \A s \in Programs : Reached(s)

\* What the statement k of the migration m finds when nothing else has changed the tables.
Begun(m, k) ==
  /\ Kind[m] = "once" => schema[m] = (IF k = 1 THEN "old" ELSE "part")
  /\ Kind[m] = "rebuild" =>
       /\ schema[m] = (IF k = 4 THEN "none" ELSE "old")
       /\ spare[m] = (IF k = 1 THEN "none" ELSE IF k = 2 THEN "empty" ELSE "full")

Untouched(m) == schema[m] = "old" /\ spare[m] = "none"

\* As long as no run was cut short and no two overlapped, the tables are at the
\* version, or one program is just past it.
Clean ==
  /\ repeated = {}
  /\ \A s \in Programs : ~Doing(s, "failed")
  /\ \A s, t \in Programs : Migrating(s) /\ Migrating(t) => s = t
  /\ \A s \in Programs : Migrating(s) => program[s].next = version + 1
  /\ \A s \in Programs : Doing(s, "apply") => Begun(program[s].next, program[s].statement)
  /\ \A m \in Versions :
       m > version + 1 \/ (m = version + 1 /\ \A s \in Programs : ~Migrating(s))
       => Untouched(m)

\* Requests are those of programs that serve.
Changing(p) == req[p].step \in {"set", "load", "copy", "assign"}

Homes ==
  \A p \in Procs : /\ ~At(p, "idle") => Up(req[p].home)
                   /\ At(p, "idle") \/ Changing(p) => req[p].home = Main

\* What memory will hold when the request has assigned what it still has to.
Pending(p, k) == IF req[p].todo[k] = None THEN config[k] ELSE req[p].todo[k]

Current(k) == config[k] = Loaded(k, setting[k], config[k])

\* The reader is alone, and will leave in memory what is stored.
ReaderInv ==
  \A p \in Procs : reader = p =>
    /\ At(p, "copy") \/ At(p, "assign")
    /\ \A q \in Procs : Changing(q) => q = p
    /\ At(p, "copy") => req[p].todo = setting
    /\ At(p, "assign") => \A k \in Keys : Pending(p, k) = Loaded(k, setting[k], Pending(p, k))

\* One request at a time changes the settings, and whoever has read them is the reader.
ConfigInv ==
  /\ ReaderInv
  /\ Up(Main) /\ ~stale =>
       /\ \A p, q \in Procs : Changing(p) /\ Changing(q) => p = q
       /\ \A p \in Procs : At(p, "copy") \/ At(p, "assign") => reader = p
       /\ (\A p \in Procs : ~Changing(p)) => \A k \in Keys : Current(k)

Admins == {u \in Users : user[u] = "admin"}
Onboarding == {p \in Procs : req[p].step \in {"create", "promote"}}

UsersInv ==
  /\ \A p \in Procs : At(p, "promote") => req[p].user \in Users /\ user[req[p].user] # "none"
  /\ FirstUserPromoted
  /\ IsFiniteSet(Admins)
  /\ Cardinality(Admins) + Cardinality(Onboarding) <= P

IInv ==
  /\ TypeOK /\ SchemaInv
  /\ disturbed \/ Clean
  /\ Homes
  /\ ConfigInv
  /\ UsersInv

-----------------------------------------------------------------------------
(* The programs.                                                           *)

LEMMA Lasts ==
  \A m \in Versions : /\ Last(m) \in 1 .. 4
                      /\ Kind[m] = "again" => Last(m) = 1
                      /\ Kind[m] = "once" => Last(m) = 2
                      /\ Kind[m] = "rebuild" => Last(m) = 4
<1>1. ASSUME NEW m \in Versions PROVE Kind[m] \in {"again", "once", "rebuild"}
  OBVIOUS
<1>2. Statements["again"] = 1 /\ Statements["once"] = 2 /\ Statements["rebuild"] = 4
  BY DEF Statements
<1>3. QED  BY <1>1, <1>2 DEF Last

\* A statement of a migration.
Executes(m, k) ==
  /\ Finds(m, k)
  /\ \/ Kind[m] = "again" /\ CreateTables(m)
     \/ Kind[m] = "once" /\ AddColumns(m, k)
     \/ Kind[m] = "rebuild" /\ Rebuild(m, k)

\* What it has done is not taken back, and the last one completes its migration.
LEMMA StatementKept ==
  ASSUME SchemaTypeOK, NEW m \in Versions, NEW k \in 1 .. 4, k <= Last(m), Executes(m, k)
  PROVE  /\ schema' \in [Versions -> Progress] /\ spare' \in [Versions -> {"none", "empty", "full"}]
         /\ repeated' \subseteq Versions
         /\ \A n \in Versions : Done(n) => Done(n)'
         /\ k = Last(m) => Done(m)'
<1>1. /\ schema \in [Versions -> Progress] /\ spare \in [Versions -> {"none", "empty", "full"}]
      /\ repeated \subseteq Versions
  BY DEF SchemaTypeOK
<1>2. {"old", "part", "none", "new"} = Progress
  BY DEF Progress
<1>3. CASE Kind[m] = "again"
  <2>1. PICK back \in SUBSET {r \in Versions : Kind[r] = "rebuild" /\ schema[r] = "none"} :
          schema' = [r \in Versions |->
                       IF r \in back THEN "old" ELSE IF r = m THEN "new" ELSE schema[r]]
    BY <1>3 DEF Executes, CreateTables
  <2>2. UNCHANGED <<spare, repeated>>
    BY <1>3 DEF Executes, CreateTables
  <2>3. schema' \in [Versions -> Progress]
    BY <1>1, <1>2, <2>1
  <2>4. /\ schema'[m] = "new"
        /\ \A n \in Versions : schema[n] = "new" => schema'[n] = "new"
    BY <1>3, <2>1
  <2>5. QED  BY <1>1, <2>2, <2>3, <2>4 DEF Done
<1>4. CASE Kind[m] = "once"
  <2>1. schema' = [schema EXCEPT ![m] = IF k = 1 THEN "part" ELSE "new"]
    BY <1>4 DEF Executes, AddColumns
  <2>2. UNCHANGED <<spare, repeated>> /\ schema[m] # "new"
    BY <1>4 DEF Executes, AddColumns, Finds
  <2>3. schema' \in [Versions -> Progress]
    BY <1>1, <1>2, <2>1
  <2>4. \A n \in Versions : schema[n] = "new" => schema'[n] = "new"
    BY <1>1, <2>1, <2>2
  <2>5. k = Last(m) => schema'[m] = "new"
    BY <1>1, <1>4, <2>1, Lasts
  <2>6. QED  BY <1>1, <2>2, <2>3, <2>4, <2>5 DEF Done
<1>5. CASE Kind[m] = "rebuild"
  <2>1. Rebuild(m, k) /\ Last(m) = 4
    BY <1>5, Lasts DEF Executes
  <2>2. CASE k = 1
    BY <1>1, <2>1, <2>2 DEF Rebuild, Done
  <2>3. CASE k = 2
    BY <1>1, <2>1, <2>3 DEF Rebuild, Done
  <2>4. CASE k = 3
    <3>1. /\ schema' = [schema EXCEPT ![m] = "none"] /\ UNCHANGED spare
          /\ repeated' = IF schema[m] = "new" THEN repeated \cup {m} ELSE repeated
      BY <2>1, <2>4 DEF Rebuild
    <3>2. schema' \in [Versions -> Progress] /\ repeated' \subseteq Versions
      BY <1>1, <1>2, <3>1
    <3>3. \A n \in Versions : Done(n) => Done(n)'
      BY <1>1, <3>1 DEF Done
    <3>4. QED  BY <1>1, <2>1, <2>4, <3>1, <3>2, <3>3
  <2>5. CASE k = 4
    <3>1. /\ schema' = [schema EXCEPT ![m] = "new"] /\ spare' = [spare EXCEPT ![m] = "none"]
          /\ repeated' = repeated \ {m}
      BY <2>1, <2>5 DEF Rebuild
    <3>2. /\ schema' \in [Versions -> Progress] /\ repeated' \subseteq Versions
          /\ spare' \in [Versions -> {"none", "empty", "full"}]
      BY <1>1, <1>2, <3>1
    <3>3. (\A n \in Versions : Done(n) => Done(n)') /\ Done(m)'
      BY <1>1, <3>1 DEF Done
    <3>4. QED  BY <3>2, <3>3
  <2>6. QED  BY <2>2, <2>3, <2>4, <2>5
<1>6. QED  BY <1>3, <1>4, <1>5

\* A migration that was begun undisturbed goes on so, and touches no later one.
LEMMA StatementClean ==
  ASSUME SchemaTypeOK, NEW m \in Versions, NEW k \in 1 .. 4, k <= Last(m),
         Begun(m, k), repeated = {}
  PROVE  /\ Finds(m, k) /\ ~(Kind[m] = "rebuild" /\ k = 2 /\ spare[m] = "full")
         /\ Executes(m, k) =>
              /\ repeated' = {}
              /\ k < Last(m) => Begun(m, k + 1)'
              /\ \A n \in Versions : n # m /\ Untouched(n) => Untouched(n)'
<1>1. /\ schema \in [Versions -> Progress] /\ spare \in [Versions -> {"none", "empty", "full"}]
  BY DEF SchemaTypeOK
<1>2. CASE Kind[m] = "again"
  <2>1. Last(m) = 1
    BY <1>2, Lasts
  <2>2. ASSUME Executes(m, k)
        PROVE  repeated' = {} /\ \A n \in Versions : n # m /\ Untouched(n) => Untouched(n)'
    <3>1. PICK back \in SUBSET {r \in Versions : Kind[r] = "rebuild" /\ schema[r] = "none"} :
            schema' = [r \in Versions |->
                         IF r \in back THEN "old" ELSE IF r = m THEN "new" ELSE schema[r]]
      BY <1>2, <2>2 DEF Executes, CreateTables
    <3>2. UNCHANGED <<spare, repeated>>
      BY <1>2, <2>2 DEF Executes, CreateTables
    <3>3. QED  BY <3>1, <3>2 DEF Untouched
  <2>3. QED  BY <1>2, <2>1, <2>2 DEF Finds
<1>3. CASE Kind[m] = "once"
  <2>1. Last(m) = 2 /\ schema[m] = (IF k = 1 THEN "old" ELSE "part")
    BY <1>3, Lasts DEF Begun
  <2>2. ASSUME Executes(m, k)
        PROVE  /\ repeated' = {}
               /\ k < Last(m) => Begun(m, k + 1)'
               /\ \A n \in Versions : n # m /\ Untouched(n) => Untouched(n)'
    <3>1. /\ schema' = [schema EXCEPT ![m] = IF k = 1 THEN "part" ELSE "new"]
          /\ UNCHANGED <<spare, repeated>>
      BY <1>3, <2>2 DEF Executes, AddColumns
    <3>2. k < Last(m) => k = 1
      BY <2>1
    <3>3. k < Last(m) => Begun(m, k + 1)'
      BY <1>1, <1>3, <3>1, <3>2 DEF Begun
    <3>4. QED  BY <1>1, <3>1, <3>3 DEF Untouched
  <2>3. QED  BY <1>3, <2>1, <2>2 DEF Finds
<1>4. CASE Kind[m] = "rebuild"
  <2>1. /\ Last(m) = 4 /\ schema[m] = (IF k = 4 THEN "none" ELSE "old")
        /\ spare[m] = (IF k = 1 THEN "none" ELSE IF k = 2 THEN "empty" ELSE "full")
    BY <1>4, Lasts DEF Begun
  <2>2. Finds(m, k) /\ ~(k = 2 /\ spare[m] = "full")
    BY <1>4, <2>1 DEF Finds
  <2>3. ASSUME Executes(m, k)
        PROVE  /\ repeated' = {}
               /\ k < Last(m) => Begun(m, k + 1)'
               /\ \A n \in Versions : n # m /\ Untouched(n) => Untouched(n)'
    <3>1. Rebuild(m, k)
      BY <1>4, <2>3 DEF Executes
    <3>2. CASE k = 1
      BY <1>1, <1>4, <2>1, <3>1, <3>2 DEF Rebuild, Begun, Untouched
    <3>3. CASE k = 2
      BY <1>1, <1>4, <2>1, <3>1, <3>3 DEF Rebuild, Begun, Untouched
    <3>4. CASE k = 3
      BY <1>1, <1>4, <2>1, <3>1, <3>4 DEF Rebuild, Begun, Untouched
    <3>5. CASE k = 4
      BY <1>1, <1>4, <2>1, <3>1, <3>5 DEF Rebuild, Begun, Untouched
    <3>6. QED  BY <3>2, <3>3, <3>4, <3>5
  <2>4. QED  BY <2>2, <2>3
<1>5. QED  BY <1>2, <1>3, <1>4

\* What a program does to the file, and r, what it is about to do then.
Move(s, r) ==
  /\ program' = [program EXCEPT ![s] = r]
  /\ \/ /\ ~Migrating(s) /\ r.step \in {"down", "init", "run", "defaults", "up"}
        /\ r.step = "defaults" => version >= SchemaVersion
        /\ r.step = "up" => Doing(s, "defaults")
        /\ UNCHANGED <<version, tables, disturbed>>
     \/ /\ ~Migrating(s) /\ r.step = "apply" /\ r.next = version + 1 /\ r.statement = 1
        /\ version < SchemaVersion
        /\ disturbed' = (disturbed \/ \E t \in Programs \ {s} : Migrating(t))
        /\ UNCHANGED <<version, tables>>
     \/ LET m == program[s].next
            k == program[s].statement
        IN  /\ Doing(s, "apply") /\ Executes(m, k)
            /\ IF k < Last(m) THEN r.step = "apply" /\ r.statement = k + 1
               ELSE r.step = "stamp" /\ r.statement = k
            /\ r.next = m
            /\ UNCHANGED <<version, disturbed>>
     \/ LET m == program[s].next
            k == program[s].statement
        IN  /\ Doing(s, "apply")
            /\ ~Finds(m, k) \/ (Kind[m] = "rebuild" /\ k = 2 /\ spare[m] = "full")
            /\ r.step = "failed"
            /\ UNCHANGED <<version, tables, disturbed>>
     \/ LET m == program[s].next
        IN  /\ Doing(s, "stamp") /\ version' = m
            /\ IF m < SchemaVersion
               THEN r.step = "apply" /\ r.next = m + 1 /\ r.statement = 1
               ELSE r.step \in {"run", "defaults"}
            /\ UNCHANGED <<tables, disturbed>>
     \/ /\ Migrating(s) /\ r.step = "down" /\ disturbed' = TRUE
        /\ UNCHANGED <<version, tables>>

ProgramMove(s) == \E r \in Program : Move(s, r)

LEMMA DownTypes == Down \in Program /\ Down.step = "down"
BY DEF Down, Program, ProgramSteps, Versions

LEMMA SchemaMoves ==
  ASSUME SchemaTypeOK, NEW s \in Programs, Reached(s),
         SchemaStep(s) \/ \E auto \in BOOLEAN : StartProgram(s, auto)
  PROVE  ProgramMove(s) /\ \A t \in Programs : Up(t)' <=> Up(t)
<1>1. program \in [Programs -> Program] /\ program[s] \in Program /\ version \in 0 .. SchemaVersion
  BY DEF SchemaTypeOK
<1>2. \A r \in Program : Move(s, r) => ProgramMove(s)
  BY DEF ProgramMove
<1>3. \A step \in ProgramSteps :
        /\ [program[s] EXCEPT !.step = step] \in Program
        /\ [program[s] EXCEPT !.step = step].step = step
        /\ [Down EXCEPT !.step = step] \in Program
        /\ [Down EXCEPT !.step = step].step = step
  BY <1>1, DownTypes DEF Program
<1>4. /\ \A step \in ProgramSteps : Goes(s, step) =>
           program' = [program EXCEPT ![s] = [program[s] EXCEPT !.step = step]]
      /\ \A step \in ProgramSteps : Leaves(s, step) =>
           program' = [program EXCEPT ![s] = [Down EXCEPT !.step = step]]
  BY <1>1 DEF Goes, Leaves
<1>5. {"down", "init", "run", "apply", "stamp", "defaults", "failed"} \subseteq ProgramSteps
  BY DEF ProgramSteps
<1>6. ASSUME NEW r \in Program, program' = [program EXCEPT ![s] = r], r.step # "up", ~Up(s)
      PROVE  \A t \in Programs : Up(t)' <=> Up(t)
  BY <1>1, <1>6 DEF Up, Doing
<1>7. ASSUME NEW auto \in BOOLEAN, StartProgram(s, auto)
      PROVE  ProgramMove(s) /\ \A t \in Programs : Up(t)' <=> Up(t)
  <2> DEFINE r == [Down EXCEPT !.step = "init", !.auto = auto]
  <2>1. r \in Program /\ r.step = "init"
    BY DownTypes DEF Program, ProgramSteps
  <2>2. program' = [program EXCEPT ![s] = r]
    BY <1>7 DEF StartProgram
  <2> HIDE DEF r
  <2>3. Move(s, r)
    BY <1>7, <2>1, <2>2 DEF StartProgram, Move, Migrating
  <2>4. QED  BY <1>2, <1>6, <1>7, <2>1, <2>2, <2>3 DEF StartProgram, Up, Doing
<1>8. ASSUME NEW second \in BOOLEAN, BeginRun(s, second), version < SchemaVersion,
             ~Migrating(s), ~Up(s)
      PROVE  ProgramMove(s) /\ \A t \in Programs : Up(t)' <=> Up(t)
  <2> DEFINE r == [program[s] EXCEPT !.step = "apply", !.next = version + 1,
                                     !.statement = 1, !.second = second]
  <2>1. r \in Program /\ r.step = "apply" /\ r.next = version + 1 /\ r.statement = 1
    <3>1. version + 1 \in Versions /\ "apply" \in ProgramSteps
      BY <1>1, <1>5, <1>8 DEF Versions
    <3>2. 1 \in 1 .. 4
      OBVIOUS
    <3>3. QED  BY <1>1, <3>1, <3>2 DEF Program
  <2>2. program' = [program EXCEPT ![s] = r]
    BY <1>1, <1>8 DEF BeginRun
  <2> HIDE DEF r
  <2>3. Move(s, r)
    BY <1>8, <2>1, <2>2 DEF BeginRun, Move
  <2>4. QED  BY <1>2, <1>6, <1>8, <2>1, <2>2, <2>3
<1>9. ASSUME InitDB(s) PROVE ProgramMove(s) /\ \A t \in Programs : Up(t)' <=> Up(t)
  <2>1. ~Migrating(s) /\ ~Up(s)
    BY <1>9 DEF InitDB, Doing, Migrating, Up
  <2>2. CASE version = 0
    <3>1. BeginRun(s, FALSE)
      BY <1>9, <2>2, Zenon DEF InitDB
    <3>2. version < SchemaVersion
      BY <2>2
    <3>3. QED  BY <1>8, <2>1, <3>1, <3>2
  <2>3. CASE version # 0
    <3> DEFINE r == [program[s] EXCEPT !.step = "run"]
    <3>1. r \in Program /\ r.step = "run" /\ program' = [program EXCEPT ![s] = r]
      BY <1>3, <1>4, <1>5, <1>9, <2>3 DEF InitDB
    <3> HIDE DEF r
    <3>2. Move(s, r)
      BY <1>9, <2>1, <2>3, <3>1 DEF InitDB, Move
    <3>3. QED  BY <1>2, <1>6, <2>1, <3>1, <3>2
  <2>4. QED  BY <2>2, <2>3
<1>10. ASSUME RunMigrations(s) PROVE ProgramMove(s) /\ \A t \in Programs : Up(t)' <=> Up(t)
  <2>1. ~Migrating(s) /\ ~Up(s)
    BY <1>10 DEF RunMigrations, Doing, Migrating, Up
  <2>2. QED  BY <1>8, <1>10, <2>1 DEF RunMigrations
<1>11. ASSUME UpToDate(s) \/ CheckFails(s)
       PROVE  ProgramMove(s) /\ \A t \in Programs : Up(t)' <=> Up(t)
  <2>1. ~Migrating(s) /\ ~Up(s) /\ UNCHANGED <<version, tables, disturbed>>
    BY <1>11 DEF UpToDate, CheckFails, Doing, Migrating, Up
  <2>2. PICK step \in {"defaults", "down"} :
          Leaves(s, step) /\ (step = "defaults" => version >= SchemaVersion)
    BY <1>11 DEF UpToDate, CheckFails
  <2> DEFINE r == [Down EXCEPT !.step = step]
  <2>3. r \in Program /\ r.step = step /\ program' = [program EXCEPT ![s] = r]
    BY <1>3, <1>4, <1>5, <2>2
  <2> HIDE DEF r
  <2>4. Move(s, r)
    BY <2>1, <2>2, <2>3 DEF Move
  <2>5. QED  BY <1>2, <1>6, <2>1, <2>3, <2>4
<1>12. ASSUME ExecMigration(s) PROVE ProgramMove(s) /\ \A t \in Programs : Up(t)' <=> Up(t)
  <2> DEFINE m == program[s].next
             k == program[s].statement
             r == IF k < Last(m) THEN [program[s] EXCEPT !.statement = k + 1]
                                      ELSE [program[s] EXCEPT !.step = "stamp"]
  <2>1. m \in Versions /\ k \in 1 .. 4 /\ Doing(s, "apply")
    BY <1>1, <1>12 DEF Program, ExecMigration
  <2>2. Last(m) \in 1 .. 4
    BY <2>1, Lasts
  <2>3. /\ r \in Program /\ r.next = m
        /\ IF k < Last(m) THEN r.step = "apply" /\ r.statement = k + 1
           ELSE r.step = "stamp" /\ r.statement = k
    <3>1. CASE k < Last(m)
      <4> HIDE DEF m, k
      <4>1. k + 1 \in 1 .. 4
        <5>1. \A i, n \in 1 .. 4 : i < n => i + 1 \in 1 .. 4
          OBVIOUS
        <5>2. QED  BY <2>1, <2>2, <3>1, <5>1
      <4> USE DEF m, k
      <4>2. r = [program[s] EXCEPT !.statement = k + 1]
        BY <3>1
      <4>3. r \in Program /\ r.next = m /\ r.step = program[s].step /\ r.statement = k + 1
        BY <1>1, <4>1, <4>2 DEF Program
      <4>4. QED  BY <2>1, <3>1, <4>3 DEF Doing
    <3>2. CASE ~(k < Last(m))
      BY <1>1, <1>5, <2>1, <3>2 DEF Program
    <3>3. QED  BY <3>1, <3>2
  <2>4. /\ program' = [program EXCEPT ![s] = r] /\ Executes(m, k)
        /\ UNCHANGED <<version, disturbed>>
    BY <1>1, <1>12 DEF ExecMigration, Last, Executes
  <2>5. ~Up(s)
    BY <2>1 DEF Up, Doing
  <2> HIDE DEF r
  <2>6. Move(s, r)
    BY <2>1, <2>3, <2>4 DEF Move
  <2>7. r.step # "up"
    BY <2>3
  <2>8. QED  BY <1>2, <1>6, <2>3, <2>4, <2>5, <2>6, <2>7
<1>13. ASSUME MigrationFails(s) PROVE ProgramMove(s) /\ \A t \in Programs : Up(t)' <=> Up(t)
  <2> DEFINE r == [Down EXCEPT !.step = "failed"]
  <2>1. r \in Program /\ r.step = "failed" /\ program' = [program EXCEPT ![s] = r]
    BY <1>3, <1>4, <1>5, <1>13 DEF MigrationFails
  <2> HIDE DEF r
  <2>2. Move(s, r)
    BY <1>13, <2>1 DEF MigrationFails, Move
  <2>3. ~Up(s)
    BY <1>13 DEF MigrationFails, Up, Doing
  <2>4. QED  BY <1>2, <1>6, <2>1, <2>2, <2>3
<1>14. ASSUME SetUserVersion(s) PROVE ProgramMove(s) /\ \A t \in Programs : Up(t)' <=> Up(t)
  <2> DEFINE m == program[s].next
             r == IF m < SchemaVersion
                  THEN [program[s] EXCEPT !.step = "apply", !.next = m + 1, !.statement = 1]
                  ELSE AfterRun(program[s])
  <2>1. m \in Versions
    BY <1>1 DEF Program
  <2>2. /\ r \in Program
        /\ IF m < SchemaVersion THEN r.step = "apply" /\ r.next = m + 1 /\ r.statement = 1
           ELSE r.step \in {"run", "defaults"}
    <3>1. CASE m < SchemaVersion
      <4>1. m + 1 \in Versions /\ "apply" \in ProgramSteps
        BY <1>5, <2>1, <3>1 DEF Versions
      <4>2. 1 \in 1 .. 4
        OBVIOUS
      <4>3. r = [program[s] EXCEPT !.step = "apply", !.next = m + 1, !.statement = 1]
        BY <3>1
      <4>4. r \in Program /\ r.step = "apply" /\ r.next = m + 1 /\ r.statement = 1
        BY <1>1, <4>1, <4>2, <4>3 DEF Program
      <4>5. QED  BY <3>1, <4>4
    <3>2. CASE ~(m < SchemaVersion)
      BY <1>1, <1>5, <2>1, <3>2, DownTypes DEF Program, AfterRun
    <3>3. QED  BY <3>1, <3>2
  <2>3. /\ program' = [program EXCEPT ![s] = r] /\ Doing(s, "stamp") /\ version' = m
        /\ UNCHANGED <<tables, disturbed>>
    BY <1>1, <1>14 DEF SetUserVersion
  <2> HIDE DEF r
  <2>4. Move(s, r)
    BY <2>2, <2>3 DEF Move
  <2>5. r.step # "up" /\ ~Up(s)
    BY <2>2, <2>3 DEF Up, Doing
  <2>6. QED  BY <1>2, <1>6, <2>2, <2>3, <2>4, <2>5
<1>15. QED
  BY <1>7, <1>9, <1>10, <1>11, <1>12, <1>13, <1>14 DEF SchemaStep

\* A program is brought up, or stopped.
LEMMA ServingMoves ==
  ASSUME SchemaTypeOK, NEW s \in Programs
  PROVE  /\ Doing(s, "defaults") /\ Goes(s, "up") /\ UNCHANGED <<version, tables, disturbed>>
           => /\ ProgramMove(s)
              /\ \A t \in Programs : Up(t)' <=> Up(t) \/ t = s
         /\ StopProgram(s)
           => /\ ProgramMove(s)
              /\ \A t \in Programs : Up(t)' <=> Up(t) /\ t # s
<1>1. program \in [Programs -> Program] /\ program[s] \in Program
  BY DEF SchemaTypeOK
<1>2. ASSUME Doing(s, "defaults"), Goes(s, "up"), UNCHANGED <<version, tables, disturbed>>
      PROVE  ProgramMove(s) /\ \A t \in Programs : Up(t)' <=> Up(t) \/ t = s
  <2> DEFINE r == [program[s] EXCEPT !.step = "up"]
  <2>1. r \in Program /\ r.step = "up" /\ program' = [program EXCEPT ![s] = r]
    BY <1>1, <1>2 DEF Program, ProgramSteps, Goes
  <2> HIDE DEF r
  <2>2. Move(s, r)
    BY <1>2, <2>1 DEF Move, Doing, Migrating
  <2>3. QED  BY <1>1, <2>1, <2>2 DEF ProgramMove, Up, Doing
<1>3. ASSUME StopProgram(s)
      PROVE  ProgramMove(s) /\ \A t \in Programs : Up(t)' <=> Up(t) /\ t # s
  <2>1. program' = [program EXCEPT ![s] = Down] /\ UNCHANGED <<version, tables>>
    BY <1>3 DEF StopProgram
  <2>2. CASE Migrating(s)
    <3>1. Move(s, Down)
      BY <1>3, <2>1, <2>2, DownTypes DEF StopProgram, Move
    <3>2. QED  BY <1>1, <2>1, <3>1, DownTypes DEF ProgramMove, Up, Doing
  <2>3. CASE ~Migrating(s)
    <3>1. UNCHANGED disturbed
      BY <1>3, <2>3 DEF StopProgram, SchemaTypeOK
    <3>2. Move(s, Down)
      BY <2>1, <2>3, <3>1, DownTypes DEF Move
    <3>3. QED  BY <1>1, <2>1, <3>2, DownTypes DEF ProgramMove, Up, Doing
  <2>4. QED  BY <2>2, <2>3
<1>4. QED  BY <1>2, <1>3

\* What was done is not taken back.
LEMMA DoneKept ==
  ASSUME SchemaTypeOK, NEW s \in Programs, Reached(s), NEW r \in Program, Move(s, r)
  PROVE  /\ schema' \in [Versions -> Progress] /\ spare' \in [Versions -> {"none", "empty", "full"}]
         /\ repeated' \subseteq Versions
         /\ \A m \in Versions : Done(m) => Done(m)'
         /\ \A m \in Versions :
              Doing(s, "apply") /\ r.step = "stamp" /\ m = program[s].next => Done(m)'
<1>0. PICK n \in Versions, k \in 1 .. 4 : n = program[s].next /\ k = program[s].statement
  BY DEF SchemaTypeOK, Program
<1>1. /\ schema \in [Versions -> Progress] /\ spare \in [Versions -> {"none", "empty", "full"}]
      /\ repeated \subseteq Versions
  BY DEF SchemaTypeOK, Program
<1>2. CASE UNCHANGED tables /\ ~(Doing(s, "apply") /\ r.step = "stamp")
  BY <1>1, <1>2 DEF Done, tables
<1>3. CASE /\ Doing(s, "apply") /\ Executes(n, k)
           /\ IF k < Last(n) THEN r.step = "apply" ELSE r.step = "stamp"
  <2>1. k <= Last(n) /\ Last(n) \in 1 .. 4
    BY <1>0, <1>3, Lasts DEF Reached, Migrating, Doing
  <2>2. r.step = "stamp" => k = Last(n)
    <3>1. r.step = "stamp" => ~(k < Last(n))
      BY <1>3
    <3>2. QED  BY <2>1, <3>1
  <2>3. /\ schema' \in [Versions -> Progress] /\ spare' \in [Versions -> {"none", "empty", "full"}]
        /\ repeated' \subseteq Versions
        /\ \A m \in Versions : Done(m) => Done(m)'
        /\ k = Last(n) => Done(n)'
    BY <1>3, <2>1, StatementKept
  <2>4. QED  BY <1>0, <2>2, <2>3
<1>4. QED  BY <1>0, <1>2, <1>3 DEF Move, Doing, Migrating

LEMMA SchemaKept ==
  ASSUME SchemaTypeOK, SchemaInv, NEW s \in Programs, NEW r \in Program, Move(s, r)
  PROVE  SchemaTypeOK' /\ SchemaInv'
<1>1. /\ program \in [Programs -> Program] /\ program[s] \in Program
      /\ program[s].next \in Versions /\ program[s].statement \in 1 .. 4
      /\ version \in 0 .. SchemaVersion
      /\ \A t \in Programs : Reached(t)
  BY DEF SchemaTypeOK, SchemaInv, Program
<1>2. program'[s] = r /\ \A t \in Programs \ {s} : program'[t] = program[t]
  BY <1>1 DEF Move
<1>3. /\ \A m \in Versions : Done(m) => Done(m)'
      /\ \A m \in Versions :
           Doing(s, "apply") /\ r.step = "stamp" /\ m = program[s].next => Done(m)'
  BY <1>1, DoneKept
<1>4. SchemaTypeOK'
  <2>1. program' \in [Programs -> Program]
    BY <1>1 DEF Move
  <2>2. version' \in 0 .. SchemaVersion
    BY <1>1 DEF Move, Versions
  <2>3. /\ schema' \in [Versions -> Progress] /\ repeated' \subseteq Versions
        /\ spare' \in [Versions -> {"none", "empty", "full"}]
    BY <1>1, DoneKept
  <2>4. disturbed' \in BOOLEAN
    BY DEF Move, SchemaTypeOK
  <2>5. QED  BY <2>1, <2>2, <2>3, <2>4 DEF SchemaTypeOK
<1>5. \A m \in Versions : m <= version' => Done(m)'
  <2>1. CASE UNCHANGED version
    BY <1>3, <2>1 DEF SchemaInv
  <2>2. CASE Doing(s, "stamp") /\ version' = program[s].next
    BY <1>1, <1>3, <2>2 DEF Reached
  <2>3. QED  BY <2>1, <2>2 DEF Move
<1>6. ASSUME NEW t \in Programs, t # s PROVE Reached(t)'
  BY <1>1, <1>2, <1>3, <1>6 DEF Reached, Doing, Migrating
<1>7. Reached(s)'
  <2>1. r.step \in {"apply", "stamp"} => r.statement <= Last(r.next)
    <3>1. \A m \in Versions : Last(m) \in 1 .. 4
      BY Lasts
    <3>2. r.next \in Versions /\ r.statement \in 1 .. 4
      BY DEF Program
    <3>3. CASE r.statement = 1
      <4>1. PICK l \in 1 .. 4 : l = Last(r.next)
        BY <3>1, <3>2
      <4>2. 1 <= l
        BY <4>1
      <4>3. QED  BY <3>3, <4>1, <4>2
    <3>4. CASE Doing(s, "apply") /\ r.next = program[s].next
               /\ IF program[s].statement < Last(program[s].next)
                  THEN r.statement = program[s].statement + 1
                  ELSE r.statement = program[s].statement
      <4>1. program[s].statement <= Last(program[s].next)
        BY <1>1, <3>4 DEF Reached, Migrating, Doing
      <4>2. Last(program[s].next) \in 1 .. 4
        BY <1>1, <3>1
      <4>3. PICK i, j, l \in 1 .. 4 : /\ i = program[s].statement /\ j = r.statement
                                     /\ l = Last(program[s].next)
        BY <1>1, <3>2, <4>2
      <4>4. i <= l /\ (IF i < l THEN j = i + 1 ELSE j = i)
        BY <3>4, <4>1, <4>3
      <4>5. j <= l
        BY <4>4
      <4>6. QED  BY <3>4, <4>3, <4>5
    <3>5. QED  BY <3>3, <3>4 DEF Move
  <2>2. r.step = "apply" => \A m \in Versions : m < r.next => Done(m)
    <3>1. CASE r.next = version + 1
      BY <1>1, <3>1 DEF SchemaInv, Versions
    <3>2. CASE Doing(s, "apply") /\ r.next = program[s].next
      BY <1>1, <3>2 DEF Reached
    <3>3. CASE Doing(s, "stamp") /\ r.next = program[s].next + 1
      BY <1>1, <3>3 DEF Reached, Versions
    <3>4. QED  BY <3>1, <3>2, <3>3 DEF Move
  <2>3. r.step = "stamp" =>
          /\ Doing(s, "apply") /\ r.next = program[s].next
          /\ \A m \in Versions : m < r.next => Done(m)
    BY <1>1 DEF Move, Reached
  <2>4. r.step \in {"defaults", "up"} => \A m \in Versions : Done(m)
    <3>1. CASE version >= SchemaVersion
      BY <1>1, <3>1 DEF SchemaInv, Versions
    <3>2. CASE Doing(s, "stamp") /\ ~(program[s].next < SchemaVersion)
      BY <1>1, <3>2 DEF Reached, Versions
    <3>3. CASE Doing(s, "defaults")
      BY <1>1, <3>3 DEF Reached, Doing
    <3>4. QED  BY <3>1, <3>2, <3>3 DEF Move
  <2>5. r.step = "stamp" => \A m \in Versions : m <= r.next => Done(m)'
    <3>1. r.next \in Versions
      BY DEF Program
    <3>2. QED  BY <1>3, <2>3, <3>1 DEF Versions
  <2>6. QED  BY <1>2, <1>3, <2>1, <2>2, <2>4, <2>5 DEF Reached, Doing, Migrating
<1>8. QED  BY <1>4, <1>5, <1>6, <1>7 DEF SchemaInv

\* Runs that are not disturbed find what the last one has left.
LEMMA CleanKept ==
  ASSUME SchemaTypeOK, SchemaInv, disturbed \/ Clean, NEW s \in Programs,
         NEW r \in Program, Move(s, r), ~disturbed'
  PROVE  Clean'
<1> DEFINE Busy(t) == program'[t].step \in {"apply", "stamp"}
<1>1. PICK n \in Versions, k \in 1 .. 4 : n = program[s].next /\ k = program[s].statement
  BY DEF SchemaTypeOK, Program
<1>2. PICK n2 \in Versions, k2 \in 1 .. 4 : n2 = r.next /\ k2 = r.statement
  BY DEF Program
<1>3. /\ program \in [Programs -> Program] /\ version \in 0 .. SchemaVersion
      /\ program'[s] = r /\ \A t \in Programs \ {s} : program'[t] = program[t]
  BY DEF SchemaTypeOK, Move
<1>4. Clean
  BY DEF Move, Migrating
<1>5. SUFFICES
        /\ repeated' = {}
        /\ r.step # "failed"
        /\ \A t, u \in Programs : Busy(t) /\ Busy(u) => t = u
        /\ \A t \in Programs : Busy(t) => program'[t].next = version' + 1
        /\ \A t \in Programs : program'[t].step = "apply" =>
             Begun(program[t].next, program[t].statement)'
        /\ \A m \in Versions :
             m > version' + 1 \/ (m = version' + 1 /\ \A t \in Programs : ~Busy(t))
             => Untouched(m)'
  <2>1. \A t \in Programs : t # s => program'[t].step # "failed"
    BY <1>3, <1>4 DEF Clean, Doing
  <2>2. QED  BY <1>3, <2>1 DEF Clean, Doing, Migrating
<1>6. UNCHANGED tables =>
        /\ repeated' = {}
        /\ \A m \in Versions : Untouched(m) => Untouched(m)' /\ Begun(m, 1)'
        /\ \A t \in Programs : program'[t] = program[t] /\ Doing(t, "apply") =>
             Begun(program[t].next, program[t].statement)'
  BY <1>4 DEF Clean, tables, Untouched, Begun
<1>7. Migrating(s) => /\ n = version + 1
                      /\ \A t \in Programs : t # s => program[t].step \notin {"apply", "stamp"}
  BY <1>1, <1>4 DEF Clean, Migrating
<1>8. \A m \in Versions : m > version + 1 => Untouched(m)
  BY <1>4 DEF Clean
<1>9. CASE /\ ~Migrating(s) /\ r.step \in {"down", "init", "run", "defaults", "up"}
           /\ UNCHANGED <<version, tables>>
  <2>1. \A t \in Programs : Busy(t) <=> Migrating(t)
    BY <1>3, <1>9 DEF Migrating
  <2>2. \A t \in Programs : Migrating(t) => program'[t] = program[t]
    BY <1>3, <1>9
  <2>3. \A t \in Programs : program'[t].step = "apply" => Doing(t, "apply") /\ program'[t] = program[t]
    BY <1>3, <1>9 DEF Doing
  <2>4. \A t \in Programs : program'[t].step = "apply" =>
          Begun(program[t].next, program[t].statement)'
    BY <1>6, <1>9, <2>3
  <2>5. \A m \in Versions :
          m > version' + 1 \/ (m = version' + 1 /\ \A t \in Programs : ~Busy(t)) => Untouched(m)'
    BY <1>4, <1>6, <1>9, <2>1 DEF Clean
  <2>6. QED  BY <1>4, <1>6, <1>9, <2>1, <2>2, <2>4, <2>5 DEF Clean
<1>10. CASE /\ ~Migrating(s) /\ r.step = "apply" /\ r.next = version + 1 /\ r.statement = 1
            /\ disturbed' = (disturbed \/ \E t \in Programs \ {s} : Migrating(t))
            /\ UNCHANGED <<version, tables>>
  <2>1. \A t \in Programs : ~Migrating(t)
    BY <1>10
  <2>2. \A t \in Programs : Busy(t) => t = s
    BY <1>3, <2>1 DEF Migrating
  <2>3. Begun(n2, 1)'
    BY <1>2, <1>4, <1>6, <1>10, <2>1 DEF Clean
  <2>4. Begun(program[s].next, program[s].statement)'
    BY <1>2, <1>3, <1>10, <2>3
  <2>5. Busy(s)
    BY <1>3, <1>10
  <2>6. \A m \in Versions : m > version + 1 => Untouched(m)'
    BY <1>6, <1>8, <1>10
  <2>7. \A t \in Programs : program'[t].step = "apply" => t = s
    BY <2>2
  <2>8. QED  BY <1>3, <1>6, <1>10, <2>2, <2>4, <2>5, <2>6, <2>7
<1>11. CASE /\ Doing(s, "apply") /\ Executes(n, k)
            /\ IF k < Last(n) THEN r.step = "apply" /\ r.statement = k + 1
               ELSE r.step = "stamp" /\ r.statement = k
            /\ r.next = n /\ UNCHANGED version
  <2>1. Migrating(s) /\ n = version + 1
    BY <1>7, <1>11 DEF Migrating, Doing
  <2>2. \A t \in Programs : Busy(t) => t = s
    BY <1>3, <1>7, <2>1
  <2>3. k <= Last(n) /\ Begun(n, k) /\ repeated = {}
    BY <1>1, <1>4, <1>11, <2>1 DEF SchemaInv, Reached, Clean
  <2>4. /\ repeated' = {}
        /\ k < Last(n) => Begun(n, k + 1)'
        /\ \A m \in Versions : m # n /\ Untouched(m) => Untouched(m)'
    BY <1>11, <2>3, StatementClean
  <2>5. r.step = "apply" => Begun(program[s].next, program[s].statement)'
    BY <1>3, <1>11, <2>4
  <2>6. \A m \in Versions : m > version + 1 => m # n /\ Untouched(m)'
    BY <1>3, <1>8, <2>1, <2>4 DEF Versions
  <2>7. Busy(s) /\ r.step # "failed" /\ version' = version /\ program'[s].next = version + 1
    BY <1>3, <1>11, <2>1
  <2>8. \A t \in Programs : program'[t].step = "apply" =>
          Begun(program[t].next, program[t].statement)'
    BY <1>3, <2>2, <2>5
  <2>9. QED  BY <2>2, <2>4, <2>6, <2>7, <2>8
<1>12. CASE /\ Doing(s, "apply")
            /\ ~Finds(n, k) \/ (Kind[n] = "rebuild" /\ k = 2 /\ spare[n] = "full")
  <2>1. Migrating(s)
    BY <1>12 DEF Migrating, Doing
  <2>2. k <= Last(n) /\ Begun(n, k) /\ repeated = {}
    BY <1>1, <1>4, <1>12, <2>1 DEF SchemaInv, Reached, Clean
  <2>3. QED  BY <1>12, <2>2, StatementClean
<1>13. CASE /\ Doing(s, "stamp") /\ version' = n
            /\ IF n < SchemaVersion THEN r.step = "apply" /\ r.next = n + 1 /\ r.statement = 1
               ELSE r.step \in {"run", "defaults"}
            /\ UNCHANGED tables
  <2>1. Migrating(s) /\ n = version + 1
    BY <1>7, <1>13 DEF Migrating, Doing
  <2>2. \A t \in Programs : Busy(t) => t = s
    BY <1>3, <1>7, <2>1
  <2>3. \A m \in Versions : m > n => Untouched(m) /\ Untouched(m)' /\ Begun(m, 1)'
    BY <1>6, <1>8, <1>13, <2>1
  <2>4. CASE n < SchemaVersion
    <3>1. r.next = version' + 1 /\ r.step = "apply" /\ r.statement = 1 /\ Busy(s)
      BY <1>3, <1>13, <2>4
    <3>2. n2 > n
      BY <1>2, <1>13, <2>4 DEF Versions
    <3>3. Begun(program[s].next, program[s].statement)'
      BY <1>2, <1>3, <2>3, <3>1, <3>2
    <3>4. \A m \in Versions : m > version' + 1 \/ m = version' + 1 => Untouched(m)'
      BY <1>13, <2>3 DEF Versions
    <3>5. \A t \in Programs : program'[t].step = "apply" => t = s
      BY <2>2
    <3>6. QED  BY <1>3, <1>6, <1>13, <2>2, <3>1, <3>3, <3>4, <3>5
  <2>5. CASE ~(n < SchemaVersion)
    <3>1. \A t \in Programs : ~Busy(t)
      BY <1>3, <1>13, <2>2, <2>5
    <3>2. \A m \in Versions : ~(m > version' + 1 \/ m = version' + 1)
      BY <1>13, <2>5 DEF Versions
    <3>3. r.step # "failed"
      BY <1>13, <2>5
    <3>4. QED  BY <1>6, <1>13, <3>1, <3>2, <3>3
  <2>6. QED  BY <2>4, <2>5
<1>14. QED
  BY <1>1, <1>9, <1>10, <1>11, <1>12, <1>13 DEF Move

-----------------------------------------------------------------------------
(* The requests.                                                           *)

\* What memory holds once it has been loaded stays when it is loaded again.
LEMMA LoadedTwice ==
  ASSUME NEW k \in Keys, NEW stored \in Values \cup {None}, NEW old \in Values
  PROVE  /\ Loaded(k, stored, old) \in Values
         /\ Loaded(k, stored, Loaded(k, stored, old)) = Loaded(k, stored, old)
<1>1. CASE stored = None
  BY <1>1 DEF Loaded
<1>2. CASE stored # None /\ stored \in Readable[k]
  BY <1>2 DEF Loaded
<1>3. CASE stored # None /\ stored \notin Readable[k]
  <2>1. \A o : Loaded(k, stored, o) = IF Fallback[k] # None THEN Fallback[k] ELSE o
    BY <1>3 DEF Loaded
  <2>2. Fallback[k] \in Values \cup {None}
    OBVIOUS
  <2>3. QED  BY <2>1, <2>2
<1>4. QED  BY <1>1, <1>2, <1>3

\* What a request, and r, what it holds then, does to the settings.
ConfigMove(p, r) ==
  \/ /\ \/ At(p, "idle") /\ r.step = "set" /\ Up(Main)
        \/ At(p, "mark") /\ r.step = "load" /\ req[p].home = Main
     /\ stale' = (stale \/ \E q \in Procs \ {p} : Reloading(q)) /\ reader' = None
     /\ UNCHANGED <<setting, config>>
  \/ /\ At(p, "set") /\ r.step \in {"set", "load"} /\ UNCHANGED <<config, stale, reader>>
  \/ /\ At(p, "set") \/ At(p, "load")
     /\ r.step = "idle" /\ stale' = TRUE /\ UNCHANGED <<setting, config, reader>>
  \/ /\ At(p, "load") /\ r.step = "copy" /\ r.todo = setting
     /\ reader' = IF \E q \in Procs \ {p} : Reloading(q) THEN None ELSE p
     /\ UNCHANGED <<setting, config, stale>>
  \/ /\ At(p, "copy") /\ r.step = "assign"
     /\ \A k \in Keys : r.todo[k] = Loaded(k, req[p].todo[k], config[k])
     /\ UNCHANGED settingVars
  \/ /\ At(p, "assign") /\ r.step = "assign" /\ UNCHANGED <<setting, stale, reader>>
     /\ \E k \in Keys :
          /\ req[p].todo[k] # None
          /\ config' = [config EXCEPT ![k] = req[p].todo[k]]
          /\ r.todo = [req[p].todo EXCEPT ![k] = None]
  \/ /\ At(p, "assign") /\ r.step = "idle" /\ req[p].todo = Nothing
     /\ stale' = (stale /\ reader # p) /\ reader' = None
     /\ UNCHANGED <<setting, config>>
  \/ /\ ~Changing(p) /\ r.step \notin {"set", "load", "copy", "assign"}
     /\ UNCHANGED settingVars

\* And to the users.
UsersMove(p, r) ==
  \/ /\ r.step \notin {"create", "promote"} /\ ~At(p, "promote") /\ UNCHANGED <<user, lost>>
  \/ /\ r.step = "create" /\ (\A u \in Users : user[u] = "none") /\ ~At(p, "promote")
     /\ UNCHANGED <<user, lost>>
  \/ /\ At(p, "create") /\ r.step = "promote" /\ r.user \in Users /\ user[r.user] = "none"
     /\ user' = [user EXCEPT ![r.user] = "user"] /\ UNCHANGED lost
  \/ /\ At(p, "promote") /\ r.step \notin {"create", "promote"}
     /\ user' = [user EXCEPT ![req[p].user] = "admin"] /\ UNCHANGED lost
  \/ /\ At(p, "promote") /\ r.step \notin {"create", "promote"}
     /\ lost' = TRUE /\ UNCHANGED user

\* A request belongs to a program that serves.
Belongs(p, r) ==
  /\ r.step # "idle" => Up(r.home) \/ (~At(p, "idle") /\ r.home = req[p].home)
  /\ r.step \in {"idle", "set", "load", "copy", "assign"} => r.home = Main

Tables ==
  /\ setting \in [Keys -> Values \cup {None}] /\ onboarded \in BOOLEAN
  /\ config \in [Keys -> Values]
  /\ user \in [Users -> {"none", "user", "admin"}]
  /\ stale \in BOOLEAN /\ reader \in Procs \cup {None} /\ lost \in BOOLEAN

RequestMove(p) ==
  /\ \E r \in Request : /\ req' = [req EXCEPT ![p] = r]
                        /\ Belongs(p, r) /\ ConfigMove(p, r) /\ UsersMove(p, r)
  /\ Tables'
  /\ UNCHANGED schemaVars

LEMMA IdleTypes ==
  /\ Nothing \in [Keys -> Values \cup {None}]
  /\ Idle \in Request /\ Idle.step = "idle" /\ Idle.home = Main
<1>1. Nothing \in [Keys -> Values \cup {None}]
  BY DEF Nothing
<1>2. Idle \in Request /\ Idle.step = "idle" /\ Idle.home = Main
  BY <1>1 DEF Idle, Request, ReqSteps
<1>3. QED  BY <1>1, <1>2

LEMMA StepMoves ==
  ASSUME TypeOK, Homes, NEW p \in Procs, Step(p),
         At(p, "promote") => req[p].user \in Users
  PROVE  RequestMove(p)
<1>1. /\ Tables /\ req \in [Procs -> Request] /\ req[p] \in Request
      /\ req[p].todo \in [Keys -> Values \cup {None}]
  BY DEF TypeOK, Tables, Request
<1>2. ASSUME NEW r \in Request, req' = [req EXCEPT ![p] = r], Belongs(p, r),
             ConfigMove(p, r), UsersMove(p, r), Tables', UNCHANGED schemaVars
      PROVE  RequestMove(p)
  BY <1>2 DEF RequestMove
<1>3. \A step \in ReqSteps : /\ [req[p] EXCEPT !.step = step] \in Request
                             /\ [req[p] EXCEPT !.step = step].step = step
                             /\ [req[p] EXCEPT !.step = step].home = req[p].home
                             /\ [req[p] EXCEPT !.step = step].todo = req[p].todo
                             /\ [req[p] EXCEPT !.step = step].user = req[p].user
  BY <1>1 DEF Request
<1>4. \A step \in ReqSteps :
        GoTo(p, step) => req' = [req EXCEPT ![p] = [req[p] EXCEPT !.step = step]]
  BY <1>1 DEF GoTo
<1>5. Ends(p) => req' = [req EXCEPT ![p] = Idle]
  BY DEF Ends
<1>6. Idle \in Request /\ Idle.step = "idle" /\ Idle.home = Main
  BY IdleTypes
<1>7. UNCHANGED <<setting, config, stale, reader, onboarded, user, lost>> => Tables'
  BY <1>1 DEF Tables
<1>8. \A k \in Keys : /\ [req[p].todo EXCEPT ![k] = None] \in [Keys -> Values \cup {None}]
                      /\ [req[p] EXCEPT !.todo = [req[p].todo EXCEPT ![k] = None]] \in Request
  BY <1>1 DEF Request
<1>10. ASSUME NEW updates \in Updates, PutSettings(p, updates) PROVE RequestMove(p)
  <2> DEFINE r == [Idle EXCEPT !.step = "set", !.todo = updates]
  <2>1. r \in Request /\ r.step = "set" /\ r.home = Main
    BY IdleTypes DEF Request, ReqSteps
  <2>2. /\ req' = [req EXCEPT ![p] = r] /\ At(p, "idle") /\ Up(Main) /\ Overlaps(p)
        /\ UNCHANGED <<schemaVars, setting, config, userVars>>
    BY <1>10 DEF PutSettings, Served
  <2> HIDE DEF r
  <2>3. stale' = (stale \/ \E q \in Procs \ {p} : Reloading(q)) /\ reader' = None
    BY <2>2 DEF Overlaps, Homes
  <2>4. Belongs(p, r) /\ UsersMove(p, r) /\ Tables'
    BY <1>1, <2>1, <2>2, <2>3 DEF Belongs, UsersMove, userVars, Tables, At
  <2>5. ConfigMove(p, r)
    BY <2>1, <2>2, <2>3 DEF ConfigMove
  <2>6. QED  BY <1>2, <2>1, <2>2, <2>4, <2>5
<1>11. ASSUME NEW k \in Keys, SetSetting(p, k) PROVE RequestMove(p)
  <2> DEFINE r == [req[p] EXCEPT !.todo = [req[p].todo EXCEPT ![k] = None]]
  <2>1. r \in Request /\ r.step = req[p].step /\ r.home = req[p].home
    BY <1>1, <1>8 DEF Request
  <2>2. /\ req' = [req EXCEPT ![p] = r] /\ At(p, "set")
        /\ setting' = [setting EXCEPT ![k] = req[p].todo[k]] /\ req[p].todo[k] # None
        /\ UNCHANGED <<schemaVars, config, stale, reader, userVars>>
    BY <1>1, <1>11 DEF SetSetting
  <2> HIDE DEF r
  <2>3. req[p].todo[k] \in Values
    BY <1>1, <2>2
  <2>4. Belongs(p, r) /\ UsersMove(p, r)
    BY <2>1, <2>2 DEF Belongs, UsersMove, userVars, At, Homes, Changing
  <2>5. Tables'
    BY <1>1, <2>2, <2>3 DEF userVars, Tables
  <2>6. ConfigMove(p, r)
    BY <2>1, <2>2, <2>3 DEF ConfigMove, At
  <2>7. QED  BY <1>2, <2>1, <2>2, <2>4, <2>5, <2>6
<1>12. ASSUME SetSettingFails(p) PROVE RequestMove(p)
  <2>1. /\ req' = [req EXCEPT ![p] = Idle] /\ At(p, "set") /\ stale' = TRUE
        /\ UNCHANGED <<schemaVars, setting, config, reader, userVars>>
    BY <1>5, <1>12 DEF SetSettingFails
  <2>2. Belongs(p, Idle) /\ UsersMove(p, Idle) /\ Tables' /\ ConfigMove(p, Idle)
    BY <1>1, <1>6, <2>1 DEF Belongs, UsersMove, ConfigMove, userVars, Tables, At, Changing
  <2>3. QED  BY <1>2, <1>6, <2>1, <2>2
<1>13. ASSUME AllSet(p) PROVE RequestMove(p)
  <2> DEFINE r == [req[p] EXCEPT !.step = "load"]
  <2>1. "load" \in ReqSteps
    BY DEF ReqSteps
  <2>2. r \in Request /\ r.step = "load" /\ r.home = req[p].home /\ req' = [req EXCEPT ![p] = r]
    BY <1>3, <1>4, <1>13, <2>1 DEF AllSet
  <2> HIDE DEF r
  <2>3. At(p, "set") /\ UNCHANGED <<schemaVars, settingVars, userVars>>
    BY <1>13 DEF AllSet
  <2>4. Belongs(p, r) /\ UsersMove(p, r) /\ ConfigMove(p, r) /\ Tables'
    BY <1>7, <2>2, <2>3 DEF Belongs, UsersMove, ConfigMove, settingVars, userVars, At, Homes, Changing
  <2>5. QED  BY <1>2, <2>2, <2>3, <2>4
<1>14. ASSUME GetAllSettings(p) PROVE RequestMove(p)
  <2>1. At(p, "load") /\ UNCHANGED <<schemaVars, setting, config, userVars>>
    BY <1>14 DEF GetAllSettings
  <2>2. CASE /\ req' = [req EXCEPT ![p].step = "copy", ![p].todo = setting]
             /\ reader' = IF \E q \in Procs \ {p} : Reloading(q) THEN None ELSE p
             /\ UNCHANGED stale
    <3> DEFINE r == [req[p] EXCEPT !.step = "copy", !.todo = setting]
    <3>1. r \in Request /\ r.step = "copy" /\ r.home = req[p].home /\ r.todo = setting
      BY <1>1 DEF Request, ReqSteps, Tables
    <3>2. req' = [req EXCEPT ![p] = r]
      BY <1>1, <2>2
    <3> HIDE DEF r
    <3>3. Belongs(p, r) /\ UsersMove(p, r)
      BY <2>1, <3>1 DEF Belongs, UsersMove, userVars, At, Homes, Changing
    <3>4. ConfigMove(p, r)
      BY <2>1, <2>2, <3>1 DEF ConfigMove
    <3>5. Tables'
      BY <1>1, <2>1, <2>2 DEF Tables, userVars
    <3>6. QED  BY <1>2, <2>1, <3>1, <3>2, <3>3, <3>4, <3>5
  <2>3. CASE stale' = TRUE /\ Ends(p) /\ UNCHANGED reader
    <3>1. Belongs(p, Idle) /\ UsersMove(p, Idle) /\ ConfigMove(p, Idle) /\ Tables'
      BY <1>1, <1>6, <2>1, <2>3 DEF Belongs, UsersMove, ConfigMove, userVars, Tables, At, Changing
    <3>2. QED  BY <1>2, <1>5, <1>6, <2>1, <2>3, <3>1
  <2>4. QED  BY <1>14, <2>2, <2>3 DEF GetAllSettings
<1>22. ASSUME ParseSettings(p) PROVE RequestMove(p)
  <2> DEFINE loaded == [k \in Keys |-> Loaded(k, req[p].todo[k], config[k])]
             r == [req[p] EXCEPT !.step = "assign", !.todo = loaded]
  <2>1. loaded \in [Keys -> Values \cup {None}]
    BY <1>1, LoadedTwice DEF Tables
  <2>2. /\ At(p, "copy") /\ UNCHANGED <<schemaVars, settingVars, userVars>>
        /\ req' = [req EXCEPT ![p] = r]
    BY <1>1, <1>22 DEF ParseSettings
  <2>3. \A k \in Keys : loaded[k] = Loaded(k, req[p].todo[k], config[k])
    OBVIOUS
  <2> HIDE DEF loaded
  <2>4. r \in Request /\ r.step = "assign" /\ r.home = req[p].home /\ r.todo = loaded
    BY <1>1, <2>1 DEF Request, ReqSteps
  <2> HIDE DEF r
  <2>5. Belongs(p, r) /\ UsersMove(p, r) /\ Tables'
    BY <1>7, <2>2, <2>4 DEF Belongs, UsersMove, settingVars, userVars, At, Homes, Changing
  <2>6. ConfigMove(p, r)
    BY <2>2, <2>3, <2>4 DEF ConfigMove
  <2>7. QED  BY <1>2, <2>2, <2>4, <2>5, <2>6
<1>15. ASSUME NEW k \in Keys, AssignConfig(p, k) PROVE RequestMove(p)
  <2> DEFINE r == [req[p] EXCEPT !.todo = [req[p].todo EXCEPT ![k] = None]]
  <2>1. /\ r \in Request /\ r.step = req[p].step /\ r.home = req[p].home
        /\ r.todo = [req[p].todo EXCEPT ![k] = None]
    BY <1>1, <1>8 DEF Request
  <2>2. /\ req' = [req EXCEPT ![p] = r] /\ At(p, "assign")
        /\ config' = [config EXCEPT ![k] = req[p].todo[k]] /\ req[p].todo[k] # None
        /\ UNCHANGED <<schemaVars, setting, stale, reader, userVars>>
    BY <1>1, <1>15 DEF AssignConfig
  <2> HIDE DEF r
  <2>3. req[p].todo[k] \in Values
    BY <1>1, <2>2
  <2>4. Belongs(p, r) /\ UsersMove(p, r)
    BY <2>1, <2>2 DEF Belongs, UsersMove, userVars, At, Homes, Changing
  <2>5. Tables'
    BY <1>1, <2>2, <2>3 DEF userVars, Tables
  <2>6. ConfigMove(p, r)
    BY <2>1, <2>2, <2>3 DEF ConfigMove, At
  <2>7. QED  BY <1>2, <2>1, <2>2, <2>4, <2>5, <2>6
<1>16. ASSUME CreateUserFails(p) PROVE RequestMove(p)
  <2>1. req' = [req EXCEPT ![p] = Idle] /\ UNCHANGED <<schemaVars, settingVars, userVars>>
    BY <1>5, <1>16 DEF CreateUserFails
  <2>2. Belongs(p, Idle) /\ UsersMove(p, Idle) /\ ConfigMove(p, Idle) /\ Tables'
    BY <1>6, <1>7, <1>16, <2>1
       DEF CreateUserFails, Belongs, UsersMove, ConfigMove, settingVars, userVars, At, Changing
  <2>3. QED  BY <1>2, <1>6, <2>1, <2>2
<1>23. ASSUME Assigned(p) PROVE RequestMove(p)
  <2>1. /\ At(p, "assign") /\ req[p].todo = Nothing /\ req' = [req EXCEPT ![p] = Idle]
        /\ stale' = (stale /\ reader # p) /\ reader' = None
        /\ UNCHANGED <<schemaVars, setting, config, userVars>>
    BY <1>5, <1>23 DEF Assigned
  <2>2. Belongs(p, Idle) /\ UsersMove(p, Idle) /\ Tables'
    BY <1>1, <1>6, <2>1 DEF Belongs, UsersMove, userVars, At, Tables
  <2>3. ConfigMove(p, Idle)
    BY <1>6, <2>1 DEF ConfigMove
  <2>4. QED  BY <1>2, <1>6, <2>1, <2>2, <2>3
<1>17. ASSUME NEW s \in Programs, CountUsers(p, s) PROVE RequestMove(p)
  <2> DEFINE r == [Idle EXCEPT !.step = "create", !.home = s]
  <2>1. r \in Request /\ r.step = "create" /\ r.home = s
    BY <1>6 DEF Request, ReqSteps
  <2>2. /\ req' = [req EXCEPT ![p] = r] /\ At(p, "idle") /\ Up(s)
        /\ (\A u \in Users : user[u] = "none")
        /\ UNCHANGED <<schemaVars, settingVars, userVars>>
    BY <1>17 DEF CountUsers, Served, NotOnboarded
  <2> HIDE DEF r
  <2>3. Belongs(p, r) /\ UsersMove(p, r) /\ ConfigMove(p, r) /\ Tables'
    BY <1>7, <2>1, <2>2 DEF Belongs, UsersMove, ConfigMove, settingVars, userVars, At, Changing
  <2>4. QED  BY <1>2, <2>1, <2>2, <2>3
<1>18. ASSUME NEW u \in Users, CreateUser(p, u) PROVE RequestMove(p)
  <2> DEFINE r == [req[p] EXCEPT !.step = "promote", !.user = u]
  <2>1. r \in Request /\ r.step = "promote" /\ r.home = req[p].home /\ r.user = u
    BY <1>1 DEF Request, ReqSteps
  <2>2. /\ req' = [req EXCEPT ![p] = r] /\ At(p, "create")
        /\ user[u] = "none" /\ user' = [user EXCEPT ![u] = "user"]
        /\ UNCHANGED <<schemaVars, settingVars, onboarded, lost>>
    BY <1>1, <1>18 DEF CreateUser
  <2> HIDE DEF r
  <2>3. Belongs(p, r) /\ UsersMove(p, r) /\ ConfigMove(p, r)
    BY <2>1, <2>2 DEF Belongs, UsersMove, ConfigMove, settingVars, At, Changing
  <2>4. Tables'
    BY <1>1, <2>2 DEF Tables, settingVars
  <2>5. QED  BY <1>2, <2>1, <2>2, <2>3, <2>4
<1>19. ASSUME PromoteUser(p) PROVE RequestMove(p)
  <2> DEFINE r == [req[p] EXCEPT !.step = "mark"]
  <2>1. "mark" \in ReqSteps
    BY DEF ReqSteps
  <2>2. r \in Request /\ r.step = "mark" /\ r.home = req[p].home
    BY <1>3, <2>1
  <2>3. GoTo(p, "mark") => req' = [req EXCEPT ![p] = r]
    BY <1>4, <2>1
  <2> HIDE DEF r
  <2>4. At(p, "promote") /\ UNCHANGED <<schemaVars, settingVars, onboarded>> /\ req[p].user \in Users
    BY <1>19 DEF PromoteUser
  <2>5. CASE user' = [user EXCEPT ![req[p].user] = "admin"] /\ GoTo(p, "mark") /\ UNCHANGED lost
    <3>1. Belongs(p, r) /\ UsersMove(p, r) /\ ConfigMove(p, r)
      BY <2>2, <2>4, <2>5 DEF Belongs, UsersMove, ConfigMove, settingVars, At, Changing
    <3>2. Tables'
      BY <1>1, <2>4, <2>5 DEF Tables, settingVars
    <3>3. QED  BY <1>2, <2>2, <2>3, <2>4, <2>5, <3>1, <3>2
  <2>6. CASE lost' = TRUE /\ UNCHANGED user /\ GoTo(p, "mark")
    <3>1. Belongs(p, r) /\ UsersMove(p, r) /\ ConfigMove(p, r) /\ Tables'
      BY <1>1, <2>2, <2>4, <2>6
         DEF Belongs, UsersMove, ConfigMove, settingVars, At, Changing, Tables
    <3>2. QED  BY <1>2, <2>2, <2>3, <2>4, <2>6, <3>1
  <2>7. CASE lost' = TRUE /\ UNCHANGED user /\ Ends(p)
    <3>1. Belongs(p, Idle) /\ UsersMove(p, Idle) /\ ConfigMove(p, Idle) /\ Tables'
      BY <1>1, <1>6, <2>4, <2>7
         DEF Belongs, UsersMove, ConfigMove, settingVars, At, Changing, Tables
    <3>2. QED  BY <1>2, <1>5, <1>6, <2>4, <2>7, <3>1
  <2>8. QED  BY <1>19, <2>5, <2>6, <2>7 DEF PromoteUser
<1>20. ASSUME MarkOnboarded(p) \/ MarkFails(p) PROVE RequestMove(p)
  <2> DEFINE r == IF req[p].home = Main THEN [Idle EXCEPT !.step = "load"] ELSE Idle
  <2>1. /\ r \in Request /\ r.home = Main
        /\ r.step = IF req[p].home = Main THEN "load" ELSE "idle"
    <3>1. /\ [Idle EXCEPT !.step = "load"] \in Request /\ [Idle EXCEPT !.step = "load"].home = Main
          /\ [Idle EXCEPT !.step = "load"].step = "load"
      BY <1>6 DEF Request, ReqSteps
    <3>2. QED  BY <1>6, <3>1
  <2>2. req' = [req EXCEPT ![p] = r]
    BY <1>1, <1>20 DEF MarkOnboarded, MarkFails, Reloads
  <2> HIDE DEF r
  <2>3. /\ At(p, "mark") /\ Overlaps(p) /\ UNCHANGED <<schemaVars, setting, config, user, lost>>
        /\ onboarded' \in BOOLEAN
    BY <1>1, <1>20 DEF MarkOnboarded, MarkFails, userVars, Tables
  <2>4. stale' \in BOOLEAN /\ reader' \in Procs \cup {None}
    BY <1>1, <2>3 DEF Overlaps, Tables
  <2>5. Up(req[p].home)
    BY <2>3 DEF Homes, At
  <2>6. Belongs(p, r) /\ UsersMove(p, r)
    BY <2>1, <2>3, <2>5 DEF Belongs, UsersMove, At
  <2>7. Tables'
    BY <1>1, <2>3, <2>4 DEF Tables
  <2>8. ConfigMove(p, r)
    <3>1. CASE req[p].home = Main
      BY <2>1, <2>3, <3>1 DEF ConfigMove, Overlaps
    <3>2. CASE req[p].home # Main
      <4>1. UNCHANGED <<stale, reader>>
        BY <1>1, <2>3, <3>2 DEF Overlaps, Tables
      <4>2. QED  BY <2>1, <2>3, <3>2, <4>1 DEF ConfigMove, At, Changing, settingVars
    <3>3. QED  BY <3>1, <3>2
  <2>9. QED  BY <1>2, <2>1, <2>2, <2>3, <2>6, <2>7, <2>8
<1>21. QED
  BY <1>10, <1>11, <1>12, <1>13, <1>14, <1>15, <1>16, <1>17, <1>18, <1>19, <1>20, <1>22,
     <1>23 DEF Step

-----------------------------------------------------------------------------
(* Requests, settings and users after a step of a request.                 *)

LEMMA HomesKept ==
  ASSUME TypeOK, Homes, NEW p \in Procs, RequestMove(p)
  PROVE  Homes'
<1>1. PICK r \in Request : req' = [req EXCEPT ![p] = r] /\ Belongs(p, r)
  BY DEF RequestMove
<1>2. req'[p] = r /\ \A q \in Procs \ {p} : req'[q] = req[q]
  BY <1>1 DEF TypeOK
<1>3. \A s : Up(s)' <=> Up(s)
  BY DEF RequestMove, schemaVars, Up, Doing
<1>4. ASSUME NEW q \in Procs
      PROVE  /\ req'[q].step # "idle" => Up(req'[q].home)
             /\ req'[q].step \in {"idle", "set", "load", "copy", "assign"} => req'[q].home = Main
  <2>1. CASE q = p
    BY <1>1, <1>2, <2>1 DEF Belongs, Homes, At
  <2>2. CASE q # p
    BY <1>2, <2>2 DEF Homes, At, Changing
  <2>3. QED  BY <2>1, <2>2
<1>5. program' = program
  BY DEF RequestMove, schemaVars
<1>6. QED  BY <1>4, <1>5 DEF Homes, At, Changing, Up, Doing

LEMMA ConfigKept ==
  ASSUME TypeOK, Homes, ConfigInv, NEW p \in Procs, RequestMove(p)
  PROVE  ConfigInv'
<1>1. PICK r \in Request : req' = [req EXCEPT ![p] = r] /\ ConfigMove(p, r)
  BY DEF RequestMove
<1>2. req'[p] = r /\ \A q \in Procs \ {p} : req'[q] = req[q]
  BY <1>1 DEF TypeOK
<1>3. Up(Main)' <=> Up(Main)
  BY DEF RequestMove, schemaVars, Up, Doing
<1>4. /\ setting \in [Keys -> Values \cup {None}] /\ config \in [Keys -> Values]
      /\ req[p].todo \in [Keys -> Values \cup {None}] /\ reader \in Procs \cup {None}
  BY DEF TypeOK, Request
<1>5. \A q \in Procs : Changing(q) <=> Reloading(q)
  BY DEF Homes, Changing, Reloading
\* Who changes the settings and is not the reader has no reader beside it.
<1>6. Changing(p) /\ reader # p => reader = None
  BY <1>4 DEF ConfigInv, ReaderInv
<1>7. (At(p, "set") \/ At(p, "load")) /\ reader = p => FALSE
  BY DEF ConfigInv, ReaderInv, At
<1> DEFINE Change(q) == req'[q].step \in {"set", "load", "copy", "assign"}
           Loads(q) == req'[q].step \in {"copy", "assign"}
<1>8. \A q \in Procs \ {p} : /\ Change(q) <=> Changing(q)
                             /\ Loads(q) <=> At(q, "copy") \/ At(q, "assign")
  BY <1>2 DEF Changing, At
<1>9. ASSUME reader' = None,
             Up(Main) /\ ~stale' =>
               /\ \A q, t \in Procs : Change(q) /\ Change(t) => q = t
               /\ \A q \in Procs : ~Loads(q)
               /\ (\A q \in Procs : ~Change(q)) => \A k \in Keys : Current(k)'
      PROVE  ConfigInv'
  <2>1. ReaderInv'
    BY <1>9 DEF ReaderInv
  <2>2. QED  BY <1>3, <1>9, <2>1 DEF ConfigInv, Changing, At
<1>10. CASE /\ r.step \in {"set", "load"}
            /\ stale' = (stale \/ \E q \in Procs \ {p} : Reloading(q)) /\ reader' = None
  <2>1. ~stale' => \A q \in Procs \ {p} : ~Change(q) /\ ~Loads(q)
    BY <1>5, <1>8, <1>10 DEF Changing, At
  <2>2. Change(p) /\ ~Loads(p)
    BY <1>2, <1>10
  <2>3. QED  BY <1>9, <1>10, <2>1, <2>2
<1>11. CASE /\ At(p, "set") /\ r.step \in {"set", "load"} /\ UNCHANGED <<stale, reader>>
  <2>1. Changing(p) /\ Change(p) /\ ~Loads(p)
    BY <1>2, <1>11 DEF Changing, At
  <2>2. reader' = None
    BY <1>6, <1>7, <1>11, <2>1
  <2>3. Up(Main) /\ ~stale => \A q \in Procs \ {p} : ~Changing(q)
    BY <2>1 DEF ConfigInv
  <2>4. Up(Main) /\ ~stale => \A q \in Procs \ {p} : ~Change(q) /\ ~Loads(q)
    BY <1>8, <2>3 DEF Changing, At
  <2>5. QED  BY <1>9, <1>11, <2>1, <2>2, <2>4
<1>12. CASE /\ At(p, "set") \/ At(p, "load")
            /\ stale' = TRUE /\ UNCHANGED reader
  <2>1. reader' = None
    BY <1>6, <1>7, <1>12 DEF Changing, At
  <2>2. QED  BY <1>9, <1>12, <2>1
<1>13. CASE /\ At(p, "load") /\ r.step = "copy" /\ r.todo = setting
            /\ reader' = IF \E q \in Procs \ {p} : Reloading(q) THEN None ELSE p
            /\ UNCHANGED <<setting, config, stale>>
  <2>1. Change(p) /\ Loads(p) /\ Changing(p)
    BY <1>2, <1>13 DEF Changing, At
  <2>2. CASE \E q \in Procs \ {p} : Reloading(q)
    <3>1. ~(Up(Main) /\ ~stale)
      BY <1>5, <2>1, <2>2 DEF ConfigInv
    <3>2. QED  BY <1>9, <1>13, <2>2, <3>1
  <2>3. CASE ~\E q \in Procs \ {p} : Reloading(q)
    <3>1. \A q \in Procs \ {p} : ~Change(q) /\ ~Loads(q)
      BY <1>5, <1>8, <2>3 DEF Changing, At
    <3>2. reader' = p
      BY <1>13, <2>3
    <3>3. ReaderInv'
      BY <1>2, <1>13, <3>1, <3>2 DEF ReaderInv, At, Changing
    <3>4. QED  BY <2>1, <3>1, <3>2, <3>3 DEF ConfigInv, At, Changing
  <2>4. QED  BY <2>2, <2>3
\* The reader goes on.
<1>14. ASSUME At(p, "copy") \/ At(p, "assign"), Loads(p), UNCHANGED <<setting, stale, reader>>,
              reader = p => /\ r.step = "assign"
                            /\ \A k \in Keys : Pending(p, k)' = Loaded(k, setting[k], Pending(p, k)')
       PROVE  ConfigInv'
  <2>1. Changing(p) /\ Change(p)
    BY <1>14 DEF Changing, At
  <2>2. CASE reader = p
    <3>1. \A q \in Procs \ {p} : ~Change(q) /\ ~Loads(q)
      BY <1>8, <2>2 DEF ConfigInv, ReaderInv, Changing, At
    <3>2. ReaderInv'
      BY <1>2, <1>14, <2>2, <3>1 DEF ReaderInv, At, Changing
    <3>3. QED  BY <1>14, <2>1, <2>2, <3>1, <3>2 DEF ConfigInv, At, Changing
  <2>3. CASE reader # p
    <3>1. ~(Up(Main) /\ ~stale)
      BY <1>14, <2>3 DEF ConfigInv
    <3>2. QED  BY <1>6, <1>9, <1>14, <2>1, <2>3, <3>1
  <2>4. QED  BY <2>2, <2>3
<1>15. CASE /\ At(p, "copy") /\ r.step = "assign"
            /\ \A k \in Keys : r.todo[k] = Loaded(k, req[p].todo[k], config[k])
            /\ UNCHANGED settingVars
  <2>1. UNCHANGED <<setting, config, stale, reader>> /\ Loads(p)
    BY <1>2, <1>15 DEF settingVars
  <2>2. ASSUME reader = p, NEW k \in Keys
        PROVE  Pending(p, k)' = Loaded(k, setting[k], Pending(p, k)')
    <3>1. r.todo[k] = Loaded(k, setting[k], config[k])
      BY <1>15, <2>2 DEF ConfigInv, ReaderInv
    <3>2. r.todo[k] \in Values /\ r.todo[k] = Loaded(k, setting[k], r.todo[k])
      BY <1>4, <3>1, LoadedTwice
    <3>3. Pending(p, k)' = r.todo[k]
      BY <1>2, <3>2 DEF Pending
    <3>4. QED  BY <3>2, <3>3
  <2>3. QED  BY <1>14, <1>15, <2>1, <2>2
<1>16. CASE /\ At(p, "assign") /\ r.step = "assign" /\ UNCHANGED <<setting, stale, reader>>
            /\ \E k \in Keys :
                 /\ req[p].todo[k] # None
                 /\ config' = [config EXCEPT ![k] = req[p].todo[k]]
                 /\ r.todo = [req[p].todo EXCEPT ![k] = None]
  <2>1. PICK k \in Keys :
          /\ req[p].todo[k] # None
          /\ config' = [config EXCEPT ![k] = req[p].todo[k]]
          /\ r.todo = [req[p].todo EXCEPT ![k] = None]
    BY <1>16
  <2>2. \A l \in Keys : Pending(p, l)' = Pending(p, l)
    BY <1>2, <1>4, <2>1 DEF Pending
  <2>3. reader = p => \A l \in Keys : Pending(p, l) = Loaded(l, setting[l], Pending(p, l))
    BY <1>16 DEF ConfigInv, ReaderInv
  <2>4. Loads(p)
    BY <1>2, <1>16
  <2>5. QED  BY <1>14, <1>16, <2>2, <2>3, <2>4
<1>17. CASE /\ At(p, "assign") /\ r.step = "idle" /\ req[p].todo = Nothing
            /\ stale' = (stale /\ reader # p) /\ reader' = None
            /\ UNCHANGED <<setting, config>>
  <2>1. CASE Up(Main) /\ ~stale'
    <3>1. reader = p
      BY <1>17, <2>1 DEF ConfigInv
    <3>2. \A q \in Procs : ~Change(q) /\ ~Loads(q)
      BY <1>2, <1>8, <1>17, <3>1 DEF ConfigInv, ReaderInv, Changing, At
    <3>3. ASSUME NEW k \in Keys PROVE Current(k)'
      <4>1. Pending(p, k) = config[k] /\ Pending(p, k) = Loaded(k, setting[k], Pending(p, k))
        BY <1>17, <3>1 DEF ConfigInv, ReaderInv, Pending, Nothing
      <4>2. QED  BY <1>17, <4>1 DEF Current
    <3>4. QED  BY <1>9, <1>17, <3>2, <3>3
  <2>2. CASE ~(Up(Main) /\ ~stale')
    BY <1>9, <1>17, <2>2
  <2>3. QED  BY <2>1, <2>2
<1>18. CASE /\ ~Changing(p) /\ r.step \notin {"set", "load", "copy", "assign"}
            /\ UNCHANGED settingVars
  <2>1. UNCHANGED <<setting, config, stale, reader>>
    BY <1>18 DEF settingVars
  <2>2. \A q \in Procs : /\ Change(q) <=> Changing(q)
                         /\ Changing(q) => req'[q] = req[q]
    BY <1>2, <1>8, <1>18
  <2>3. \A q \in Procs : Loads(q) => req'[q] = req[q]
    BY <1>2, <1>18
  <2>4. ReaderInv'
    <3> SUFFICES ASSUME NEW q \in Procs, reader' = q PROVE
          /\ Loads(q)
          /\ \A u \in Procs : Change(u) => u = q
          /\ req'[q].step = "copy" => req'[q].todo = setting'
          /\ req'[q].step = "assign" =>
               \A k \in Keys : Pending(q, k)' = Loaded(k, setting[k], Pending(q, k)')
      BY <2>1 DEF ReaderInv, At, Changing
    <3>1. /\ At(q, "copy") \/ At(q, "assign")
          /\ \A u \in Procs : Changing(u) => u = q
          /\ At(q, "copy") => req[q].todo = setting
          /\ At(q, "assign") => \A k \in Keys : Pending(q, k) = Loaded(k, setting[k], Pending(q, k))
      BY <2>1 DEF ConfigInv, ReaderInv
    <3>2. req'[q] = req[q]
      BY <2>2, <3>1 DEF Changing, At
    <3>3. \A k \in Keys : Pending(q, k)' = Pending(q, k)
      BY <2>1, <3>2 DEF Pending
    <3>4. QED  BY <2>1, <2>2, <3>1, <3>2, <3>3 DEF At
  <2>5. \A k \in Keys : Current(k)' <=> Current(k)
    BY <2>1 DEF Current
  <2>6. Up(Main) /\ ~stale =>
          /\ \A q, t \in Procs : Change(q) /\ Change(t) => q = t
          /\ \A q \in Procs : Loads(q) => reader = q
          /\ (\A q \in Procs : ~Change(q)) => \A k \in Keys : Current(k)'
    BY <2>2, <2>3, <2>5 DEF ConfigInv, At
  <2>7. QED  BY <1>3, <2>1, <2>4, <2>6 DEF ConfigInv, At, Changing
<1>19. QED
  BY <1>1, <1>10, <1>11, <1>12, <1>13, <1>15, <1>16, <1>17, <1>18 DEF ConfigMove

\* At most one more administrator, by a request that was to make one.
LEMMA Promoted ==
  ASSUME NEW A, NEW B, NEW O, NEW Q, IsFiniteSet(A), IsFiniteSet(O), Q \subseteq O,
         \/ B \subseteq A
         \/ (\E x : B \subseteq A \cup {x}) /\ (\E y \in O : y \notin Q)
  PROVE  IsFiniteSet(B) /\ Cardinality(B) + Cardinality(Q) <= Cardinality(A) + Cardinality(O)
<1>1. IsFiniteSet(Q) /\ Cardinality(Q) <= Cardinality(O) /\ Cardinality(Q) \in Nat
      /\ Cardinality(O) \in Nat /\ Cardinality(A) \in Nat
  BY FS_Subset, FS_CardinalityType
<1>2. CASE B \subseteq A
  BY <1>1, <1>2, FS_Subset, FS_CardinalityType
<1>3. CASE (\E x : B \subseteq A \cup {x}) /\ (\E y \in O : y \notin Q)
  <2>1. PICK x : B \subseteq A \cup {x}
    BY <1>3
  <2>2. PICK y \in O : y \notin Q
    BY <1>3
  <2>3. IsFiniteSet(A \cup {x}) /\ Cardinality(A \cup {x}) <= Cardinality(A) + 1
    <3>1. IsFiniteSet(A \cup {x})
      BY FS_AddElement
    <3>2. Cardinality(A \cup {x}) = IF x \in A THEN Cardinality(A) ELSE Cardinality(A) + 1
      BY FS_AddElement
    <3>3. QED  BY <1>1, <3>1, <3>2
  <2>4. IsFiniteSet(B) /\ Cardinality(B) <= Cardinality(A \cup {x}) /\ Cardinality(B) \in Nat
        /\ Cardinality(A \cup {x}) \in Nat
    BY <2>1, <2>3, FS_Subset, FS_CardinalityType
  <2>5. Cardinality(O \ {y}) = Cardinality(O) - 1 /\ IsFiniteSet(O \ {y})
    BY <2>2, FS_RemoveElement
  <2>6. Q \subseteq O \ {y}
    BY <2>2
  <2>7. Cardinality(Q) <= Cardinality(O \ {y})
    BY <2>5, <2>6, FS_Subset
  <2>8. QED  BY <1>1, <2>3, <2>4, <2>5, <2>7
<1>4. QED  BY <1>2, <1>3

LEMMA UsersKept ==
  ASSUME TypeOK, UsersInv, NEW p \in Procs, RequestMove(p)
  PROVE  UsersInv'
<1>1. PICK r \in Request : req' = [req EXCEPT ![p] = r] /\ UsersMove(p, r)
  BY DEF RequestMove
<1>2. req'[p] = r /\ \A q \in Procs \ {p} : req'[q] = req[q]
  BY <1>1 DEF TypeOK
<1>3. user \in [Users -> {"none", "user", "admin"}]
  BY DEF TypeOK
<1>4. At(p, "promote") => req[p].user \in Users /\ user[req[p].user] # "none"
  BY DEF UsersInv
<1>5. \A u \in Users : user[u] # "none" => user'[u] # "none"
  BY <1>1, <1>3, <1>4 DEF UsersMove
<1>6. r.step = "promote" => r.user \in Users /\ user'[r.user] # "none"
  BY <1>1, <1>3 DEF UsersMove
<1>7. ASSUME NEW q \in Procs, At(q, "promote")'
      PROVE  req'[q].user \in Users /\ user'[req'[q].user] # "none"
  BY <1>2, <1>5, <1>6, <1>7 DEF At, UsersInv
<1>8. FirstUserPromoted'
  <2>1. lost => lost'
    BY <1>1 DEF UsersMove
  <2> SUFFICES ASSUME ~lost, ~lost', NEW u \in Users, user'[u] = "user"
               PROVE  \/ \E v \in Users : user'[v] = "admin"
                      \/ \E q \in Procs : req'[q].step = "promote" /\ req'[q].user = u
    BY <2>1 DEF FirstUserPromoted, At
  <2>2. CASE At(p, "promote") /\ user' = [user EXCEPT ![req[p].user] = "admin"]
    BY <1>3, <1>4, <2>2
  <2>3. CASE /\ r.step = "promote" /\ At(p, "create")
             /\ user' = [user EXCEPT ![r.user] = "user"] /\ r.user \in Users
             /\ user[r.user] = "none"
    <3>1. CASE u = r.user
      BY <1>2, <2>3, <3>1
    <3>2. CASE u # r.user
      <4>1. \/ \E v \in Users : user[v] = "admin"
            \/ \E q \in Procs : At(q, "promote") /\ req[q].user = u
        BY <1>3, <2>3, <3>2 DEF UsersInv, FirstUserPromoted
      <4>2. \A v \in Users : user[v] = "admin" => user'[v] = "admin"
        BY <1>3, <2>3
      <4>3. \A q \in Procs : At(q, "promote") => q # p
        BY <2>3 DEF At
      <4>4. QED  BY <1>2, <4>1, <4>2, <4>3 DEF At
    <3>3. QED  BY <3>1, <3>2
  <2>4. CASE ~At(p, "promote") /\ UNCHANGED user
    BY <1>2, <2>4 DEF UsersInv, FirstUserPromoted, At
  <2>5. QED  BY <1>1, <2>2, <2>3, <2>4 DEF UsersMove
<1>9. IsFiniteSet(Admins') /\ Cardinality(Admins') + Cardinality(Onboarding') <= P
  <2>1. IsFiniteSet(Admins) /\ Cardinality(Admins) + Cardinality(Onboarding) <= P
    BY DEF UsersInv
  <2>2. Onboarding \subseteq Procs /\ Onboarding' \subseteq Procs
    BY DEF Onboarding
  <2>3. /\ IsFiniteSet(Onboarding) /\ IsFiniteSet(Onboarding') /\ P \in Nat
        /\ Cardinality(Onboarding') <= P /\ Cardinality(Onboarding) \in Nat
        /\ Cardinality(Onboarding') \in Nat
    BY <2>2, FS_Subset, FS_CardinalityType DEF P
  <2>4. CASE r.step = "create" /\ (\A u \in Users : user[u] = "none") /\ UNCHANGED user
    <3>1. Admins' = {}
      BY <2>4 DEF Admins
    <3>2. QED  BY <2>3, <3>1, FS_EmptySet
  <2>5. CASE \/ r.step \notin {"create", "promote"} /\ UNCHANGED user
             \/ At(p, "create") /\ user' = [user EXCEPT ![r.user] = "user"]
    <3>1. Onboarding' \subseteq Onboarding
      BY <1>2, <2>5 DEF Onboarding, At
    <3>2. Admins' \subseteq Admins
      BY <1>3, <2>5 DEF Admins
    <3>3. /\ IsFiniteSet(Admins')
          /\ Cardinality(Admins') + Cardinality(Onboarding') <= Cardinality(Admins) + Cardinality(Onboarding)
      BY <2>1, <2>3, <3>1, <3>2, Promoted
    <3>4. Cardinality(Admins) \in Nat /\ Cardinality(Admins') \in Nat
      BY <2>1, <3>3, FS_CardinalityType
    <3>5. QED  BY <2>1, <2>3, <3>3, <3>4
  <2>6. CASE /\ At(p, "promote") /\ r.step \notin {"create", "promote"}
             /\ user' = [user EXCEPT ![req[p].user] = "admin"]
    <3>1. Onboarding' \subseteq Onboarding /\ p \in Onboarding /\ p \notin Onboarding'
      BY <1>2, <2>6 DEF Onboarding, At
    <3>2. Admins' \subseteq Admins \cup {req[p].user}
      BY <1>3, <2>6 DEF Admins
    <3>3. /\ IsFiniteSet(Admins')
          /\ Cardinality(Admins') + Cardinality(Onboarding') <= Cardinality(Admins) + Cardinality(Onboarding)
      BY <2>1, <2>3, <3>1, <3>2, Promoted
    <3>4. Cardinality(Admins) \in Nat /\ Cardinality(Admins') \in Nat
      BY <2>1, <3>3, FS_CardinalityType
    <3>5. QED  BY <2>1, <2>3, <3>3, <3>4
  <2>7. QED  BY <1>1, <2>4, <2>5, <2>6 DEF UsersMove
<1>10. QED  BY <1>7, <1>8, <1>9 DEF UsersInv, At, P

-----------------------------------------------------------------------------
(* The other steps.                                                        *)

\* The rows and the requests are left alone; a program may come to serve.
LEMMA LeftAlone ==
  ASSUME TypeOK, Homes, UsersInv, UNCHANGED <<user, lost, req>>,
         \A s \in Programs : Up(s) => Up(s)'
  PROVE  Homes' /\ UsersInv'
<1>1. \A p \in Procs : req[p].home \in Programs
  BY DEF TypeOK, Request
<1>2. Homes'
  BY <1>1 DEF Homes, At, Changing, Up, Doing
<1>3. UsersInv'
  BY DEF UsersInv, FirstUserPromoted, Admins, Onboarding, At
<1>4. QED  BY <1>2, <1>3

\* Nothing changes the settings while the server is down.
LEMMA NobodyChanges ==
  ASSUME TypeOK, Homes, ConfigInv, ~Up(Main)
  PROVE  reader = None /\ \A p \in Procs : ~Changing(p)
<1>1. \A p \in Procs : ~Changing(p)
  BY DEF Homes, Changing, At
<1>2. \A p \in Procs : reader # p
  BY <1>1 DEF ConfigInv, ReaderInv, Changing, At
<1>3. QED  BY <1>1, <1>2 DEF TypeOK

\* The settings and the requests that change them are left alone.
LEMMA ConfigAlone ==
  ASSUME ConfigInv, UNCHANGED settingVars, Up(Main)' => Up(Main),
         \A p \in Procs : /\ Changing(p)' <=> Changing(p)
                          /\ Changing(p) => req'[p] = req[p]
  PROVE  ConfigInv'
<1>1. UNCHANGED <<setting, config, stale, reader>>
  BY DEF settingVars
<1>2. \A p \in Procs : /\ At(p, "copy")' <=> At(p, "copy")
                       /\ At(p, "assign")' <=> At(p, "assign")
  BY DEF Changing, At
<1>3. ReaderInv'
  <2> SUFFICES ASSUME NEW p \in Procs, reader' = p
               PROVE  /\ At(p, "copy")' \/ At(p, "assign")'
                      /\ \A q \in Procs : Changing(q)' => q = p
                      /\ At(p, "copy")' => req'[p].todo = setting'
                      /\ At(p, "assign")' =>
                           \A k \in Keys : Pending(p, k)' = Loaded(k, setting[k], Pending(p, k)')
    BY <1>1 DEF ReaderInv
  <2>1. /\ At(p, "copy") \/ At(p, "assign")
        /\ \A q \in Procs : Changing(q) => q = p
        /\ At(p, "copy") => req[p].todo = setting
        /\ At(p, "assign") => \A k \in Keys : Pending(p, k) = Loaded(k, setting[k], Pending(p, k))
    BY <1>1 DEF ConfigInv, ReaderInv
  <2>2. req'[p] = req[p]
    BY <2>1 DEF Changing, At
  <2>3. \A k \in Keys : Pending(p, k)' = Pending(p, k)
    BY <1>1, <2>2 DEF Pending
  <2>4. QED  BY <1>1, <1>2, <2>1, <2>2, <2>3
<1>4. \A k \in Keys : Current(k)' <=> Current(k)
  BY <1>1 DEF Current
<1>5. QED  BY <1>1, <1>2, <1>3, <1>4 DEF ConfigInv

LEMMA LoadKept ==
  ASSUME IInv, NEW s \in Programs, LoadAtStart(s)
  PROVE  IInv'
<1>1. /\ Doing(s, "defaults") /\ Goes(s, "up")
      /\ UNCHANGED <<version, tables, disturbed, user, lost, req>>
  BY DEF LoadAtStart
<1>2. /\ SchemaTypeOK /\ TypeOK /\ SchemaInv /\ Homes /\ UsersInv /\ ConfigInv
      /\ disturbed \in BOOLEAN
  BY DEF IInv, TypeOK, SchemaTypeOK
<1>3. ProgramMove(s) /\ \A t \in Programs : Up(t)' <=> Up(t) \/ t = s
  BY <1>1, <1>2, ServingMoves
<1>4. SchemaTypeOK' /\ SchemaInv' /\ (disturbed \/ Clean)'
  <2>1. SchemaTypeOK' /\ SchemaInv'
    BY <1>2, <1>3, SchemaKept DEF ProgramMove
  <2>2. ~disturbed' => Clean'
    BY <1>2, <1>3, CleanKept DEF ProgramMove, IInv
  <2>3. QED  BY <2>1, <2>2
<1>5. PICK written \in SUBSET Keys, loaded \in {TRUE, ~Failing} :
        /\ EnsureDefaults(written)
        /\ config' = IF s = Main /\ loaded THEN [k \in Keys |-> Loaded(k, setting'[k], config[k])]
                                           ELSE config
        /\ stale' = IF s = Main THEN ~loaded ELSE stale \/ (Up(Main) /\ setting' # setting)
        /\ reader' = IF setting' # setting THEN None ELSE reader
  BY DEF LoadAtStart
<1>6. /\ setting' \in [Keys -> Values \cup {None}] /\ stale' \in BOOLEAN /\ onboarded' \in BOOLEAN
      /\ reader' \in Procs \cup {None}
  BY <1>2, <1>5 DEF EnsureDefaults, TypeOK
<1>7. config' \in [Keys -> Values]
  BY <1>2, <1>5, <1>6, LoadedTwice DEF TypeOK
<1>8. TypeOK'
  BY <1>1, <1>2, <1>4, <1>6, <1>7 DEF TypeOK
<1>9. Homes' /\ UsersInv'
  BY <1>1, <1>2, <1>3, LeftAlone
<1>10. ConfigInv'
  <2>1. CASE s = Main
    <3>1. ~Up(Main)
      BY <1>1, <2>1 DEF Up, Doing
    <3>2. reader' = None /\ \A p \in Procs : ~Changing(p)
      BY <1>2, <1>5, <3>1, NobodyChanges
    <3>3. \A p \in Procs : req'[p].step \notin {"set", "load", "copy", "assign"}
      BY <1>1, <3>2 DEF Changing
    <3>4. ASSUME ~stale', NEW k \in Keys PROVE Current(k)'
      <4>1. config'[k] = Loaded(k, setting'[k], config[k])
        BY <1>5, <2>1, <3>4
      <4>2. setting'[k] \in Values \cup {None} /\ config[k] \in Values
        BY <1>2, <1>6 DEF TypeOK
      <4>3. Loaded(k, setting'[k], config'[k]) = config'[k]
        BY <4>1, <4>2, LoadedTwice
      <4>4. QED  BY <4>3 DEF Current
    <3>5. ReaderInv'
      BY <3>2 DEF ReaderInv
    <3>6. QED  BY <3>3, <3>4, <3>5 DEF ConfigInv, Changing, At
  <2>2. CASE s # Main /\ setting' = setting
    <3>1. UNCHANGED settingVars
      BY <1>2, <1>5, <2>2 DEF settingVars, TypeOK
    <3>2. QED  BY <1>1, <1>2, <1>3, <2>2, <3>1, ConfigAlone DEF Changing
  <2>3. CASE s # Main /\ setting' # setting
    <3>1. reader' = None /\ (Up(Main)' => stale')
      BY <1>3, <1>5, <2>3
    <3>2. QED  BY <3>1 DEF ConfigInv, ReaderInv
  <2>4. QED  BY <2>1, <2>2, <2>3
<1>11. QED  BY <1>4, <1>8, <1>9, <1>10 DEF IInv

LEMMA StopKept ==
  ASSUME IInv, NEW s \in Programs, Stop(s)
  PROVE  IInv'
<1>1. /\ StopProgram(s)
      /\ req' = [p \in Procs |-> IF req[p].home = s THEN Idle ELSE req[p]]
      /\ lost' = (lost \/ \E p \in Procs : req[p].home = s /\ At(p, "promote"))
      /\ config' = IF s = Main THEN Default ELSE config
      /\ stale' = (s # Main /\ stale) /\ reader' = IF s = Main THEN None ELSE reader
      /\ UNCHANGED <<setting, onboarded, user>>
  BY DEF Stop
<1>2. SchemaTypeOK /\ TypeOK /\ SchemaInv /\ Homes /\ UsersInv
  BY DEF IInv, TypeOK
<1>3. ProgramMove(s) /\ \A t \in Programs : Up(t)' <=> Up(t) /\ t # s
  BY <1>1, <1>2, ServingMoves
<1>4. SchemaTypeOK' /\ SchemaInv' /\ (disturbed \/ Clean)'
  <2>1. SchemaTypeOK' /\ SchemaInv'
    BY <1>2, <1>3, SchemaKept DEF ProgramMove
  <2>2. ~disturbed' => Clean'
    BY <1>2, <1>3, CleanKept DEF ProgramMove, IInv
  <2>3. QED  BY <2>1, <2>2
<1>5. TypeOK'
  BY <1>1, <1>2, <1>4, IdleTypes DEF TypeOK
<1>6. \A p \in Procs :
        /\ req[p].home \in Programs
        /\ req[p].home = s => req'[p] = Idle
        /\ req[p].home # s => req'[p] = req[p]
  BY <1>1, <1>2 DEF TypeOK, Request
<1>7. Homes'
  <2>1. ASSUME NEW p \in Procs
        PROVE  /\ req'[p].step # "idle" => program'[req'[p].home].step = "up"
               /\ req'[p].step \in {"idle", "set", "load", "copy", "assign"} => req'[p].home = Main
    <3>1. CASE req[p].home = s
      BY <1>6, <3>1, IdleTypes
    <3>2. CASE req[p].home # s
      <4>1. \A t \in Programs : t # s /\ Up(t) => program'[t].step = "up"
        BY <1>3 DEF Up, Doing
      <4>2. QED  BY <1>2, <1>6, <3>2, <4>1 DEF Homes, At, Changing
    <3>3. QED  BY <3>1, <3>2
  <2>2. QED  BY <2>1 DEF Homes, At, Changing, Up, Doing
<1>8. \A p \in Procs, step \in {"create", "promote", "set", "load", "copy", "assign"} :
        req'[p].step = step => req[p].step = step /\ req'[p] = req[p]
  BY <1>6, IdleTypes
<1>9. UsersInv'
  <2>1. FirstUserPromoted'
    BY <1>1, <1>2, <1>6 DEF UsersInv, FirstUserPromoted, At
  <2>2. Admins' = Admins /\ Onboarding' \subseteq Onboarding
    BY <1>1, <1>8 DEF Admins, Onboarding
  <2>3. IsFiniteSet(Admins) /\ Cardinality(Admins) + Cardinality(Onboarding) <= P
    BY <1>2 DEF UsersInv
  <2>4. IsFiniteSet(Onboarding) /\ P \in Nat
    BY FS_Subset, FS_CardinalityType DEF Onboarding, P
  <2>5. /\ IsFiniteSet(Admins')
        /\ Cardinality(Admins') + Cardinality(Onboarding') <= Cardinality(Admins) + Cardinality(Onboarding)
    BY <2>2, <2>3, <2>4, Promoted
  <2>6. /\ Cardinality(Admins') \in Nat /\ Cardinality(Onboarding') \in Nat
        /\ Cardinality(Admins) \in Nat /\ Cardinality(Onboarding) \in Nat
    BY <2>2, <2>3, <2>4, <2>5, FS_Subset, FS_CardinalityType
  <2>7. Cardinality(Admins') + Cardinality(Onboarding') <= P
    BY <2>3, <2>4, <2>5, <2>6
  <2>8. \A p \in Procs : At(p, "promote")' =>
          req'[p].user \in Users /\ user'[req'[p].user] # "none"
    BY <1>1, <1>2, <1>8 DEF UsersInv, At
  <2>9. QED  BY <2>1, <2>5, <2>7, <2>8 DEF UsersInv, At, P
<1>10. ConfigInv'
  <2>1. CASE s = Main
    <3>1. ~Up(Main)' /\ reader' = None
      BY <1>1, <1>3, <2>1
    <3>2. QED  BY <3>1 DEF ConfigInv, ReaderInv
  <2>2. CASE s # Main
    <3>1. UNCHANGED settingVars
      BY <1>1, <1>2, <2>2 DEF settingVars, TypeOK
    <3>2. \A p \in Procs : Changing(p) => req'[p] = req[p]
      BY <1>2, <1>6, <2>2 DEF Homes
    <3>3. \A p \in Procs : Changing(p)' <=> Changing(p)
      BY <1>8, <3>2 DEF Changing
    <3>4. ConfigInv
      BY DEF IInv
    <3>5. QED  BY <1>3, <2>2, <3>1, <3>2, <3>3, <3>4, ConfigAlone
  <2>3. QED  BY <2>1, <2>2
<1>11. QED  BY <1>4, <1>5, <1>7, <1>9, <1>10 DEF IInv

LEMMA SchemaStepKept ==
  ASSUME IInv, NEW s \in Programs,
         SchemaStep(s) \/ \E auto \in BOOLEAN : StartProgram(s, auto),
         UNCHANGED <<settingVars, userVars, req>>
  PROVE  IInv'
<1>1. SchemaTypeOK /\ TypeOK /\ SchemaInv /\ Homes /\ UsersInv /\ Reached(s)
  BY DEF IInv, TypeOK, SchemaInv
<1>2. ProgramMove(s) /\ \A t \in Programs : Up(t)' <=> Up(t)
  BY <1>1, SchemaMoves
<1>3. SchemaTypeOK' /\ SchemaInv' /\ (disturbed \/ Clean)'
  <2>1. SchemaTypeOK' /\ SchemaInv'
    BY <1>1, <1>2, SchemaKept DEF ProgramMove
  <2>2. ~disturbed' => Clean'
    BY <1>1, <1>2, CleanKept DEF ProgramMove, IInv
  <2>3. QED  BY <2>1, <2>2
<1>4. UNCHANGED <<setting, config, stale, reader, onboarded, user, lost, req>>
  BY DEF settingVars, userVars
<1>5. TypeOK'
  BY <1>1, <1>3, <1>4 DEF TypeOK
<1>6. Homes' /\ UsersInv'
  BY <1>1, <1>2, <1>4, LeftAlone
<1>7. ConfigInv'
  BY <1>2, <1>4, ConfigAlone DEF IInv, Changing
<1>8. QED  BY <1>3, <1>5, <1>6, <1>7 DEF IInv

\* A step that leaves the file and the programs alone.
LEMMA SchemaUnchanged ==
  ASSUME SchemaTypeOK, SchemaInv, disturbed \/ Clean, UNCHANGED schemaVars
  PROVE  SchemaTypeOK' /\ SchemaInv' /\ (disturbed \/ Clean)' /\ UNCHANGED program
<1>1. UNCHANGED <<version, schema, spare, repeated, program, disturbed>>
  BY DEF schemaVars, tables
<1>2. SchemaTypeOK'
  BY <1>1 DEF SchemaTypeOK
<1>3. SchemaInv'
  BY <1>1 DEF SchemaInv, Reached, Done, Migrating, Doing
<1>4. (disturbed \/ Clean)'
  BY <1>1 DEF Clean, Migrating, Doing, Begun, Untouched
<1>5. QED  BY <1>1, <1>2, <1>3, <1>4

LEMMA RequestKept ==
  ASSUME IInv, NEW p \in Procs, Step(p)
  PROVE  IInv'
<1>1. SchemaTypeOK /\ TypeOK /\ SchemaInv /\ Homes /\ UsersInv
  BY DEF IInv, TypeOK
<1>2. RequestMove(p)
  <2>1. At(p, "promote") => req[p].user \in Users
    BY <1>1 DEF UsersInv
  <2>2. QED  BY <1>1, <2>1, StepMoves
<1>3. SchemaTypeOK' /\ SchemaInv' /\ (disturbed \/ Clean)'
  <2>1. UNCHANGED schemaVars
    BY <1>2 DEF RequestMove
  <2>2. QED  BY <1>1, <2>1, SchemaUnchanged DEF IInv
<1>4. TypeOK'
  <2>1. Tables' /\ \E r \in Request : req' = [req EXCEPT ![p] = r]
    BY <1>2 DEF RequestMove
  <2>2. req' \in [Procs -> Request]
    BY <1>1, <2>1 DEF TypeOK
  <2>3. QED  BY <1>3, <2>1, <2>2 DEF TypeOK, Tables
<1>5. Homes'
  BY <1>1, <1>2, HomesKept
<1>6. UsersInv'
  BY <1>1, <1>2, UsersKept
<1>7. ConfigInv'
  BY <1>1, <1>2, ConfigKept DEF IInv
<1>8. QED  BY <1>3, <1>4, <1>5, <1>6, <1>7 DEF IInv

LEMMA SignUpKept ==
  ASSUME IInv, NEW u \in Users, SignUp(u)
  PROVE  IInv'
<1>1. /\ (\A v \in Users : user[v] = "none") /\ user' = [user EXCEPT ![u] = "user"]
      /\ lost' = TRUE
      /\ UNCHANGED <<schemaVars, setting, config, stale, reader, onboarded, req>>
  BY DEF SignUp, settingVars
<1>2. SchemaTypeOK /\ TypeOK /\ SchemaInv /\ Homes /\ UsersInv
  BY DEF IInv, TypeOK
<1>3. SchemaTypeOK' /\ SchemaInv' /\ (disturbed \/ Clean)' /\ UNCHANGED program
  BY <1>1, <1>2, SchemaUnchanged DEF IInv
<1>4. user \in [Users -> {"none", "user", "admin"}] /\ \A v \in Users : user'[v] # "admin"
  BY <1>1, <1>2 DEF TypeOK
<1>5. TypeOK'
  <2>1. user' \in [Users -> {"none", "user", "admin"}]
    BY <1>1, <1>4
  <2>2. QED  BY <1>1, <1>2, <1>3, <2>1 DEF TypeOK
<1>6. Homes'
  BY <1>1, <1>2, <1>3 DEF Homes, At, Changing, Up, Doing
<1>7. UsersInv'
  <2>1. FirstUserPromoted'
    BY <1>1 DEF FirstUserPromoted
  <2>2. Admins' = {} /\ Onboarding' \subseteq Procs
    BY <1>4 DEF Admins, Onboarding
  <2>3. /\ IsFiniteSet(Admins') /\ Cardinality(Admins') = 0
        /\ Cardinality(Onboarding') <= P /\ Cardinality(Onboarding') \in Nat
    BY <2>2, FS_EmptySet, FS_Subset, FS_CardinalityType DEF P
  <2>4. Cardinality(Admins') + Cardinality(Onboarding') <= P
    BY <2>3, FS_CardinalityType DEF P
  <2>5. \A p \in Procs : ~At(p, "promote")
    BY <1>1, <1>2 DEF UsersInv
  <2>6. QED  BY <1>1, <2>1, <2>3, <2>4, <2>5 DEF UsersInv, At, P
<1>8. ConfigInv'
  BY <1>1, <1>3, ConfigAlone DEF IInv, settingVars, Changing, Up, Doing
<1>9. QED  BY <1>3, <1>5, <1>6, <1>7, <1>8 DEF IInv

-----------------------------------------------------------------------------
LEMMA Start ==
  ASSUME Init
  PROVE  IInv
<1>1. /\ version = 0 /\ schema = [m \in Versions |-> "old"]
      /\ spare = [m \in Versions |-> "none"] /\ repeated = {}
      /\ program = [s \in Programs |-> Down] /\ disturbed = FALSE
      /\ setting = Nothing /\ onboarded = FALSE /\ config = Default
      /\ user = [u \in Users |-> "none"] /\ req = [p \in Procs |-> Idle]
      /\ stale = FALSE /\ reader = None /\ lost = FALSE
  BY DEF Init, SchemaInit
<1>2. \A s \in Programs : program[s].step = "down"
  BY <1>1, DownTypes
<1>3. \A p \in Procs : req[p].step = "idle" /\ req[p].home = Main
  BY <1>1, IdleTypes
<1>4. TypeOK
  <2>1. SchemaTypeOK
    <3>1. version \in 0 .. SchemaVersion
      BY <1>1
    <3>2. schema \in [Versions -> Progress] /\ spare \in [Versions -> {"none", "empty", "full"}]
      BY <1>1 DEF Progress
    <3>3. program \in [Programs -> Program]
      BY <1>1, DownTypes
    <3>4. QED  BY <1>1, <3>1, <3>2, <3>3 DEF SchemaTypeOK
  <2>2. QED  BY <1>1, <2>1, IdleTypes DEF TypeOK
<1>5. SchemaInv
  <2>1. \A m \in Versions : ~(m <= version)
    BY <1>1 DEF Versions
  <2>2. \A s \in Programs : Reached(s)
    BY <1>2 DEF Reached, Migrating, Doing
  <2>3. QED  BY <2>1, <2>2 DEF SchemaInv
<1>6. Clean
  BY <1>1, <1>2 DEF Clean, Migrating, Doing, Untouched
<1>7. Homes
  BY <1>3 DEF Homes, At, Changing
<1>8. ConfigInv
  BY <1>1, <1>2 DEF ConfigInv, ReaderInv, Up, Doing
<1>9. UsersInv
  <2>1. Admins = {} /\ Onboarding = {}
    BY <1>1, <1>3 DEF Admins, Onboarding
  <2>2. Cardinality(Admins) + Cardinality(Onboarding) <= P /\ IsFiniteSet(Admins)
    BY <2>1, FS_EmptySet, FS_CardinalityType DEF P
  <2>3. FirstUserPromoted
    BY <1>1 DEF FirstUserPromoted
  <2>4. QED  BY <1>3, <2>2, <2>3 DEF UsersInv, At
<1>10. QED  BY <1>4, <1>5, <1>6, <1>7, <1>8, <1>9 DEF IInv

LEMMA StepKept ==
  ASSUME IInv, [Next]_vars
  PROVE  IInv'
<1>1. CASE UNCHANGED vars
  <2>1. UNCHANGED <<schemaVars, setting, config, stale, reader, onboarded, user, lost, req>>
    BY <1>1 DEF vars, settingVars, userVars
  <2>2. SchemaTypeOK /\ TypeOK /\ SchemaInv /\ Homes /\ UsersInv
    BY DEF IInv, TypeOK
  <2>3. SchemaTypeOK' /\ SchemaInv' /\ (disturbed \/ Clean)' /\ UNCHANGED program
    BY <2>1, <2>2, SchemaUnchanged DEF IInv
  <2>4. TypeOK'
    BY <2>1, <2>2, <2>3 DEF TypeOK
  <2>5. Homes' /\ UsersInv'
    <3>1. \A s \in Programs : Up(s) => Up(s)'
      BY <2>3 DEF Up, Doing
    <3>2. QED  BY <2>1, <2>2, <3>1, LeftAlone
  <2>6. ConfigInv'
    BY <2>1, <2>3, ConfigAlone DEF IInv, settingVars, Changing, Up, Doing
  <2>7. QED  BY <2>3, <2>4, <2>5, <2>6 DEF IInv
<1>2. CASE Next
  <2>1. ASSUME NEW s \in Programs,
               \/ SchemaStep(s) /\ UNCHANGED <<settingVars, userVars, req>>
               \/ \E auto \in BOOLEAN :
                    StartProgram(s, auto) /\ UNCHANGED <<settingVars, userVars, req>>
        PROVE  IInv'
    BY <2>1, SchemaStepKept
  <2>2. QED  BY <1>2, <2>1, LoadKept, StopKept, RequestKept, SignUpKept DEF Next
<1>3. QED  BY <1>1, <1>2

LEMMA Invariance == Spec => []IInv
<1>1. Init => IInv
  BY Start
<1>2. IInv /\ [Next]_vars => IInv'
  BY StepKept
<1>3. QED  BY <1>1, <1>2, PTL DEF Spec

-----------------------------------------------------------------------------
\* Whatever programs and requests do and wherever they stop, the file, the
\* settings, the users and what a request holds keep their shape.
THEOREM TypesKept == Spec => []TypeOK
<1>1. IInv => TypeOK
  BY DEF IInv
<1>2. QED  BY <1>1, Invariance, PTL

\* Any number of programs may migrate the file, be cut short and start again: a
\* program that serves finds what every migration makes of the tables, except for
\* a table that a rebuild was making once more in a run that was cut short or that
\* overlapped another one.
THEOREM SchemaServed == Spec => []SchemaComplete
<1>1. IInv => SchemaComplete
  <2> SUFFICES ASSUME IInv, NEW s \in Programs, Up(s), NEW m \in Versions
               PROVE  Applied(m) \/ (disturbed /\ m \in repeated)
    BY DEF SchemaComplete
  <2>1. Done(m)
    BY DEF IInv, SchemaInv, Reached, Up, Doing
  <2>2. ~disturbed => repeated = {}
    BY DEF IInv, Clean
  <2>3. QED  BY <2>1, <2>2 DEF Done, Applied
<1>2. QED  BY <1>1, Invariance, PTL

\* A migration that fails has met the remains of a run that was cut short, or
\* another program's run.
THEOREM FailuresDisturbed == Spec => []FailsOnlyDisturbed
<1>1. IInv => FailsOnlyDisturbed
  BY DEF IInv, Clean, FailsOnlyDisturbed
<1>2. QED  BY <1>1, Invariance, PTL

\* Between changes the server goes by the settings that are stored, as far as they
\* can be parsed, for any settings and any changes: what overlaps, failures and
\* commands spoil is repaired by the next load that nobody disturbs.
THEOREM SettingsCurrent == Spec => []ConfigCurrent
<1>1. IInv => ConfigCurrent
  <2> SUFFICES ASSUME IInv, Up(Main), ~stale, \A p \in Procs : ~Reloading(p)
               PROVE  \A k \in Keys : Current(k)
    BY DEF ConfigCurrent, Current
  <2>1. ConfigInv /\ Homes
    BY DEF IInv
  <2>2. \A p \in Procs : ~Changing(p)
    BY <2>1 DEF Homes, Changing, Reloading
  <2>3. QED  BY <2>1, <2>2 DEF ConfigInv
<1>2. QED  BY <1>1, Invariance, PTL

\* The first user becomes an administrator, or a request is about to make one.
THEOREM AdministratorMade == Spec => []FirstUserPromoted
<1>1. IInv => FirstUserPromoted
  BY DEF IInv, UsersInv
<1>2. QED  BY <1>1, Invariance, PTL

\* There are never more administrators from onboarding than requests that can
\* run at the same time.
THEOREM AdminsFew == Spec => []AdminsBounded
<1>1. IInv => AdminsBounded
  <2> SUFFICES ASSUME IInv
               PROVE  AdminsBounded
    OBVIOUS
  <2>1. IsFiniteSet(Admins) /\ Cardinality(Admins) + Cardinality(Onboarding) <= P
    BY DEF IInv, UsersInv
  <2>2. IsFiniteSet(Onboarding) /\ P \in Nat
    BY FS_Subset, FS_CardinalityType DEF Onboarding, P
  <2>3. Cardinality(Admins) \in Nat /\ Cardinality(Onboarding) \in Nat
    BY <2>1, <2>2, FS_CardinalityType
  <2>4. Cardinality(Admins) <= P
    BY <2>1, <2>2, <2>3
  <2>5. QED  BY <2>4 DEF AdminsBounded, Admins, P
<1>2. QED  BY <1>1, Invariance, PTL
=============================================================================
