------------------------------- MODULE Server -------------------------------
(***************************************************************************)
(* The server from its start: the schema, the settings, which are a table  *)
(* and a copy of it in memory, and the first administrator.                *)
(***************************************************************************)
EXTENDS Schema

CONSTANTS
  Main,      \* the program that serves; the others only run commands
  Procs,     \* request goroutines, and what commands do
  Keys,      \* of the settings
  Values,    \* of the settings
  Default,   \* of each key, stored and built in
  Readable,  \* the values of each key that can be parsed
  Fallback,  \* what stands for the others; None: what is in memory stays
  Empty,     \* the empty value
  Updates,   \* what requests change: values of some keys, None for the others
  Users,     \* ids of users rows
  None

ASSUME ServerAssumption ==
  /\ Main \in Programs /\ None \notin Values \cup Procs /\ Empty \in Values
  /\ Default \in [Keys -> Values] /\ Readable \in [Keys -> SUBSET Values]
  /\ Fallback \in [Keys -> Values \cup {None}]
  /\ IsFiniteSet(Procs)
  /\ Updates \subseteq [Keys -> Values \cup {None}]

VARIABLES
  setting,     \* the settings table
  onboarded,   \* its key "onboarded"
  config,      \* config.Values of the serving program
  user,        \* the users table: role
  req,         \* req[p]: what a request holds in local variables
  stale,       \* history: changes overlapped, a write or load failed, or another program
               \* wrote defaults, and nobody has loaded undisturbed since
  reader,      \* history: whose load nobody has disturbed since it read the table
  lost         \* history: the promotion of a first user was lost, or somebody signed up first

settingVars == <<setting, config, stale, reader>>
userVars == <<onboarded, user, lost>>
vars == <<schemaVars, settingVars, userVars, req>>

ReqSteps == {"idle", "set", "load", "copy", "assign", "create", "promote", "mark"}

\* What is still to be stored, and what was loaded and is still to be assigned.
Request == [step : ReqSteps, home : Programs, todo : [Keys -> Values \cup {None}],
            user : Users \cup {None}]

Nothing == [k \in Keys |-> None]

Idle == [step |-> "idle", home |-> Main, todo |-> Nothing, user |-> None]

Init ==
  /\ SchemaInit
  /\ setting = Nothing /\ onboarded = FALSE
  /\ config = Default
  /\ user = [u \in Users |-> "none"]
  /\ req = [p \in Procs |-> Idle]
  /\ stale = FALSE /\ reader = None /\ lost = FALSE

-----------------------------------------------------------------------------
At(p, step) == req[p].step = step
GoTo(p, step) == req' = [req EXCEPT ![p].step = step]
Ends(p) == req' = [req EXCEPT ![p] = Idle]
Served(p, s) == At(p, "idle") /\ Up(s)

Failing == "dbFail" \in Operations

\* Between its first SetSetting and its last assignment.
Reloading(p) == req[p].home = Main /\ req[p].step \in {"set", "load", "copy", "assign"}

\* Somebody begins to change what the server goes by.
Overlaps(p) ==
  /\ stale' = (stale \/ (req[p].home = Main /\ \E q \in Procs \ {p} : Reloading(q)))
  /\ reader' = IF req[p].home = Main THEN None ELSE reader

-----------------------------------------------------------------------------
(* LoadIntoConfig and EnsureDefaults.                                      *)

\* What memory holds for a key when the table holds stored: a number, a list or a
\* duration that cannot be parsed is passed over without an error, a switch takes
\* its fallback.
Loaded(k, stored, old) ==
  CASE stored = None -> old
    [] stored \in Readable[k] -> stored
    [] OTHER -> IF Fallback[k] # None THEN Fallback[k] ELSE old

\* EnsureDefaults writes the keys that it cannot find: the missing ones and the empty
\* ones, also one whose SELECT fails; it stops at an INSERT that fails.
EnsureDefaults(written) ==
  /\ Failing \/ written = {k \in Keys : setting[k] \in {None, Empty}}
  /\ setting' = [k \in Keys |-> IF k \in written THEN Default[k] ELSE setting[k]]
  /\ onboarded' \in {onboarded, onboarded /\ ~Failing}

\* Both only warn when they fail.  A program has its built-in values before.
LoadAtStart(s) ==
  /\ Doing(s, "defaults")
  /\ \E written \in SUBSET Keys, loaded \in {TRUE, ~Failing} :
       /\ EnsureDefaults(written)
       /\ config' = IF s = Main /\ loaded THEN [k \in Keys |-> Loaded(k, setting'[k], config[k])]
                                          ELSE config
       /\ stale' = IF s = Main THEN ~loaded ELSE stale \/ (Up(Main) /\ setting' # setting)
       /\ reader' = IF setting' # setting THEN None ELSE reader
  /\ Goes(s, "up")
  /\ UNCHANGED <<version, tables, disturbed, user, lost, req>>

\* The requests of the program go with it, and what they still owe, and what it
\* had in memory.
Stop(s) ==
  /\ StopProgram(s)
  /\ req' = [p \in Procs |-> IF req[p].home = s THEN Idle ELSE req[p]]
  /\ lost' = (lost \/ \E p \in Procs : req[p].home = s /\ At(p, "promote"))
  /\ config' = IF s = Main THEN Default ELSE config
  /\ stale' = (s # Main /\ stale) /\ reader' = IF s = Main THEN None ELSE reader
  /\ UNCHANGED <<setting, onboarded, user>>

-----------------------------------------------------------------------------
(* HandlePutSettings and HandleImportApply.  Only durations are validated. *)

PutSettings(p, updates) ==
  /\ Served(p, Main) /\ updates # Nothing
  /\ req' = [req EXCEPT ![p] = [Idle EXCEPT !.step = "set", !.todo = updates]]
  /\ Overlaps(p)
  /\ UNCHANGED <<schemaVars, setting, config, userVars>>

\* One row at a time, in the order of a Go map, which is any.
SetSetting(p, k) ==
  /\ At(p, "set") /\ req[p].todo[k] # None
  /\ setting' = [setting EXCEPT ![k] = req[p].todo[k]]
  /\ req' = [req EXCEPT ![p].todo[k] = None]
  /\ UNCHANGED <<schemaVars, config, stale, reader, userVars>>

\* The request ends; what was stored before is not loaded.
SetSettingFails(p) ==
  /\ Failing /\ At(p, "set") /\ req[p].todo # Nothing
  /\ stale' = TRUE
  /\ Ends(p)
  /\ UNCHANGED <<schemaVars, setting, config, reader, userVars>>

\* Mutant: the values are not loaded again.
NoReload(p) ==
  /\ At(p, "set") /\ req[p].todo = Nothing
  /\ Ends(p)
  /\ UNCHANGED <<schemaVars, settingVars, userVars>>

AllSet(p) ==
  /\ At(p, "set") /\ req[p].todo = Nothing
  /\ GoTo(p, "load")
  /\ UNCHANGED <<schemaVars, settingVars, userVars>>

\* LoadIntoConfig reads the table at once; its error is ignored.
GetAllSettings(p) ==
  /\ At(p, "load")
  /\ \/ /\ req' = [req EXCEPT ![p].step = "copy", ![p].todo = setting]
        /\ reader' = IF \E q \in Procs \ {p} : Reloading(q) THEN None ELSE p
        /\ UNCHANGED stale
     \/ Failing /\ stale' = TRUE /\ Ends(p) /\ UNCHANGED reader
  /\ UNCHANGED <<schemaVars, setting, config, userVars>>

\* cfg := config.Values, and what the table says in place of it.
ParseSettings(p) ==
  /\ At(p, "copy")
  /\ req' = [req EXCEPT ![p].step = "assign",
                        ![p].todo = [k \in Keys |-> Loaded(k, req[p].todo[k], config[k])]]
  /\ UNCHANGED <<schemaVars, settingVars, userVars>>

\* config.Values = cfg without a lock: whoever reads it meanwhile may find some of
\* the old values and some of the new ones.
AssignConfig(p, k) ==
  /\ At(p, "assign") /\ req[p].todo[k] # None
  /\ config' = [config EXCEPT ![k] = req[p].todo[k]]
  /\ req' = [req EXCEPT ![p].todo[k] = None]
  /\ UNCHANGED <<schemaVars, setting, stale, reader, userVars>>

Assigned(p) ==
  /\ At(p, "assign") /\ req[p].todo = Nothing
  /\ stale' = (stale /\ reader # p) /\ reader' = None
  /\ Ends(p)
  /\ UNCHANGED <<schemaVars, setting, config, userVars>>

-----------------------------------------------------------------------------
(* The first administrator: /onboard and autentico onboard.                *)

\* Mutant: anybody may onboard at any time.
AlwaysOpen(s) == TRUE

\* Both look at the setting, which counts as unset when it cannot be read, and
\* count the users.
NotOnboarded(s) ==
  /\ ~onboarded \/ Failing
  /\ \A u \in Users : user[u] = "none"

CountUsers(p, s) ==
  /\ Served(p, s) /\ NotOnboarded(s)
  /\ req' = [req EXCEPT ![p] = [Idle EXCEPT !.step = "create", !.home = s]]
  /\ UNCHANGED <<schemaVars, settingVars, userVars>>

\* Mutant: the role stays as it was created.
NotPromoted(p, u) ==
  /\ At(p, "create") /\ user[u] = "none"
  /\ user' = [user EXCEPT ![u] = "user"]
  /\ GoTo(p, "mark")
  /\ UNCHANGED <<schemaVars, settingVars, onboarded, lost>>

CreateUser(p, u) ==
  /\ At(p, "create") /\ user[u] = "none"
  /\ user' = [user EXCEPT ![u] = "user"]
  /\ req' = [req EXCEPT ![p].step = "promote", ![p].user = u]
  /\ UNCHANGED <<schemaVars, settingVars, onboarded, lost>>

\* The handler ignores the error, the command stops with it.
PromoteUser(p) ==
  /\ At(p, "promote")
  /\ \/ /\ user' = [user EXCEPT ![req[p].user] = "admin"]
        /\ GoTo(p, "mark") /\ UNCHANGED lost
     \/ /\ Failing /\ lost' = TRUE
        /\ IF req[p].home = Main THEN GoTo(p, "mark") ELSE Ends(p)
        /\ UNCHANGED user
  /\ UNCHANGED <<schemaVars, settingVars, onboarded>>

\* The values are loaded; a command does not look at its own copy any more.
Reloads(p) ==
  req' = [req EXCEPT ![p] = IF @.home = Main THEN [Idle EXCEPT !.step = "load"] ELSE Idle]

\* SetSetting("onboarded")
MarkOnboarded(p) ==
  /\ At(p, "mark")
  /\ onboarded' = TRUE
  /\ Reloads(p)
  /\ Overlaps(p)
  /\ UNCHANGED <<schemaVars, setting, config, user, lost>>

\* Its error is ignored, too.
MarkFails(p) ==
  /\ Failing /\ At(p, "mark")
  /\ Reloads(p)
  /\ Overlaps(p)
  /\ UNCHANGED <<schemaVars, setting, config, userVars>>

\* A name that is taken, or another error.
CreateUserFails(p) ==
  /\ At(p, "create")
  /\ Ends(p)
  /\ UNCHANGED <<schemaVars, settingVars, userVars>>

\* Where signing up is allowed, a user may come before the administrator; later
\* another user makes no difference here.
SignUp(u) ==
  /\ "signup" \in Operations /\ Up(Main)
  /\ \A v \in Users : user[v] = "none"
  /\ user' = [user EXCEPT ![u] = "user"]
  /\ lost' = TRUE
  /\ UNCHANGED <<schemaVars, settingVars, onboarded, req>>

-----------------------------------------------------------------------------
Step(p) ==
  \/ \E updates \in Updates : PutSettings(p, updates)
  \/ \E k \in Keys : SetSetting(p, k) \/ AssignConfig(p, k)
  \/ SetSettingFails(p) \/ AllSet(p) \/ GetAllSettings(p) \/ ParseSettings(p) \/ Assigned(p)
  \/ \E s \in Programs : CountUsers(p, s)
  \/ PromoteUser(p) \/ MarkOnboarded(p) \/ MarkFails(p) \/ CreateUserFails(p)
  \/ \E u \in Users : CreateUser(p, u)

Next ==
  \/ \E s \in Programs :
       \/ SchemaStep(s) /\ UNCHANGED <<settingVars, userVars, req>>
       \/ \E auto \in BOOLEAN : StartProgram(s, auto) /\ UNCHANGED <<settingVars, userVars, req>>
       \/ LoadAtStart(s) \/ Stop(s)
  \/ \E p \in Procs : Step(p)
  \/ \E u \in Users : SignUp(u)

Spec == Init /\ [][Next]_vars

-----------------------------------------------------------------------------
\* Tables, programs, requests and histories have the shape the code gives them.
TypeOK ==
  /\ SchemaTypeOK
  /\ setting \in [Keys -> Values \cup {None}] /\ onboarded \in BOOLEAN
  /\ config \in [Keys -> Values]
  /\ user \in [Users -> {"none", "user", "admin"}]
  /\ req \in [Procs -> Request]
  /\ stale \in BOOLEAN /\ reader \in Procs \cup {None} /\ lost \in BOOLEAN

\* Whenever nobody is changing the settings, the server goes by what is stored, as
\* far as it can be parsed: to load them once more would change nothing.  Overlapping
\* changes, failed statements and defaults that a command writes damage this only
\* until the next load that nobody disturbs.
ConfigCurrent ==
  Up(Main) /\ ~stale /\ (\A p \in Procs : ~Reloading(p)) =>
    \A k \in Keys : config[k] = Loaded(k, setting[k], config[k])

\* There is an administrator as soon as there is a user whom nobody is about
\* to promote, unless the promotion was lost or somebody signed up first.
FirstUserPromoted ==
  \/ lost
  \/ \A u \in Users : user[u] = "user" =>
       \/ \E v \in Users : user[v] = "admin"
       \/ \E p \in Procs : At(p, "promote") /\ req[p].user = u

\* Only onboardings that overlap make more than one administrator: none starts
\* once there is a user.
AdminsBounded == Cardinality({u \in Users : user[u] = "admin"}) <= Cardinality(Procs)
=============================================================================
