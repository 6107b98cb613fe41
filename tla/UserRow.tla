------------------------------ MODULE UserRow ------------------------------
(***************************************************************************)
(* The columns of one users row that decide how its owner signs in: the    *)
(* password, the TOTP secret and the lockout counter.  Requests that check *)
(* the password, change the row or enrol an authenticator read the row, do *)
(* something slow and write with what they have read.                      *)
(***************************************************************************)
EXTENDS Integers, FiniteSets

CONSTANTS
  Procs,        \* request goroutines
  Passwords, Secrets,
  None,
  MaxAttempts,  \* config AuthAccountLockoutMaxAttempts, when the lockout is on
  MaxFailed,    \* bound of the instance on failed_login_attempts
  Operations    \* optional behaviour of the instance

ASSUME AttemptsAssumption == MaxAttempts \in Nat \ {0} /\ MaxFailed \in Nat
ASSUME ProcsAssumption == IsFiniteSet(Procs) /\ Procs # {}
ASSUME NoneAssumption == None \notin Passwords \cup Secrets \cup BOOLEAN

VARIABLES
  user,      \* the users row
  loc,       \* loc[p]: what a request holds in local variables
  guesses,   \* history: wrong passwords counted since the counter was cleared or a lock ended
  late,      \* history: of these, the ones counted while the lock stood
  proven,    \* history: secrets that a code was checked against
  revived    \* history: totp_verified was last set by UpdateUser

lockHistory == <<guesses, late>>
totpHistory == <<proven, revived>>
vars == <<user, loc, lockHistory, totpHistory>>

UserColumns == [password : Passwords \cup {None}, totp_secret : Secrets \cup {None},
                totp_verified : BOOLEAN, failed_login_attempts : Nat,
                locked : BOOLEAN, require_password_change : BOOLEAN]

\* What UserUpdateRequest asks for; None keeps a column.
Changes == [password : Passwords \cup {None}, totp_verified : BOOLEAN \cup {None},
            require_password_change : BOOLEAN \cup {None}]

Tasks == {"signIn", "profile", "setPassword", "setupTotp", "disableTotp", "admin",
          "force", "reset", "enrol"}

Steps == {"idle", "verify", "check", "update", "write", "storeSecret",
          "saveSecret", "disable"}

NoColumns == [password |-> None, totp_secret |-> None, totp_verified |-> FALSE,
              failed_login_attempts |-> 0, locked |-> FALSE,
              require_password_change |-> FALSE]

\* What a request holds: its next statement, what it is for, and the row as it
\* was last read.
Request == [step : Steps, task : Tasks, row : UserColumns]

Idle == [step |-> "idle", task |-> "signIn", row |-> NoColumns]

Init ==
  /\ user \in [password : Passwords \cup {None}, totp_secret : {None},
               totp_verified : {FALSE}, failed_login_attempts : {0},
               locked : {FALSE}, require_password_change : BOOLEAN]
  /\ loc = [p \in Procs |-> Idle]
  /\ guesses = 0 /\ late = 0
  /\ proven = {} /\ revived = FALSE

-----------------------------------------------------------------------------
At(p, step) == loc[p].step = step
GoTo(p, step) == loc' = [loc EXCEPT ![p].step = step]
Ends(p) == loc' = [loc EXCEPT ![p] = Idle]
Start(p, step, task, row) ==
  /\ At(p, "idle")
  /\ loc' = [loc EXCEPT ![p] = [step |-> step, task |-> task, row |-> row]]

Failing == "dbFail" \in Operations

\* Only the columns a request will use are worth remembering.
EnrolledOf(row) == [NoColumns EXCEPT !.totp_verified = row.totp_verified]
SecretOf(row) == [NoColumns EXCEPT !.totp_secret = row.totp_secret]
CountOf(row, seen) == [seen EXCEPT !.failed_login_attempts = row.failed_login_attempts]
UpdateOf(row) == [NoColumns EXCEPT !.password = row.password,
                                   !.totp_verified = row.totp_verified,
                                   !.require_password_change = row.require_password_change]

\* The statement that follows when the current password was right.
AfterPassword(task) ==
  CASE task \in {"profile", "setPassword"} -> "update"
    [] task = "setupTotp" -> "storeSecret"
    [] task = "disableTotp" -> "disable"
    [] OTHER -> "idle"

-----------------------------------------------------------------------------
(* Checking the password and counting the failures.                        *)

\* Mutant: the lock is not looked at.
CanCheckWhileLocked == user.password # None /\ user.failed_login_attempts < MaxFailed

CanCheck == user.password # None /\ ~user.locked /\ user.failed_login_attempts < MaxFailed

\* AuthenticateUser, and HandleUpdatePassword up to the read in VerifyPassword.
CheckRequest(p, task) ==
  /\ task \in {"signIn", "setPassword"}
  /\ CanCheck
  /\ Start(p, "check", task, CountOf(user, NoColumns))
  /\ UNCHANGED <<user, lockHistory, totpHistory>>

\* A request of the account API: the middleware has loaded the user.  An
\* account without a password is not asked for one, nor is a profile update
\* that changes neither the e-mail address nor the username.
AccountRequest(p, task) ==
  /\ task \in {"profile", "setupTotp", "disableTotp"}
  /\ task = "disableTotp" => user.totp_secret # None
  /\ \/ user.password # None /\ Start(p, "verify", task, EnrolledOf(user))
     \/ /\ user.password = None \/ task = "profile"
        /\ task = "setupTotp" => ~user.totp_verified
        /\ Start(p, AfterPassword(task), task, EnrolledOf(user))
  /\ UNCHANGED <<user, lockHistory, totpHistory>>

\* The read in VerifyPassword, and its refusals.
VerifyRead(p) ==
  /\ At(p, "verify")
  /\ \/ /\ CanCheck
        /\ loc' = [loc EXCEPT ![p].step = "check", ![p].row = CountOf(user, @)]
     \/ (user.locked \/ user.password = None) /\ Ends(p)
  /\ UNCHANGED <<user, lockHistory, totpHistory>>

\* Mutant: off by one.
LockoutAfter(attempts) ==
  user' = IF attempts > MaxAttempts
            THEN [user EXCEPT !.failed_login_attempts = attempts, !.locked = TRUE]
            ELSE [user EXCEPT !.failed_login_attempts = attempts]

\* The two UPDATEs of verifyPasswordWithLockout.
Lockout(attempts) ==
  user' = IF attempts >= MaxAttempts
            THEN [user EXCEPT !.failed_login_attempts = attempts, !.locked = TRUE]
            ELSE [user EXCEPT !.failed_login_attempts = attempts]

\* The failure is counted from the number that was read before bcrypt ran.
WrongPassword(p) ==
  /\ At(p, "check")
  /\ Lockout(loc[p].row.failed_login_attempts + 1)
  /\ guesses' = guesses + 1
  /\ late' = IF user.locked THEN late + 1 ELSE late
  /\ Ends(p)
  /\ UNCHANGED totpHistory

ClearFailures ==
  /\ user' = [user EXCEPT !.failed_login_attempts = 0, !.locked = FALSE]
  /\ guesses' = 0 /\ late' = 0

\* The counter is cleared when the number read was not zero; an error of that
\* UPDATE is only logged.  The request goes on, or is refused for another
\* reason: TOTP is enrolled already, the code is wrong, the new value invalid.
RightPassword(p) ==
  /\ At(p, "check")
  /\ \/ loc[p].row.failed_login_attempts > 0 /\ ClearFailures
     \/ /\ loc[p].row.failed_login_attempts = 0 \/ Failing
        /\ UNCHANGED <<user, lockHistory>>
  /\ \/ /\ AfterPassword(loc[p].task) # "idle"
        /\ loc[p].task = "setupTotp" => ~loc[p].row.totp_verified
        /\ GoTo(p, AfterPassword(loc[p].task))
     \/ Ends(p)
  /\ UNCHANGED totpHistory

\* The UPDATE of a wrong password fails: the error is logged, nothing counted.
CountFails(p) ==
  /\ Failing /\ At(p, "check")
  /\ Ends(p)
  /\ UNCHANGED <<user, lockHistory, totpHistory>>

\* UnlockUser by an administrator.
UnlockUser ==
  /\ user.failed_login_attempts > 0
  /\ ClearFailures
  /\ UNCHANGED <<loc, totpHistory>>

\* locked_until passes.  The counter keeps its value.
LockExpires ==
  /\ user.locked
  /\ user' = [user EXCEPT !.locked = FALSE]
  /\ guesses' = 0 /\ late' = 0
  /\ UNCHANGED <<loc, totpHistory>>

-----------------------------------------------------------------------------
(* UpdateUser: read the row, keep what the request does not change, write. *)

\* What each caller may ask for.
ChangesOf(task) ==
  {ch \in Changes :
     /\ task = "profile" => ch = [password |-> None, totp_verified |-> None,
                                  require_password_change |-> None]
     /\ task \in {"setPassword", "force"} =>
          ch.password # None /\ ch.totp_verified = None /\ ch.require_password_change = FALSE
     /\ task = "reset" =>
          ch.password # None /\ ch.totp_verified = None /\ ch.require_password_change = None}

\* The read in UpdateUser: of an administrator's request, of a request that
\* has checked the password, or of one that has looked up its link.
UpdateRead(p) ==
  /\ \/ Start(p, "write", "admin", UpdateOf(user))
     \/ /\ At(p, "update")
        /\ loc' = [loc EXCEPT ![p].step = "write", ![p].row = UpdateOf(user)]
  /\ UNCHANGED <<user, lockHistory, totpHistory>>

\* HandleForcePasswordChange finds the change required.
ForceRead(p) ==
  /\ user.require_password_change
  /\ Start(p, "update", "force", NoColumns)
  /\ UNCHANGED <<user, lockHistory, totpHistory>>

\* HandleResetPassword with a link that is good.
ResetRead(p) ==
  /\ Start(p, "update", "reset", NoColumns)
  /\ UNCHANGED <<user, lockHistory, totpHistory>>

\* Mutant: the column is written even when the request does not name it.
WriteAlways(value, old) == value

Keep(value, old) == IF value = None THEN old ELSE value

UpdateWrite(p, ch) ==
  LET row == loc[p].row
  IN  /\ At(p, "write") /\ ch \in ChangesOf(loc[p].task)
      /\ user' = [user EXCEPT
                    !.password = Keep(ch.password, row.password),
                    !.totp_verified = Keep(ch.totp_verified, row.totp_verified),
                    !.require_password_change =
                       Keep(ch.require_password_change, row.require_password_change)]
      /\ revived' = (user'.totp_verified = TRUE /\ (revived \/ ~user.totp_verified))
      /\ Ends(p)
      /\ UNCHANGED <<lockHistory, proven>>

-----------------------------------------------------------------------------
(* The authenticator.                                                      *)

\* A secret that nobody holds any more may stand for a newly generated one.
Generated(s) ==
  s # user.totp_secret /\ \A q \in Procs : s # loc[q].row.totp_secret

\* Mutant: the flag of the secret before stays.
StoreTotpSecretOnly(p, s) ==
  /\ At(p, "storeSecret") /\ Generated(s)
  /\ user' = [user EXCEPT !.totp_secret = s]
  /\ proven' = proven \ {s}
  /\ Ends(p)
  /\ UNCHANGED <<revived, lockHistory>>

\* StoreTotpSecretPending with a secret generated for this request.
StoreTotpSecretPending(p, s) ==
  /\ At(p, "storeSecret") /\ Generated(s)
  /\ user' = [user EXCEPT !.totp_secret = s, !.totp_verified = FALSE]
  /\ proven' = proven \ {s}
  /\ revived' = FALSE
  /\ Ends(p)
  /\ UNCHANGED lockHistory

\* HandleVerifyTotp with a right code for the secret it has read.
VerifyTotp(p) ==
  /\ user.totp_secret # None
  /\ Start(p, "saveSecret", "enrol", SecretOf(user))
  /\ proven' = proven \cup {user.totp_secret}
  /\ UNCHANGED <<user, lockHistory, revived>>

\* Enrolment while signing in, with a right code for the secret in the form.
EnrolRead(p, s) ==
  /\ ~user.totp_verified
  /\ Start(p, "saveSecret", "enrol", [NoColumns EXCEPT !.totp_secret = s])
  /\ proven' = proven \cup {s}
  /\ UNCHANGED <<user, lockHistory, revived>>

SaveTotpSecret(p) ==
  /\ At(p, "saveSecret")
  /\ user' = [user EXCEPT !.totp_secret = loc[p].row.totp_secret, !.totp_verified = TRUE]
  /\ revived' = FALSE
  /\ Ends(p)
  /\ UNCHANGED <<lockHistory, proven>>

\* DisableMfa after a right password and a right code for the secret the
\* middleware has loaded.
DisableMfa(p) ==
  /\ At(p, "disable")
  /\ user' = [user EXCEPT !.totp_secret = None, !.totp_verified = FALSE]
  /\ revived' = FALSE
  /\ Ends(p)
  /\ UNCHANGED <<lockHistory, proven>>

\* One of the statements whose error ends the request fails.
StatementFails(p) ==
  /\ Failing
  /\ loc[p].step \in {"verify", "update", "write", "storeSecret", "saveSecret",
                      "disable"}
  /\ Ends(p)
  /\ UNCHANGED <<user, lockHistory, totpHistory>>

\* The server stops and starts again.
Crash ==
  /\ "crash" \in Operations
  /\ \E p \in Procs : ~At(p, "idle")
  /\ loc' = [p \in Procs |-> Idle]
  /\ UNCHANGED <<user, lockHistory, totpHistory>>

-----------------------------------------------------------------------------
Step(p) ==
  \/ \E t \in Tasks : CheckRequest(p, t) \/ AccountRequest(p, t)
  \/ VerifyRead(p) \/ WrongPassword(p) \/ RightPassword(p) \/ CountFails(p)
  \/ UpdateRead(p) \/ ForceRead(p) \/ ResetRead(p)
  \/ \E ch \in Changes : UpdateWrite(p, ch)
  \/ \E s \in Secrets : StoreTotpSecretPending(p, s) \/ EnrolRead(p, s)
  \/ VerifyTotp(p) \/ SaveTotpSecret(p) \/ DisableMfa(p)
  \/ StatementFails(p)

Next ==
  \/ \E p \in Procs : Step(p)
  \/ UnlockUser \/ LockExpires \/ Crash

Spec == Init /\ [][Next]_vars

-----------------------------------------------------------------------------
\* Rows, requests and histories have the shape the code gives them.
TypeOK ==
  /\ user \in UserColumns
  /\ loc \in [Procs -> Request]
  /\ guesses \in Nat /\ late \in Nat
  /\ proven \subseteq Secrets /\ revived \in BOOLEAN

\* Once an account is locked, the only wrong passwords that are still compared
\* are those of requests that had read the row before: every other goroutine
\* has at most one such request (verifyPasswordWithLockout).
LateGuesses == late < Cardinality(Procs)

\* The ways in which as many requests as there are goroutines can hold counts
\* that do not lock the account: for each such count, how many hold more.
Thresholds == 0 .. MaxAttempts - 2
Profiles == {f \in [Thresholds -> 0 .. Cardinality(Procs)] :
               \A m, n \in Thresholds : m <= n => f[n] <= f[m]}

\* A stale count that is written back buys more guesses, but not for ever: no
\* profile comes back, so a lock is reached after at most as many wrong
\* passwords that were counted, however the requests overlap
\* (verifyPasswordWithLockout).
LockReached == ~user.locked => guesses < Cardinality(Profiles)

\* A second factor that counts was proven: an authenticator is only asked for
\* when a code of its secret was seen, unless UpdateUser set the flag.
SecretProven ==
  user.totp_verified /\ ~revived => user.totp_secret \in proven

-----------------------------------------------------------------------------
(* The inductive invariant.                                                *)

Checking == {p \in Procs : At(p, "check")}

\* While the lock stands every goroutine has a wrong password to count at most
\* once, and the one that locked the account has none.
LateBudget ==
  /\ ~user.locked => late = 0
  /\ user.locked => late + Cardinality(Checking) < Cardinality(Procs)

\* The count that a request may still write back one higher.
Level(p) ==
  IF At(p, "check") /\ loc[p].row.failed_login_attempts < user.failed_login_attempts
    THEN loc[p].row.failed_login_attempts
    ELSE user.failed_login_attempts

Higher(n) == {p \in Procs : Level(p) > n}
Profile == [n \in Thresholds |-> Cardinality(Higher(n))]

Before(f, g) ==
  \E n \in Thresholds :
    f[n] < g[n] /\ \A m \in Thresholds : m < n => f[m] <= g[m]

\* Every wrong password that was counted has moved the profile on.
GuessesSpent ==
  ~user.locked => guesses <= Cardinality({f \in Profiles : Before(f, Profile)})

\* Nobody generates the secret that a request is about to save.
SavesProven == \A p \in Procs : At(p, "saveSecret") => loc[p].row.totp_secret \in proven

IInv == TypeOK /\ LateBudget /\ GuessesSpent /\ SavesProven /\ SecretProven
=============================================================================
