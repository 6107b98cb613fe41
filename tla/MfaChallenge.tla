---------------------------- MODULE MfaChallenge ----------------------------
(***************************************************************************)
(* Signing in after the password was right: whether a second factor is     *)
(* asked for, the challenges that ask for it, and trusted devices.  One    *)
(* user, any number of requests.                                           *)
(***************************************************************************)
EXTENDS Integers, FiniteSets

CONSTANTS
  Procs,        \* request goroutines
  Challenges,   \* ids of mfa_challenges rows
  Devices,      \* ids of trusted_devices rows
  Configs,      \* runtime settings in effect
  None,
  Limit,        \* wrong codes after which a challenge is closed
  MaxFailed,    \* bound of the instance on failed_attempts once an UPDATE was lost
  Operations    \* optional behaviour of the instance

ASSUME LimitAssumption == Limit \in Nat \ {0} /\ MaxFailed \in Nat
ASSUME ProcsAssumption == IsFiniteSet(Procs) /\ Procs # {}
ASSUME ConfigsAssumption ==
  Configs \subseteq [RequireMfa : BOOLEAN, MfaMethod : {"totp", "email", "both"},
                     TrustDevice : BOOLEAN, Smtp : BOOLEAN]
ASSUME NoneAssumption == None \notin Challenges

VARIABLES
  config,      \* config.Get()
  enrolled,    \* users.totp_verified
  challenge,   \* the mfa_challenges table
  device,      \* the trusted_devices table
  req,         \* req[p]: what a request holds in local variables
  guesses,     \* history: wrong codes compared, per challenge, while nothing was lost
  entries,     \* history: requests let in, likewise
  lost,        \* history: an UPDATE that counts or closes never happened
  proven,      \* history: a second factor was right once
  skipped      \* history: a trusted device stood in for it

tables == <<config, enrolled, challenge, device>>
history == <<guesses, entries, lost, proven, skipped>>
vars == <<tables, req, history>>

Methods == {"totp", "email"}

\* A row that is used, expired or purged is closed: every request refuses it,
\* and its other columns are not looked at again.
Row == [st : {"none", "open", "closed"}, method : Methods, code : BOOLEAN,
        failed : Nat]

Steps == {"idle", "login", "otp", "switch", "create", "post", "check", "lock", "enrol",
          "done", "trust"}

\* The challenge a request is about, and the columns it has read of it and of
\* the users row.
Request == [step : Steps, ch : Challenges \cup {None}, row : Row, enrolled : BOOLEAN]

NoRow == [st |-> "none", method |-> "totp", code |-> FALSE, failed |-> 0]

Idle == [step |-> "idle", ch |-> None, row |-> NoRow, enrolled |-> FALSE]

Zero == [c \in Challenges |-> 0]

Init ==
  /\ config \in Configs /\ enrolled \in BOOLEAN
  /\ challenge = [c \in Challenges |-> NoRow]
  /\ device = [d \in Devices |-> "none"]
  /\ req = [p \in Procs |-> Idle]
  /\ guesses = Zero /\ entries = Zero
  /\ lost = FALSE /\ proven = FALSE /\ skipped = FALSE

-----------------------------------------------------------------------------
At(p, step) == req[p].step = step
GoTo(p, step) == req' = [req EXCEPT ![p].step = step]
Ends(p) == req' = [req EXCEPT ![p] = Idle]

Failing == "dbFail" \in Operations

\* The histories count while every count and every mark has reached its row.
Counted(h, c) == IF lost' THEN Zero ELSE [h EXCEPT ![c] = @ + 1]
Kept(h) == IF lost' THEN Zero ELSE h

\* Mutant: used and expires_at are not looked at.
AnyChallenge(c) == challenge[c].st # "none"

\* What handleMfaGet and handleMfaPost accept.
Open(c) == challenge[c].st = "open"

\* UPDATE mfa_challenges SET used = TRUE WHERE id = ?
Close(c) == challenge' = [challenge EXCEPT ![c] = [NoRow EXCEPT !.st = "closed"]]

\* An UPDATE of other columns, which only matter while the row is open.
Set(c, row) == challenge' = IF Open(c) THEN [challenge EXCEPT ![c] = row] ELSE challenge

-----------------------------------------------------------------------------
(* HandleLoginUser, once AuthenticateUser has returned the user.           *)

PasswordRight(p) ==
  /\ At(p, "idle")
  /\ req' = [req EXCEPT ![p] = [Idle EXCEPT !.step = "login", !.enrolled = enrolled]]
  /\ UNCHANGED <<tables, history>>

FactorRequired(p) == config.RequireMfa \/ req[p].enrolled

\* Mutant: the setting as it is.
SettingMethod(verified) == config.MfaMethod

\* The method of the challenge; without SMTP only an authenticator will do.
PreferredMethod(verified) ==
  CASE ~config.RequireMfa -> "totp"
    [] config.RequireMfa /\ config.MfaMethod = "both" -> IF verified THEN "totp" ELSE "email"
    [] OTHER -> config.MfaMethod

ChallengeMethod(verified) ==
  IF PreferredMethod(verified) = "email" /\ ~config.Smtp THEN "totp" ELSE PreferredMethod(verified)

CanChallenge(verified) == ChallengeMethod(verified) = PreferredMethod(verified) \/ verified

IsDeviceTrusted(d) == config.TrustDevice /\ device[d] = "trusted"

NoFactor(p) ==
  /\ At(p, "login") /\ ~FactorRequired(p)
  /\ Ends(p)
  /\ UNCHANGED <<tables, history>>

DeviceVouches(p, d) ==
  /\ At(p, "login") /\ FactorRequired(p) /\ IsDeviceTrusted(d)
  /\ skipped' = TRUE
  /\ Ends(p)
  /\ UNCHANGED <<tables, guesses, entries, lost, proven>>

\* The browser presents no token of a trusted device.
CreateMfaChallenge(p, c) ==
  /\ At(p, "login") /\ FactorRequired(p) /\ CanChallenge(req[p].enrolled)
  /\ challenge[c].st = "none"
  /\ challenge' = [challenge EXCEPT ![c] =
                     [NoRow EXCEPT !.st = "open",
                                   !.method = ChallengeMethod(req[p].enrolled)]]
  /\ Ends(p)
  /\ UNCHANGED <<config, enrolled, device, history>>

\* No method is available.
NoMethod(p) ==
  /\ At(p, "login") /\ FactorRequired(p) /\ ~CanChallenge(req[p].enrolled)
  /\ Ends(p)
  /\ UNCHANGED <<tables, history>>

-----------------------------------------------------------------------------
(* GET /oauth2/mfa: sending a code, switching the method.                  *)

Load(p, c, step) ==
  /\ At(p, "idle") /\ Open(c)
  /\ req' = [req EXCEPT ![p] = [Idle EXCEPT !.step = step, !.ch = c,
                                            !.row = challenge[c]]]
  /\ UNCHANGED <<tables, history>>

\* No code was sent yet, or more than a minute ago.
GetEmail(p, c) == challenge[c].method = "email" /\ Load(p, c, "otp")

\* The code is mailed even when the row could not be written.
UpdateChallengeCode(p) ==
  /\ At(p, "otp")
  /\ \/ Set(req[p].ch, [challenge[req[p].ch] EXCEPT !.code = TRUE])
     \/ Failing /\ UNCHANGED challenge
  /\ Ends(p)
  /\ UNCHANGED <<config, enrolled, device, history>>

\* handleMethodSwitch: to the authenticator only when it is enrolled.
GetSwitch(p, c) ==
  /\ config.MfaMethod = "both" /\ config.Smtp
  /\ challenge[c].method = "email" => enrolled
  /\ Load(p, c, "switch")

SwitchMark(p) ==
  /\ At(p, "switch")
  /\ Close(req[p].ch)
  /\ GoTo(p, "create")
  /\ UNCHANGED <<config, enrolled, device, history>>

\* The new challenge expires with the old one, and has no failures yet.
SwitchCreate(p, c) ==
  LET row == req[p].row
  IN  /\ At(p, "create") /\ challenge[c].st = "none"
      /\ challenge' = [challenge EXCEPT ![c] =
                         [NoRow EXCEPT !.st = "open",
                                       !.method = IF row.method = "totp" THEN "email" ELSE "totp"]]
      /\ Ends(p)
      /\ UNCHANGED <<config, enrolled, device, history>>

-----------------------------------------------------------------------------
(* POST /oauth2/mfa.                                                       *)

PostRead(p, c) == (lost => challenge[c].failed < MaxFailed) /\ Load(p, c, "post")

PostUser(p) ==
  /\ At(p, "post")
  /\ req' = [req EXCEPT ![p].step = "check", ![p].enrolled = enrolled]
  /\ UNCHANGED <<tables, history>>

Enrolling(p) == req[p].row.method = "totp" /\ ~req[p].enrolled

\* A wrong code while enrolling is not counted.
WrongEnrolment(p) ==
  /\ At(p, "check") /\ Enrolling(p)
  /\ Ends(p)
  /\ UNCHANGED <<tables, history>>

\* Mutant: the failure is not counted in the row.
NotCounted(c) == UNCHANGED challenge

IncrementFailedAttempts(c) == Set(c, [challenge[c] EXCEPT !.failed = @ + 1])

\* The row is incremented in place, but the limit is compared with the number
\* that was read before.
WrongCode(p) ==
  LET c == req[p].ch
  IN  /\ At(p, "check") /\ ~Enrolling(p)
      /\ \/ IncrementFailedAttempts(c) /\ UNCHANGED lost
         \/ Failing /\ lost' = TRUE /\ UNCHANGED challenge
      /\ guesses' = Counted(guesses, c) /\ entries' = Kept(entries)
      /\ IF req[p].row.failed + 1 >= Limit THEN GoTo(p, "lock") ELSE Ends(p)
      /\ UNCHANGED <<config, enrolled, device, proven, skipped>>

\* MarkChallengeUsed, whose error is ignored.
MarkUsed(c) ==
  \/ Close(c) /\ UNCHANGED lost
  \/ Failing /\ lost' = TRUE /\ UNCHANGED challenge

LockChallenge(p) ==
  /\ At(p, "lock")
  /\ MarkUsed(req[p].ch)
  /\ guesses' = Kept(guesses) /\ entries' = Kept(entries)
  /\ Ends(p)
  /\ UNCHANGED <<config, enrolled, device, proven, skipped>>

\* An e-mailed code can only be right when the row that was read has one.
RightCode(p) ==
  LET c == req[p].ch
  IN  /\ At(p, "check")
      /\ req[p].row.method = "email" => req[p].row.code
      /\ GoTo(p, IF Enrolling(p) THEN "enrol" ELSE "done")
      /\ UNCHANGED <<tables, history>>

SaveTotpSecret(p) ==
  /\ At(p, "enrol")
  /\ enrolled' = TRUE
  /\ GoTo(p, "done")
  /\ UNCHANGED <<config, challenge, device, history>>

FactorProven(p) ==
  LET c == req[p].ch
  IN  /\ At(p, "done")
      /\ MarkUsed(c)
      /\ guesses' = Kept(guesses) /\ entries' = Counted(entries, c)
      /\ proven' = TRUE
      /\ GoTo(p, "trust")
      /\ UNCHANGED <<config, enrolled, device, skipped>>

\* Mutant: a device is trusted before the code was checked.
TrustEarly(p, d) ==
  /\ At(p, "check") /\ config.TrustDevice /\ device[d] = "none"
  /\ device' = [device EXCEPT ![d] = "trusted"]
  /\ Ends(p)
  /\ UNCHANGED <<config, enrolled, challenge, history>>

CreateTrustedDevice(p, d) ==
  /\ At(p, "trust") /\ config.TrustDevice /\ device[d] = "none"
  /\ device' = [device EXCEPT ![d] = "trusted"]
  /\ Ends(p)
  /\ UNCHANGED <<config, enrolled, challenge, history>>

NotTrusted(p) ==
  /\ At(p, "trust")
  /\ Ends(p)
  /\ UNCHANGED <<tables, history>>

\* A statement fails whose error ends the request.
StatementFails(p) ==
  /\ Failing /\ req[p].step \in {"login", "switch", "create", "post", "enrol"}
  /\ Ends(p)
  /\ UNCHANGED <<tables, history>>

-----------------------------------------------------------------------------
(* What else happens to the tables.                                        *)

\* The account API and the administration switch TOTP on and off.
ChangeTotp ==
  /\ "totp" \in Operations
  /\ enrolled' = ~enrolled
  /\ UNCHANGED <<config, challenge, device, req, history>>

ChangeSettings ==
  /\ "settings" \in Operations
  /\ config' \in Configs \ {config}
  /\ UNCHANGED <<enrolled, challenge, device, req, history>>

\* The ten minutes of a challenge pass; it is purged a retention later.
Expire(c) ==
  /\ "clock" \in Operations /\ Open(c)
  /\ Close(c)
  /\ UNCHANGED <<config, enrolled, device, req, history>>

\* A device expires, is purged or revoked by its owner.
ExpireDevice(d) ==
  /\ "clock" \in Operations /\ device[d] = "trusted"
  /\ device' = [device EXCEPT ![d] = "expired"]
  /\ UNCHANGED <<config, enrolled, challenge, req, history>>

DeleteTrustedDevice(d) ==
  /\ "revoke" \in Operations /\ device[d] # "none"
  /\ device' = [device EXCEPT ![d] = "none"]
  /\ UNCHANGED <<config, enrolled, challenge, req, history>>

\* The server stops and starts again.
Crash ==
  /\ "crash" \in Operations /\ \E p \in Procs : ~At(p, "idle")
  /\ req' = [p \in Procs |-> Idle]
  /\ lost' = (lost \/ \E p \in Procs : At(p, "lock"))
  /\ guesses' = Kept(guesses) /\ entries' = Kept(entries)
  /\ UNCHANGED <<tables, proven, skipped>>

-----------------------------------------------------------------------------
Step(p) ==
  \/ PasswordRight(p) \/ NoFactor(p) \/ NoMethod(p)
  \/ \E d \in Devices : DeviceVouches(p, d) \/ CreateTrustedDevice(p, d)
  \/ \E c \in Challenges :
       \/ CreateMfaChallenge(p, c) \/ SwitchCreate(p, c)
       \/ GetEmail(p, c) \/ GetSwitch(p, c) \/ PostRead(p, c)
  \/ UpdateChallengeCode(p) \/ SwitchMark(p) \/ PostUser(p)
  \/ WrongEnrolment(p) \/ WrongCode(p) \/ LockChallenge(p)
  \/ RightCode(p) \/ SaveTotpSecret(p) \/ FactorProven(p) \/ NotTrusted(p)
  \/ StatementFails(p)

Environment ==
  \/ ChangeTotp \/ ChangeSettings \/ Crash
  \/ \E c \in Challenges : Expire(c)
  \/ \E d \in Devices : ExpireDevice(d) \/ DeleteTrustedDevice(d)

Next == (\E p \in Procs : Step(p)) \/ Environment

Spec == Init /\ [][Next]_vars

-----------------------------------------------------------------------------
\* Rows, requests and histories have the shape the code gives them.
TypeOK ==
  /\ config \in Configs /\ enrolled \in BOOLEAN
  /\ challenge \in [Challenges -> Row]
  /\ device \in [Devices -> {"none", "trusted", "expired"}]
  /\ req \in [Procs -> Request]
  /\ guesses \in [Challenges -> Nat] /\ entries \in [Challenges -> Nat]
  /\ lost \in BOOLEAN /\ proven \in BOOLEAN /\ skipped \in BOOLEAN

\* A challenge takes a bounded number of wrong codes, although each request
\* compares the limit with a count it has read earlier (handleMfaPost): P
\* requests at a time get at most Limit + 2 * (P - 1).
GuessesBounded ==
  \A c \in Challenges : guesses[c] <= Limit + 2 * (Cardinality(Procs) - 1)

\* A challenge lets in only requests that overlap: none that starts after the
\* first was let in (MarkChallengeUsed is not conditional).
ChallengeSpent ==
  \A c \in Challenges : entries[c] <= Cardinality(Procs)

\* A device vouches for its user only after a second factor was proven once.
DeviceEarned ==
  skipped \/ (\E d \in Devices : device[d] # "none") => proven

\* Refinement: a challenge of the second factor is good once.  A request that
\* found it open may be let in, and is let in by the mark itself.
ChallengeStage(c) ==
  CASE challenge[c].st = "none" -> "none"
    [] challenge[c].st = "open" -> "good"
    [] challenge[c].st = "closed" -> "spent"
ChallengeStages == [c \in Challenges |-> ChallengeStage(c)]
Entrants ==
  {h \in Procs \X Challenges : /\ req[h[1]].ch = h[2]
                               /\ req[h[1]].step \in {"post", "check", "enrol", "done"}}
NoLosses == {"dbFail", "crash"} \cap Operations = {}

OneTime ==
  INSTANCE OneTimeToken WITH
    Tokens <- Challenges, Reliable <- NoLosses, stage <- ChallengeStages,
    found <- Entrants, owed <- {}, uses <- entries

\* A challenge lets in only requests that have read it before it was marked
\* (handleMfaPost).
ChallengesGoodOnce == OneTime!Spec
=============================================================================
