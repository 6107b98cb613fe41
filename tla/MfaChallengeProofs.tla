------------------------- MODULE MfaChallengeProofs -------------------------
(***************************************************************************)
(* How many wrong codes and how many right ones a challenge takes, for     *)
(* every number of requests, challenges and devices.                       *)
(***************************************************************************)
EXTENDS MfaChallenge, FiniteSetTheorems, TLAPS

USE LimitAssumption, ProcsAssumption, ConfigsAssumption, NoneAssumption

P == Cardinality(Procs)

\* A request past its first read is about a challenge that was created.
Holders ==
  \A p \in Procs : req[p].step \notin {"idle", "login"} =>
    req[p].ch \in Challenges /\ challenge[req[p].ch].st # "none"

\* A device may be trusted only after a factor was proven.
DeviceInv == DeviceEarned /\ \A p \in Procs : req[p].step = "trust" => proven

\* Requests that may still be let in by a challenge.
Entering(c) == {p \in Procs : req[p].ch = c /\ req[p].step \in {"post", "check", "enrol", "done"}}
EntriesLeft(c) ==
  /\ challenge[c].st # "closed" => entries[c] = 0
  /\ entries[c] + Cardinality(Entering(c)) <= P

\* Requests that may still compare a code, those of them that will not close the
\* challenge when it is wrong, and those that are about to close it.
Guessing(c) == {p \in Procs : req[p].ch = c /\ req[p].step \in {"post", "check"}}
Unlocking(c) == {p \in Guessing(c) : req[p].row.failed + 1 < Limit}
Locking(c) == {p \in Procs : req[p].ch = c /\ req[p].step = "lock"}

\* The count that was read is not ahead of the row.
CountRead ==
  \A p \in Procs, c \in Challenges :
    p \in Guessing(c) /\ Open(c) => req[p].row.failed <= challenge[c].failed

\* Every wrong code past the limit has used up a request that read the count too
\* early, or left one that is about to close the challenge.
GuessesLeft(c) ==
  /\ challenge[c].st = "closed" =>
       guesses[c] + Cardinality(Guessing(c)) + 2 <= Limit + 2 * P
  /\ challenge[c].st # "closed" =>
       /\ guesses[c] = challenge[c].failed
       /\ \/ guesses[c] + 2 <= Limit
          \/ guesses[c] + Cardinality(Unlocking(c)) + 2 <= Limit + P + Cardinality(Locking(c))
  /\ challenge[c].st = "none" => guesses[c] = 0

IInv ==
  /\ TypeOK /\ Holders /\ DeviceInv
  /\ \A c \in Challenges : EntriesLeft(c)
  /\ CountRead
  /\ lost => guesses = Zero
  /\ lost \/ \A c \in Challenges : GuessesLeft(c)

-----------------------------------------------------------------------------
(* Types.                                                                  *)

\* Rows and requests keep their shape when a column or a variable is set.
LEMMA RowTypes ==
  /\ NoRow \in Row /\ NoRow.st = "none" /\ NoRow.failed = 0
  /\ Idle \in Request /\ Idle.step = "idle" /\ Idle.ch = None
  /\ [NoRow EXCEPT !.st = "closed"] \in Row /\ [NoRow EXCEPT !.st = "closed"].st = "closed"
  /\ \A m \in Methods : /\ [NoRow EXCEPT !.st = "open", !.method = m] \in Row
                        /\ [NoRow EXCEPT !.st = "open", !.method = m].st = "open"
                        /\ [NoRow EXCEPT !.st = "open", !.method = m].failed = 0
  /\ \A r \in Row : /\ [r EXCEPT !.code = TRUE] \in Row
                    /\ [r EXCEPT !.code = TRUE].st = r.st
                    /\ [r EXCEPT !.code = TRUE].failed = r.failed
                    /\ [r EXCEPT !.failed = @ + 1] \in Row
                    /\ [r EXCEPT !.failed = @ + 1].st = r.st
                    /\ [r EXCEPT !.failed = @ + 1].failed = r.failed + 1
<1>1. NoRow \in Row /\ NoRow.st = "none" /\ NoRow.failed = 0
  BY DEF NoRow, Row, Methods
<1>2. Idle \in Request /\ Idle.step = "idle" /\ Idle.ch = None
  BY <1>1 DEF Idle, Request, Steps
<1>3. [NoRow EXCEPT !.st = "closed"] \in Row /\ [NoRow EXCEPT !.st = "closed"].st = "closed"
  BY DEF NoRow, Row, Methods
<1>4. \A m \in Methods : /\ [NoRow EXCEPT !.st = "open", !.method = m] \in Row
                         /\ [NoRow EXCEPT !.st = "open", !.method = m].st = "open"
                         /\ [NoRow EXCEPT !.st = "open", !.method = m].failed = 0
  BY DEF NoRow, Row
<1>5. \A r \in Row : /\ [r EXCEPT !.code = TRUE] \in Row
                     /\ [r EXCEPT !.code = TRUE].st = r.st
                     /\ [r EXCEPT !.code = TRUE].failed = r.failed
  BY DEF Row
<1>6. \A r \in Row : /\ [r EXCEPT !.failed = @ + 1] \in Row
                     /\ [r EXCEPT !.failed = @ + 1].st = r.st
                     /\ [r EXCEPT !.failed = @ + 1].failed = r.failed + 1
  BY DEF Row
<1>7. QED  BY <1>1, <1>2, <1>3, <1>4, <1>5, <1>6

\* The method of a challenge is one of the two.
LEMMA MethodTypes ==
  ASSUME config \in Configs, NEW verified \in BOOLEAN
  PROVE  ChallengeMethod(verified) \in Methods
<1>1. config.MfaMethod \in {"totp", "email", "both"} /\ config.RequireMfa \in BOOLEAN
  OBVIOUS
<1>2. CASE ~config.RequireMfa
  BY <1>2 DEF ChallengeMethod, PreferredMethod, Methods
<1>3. CASE config.RequireMfa /\ config.MfaMethod = "both"
  BY <1>3 DEF ChallengeMethod, PreferredMethod, Methods
<1>4. CASE config.RequireMfa /\ config.MfaMethod # "both"
  <2>1. PreferredMethod(verified) = config.MfaMethod
    BY <1>4 DEF PreferredMethod
  <2>2. QED  BY <1>1, <1>4, <2>1 DEF ChallengeMethod, Methods
<1>5. QED  BY <1>1, <1>2, <1>3, <1>4

\* What the steps do to a row, whatever else they do: it is left alone but for
\* the code, created, or closed.
Quiet(c) ==
  \/ challenge'[c].st = challenge[c].st /\ challenge'[c].failed = challenge[c].failed
  \/ challenge[c].st = "none" /\ challenge'[c].st = "open" /\ challenge'[c].failed = 0
  \/ challenge[c].st # "none" /\ challenge'[c].st = "closed"

Active == {"post", "check", "enrol", "done", "lock"}

NothingCounted == UNCHANGED <<guesses, entries, lost, proven, skipped>>

\* What a request does to the challenges, and r, what it holds afterwards.
Move(p, r) ==
  /\ req' = [req EXCEPT ![p] = r]
  /\ r.step \notin {"idle", "login"} =>
       \/ r.ch = req[p].ch /\ req[p].step \notin {"idle", "login"}
       \/ r.ch \in Challenges /\ Open(r.ch)
  /\ \/ /\ req[p].step \notin Active /\ r.step \notin Active \cup {"trust"}
        /\ (\A c \in Challenges : Quiet(c))
        /\ UNCHANGED <<guesses, entries, lost, proven>>
     \/ /\ req[p].step = "idle" /\ r.step = "post" /\ r.ch \in Challenges
        /\ Open(r.ch) /\ r.row = challenge[r.ch]
        /\ UNCHANGED challenge /\ NothingCounted
     \/ /\ req[p].step = "post" /\ r.step = "check" /\ r.row = req[p].row
        /\ r.ch = req[p].ch /\ UNCHANGED challenge /\ NothingCounted
     \/ /\ req[p].step \in {"post", "check", "enrol"} /\ r = Idle
        /\ UNCHANGED challenge /\ NothingCounted
     \/ /\ req[p].step \in {"check", "enrol"} /\ r.step \in {"enrol", "done"}
        /\ r.ch = req[p].ch /\ UNCHANGED challenge /\ NothingCounted
     \/ /\ req[p].step = "check"
        /\ \/ IncrementFailedAttempts(req[p].ch) /\ UNCHANGED lost
           \/ Failing /\ lost' = TRUE /\ UNCHANGED challenge
        /\ guesses' = Counted(guesses, req[p].ch) /\ entries' = Kept(entries)
        /\ UNCHANGED <<proven, skipped>>
        /\ IF req[p].row.failed + 1 >= Limit THEN r.step = "lock" /\ r.ch = req[p].ch
                                             ELSE r = Idle
     \/ /\ req[p].step = "lock" /\ r = Idle /\ MarkUsed(req[p].ch)
        /\ guesses' = Kept(guesses) /\ entries' = Kept(entries)
        /\ UNCHANGED <<proven, skipped>>
     \/ /\ req[p].step = "done" /\ r.step = "trust" /\ MarkUsed(req[p].ch)
        /\ guesses' = Kept(guesses) /\ entries' = Counted(entries, req[p].ch)
        /\ proven' = TRUE /\ UNCHANGED skipped
     \/ req[p].step = "trust" /\ r = Idle /\ UNCHANGED challenge /\ NothingCounted

MfaMove(p) == \E r \in Request : Move(p, r)

\* The surroundings: nothing that matters here, a row is closed, a restart.
MfaOther ==
  \/ UNCHANGED <<req, challenge, guesses, entries, lost, proven, skipped>>
  \/ /\ \E c \in Challenges : Open(c) /\ Close(c)
     /\ UNCHANGED <<req, guesses, entries, lost, proven, skipped>>
  \/ /\ req' = [p \in Procs |-> Idle] /\ "crash" \in Operations
     /\ lost' = (lost \/ \E p \in Procs : req[p].step = "lock")
     /\ guesses' = Kept(guesses) /\ entries' = Kept(entries)
     /\ UNCHANGED <<challenge, proven, skipped>>

\* TypeOK but for the requests.
Tables ==
  /\ config \in Configs /\ enrolled \in BOOLEAN
  /\ challenge \in [Challenges -> Row]
  /\ device \in [Devices -> {"none", "trusted", "expired"}]
  /\ guesses \in [Challenges -> Nat] /\ entries \in [Challenges -> Nat]
  /\ lost \in BOOLEAN /\ proven \in BOOLEAN /\ skipped \in BOOLEAN

\* What the statements on a row do.
LEMMA Statements ==
  ASSUME TypeOK, NEW c \in Challenges
  PROVE  /\ Close(c) => /\ challenge' \in [Challenges -> Row]
                        /\ challenge'[c].st = "closed"
                        /\ \A d \in Challenges \ {c} : challenge'[d] = challenge[d]
         /\ Close(c) /\ challenge[c].st # "none" => \A d \in Challenges : Quiet(d)
         /\ Set(c, [challenge[c] EXCEPT !.code = TRUE]) =>
              challenge' \in [Challenges -> Row] /\ \A d \in Challenges : Quiet(d)
         /\ IncrementFailedAttempts(c) =>
              /\ challenge' \in [Challenges -> Row]
              /\ challenge'[c].st = challenge[c].st
              /\ Open(c) => challenge'[c].failed = challenge[c].failed + 1
              /\ \A d \in Challenges \ {c} : challenge'[d] = challenge[d]
         /\ \A row \in Row :
              /\ challenge[c].st = "none" /\ row.st = "open" /\ row.failed = 0
              /\ challenge' = [challenge EXCEPT ![c] = row]
              => challenge' \in [Challenges -> Row] /\ \A d \in Challenges : Quiet(d)
<1>0. challenge \in [Challenges -> Row]
  BY DEF TypeOK
<1> USE RowTypes, <1>0
<1>1. Close(c) => /\ challenge' \in [Challenges -> Row]
                  /\ challenge'[c].st = "closed"
                  /\ \A d \in Challenges \ {c} : challenge'[d] = challenge[d]
  BY DEF Close
<1>2. Close(c) /\ challenge[c].st # "none" => \A d \in Challenges : Quiet(d)
  BY <1>1 DEF Quiet
<1>3. challenge[c] \in Row
  OBVIOUS
<1>4. \A row \in Row : Set(c, row) =>
        /\ challenge' \in [Challenges -> Row]
        /\ \A d \in Challenges \ {c} : challenge'[d] = challenge[d]
        /\ challenge'[c] = IF Open(c) THEN row ELSE challenge[c]
  BY DEF Set
<1>5. Set(c, [challenge[c] EXCEPT !.code = TRUE]) =>
        challenge' \in [Challenges -> Row] /\ \A d \in Challenges : Quiet(d)
  <2>1. [challenge[c] EXCEPT !.code = TRUE] \in Row
    BY <1>3
  <2>2. [challenge[c] EXCEPT !.code = TRUE].st = challenge[c].st
    BY <1>3
  <2>3. [challenge[c] EXCEPT !.code = TRUE].failed = challenge[c].failed
    BY <1>3
  <2>4. QED  BY <2>1, <2>2, <2>3, <1>4 DEF Quiet
<1>6. IncrementFailedAttempts(c) =>
        /\ challenge' \in [Challenges -> Row]
        /\ challenge'[c].st = challenge[c].st
        /\ Open(c) => challenge'[c].failed = challenge[c].failed + 1
        /\ \A d \in Challenges \ {c} : challenge'[d] = challenge[d]
  <2>1. [challenge[c] EXCEPT !.failed = @ + 1] \in Row
    BY <1>3
  <2>2. [challenge[c] EXCEPT !.failed = @ + 1].st = challenge[c].st
    BY <1>3
  <2>3. [challenge[c] EXCEPT !.failed = @ + 1].failed = challenge[c].failed + 1
    BY <1>3
  <2>4. QED  BY <2>1, <2>2, <2>3, <1>4 DEF IncrementFailedAttempts
<1>7. \A row \in Row :
        /\ challenge[c].st = "none" /\ row.st = "open" /\ row.failed = 0
        /\ challenge' = [challenge EXCEPT ![c] = row]
        => challenge' \in [Challenges -> Row] /\ \A d \in Challenges : Quiet(d)
  BY DEF Quiet
<1>8. QED  BY <1>1, <1>2, <1>5, <1>6, <1>7

\* The histories stay counts.
LEMMA Histories ==
  ASSUME TypeOK, NEW c \in Challenges
  PROVE  /\ Counted(guesses, c) \in [Challenges -> Nat]
         /\ Counted(entries, c) \in [Challenges -> Nat]
         /\ Kept(guesses) \in [Challenges -> Nat]
         /\ Kept(entries) \in [Challenges -> Nat]
BY DEF TypeOK, Counted, Kept, Zero

\* Every step of a request is a move, and keeps the types of the tables.
LEMMA StepMoves ==
  ASSUME TypeOK, Holders, NEW p \in Procs, Step(p)
  PROVE  MfaMove(p) /\ Tables'
<1>1. req[p] \in Request /\ req \in [Procs -> Request] /\ Tables
  BY DEF TypeOK, Tables
<1>2. \A step \in Steps : /\ [req[p] EXCEPT !.step = step] \in Request
                          /\ [req[p] EXCEPT !.step = step].step = step
                          /\ [req[p] EXCEPT !.step = step].ch = req[p].ch
  BY <1>1 DEF Request
<1>3. \A step \in Steps :
        GoTo(p, step) => req' = [req EXCEPT ![p] = [req[p] EXCEPT !.step = step]]
  BY <1>1 DEF GoTo
<1>4. Ends(p) => req' = [req EXCEPT ![p] = Idle]
  BY DEF Ends
<1>5. \A r \in Request : Move(p, r) => MfaMove(p)
  BY DEF MfaMove
<1>6. UNCHANGED <<tables, guesses, entries, lost, proven>> => \A c \in Challenges : Quiet(c)
  BY DEF Quiet, tables
<1>7. req[p].step \notin {"idle", "login"} =>
        req[p].ch \in Challenges /\ challenge[req[p].ch].st # "none"
  BY DEF Holders
<1>8. UNCHANGED <<tables, history>> => Tables'
  BY <1>1 DEF Tables, tables, history
<1> USE RowTypes
<1>10. ASSUME PasswordRight(p) PROVE MfaMove(p) /\ Tables'
  <2> DEFINE r == [Idle EXCEPT !.step = "login", !.enrolled = enrolled]
  <2>1. r \in Request /\ r.step = "login"
    BY <1>1 DEF Idle, Request, Steps, Tables
  <2>2. Move(p, r)
    BY <1>10, <2>1, <1>6 DEF PasswordRight, Move, At, Active, tables, history
  <2>3. QED  BY <1>10, <2>1, <2>2, <1>5, <1>8 DEF PasswordRight
<1>11. ASSUME NoFactor(p) \/ NoMethod(p) PROVE MfaMove(p) /\ Tables'
  <2>1. Move(p, Idle)
    BY <1>11, <1>4, <1>6 DEF NoFactor, NoMethod, Move, At, Active, tables, history
  <2>2. QED  BY <1>11, <2>1, <1>5, <1>8 DEF NoFactor, NoMethod
<1>12. ASSUME NEW d \in Devices, DeviceVouches(p, d) PROVE MfaMove(p) /\ Tables'
  <2>1. Move(p, Idle)
    BY <1>12, <1>4, <1>6 DEF DeviceVouches, Move, At, Active, tables, history
  <2>2. QED  BY <1>1, <1>12, <2>1, <1>5 DEF DeviceVouches, Tables, tables
<1>13. ASSUME NEW d \in Devices, CreateTrustedDevice(p, d) PROVE MfaMove(p) /\ Tables'
  <2>1. Move(p, Idle)
    BY <1>13, <1>4 DEF CreateTrustedDevice, Move, At, Active, history, NothingCounted
  <2>2. QED  BY <1>1, <1>13, <2>1, <1>5 DEF CreateTrustedDevice, Tables, history
<1>14. ASSUME NEW c \in Challenges, CreateMfaChallenge(p, c) PROVE MfaMove(p) /\ Tables'
  <2> DEFINE m == ChallengeMethod(req[p].enrolled)
  <2> DEFINE row == [NoRow EXCEPT !.st = "open", !.method = m]
  <2>1. m \in Methods
    BY <1>1, MethodTypes DEF Request, Tables
  <2>2. row \in Row /\ row.st = "open" /\ row.failed = 0
    BY <2>1
  <2>3. challenge' = [challenge EXCEPT ![c] = row] /\ challenge[c].st = "none"
    BY <1>14 DEF CreateMfaChallenge
  <2> HIDE DEF row
  <2>4. challenge' \in [Challenges -> Row] /\ \A d \in Challenges : Quiet(d)
    BY <2>2, <2>3, Statements
  <2>5. Move(p, Idle)
    BY <1>14, <1>4, <2>4 DEF CreateMfaChallenge, Move, At, Active, history
  <2>6. QED  BY <1>1, <1>14, <2>4, <2>5, <1>5 DEF CreateMfaChallenge, Tables, history
<1>15. ASSUME NEW c \in Challenges, SwitchCreate(p, c) PROVE MfaMove(p) /\ Tables'
  <2> DEFINE m == IF req[p].row.method = "totp" THEN "email" ELSE "totp"
  <2> DEFINE row == [NoRow EXCEPT !.st = "open", !.method = m]
  <2>1. m \in Methods
    BY DEF Methods
  <2>2. row \in Row /\ row.st = "open" /\ row.failed = 0
    BY <2>1
  <2>3. challenge' = [challenge EXCEPT ![c] = row] /\ challenge[c].st = "none"
    BY <1>15 DEF SwitchCreate
  <2> HIDE DEF row
  <2>4. challenge' \in [Challenges -> Row] /\ \A d \in Challenges : Quiet(d)
    BY <2>2, <2>3, Statements
  <2>5. Move(p, Idle)
    BY <1>15, <1>4, <2>4 DEF SwitchCreate, Move, At, Active, history
  <2>6. QED  BY <1>1, <1>15, <2>4, <2>5, <1>5 DEF SwitchCreate, Tables, history
<1>16. ASSUME NEW c \in Challenges, GetEmail(p, c) \/ GetSwitch(p, c) \/ PostRead(p, c)
       PROVE  MfaMove(p) /\ Tables'
  <2>1. PICK step \in {"otp", "switch", "post"} : Load(p, c, step)
    BY <1>16 DEF GetEmail, GetSwitch, PostRead
  <2> DEFINE r == [Idle EXCEPT !.step = step, !.ch = c, !.row = challenge[c]]
  <2>2. challenge[c] \in Row
    BY <1>1 DEF Tables
  <2>3. r \in Request /\ r.step = step /\ r.ch = c /\ r.row = challenge[c]
    BY <2>2 DEF Idle, Request, Steps
  <2>4. /\ req' = [req EXCEPT ![p] = r] /\ req[p].step = "idle" /\ Open(c)
        /\ UNCHANGED <<tables, history>>
    BY <2>1 DEF Load, At
  <2> HIDE DEF r
  <2>5. Move(p, r)
    <3>1. CASE step = "post"
      BY <2>3, <2>4, <3>1 DEF Move, NothingCounted, tables, history
    <3>2. CASE step # "post"
      BY <2>3, <2>4, <3>2, <1>6 DEF Move, Active, tables, history
    <3>3. QED  BY <3>1, <3>2
  <2>6. QED  BY <2>3, <2>4, <2>5, <1>5, <1>8
<1>17. ASSUME UpdateChallengeCode(p) PROVE MfaMove(p) /\ Tables'
  <2>1. At(p, "otp") /\ req[p].ch \in Challenges
    BY <1>17, <1>7 DEF UpdateChallengeCode, At
  <2>2. challenge' \in [Challenges -> Row] /\ \A d \in Challenges : Quiet(d)
    <3>1. CASE UNCHANGED challenge
      BY <1>1, <3>1 DEF Tables, Quiet
    <3>2. CASE Set(req[p].ch, [challenge[req[p].ch] EXCEPT !.code = TRUE])
      BY <2>1, <3>2, Statements
    <3>3. QED  BY <1>17, <3>1, <3>2 DEF UpdateChallengeCode
  <2>3. Move(p, Idle)
    BY <1>17, <1>4, <2>1, <2>2 DEF UpdateChallengeCode, Move, At, Active, history
  <2>4. QED  BY <1>1, <1>17, <2>2, <2>3, <1>5 DEF UpdateChallengeCode, Tables, history
<1>18. ASSUME SwitchMark(p) PROVE MfaMove(p) /\ Tables'
  <2> DEFINE r == [req[p] EXCEPT !.step = "create"]
  <2>1. At(p, "switch") /\ req[p].ch \in Challenges /\ challenge[req[p].ch].st # "none"
    BY <1>18, <1>7 DEF SwitchMark, At
  <2>2. challenge' \in [Challenges -> Row] /\ \A d \in Challenges : Quiet(d)
    BY <1>18, <2>1, Statements DEF SwitchMark
  <2>3. "create" \in Steps
    BY DEF Steps
  <2>4. r \in Request /\ r.step = "create" /\ r.ch = req[p].ch /\ req' = [req EXCEPT ![p] = r]
    BY <1>2, <1>3, <1>18, <2>3 DEF SwitchMark
  <2> HIDE DEF r
  <2>5. Move(p, r)
    BY <1>18, <2>1, <2>2, <2>4 DEF SwitchMark, Move, At, Active, history
  <2>6. QED  BY <1>1, <1>18, <2>2, <2>4, <2>5, <1>5 DEF SwitchMark, Tables, history
<1>19. ASSUME PostUser(p) PROVE MfaMove(p) /\ Tables'
  <2> DEFINE r == [req[p] EXCEPT !.step = "check", !.enrolled = enrolled]
  <2>1. r \in Request /\ r.step = "check" /\ r.ch = req[p].ch /\ r.row = req[p].row
    BY <1>1 DEF Request, Steps, Tables
  <2>2. req' = [req EXCEPT ![p] = r]
    BY <1>1, <1>19 DEF PostUser
  <2> HIDE DEF r
  <2>3. Move(p, r)
    BY <1>19, <2>1, <2>2 DEF PostUser, Move, At, NothingCounted, tables, history
  <2>4. QED  BY <1>19, <2>1, <2>3, <1>5, <1>8 DEF PostUser
<1>20. ASSUME WrongEnrolment(p) \/ NotTrusted(p) PROVE MfaMove(p) /\ Tables'
  <2>1. Move(p, Idle)
    BY <1>20, <1>4
       DEF WrongEnrolment, NotTrusted, Move, At, NothingCounted, tables, history
  <2>2. QED  BY <1>20, <2>1, <1>5, <1>8 DEF WrongEnrolment, NotTrusted
<1>21. ASSUME WrongCode(p) PROVE MfaMove(p) /\ Tables'
  <2>1. req[p].step = "check" /\ req[p].ch \in Challenges
    BY <1>21, <1>7 DEF WrongCode, At
  <2>2. /\ challenge' \in [Challenges -> Row] /\ lost' \in BOOLEAN
        /\ \/ IncrementFailedAttempts(req[p].ch) /\ UNCHANGED lost
           \/ lost' = TRUE /\ UNCHANGED challenge
    BY <1>1, <1>21, <2>1, Statements DEF WrongCode, Tables
  <2>3. Tables'
    BY <1>1, <1>21, <2>1, <2>2, Histories DEF WrongCode, Tables
  <2>4. CASE req[p].row.failed + 1 >= Limit
    <3> DEFINE r == [req[p] EXCEPT !.step = "lock"]
    <3>1. "lock" \in Steps
      BY DEF Steps
    <3>2. r \in Request /\ r.step = "lock" /\ r.ch = req[p].ch /\ req' = [req EXCEPT ![p] = r]
      BY <1>2, <1>3, <1>21, <2>4, <3>1 DEF WrongCode
    <3> HIDE DEF r
    <3>3. Move(p, r)
      BY <1>21, <2>1, <2>2, <2>4, <3>2 DEF WrongCode, Move
    <3>4. QED  BY <2>3, <3>2, <3>3, <1>5
  <2>5. CASE ~(req[p].row.failed + 1 >= Limit)
    <3>1. req' = [req EXCEPT ![p] = Idle]
      BY <1>4, <1>21, <2>5 DEF WrongCode
    <3>2. Move(p, Idle)
      BY <1>21, <2>1, <2>2, <2>5, <3>1 DEF WrongCode, Move
    <3>3. QED  BY <2>3, <3>2, <1>5
  <2>6. QED  BY <2>4, <2>5
<1>22. ASSUME NEW c \in Challenges, MarkUsed(c)
       PROVE  challenge' \in [Challenges -> Row] /\ lost' \in BOOLEAN
  BY <1>1, <1>22, Statements DEF MarkUsed, Tables
<1>23. ASSUME LockChallenge(p) PROVE MfaMove(p) /\ Tables'
  <2>1. req[p].step = "lock" /\ req[p].ch \in Challenges
    BY <1>23, <1>7 DEF LockChallenge, At
  <2>2. Tables'
    BY <1>1, <1>22, <1>23, <2>1, Histories DEF LockChallenge, Tables
  <2>3. Move(p, Idle)
    BY <1>4, <1>23, <2>1 DEF LockChallenge, Move
  <2>4. QED  BY <2>2, <2>3, <1>5
<1>24. ASSUME RightCode(p) \/ SaveTotpSecret(p) PROVE MfaMove(p) /\ Tables'
  <2>1. PICK step \in {"enrol", "done"} :
          /\ req[p].step \in {"check", "enrol"} /\ GoTo(p, step)
          /\ UNCHANGED <<config, challenge, device, history>>
          /\ enrolled' = TRUE \/ UNCHANGED enrolled
    BY <1>24 DEF RightCode, SaveTotpSecret, At, tables
  <2> DEFINE r == [req[p] EXCEPT !.step = step]
  <2>2. step \in Steps
    BY DEF Steps
  <2>3. r \in Request /\ r.step = step /\ r.ch = req[p].ch /\ req' = [req EXCEPT ![p] = r]
    BY <1>2, <1>3, <2>1, <2>2
  <2> HIDE DEF r
  <2>4. Move(p, r)
    BY <2>1, <2>3 DEF Move, NothingCounted, history
  <2>5. Tables'
    BY <1>1, <2>1 DEF Tables, history
  <2>6. QED  BY <2>3, <2>4, <2>5, <1>5
<1>25. ASSUME FactorProven(p) PROVE MfaMove(p) /\ Tables'
  <2> DEFINE r == [req[p] EXCEPT !.step = "trust"]
  <2>1. req[p].step = "done" /\ req[p].ch \in Challenges
    BY <1>25, <1>7 DEF FactorProven, At
  <2>2. "trust" \in Steps
    BY DEF Steps
  <2>3. r \in Request /\ r.step = "trust" /\ r.ch = req[p].ch /\ req' = [req EXCEPT ![p] = r]
    BY <1>2, <1>3, <1>25, <2>2 DEF FactorProven
  <2> HIDE DEF r
  <2>4. Move(p, r)
    BY <1>25, <2>1, <2>3 DEF FactorProven, Move
  <2>5. Tables'
    BY <1>1, <1>22, <1>25, <2>1, Histories DEF FactorProven, Tables
  <2>6. QED  BY <2>3, <2>4, <2>5, <1>5
<1>26. ASSUME StatementFails(p) PROVE MfaMove(p) /\ Tables'
  <2>1. req' = [req EXCEPT ![p] = Idle] /\ UNCHANGED <<tables, history>>
    BY <1>4, <1>26 DEF StatementFails
  <2>2. CASE req[p].step \in {"post", "enrol"}
    <3>1. Move(p, Idle)
      BY <2>1, <2>2 DEF Move, NothingCounted, tables, history
    <3>2. QED  BY <2>1, <3>1, <1>5, <1>8
  <2>3. CASE req[p].step \in {"login", "switch", "create"}
    <3>1. Move(p, Idle)
      BY <1>6, <2>1, <2>3 DEF Move, Active, tables, history
    <3>2. QED  BY <2>1, <3>1, <1>5, <1>8
  <2>4. QED  BY <1>26, <2>2, <2>3 DEF StatementFails
<1>30. QED
  BY <1>10, <1>11, <1>12, <1>13, <1>14, <1>15, <1>16, <1>17, <1>18, <1>19, <1>20, <1>21,
     <1>23, <1>24, <1>25, <1>26 DEF Step

\* And every other step is one of the three.
LEMMA EnvironmentMoves ==
  ASSUME TypeOK, Environment
  PROVE  MfaOther /\ TypeOK'
<1> USE RowTypes
<1>1. Tables /\ req \in [Procs -> Request]
  BY DEF TypeOK, Tables
<1>2. ASSUME ChangeTotp \/ ChangeSettings PROVE MfaOther /\ TypeOK'
  BY <1>1, <1>2 DEF ChangeTotp, ChangeSettings, MfaOther, TypeOK, Tables, history
<1>3. ASSUME NEW d \in Devices, ExpireDevice(d) \/ DeleteTrustedDevice(d)
      PROVE  MfaOther /\ TypeOK'
  <2>1. device' \in [Devices -> {"none", "trusted", "expired"}]
    BY <1>1, <1>3 DEF ExpireDevice, DeleteTrustedDevice, Tables
  <2>2. UNCHANGED <<config, enrolled, challenge, req, history>>
    BY <1>3 DEF ExpireDevice, DeleteTrustedDevice
  <2>3. QED  BY <1>1, <2>1, <2>2 DEF MfaOther, TypeOK, Tables, history
<1>4. ASSUME NEW c \in Challenges, Expire(c) PROVE MfaOther /\ TypeOK'
  <2>1. Open(c) /\ Close(c) /\ UNCHANGED <<config, enrolled, device, req, history>>
    BY <1>4 DEF Expire
  <2>2. challenge' \in [Challenges -> Row]
    BY <2>1, Statements
  <2>3. QED  BY <1>1, <2>1, <2>2 DEF MfaOther, TypeOK, Tables, history
<1>5. ASSUME Crash PROVE MfaOther /\ TypeOK'
  <2>1. MfaOther
    BY <1>5 DEF Crash, MfaOther, At, tables
  <2>2. guesses' \in [Challenges -> Nat] /\ entries' \in [Challenges -> Nat]
    BY <1>1, <1>5 DEF Crash, Kept, Zero, Tables
  <2>3. QED  BY <1>1, <1>5, <2>1, <2>2 DEF Crash, TypeOK, Tables, tables
<1>6. QED  BY <1>2, <1>3, <1>4, <1>5 DEF Environment

\* Nothing reopens a row, forgets that it was created or takes a failure back.
Grows(c) ==
  /\ challenge[c].st # "none" => challenge'[c].st # "none"
  /\ challenge[c].st = "closed" => challenge'[c].st = "closed"
  /\ challenge[c].st # "none" /\ challenge'[c].st = "open" =>
       challenge[c].st = "open" /\ challenge[c].failed <= challenge'[c].failed

LEMMA RowsGrow ==
  ASSUME TypeOK, Holders, (\E p \in Procs : MfaMove(p)) \/ MfaOther
  PROVE  \A c \in Challenges : Grows(c)
<1>1. \A c \in Challenges : challenge[c].st \in {"none", "open", "closed"}
                           /\ challenge[c].failed \in Nat
  BY DEF TypeOK, Row
<1>2. \A c \in Challenges : Quiet(c) => Grows(c)
  BY <1>1 DEF Quiet, Grows
<1>3. UNCHANGED challenge => \A c \in Challenges : Grows(c)
  BY <1>1 DEF Grows
<1>4. ASSUME NEW d \in Challenges, Close(d) PROVE \A c \in Challenges : Grows(c)
  <2>1. challenge'[d].st = "closed" /\ \A c \in Challenges \ {d} : challenge'[c] = challenge[c]
    BY <1>4, Statements
  <2>2. QED  BY <1>1, <2>1 DEF Grows
<1>5. ASSUME NEW d \in Challenges, IncrementFailedAttempts(d)
      PROVE  \A c \in Challenges : Grows(c)
  <2>1. /\ challenge'[d].st = challenge[d].st
        /\ Open(d) => challenge'[d].failed = challenge[d].failed + 1
        /\ \A c \in Challenges \ {d} : challenge'[c] = challenge[c]
    BY <1>5, Statements
  <2>2. QED  BY <1>1, <2>1 DEF Grows, Open
<1>6. ASSUME NEW p \in Procs, MfaMove(p) PROVE \A c \in Challenges : Grows(c)
  <2>1. PICK r \in Request : Move(p, r)
    BY <1>6 DEF MfaMove
  <2>2. req[p].step \in {"check", "lock", "done"} => req[p].ch \in Challenges
    BY DEF Holders
  <2>3. \/ \A c \in Challenges : Quiet(c)
        \/ UNCHANGED challenge
        \/ /\ req[p].step \in {"check", "lock", "done"}
           /\ IncrementFailedAttempts(req[p].ch) \/ Close(req[p].ch)
    BY <2>1 DEF Move, MarkUsed
  <2>4. QED  BY <1>2, <1>3, <1>4, <1>5, <2>2, <2>3
<1>7. ASSUME MfaOther PROVE \A c \in Challenges : Grows(c)
  BY <1>3, <1>4, <1>7 DEF MfaOther
<1>8. QED  BY <1>6, <1>7

\* What the requests hold after a step.
LEMMA RequestsMove ==
  ASSUME TypeOK
  PROVE  /\ \A p \in Procs, r \in Request : Move(p, r) =>
              /\ req'[p] = r
              /\ \A q \in Procs \ {p} : req'[q] = req[q]
         /\ MfaOther => \A q \in Procs : req'[q] = req[q] \/ req'[q] = Idle
BY DEF TypeOK, Move, MfaOther

\* Requests stay about a challenge that was created.
LEMMA HoldersKept ==
  ASSUME TypeOK, Holders, (\E p \in Procs : MfaMove(p)) \/ MfaOther
  PROVE  Holders'
<1>1. \A c \in Challenges : challenge[c].st # "none" => challenge'[c].st # "none"
  BY RowsGrow DEF Grows
<1>2. Idle.step = "idle"
  BY RowTypes
<1>3. ASSUME NEW p \in Procs, NEW r \in Request, Move(p, r), NEW q \in Procs,
             req'[q].step \notin {"idle", "login"}
      PROVE  req'[q].ch \in Challenges /\ challenge'[req'[q].ch].st # "none"
  <2>1. r.step \notin {"idle", "login"} =>
          \/ r.ch = req[p].ch /\ req[p].step \notin {"idle", "login"}
          \/ r.ch \in Challenges /\ challenge[r.ch].st # "none"
    BY <1>3 DEF Move, Open
  <2>2. CASE q = p
    BY <1>1, <1>3, <2>1, <2>2, RequestsMove DEF Holders
  <2>3. CASE q # p
    BY <1>1, <1>3, <2>3, RequestsMove DEF Holders
  <2>4. QED  BY <2>2, <2>3
<1>4. ASSUME MfaOther, NEW q \in Procs, req'[q].step \notin {"idle", "login"}
      PROVE  req'[q].ch \in Challenges /\ challenge'[req'[q].ch].st # "none"
  BY <1>1, <1>2, <1>4, RequestsMove DEF Holders
<1>5. QED  BY <1>3, <1>4 DEF MfaMove, Holders

\* The count a request has read stays behind the row.
LEMMA CountsKept ==
  ASSUME TypeOK, TypeOK', Holders, CountRead, (\E p \in Procs : MfaMove(p)) \/ MfaOther
  PROVE  CountRead'
<1>1. \A c \in Challenges : challenge[c].failed \in Nat /\ challenge'[c].failed \in Nat
  BY DEF TypeOK, Row
<1>2. \A q \in Procs : req[q].row.failed \in Nat
  BY DEF TypeOK, Request, Row
<1>3. Idle.step = "idle"
  BY RowTypes
<1>4. ASSUME NEW q \in Procs, NEW c \in Challenges, req[q].ch = c,
             req[q].step \in {"post", "check"}, challenge'[c].st = "open"
      PROVE  req[q].row.failed <= challenge'[c].failed
  <2>1. challenge[c].st # "none"
    BY <1>4 DEF Holders
  <2>2. challenge[c].st = "open" /\ challenge[c].failed <= challenge'[c].failed
    BY <1>4, <2>1, RowsGrow DEF Grows
  <2>3. req[q].row.failed <= challenge[c].failed
    BY <1>4, <2>2 DEF CountRead, Guessing, Open
  <2>4. QED  BY <1>1, <1>2, <2>2, <2>3
<1>5. ASSUME NEW p \in Procs, NEW r \in Request, Move(p, r), NEW q \in Procs,
             NEW c \in Challenges, req'[q].ch = c, req'[q].step \in {"post", "check"},
             challenge'[c].st = "open"
      PROVE  req'[q].row.failed <= challenge'[c].failed
  <2>1. CASE q # p
    BY <1>4, <1>5, <2>1, RequestsMove
  <2>2. CASE q = p
    <3>1. req'[q] = r
      BY <1>5, <2>2, RequestsMove
    <3>2. \/ r.row = challenge[r.ch] /\ UNCHANGED challenge
          \/ r.row = req[p].row /\ r.ch = req[p].ch /\ req[p].step \in {"post", "check"}
      BY <1>5, <3>1, <1>3 DEF Move, Active
    <3>3. QED  BY <1>1, <1>4, <1>5, <2>2, <3>1, <3>2
  <2>3. QED  BY <2>1, <2>2
<1>6. ASSUME MfaOther, NEW q \in Procs, NEW c \in Challenges, req'[q].ch = c,
             req'[q].step \in {"post", "check"}, challenge'[c].st = "open"
      PROVE  req'[q].row.failed <= challenge'[c].failed
  BY <1>3, <1>4, <1>6, RequestsMove
<1>7. QED  BY <1>5, <1>6 DEF MfaMove, CountRead, Guessing, Open

\* A device is trusted, and vouches, after a factor was proven.
LEMMA DevicesKept ==
  ASSUME TypeOK, Holders, DeviceInv, Next
  PROVE  DeviceInv'
<1>1. (\E p \in Procs : MfaMove(p)) \/ MfaOther
  BY StepMoves, EnvironmentMoves DEF Next
<1>2. proven => proven'
  BY <1>1 DEF MfaMove, MfaOther, Move, NothingCounted
<1>3. Idle.step = "idle"
  BY RowTypes
<1>4. ASSUME NEW q \in Procs, req'[q].step = "trust" PROVE proven'
  <2>1. ASSUME NEW p \in Procs, NEW r \in Request, Move(p, r) PROVE proven'
    <3>1. r.step = "trust" => proven'
      BY <1>2, <1>3, <2>1 DEF Move, Active
    <3>2. req'[q] = r \/ req'[q] = req[q]
      BY <2>1, RequestsMove
    <3>3. QED  BY <1>2, <1>4, <3>1, <3>2 DEF DeviceInv
  <2>2. ASSUME MfaOther PROVE proven'
    BY <1>2, <1>3, <1>4, <2>2, RequestsMove DEF DeviceInv
  <2>3. QED  BY <1>1, <2>1, <2>2 DEF MfaMove
<1>5. DeviceEarned'
  <2>1. ASSUME UNCHANGED <<device, skipped>> PROVE DeviceEarned'
    BY <1>2, <2>1 DEF DeviceInv, DeviceEarned
  <2>2. ASSUME NEW p \in Procs, NEW d \in Devices,
               DeviceVouches(p, d) \/ CreateTrustedDevice(p, d)
        PROVE  DeviceEarned'
    <3>1. proven
      BY <2>2 DEF DeviceVouches, CreateTrustedDevice, IsDeviceTrusted, At, DeviceInv, DeviceEarned
    <3>2. QED  BY <1>2, <3>1 DEF DeviceEarned
  <2>3. ASSUME NEW d \in Devices, ExpireDevice(d) \/ DeleteTrustedDevice(d)
        PROVE  DeviceEarned'
    <3>1. proven
      BY <2>3 DEF ExpireDevice, DeleteTrustedDevice, DeviceInv, DeviceEarned
    <3>2. QED  BY <1>2, <3>1 DEF DeviceEarned
  <2>4. ASSUME NEW p \in Procs, Step(p)
        PROVE  \/ UNCHANGED <<device, skipped>>
               \/ \E d \in Devices : DeviceVouches(p, d) \/ CreateTrustedDevice(p, d)
    BY <2>4 DEF Step, PasswordRight, NoFactor, NoMethod, CreateMfaChallenge, SwitchCreate,
         GetEmail, GetSwitch, PostRead, Load, UpdateChallengeCode, SwitchMark, PostUser,
         WrongEnrolment, WrongCode, LockChallenge, RightCode, SaveTotpSecret, FactorProven,
         NotTrusted, StatementFails, tables, history
  <2>5. ASSUME Environment
        PROVE  \/ UNCHANGED <<device, skipped>>
               \/ \E d \in Devices : ExpireDevice(d) \/ DeleteTrustedDevice(d)
    BY <2>5 DEF Environment, ChangeTotp, ChangeSettings, Crash, Expire, tables, history
  <2>6. QED  BY <2>1, <2>2, <2>3, <2>4, <2>5 DEF Next
<1>6. QED  BY <1>4, <1>5 DEF DeviceInv

-----------------------------------------------------------------------------
(* Counting.                                                               *)

LEMMA Loses ==
  ASSUME NEW S, NEW T, IsFiniteSet(S), T \subseteq S, NEW x \in S, x \notin T
  PROVE  Cardinality(T) + 1 <= Cardinality(S)
<1>1. T \subseteq S \ {x}
  OBVIOUS
<1>2. IsFiniteSet(S \ {x}) /\ Cardinality(S \ {x}) = Cardinality(S) - 1
  BY FS_RemoveElement
<1>3. Cardinality(T) <= Cardinality(S \ {x}) /\ IsFiniteSet(T)
  BY <1>1, <1>2, FS_Subset
<1>4. Cardinality(S) \in Nat /\ Cardinality(T) \in Nat
  BY <1>3, FS_CardinalityType
<1>5. QED  BY <1>2, <1>3, <1>4

\* Two groups of requests without a member in common.
LEMMA Apart ==
  ASSUME NEW S \in SUBSET Procs, NEW T \in SUBSET Procs, S \cap T = {}
  PROVE  /\ IsFiniteSet(S) /\ IsFiniteSet(T) /\ P \in Nat
         /\ Cardinality(S) \in Nat /\ Cardinality(T) \in Nat
         /\ Cardinality(S) + Cardinality(T) <= P
<1>1. IsFiniteSet(S) /\ IsFiniteSet(T) /\ P \in Nat
  BY FS_Subset, FS_CardinalityType DEF P
<1>2. Cardinality(S \cup T) = Cardinality(S) + Cardinality(T) - Cardinality(S \cap T)
  BY <1>1, FS_Union
<1>3. Cardinality(S \cap T) = 0
  BY FS_EmptySet
<1>4. Cardinality(S \cup T) <= P
  BY FS_Subset DEF P
<1>5. Cardinality(S) \in Nat /\ Cardinality(T) \in Nat
  BY <1>1, FS_CardinalityType
<1>6. QED  BY <1>1, <1>2, <1>3, <1>4, <1>5

\* Nobody is let in, or one of those who could be, or requests come to a
\* challenge that has let nobody in.
EntriesMove(c) ==
  \/ entries'[c] = entries[c] /\ Entering(c)' \subseteq Entering(c)
  \/ entries'[c] = entries[c] /\ challenge[c].st # "closed"
  \/ /\ entries'[c] = entries[c] + 1 /\ challenge'[c].st = "closed"
     /\ Entering(c)' \subseteq Entering(c)
     /\ \E p \in Entering(c) : p \notin Entering(c)'
  \/ entries'[c] = 0

LEMMA EntriesCounted ==
  ASSUME NEW c \in Challenges, EntriesLeft(c), entries[c] \in Nat, entries'[c] \in Nat,
         Grows(c), EntriesMove(c)
  PROVE  EntriesLeft(c)'
<1> DEFINE E == Cardinality(Entering(c))
<1>1. P \in Nat /\ E \in Nat /\ E <= P /\ IsFiniteSet(Entering(c))
  <2>1. Entering(c) \in SUBSET Procs
    BY DEF Entering
  <2>2. QED  BY <2>1, FS_Subset, FS_CardinalityType DEF P
<1>2. E' \in Nat /\ E' <= P
  <2>1. Entering(c)' \in SUBSET Procs
    BY DEF Entering
  <2>2. QED  BY <2>1, FS_Subset, FS_CardinalityType DEF P
<1>3. Entering(c)' \subseteq Entering(c) => E' <= E
  BY <1>1, FS_Subset
<1>4. \A p \in Entering(c) : Entering(c)' \subseteq Entering(c) /\ p \notin Entering(c)' => E' + 1 <= E
  BY <1>1, Loses
<1>5. (challenge[c].st # "closed" => entries[c] = 0) /\ entries[c] + E <= P
  BY DEF EntriesLeft
<1>6. challenge'[c].st # "closed" => challenge[c].st # "closed"
  BY DEF Grows
<1> HIDE DEF E
<1>7. (challenge'[c].st # "closed" => entries'[c] = 0) /\ entries'[c] + E' <= P
  <2>1. CASE entries'[c] = entries[c] /\ Entering(c)' \subseteq Entering(c)
    BY <1>1, <1>2, <1>3, <1>5, <1>6, <2>1
  <2>2. CASE entries'[c] = entries[c] /\ challenge[c].st # "closed"
    BY <1>1, <1>2, <1>5, <2>2
  <2>3. CASE /\ entries'[c] = entries[c] + 1 /\ challenge'[c].st = "closed"
             /\ Entering(c)' \subseteq Entering(c)
             /\ \E p \in Entering(c) : p \notin Entering(c)'
    <3>1. E' + 1 <= E
      BY <1>4, <2>3
    <3>2. entries'[c] = entries[c] + 1 /\ challenge'[c].st = "closed"
      BY <2>3
    <3>3. PICK u, v, w, x \in Nat : u = entries[c] /\ v = entries'[c] /\ w = E /\ x = E'
      BY <1>1, <1>2
    <3>4. entries'[c] + E' <= P
      <4>1. P \in Nat /\ u + w <= P /\ v = u + 1 /\ x + 1 <= w
        BY <1>1, <1>5, <3>1, <3>2, <3>3
      <4>2. v + x <= P
        BY <4>1
      <4>3. QED  BY <3>3, <4>2
    <3>5. challenge'[c].st # "closed" => entries'[c] = 0
      BY <3>2
    <3>6. QED  BY <3>4, <3>5
  <2>4. CASE entries'[c] = 0
    BY <1>1, <1>2, <2>4
  <2>5. QED  BY <2>1, <2>2, <2>3, <2>4 DEF EntriesMove
<1>8. QED  BY <1>7 DEF EntriesLeft, E, P

\* A row and its requests after a step that compares no code: nobody comes, the
\* row is closed, or a request reads a row that is open.
NoGuess(c) ==
  /\ guesses'[c] = guesses[c]
  /\ \/ /\ Guessing(c)' \subseteq Guessing(c) /\ challenge'[c].st = "closed"
        /\ challenge[c].st # "none"
     \/ /\ challenge'[c].st # "closed" /\ Unlocking(c)' \subseteq Unlocking(c)
        /\ Locking(c) \subseteq Locking(c)'
        /\ \/ challenge'[c].st = challenge[c].st /\ challenge'[c].failed = challenge[c].failed
           \/ challenge[c].st = "none" /\ challenge'[c].st = "open" /\ challenge'[c].failed = 0
     \/ /\ challenge'[c] = challenge[c] /\ challenge[c].st = "open"
        /\ challenge[c].failed + 2 <= Limit

\* After a wrong code of p.
Guess(c) ==
  \E p \in Guessing(c) :
    /\ guesses'[c] = guesses[c] + 1
    /\ p \notin Guessing(c)' /\ Guessing(c)' \subseteq Guessing(c)
    /\ \/ challenge[c].st = "closed" /\ challenge'[c].st = "closed"
       \/ /\ challenge[c].st = "open" /\ challenge'[c].st = "open"
          /\ challenge'[c].failed = challenge[c].failed + 1
          /\ Unlocking(c)' \subseteq Unlocking(c)
          /\ Locking(c) \subseteq Locking(c)'
          /\ \/ p \in Unlocking(c) /\ p \notin Unlocking(c)'
             \/ /\ p \notin Locking(c) /\ p \in Locking(c)'
                /\ Limit <= challenge[c].failed + 1

LEMMA GuessesCounted ==
  ASSUME NEW c \in Challenges, GuessesLeft(c), guesses[c] \in Nat, guesses'[c] \in Nat,
         challenge[c].failed \in Nat, challenge'[c].failed \in Nat,
         NoGuess(c) \/ Guess(c)
  PROVE  GuessesLeft(c)'
<1> DEFINE G == Cardinality(Guessing(c))
           U == Cardinality(Unlocking(c))
           L == Cardinality(Locking(c))
<1>1. /\ P \in Nat /\ G \in Nat /\ U \in Nat /\ L \in Nat /\ G + L <= P /\ U <= G
      /\ IsFiniteSet(Guessing(c)) /\ IsFiniteSet(Unlocking(c)) /\ IsFiniteSet(Locking(c))
  <2>1. /\ Guessing(c) \in SUBSET Procs /\ Unlocking(c) \in SUBSET Guessing(c)
        /\ Locking(c) \in SUBSET Procs /\ Guessing(c) \cap Locking(c) = {}
    BY DEF Guessing, Unlocking, Locking
  <2>2. QED  BY <2>1, Apart, FS_Subset, FS_CardinalityType
<1>2. /\ G' \in Nat /\ U' \in Nat /\ L' \in Nat /\ G' + L' <= P /\ U' <= G'
      /\ IsFiniteSet(Guessing(c)') /\ IsFiniteSet(Unlocking(c)') /\ IsFiniteSet(Locking(c)')
  <2>1. /\ Guessing(c)' \in SUBSET Procs /\ Unlocking(c)' \in SUBSET Guessing(c)'
        /\ Locking(c)' \in SUBSET Procs /\ Guessing(c)' \cap Locking(c)' = {}
    BY DEF Guessing, Unlocking, Locking
  <2>2. QED  BY <2>1, Apart, FS_Subset, FS_CardinalityType
<1>3. Guessing(c)' \subseteq Guessing(c) => G' <= G
  BY <1>1, FS_Subset
<1>4. Unlocking(c)' \subseteq Unlocking(c) => U' <= U
  BY <1>1, FS_Subset
<1>5. Locking(c) \subseteq Locking(c)' => L <= L'
  BY <1>2, FS_Subset
<1>6. \A p \in Guessing(c) : Guessing(c)' \subseteq Guessing(c) /\ p \notin Guessing(c)' => G' + 1 <= G
  BY <1>1, Loses
<1>7. \A p \in Unlocking(c) : Unlocking(c)' \subseteq Unlocking(c) /\ p \notin Unlocking(c)' => U' + 1 <= U
  BY <1>1, Loses
<1>8. \A p \in Locking(c)' : Locking(c) \subseteq Locking(c)' /\ p \notin Locking(c) => L + 1 <= L'
  BY <1>2, Loses
<1>9. /\ challenge[c].st = "closed" => guesses[c] + G + 2 <= Limit + 2 * P
      /\ challenge[c].st # "closed" =>
           /\ guesses[c] = challenge[c].failed
           /\ guesses[c] + 2 <= Limit \/ guesses[c] + U + 2 <= Limit + P + L
      /\ challenge[c].st = "none" => guesses[c] = 0
  BY DEF GuessesLeft
<1>10. Limit \in Nat
  OBVIOUS
<1> HIDE DEF G, U, L
<1>11. /\ challenge'[c].st = "closed" => guesses'[c] + G' + 2 <= Limit + 2 * P
       /\ challenge'[c].st # "closed" =>
            /\ guesses'[c] = challenge'[c].failed
            /\ guesses'[c] + 2 <= Limit \/ guesses'[c] + U' + 2 <= Limit + P + L'
       /\ challenge'[c].st = "none" => guesses'[c] = 0
  <2>1. CASE /\ guesses'[c] = guesses[c]
             /\ Guessing(c)' \subseteq Guessing(c) /\ challenge'[c].st = "closed"
             /\ challenge[c].st # "none"
    <3>1. G' <= G
      BY <1>3, <2>1
    <3>2. guesses[c] + G + 2 <= Limit + 2 * P
      BY <1>1, <1>9, <1>10
    <3>3. guesses'[c] + G' + 2 <= Limit + 2 * P
      BY <1>1, <1>2, <1>10, <2>1, <3>1, <3>2
    <3>4. QED  BY <2>1, <3>3, Zenon
  <2>2. CASE /\ guesses'[c] = guesses[c]
             /\ challenge'[c].st # "closed" /\ Unlocking(c)' \subseteq Unlocking(c)
             /\ Locking(c) \subseteq Locking(c)'
             /\ \/ challenge'[c].st = challenge[c].st /\ challenge'[c].failed = challenge[c].failed
                \/ challenge[c].st = "none" /\ challenge'[c].st = "open" /\ challenge'[c].failed = 0
    <3>1. U' <= U /\ L <= L'
      BY <1>4, <1>5, <2>2
    <3>2. guesses'[c] = challenge'[c].failed
      BY <1>9, <2>2
    <3>3. guesses'[c] + 2 <= Limit \/ guesses'[c] + U' + 2 <= Limit + P + L'
      BY <1>1, <1>2, <1>9, <1>10, <2>2, <3>1
    <3>4. challenge'[c].st = "none" => guesses'[c] = 0
      BY <1>9, <2>2
    <3>5. QED  BY <2>2, <3>2, <3>3, <3>4, Zenon
  <2>3. CASE /\ guesses'[c] = guesses[c]
             /\ challenge'[c] = challenge[c] /\ challenge[c].st = "open"
             /\ challenge[c].failed + 2 <= Limit
    BY <1>9, <2>3
  <2>4. CASE Guess(c)
    <3>1. PICK p \in Guessing(c) :
            /\ guesses'[c] = guesses[c] + 1
            /\ p \notin Guessing(c)' /\ Guessing(c)' \subseteq Guessing(c)
            /\ \/ challenge[c].st = "closed" /\ challenge'[c].st = "closed"
               \/ /\ challenge[c].st = "open" /\ challenge'[c].st = "open"
                  /\ challenge'[c].failed = challenge[c].failed + 1
                  /\ Unlocking(c)' \subseteq Unlocking(c)
                  /\ Locking(c) \subseteq Locking(c)'
                  /\ \/ p \in Unlocking(c) /\ p \notin Unlocking(c)'
                     \/ /\ p \notin Locking(c) /\ p \in Locking(c)'
                        /\ Limit <= challenge[c].failed + 1
      BY <2>4 DEF Guess
    <3>2. guesses'[c] = guesses[c] + 1
      BY <3>1
    <3>3. CASE challenge[c].st = "closed" /\ challenge'[c].st = "closed"
      <4>1. G' + 1 <= G
        BY <1>6, <3>1
      <4>2. guesses[c] + G + 2 <= Limit + 2 * P
        BY <1>9, <3>3
      <4>3. guesses'[c] + G' + 2 <= Limit + 2 * P
        BY <1>1, <1>2, <1>10, <3>2, <4>1, <4>2
      <4>4. QED  BY <3>3, <4>3, Zenon
    <3>4. CASE challenge[c].st = "open" /\ challenge'[c].st = "open"
      <4>1. /\ challenge'[c].failed = challenge[c].failed + 1 /\ guesses[c] = challenge[c].failed
            /\ guesses[c] + 2 <= Limit \/ guesses[c] + U + 2 <= Limit + P + L
            /\ Unlocking(c)' \subseteq Unlocking(c) /\ Locking(c) \subseteq Locking(c)'
        BY <1>9, <3>1, <3>4
      <4>2. U' <= U /\ L <= L'
        BY <1>4, <1>5, <4>1
      <4>3. guesses'[c] = challenge'[c].failed
        BY <3>2, <4>1
      <4>4. guesses'[c] + 2 <= Limit \/ guesses'[c] + U' + 2 <= Limit + P + L'
        <5>1. \/ U' + 1 <= U
              \/ L + 1 <= L' /\ Limit <= guesses[c] + 1
          BY <1>7, <1>8, <3>1, <3>4, <4>1
        <5>2. U <= P
          BY <1>1
        <5>3. \A g, h, u, v, l, k, n, x \in Nat :
                /\ h = g + 1 /\ v <= u /\ l <= k /\ u <= x
                /\ g + 2 <= n \/ g + u + 2 <= n + x + l
                /\ v + 1 <= u \/ (l + 1 <= k /\ n <= g + 1)
                => h + 2 <= n \/ h + v + 2 <= n + x + k
          OBVIOUS
        <5>4. QED  BY <1>1, <1>2, <1>10, <3>2, <4>1, <4>2, <5>1, <5>2, <5>3
      <4>5. QED  BY <3>4, <4>3, <4>4, Zenon
    <3>5. QED  BY <3>1, <3>3, <3>4
  <2>5. QED  BY <2>1, <2>2, <2>3, <2>4 DEF NoGuess
<1>12. QED  BY <1>11 DEF GuessesLeft, G, U, L, P

-----------------------------------------------------------------------------
(* Every step is one that the counts cover.                                *)

LEMMA MoveEntries ==
  ASSUME TypeOK, Holders, NEW p \in Procs, NEW r \in Request, Move(p, r),
         NEW c \in Challenges
  PROVE  EntriesMove(c)
<1>1. req'[p] = r /\ \A q \in Procs \ {p} : req'[q] = req[q]
  BY RequestsMove
<1>2. Idle.step = "idle"
  BY RowTypes
<1>3. ASSUME \/ r.step \notin {"post", "check", "enrol", "done"} \/ r.ch # c
             \/ r.ch = req[p].ch /\ req[p].step \in {"post", "check", "enrol", "done"}
      PROVE  Entering(c)' \subseteq Entering(c)
  BY <1>1, <1>3 DEF Entering
<1>4. /\ entries' = Kept(entries) => entries'[c] \in {0, entries[c]}
      /\ req[p].ch # c /\ entries' = Counted(entries, req[p].ch) => entries'[c] \in {0, entries[c]}
      /\ entries' = Counted(entries, c) => entries'[c] = IF lost' THEN 0 ELSE entries[c] + 1
  BY DEF TypeOK, Kept, Counted, Zero
<1>5. CASE req[p].step \notin Active /\ r.step \notin Active \cup {"trust"} /\ UNCHANGED entries
  BY <1>3, <1>5 DEF Active, EntriesMove
<1>6. CASE Open(r.ch) /\ UNCHANGED entries
  <2>1. CASE c = r.ch
    BY <1>6, <2>1 DEF Open, EntriesMove
  <2>2. CASE c # r.ch
    BY <1>3, <1>6, <2>2 DEF EntriesMove
  <2>3. QED  BY <2>1, <2>2
<1>7. CASE UNCHANGED entries
           /\ \/ r.ch = req[p].ch /\ req[p].step \in {"post", "check", "enrol", "done"}
              \/ r = Idle
  BY <1>2, <1>3, <1>7 DEF EntriesMove
<1>8. CASE entries' = Kept(entries) /\ (r = Idle \/ r.step = "lock")
  BY <1>2, <1>3, <1>4, <1>8 DEF EntriesMove
<1>9. CASE /\ req[p].step = "done" /\ r.step = "trust" /\ MarkUsed(req[p].ch)
           /\ entries' = Counted(entries, req[p].ch)
  <2>1. Entering(c)' \subseteq Entering(c)
    BY <1>3, <1>9
  <2>2. CASE req[p].ch # c
    BY <1>4, <1>9, <2>1, <2>2 DEF EntriesMove
  <2>3. CASE req[p].ch = c
    <3>1. CASE lost'
      BY <1>4, <1>9, <2>3, <3>1 DEF EntriesMove
    <3>2. CASE ~lost'
      <4>1. Close(c)
        BY <1>9, <2>3, <3>2 DEF MarkUsed
      <4>2. challenge'[c].st = "closed"
        BY <4>1, Statements
      <4>3. p \in Entering(c) /\ p \notin Entering(c)'
        BY <1>1, <1>9, <2>3 DEF Entering
      <4>4. QED  BY <1>4, <1>9, <2>1, <2>3, <3>2, <4>2, <4>3 DEF EntriesMove
    <3>3. QED  BY <3>1, <3>2
  <2>4. QED  BY <2>2, <2>3
<1>10. QED
  BY <1>5, <1>6, <1>7, <1>8, <1>9 DEF Move, NothingCounted

LEMMA OtherEntries ==
  ASSUME TypeOK, MfaOther, NEW c \in Challenges
  PROVE  EntriesMove(c)
<1>1. Entering(c)' \subseteq Entering(c)
  BY RequestsMove, RowTypes DEF Entering
<1>2. entries'[c] \in {0, entries[c]}
  BY DEF TypeOK, MfaOther, Kept, Zero
<1>3. QED  BY <1>1, <1>2 DEF EntriesMove

\* A row nothing happens to, and requests that have not gone on to close it.
LEMMA NothingGuessed ==
  ASSUME NEW c \in Challenges, guesses'[c] = guesses[c], challenge'[c] = challenge[c],
         Guessing(c)' \subseteq Guessing(c), Unlocking(c)' \subseteq Unlocking(c),
         Locking(c) \subseteq Locking(c)'
  PROVE  NoGuess(c)
BY DEF NoGuess

LEMMA MoveGuesses ==
  ASSUME TypeOK, Holders, CountRead, NEW p \in Procs, NEW r \in Request, Move(p, r),
         NEW c \in Challenges, ~lost'
  PROVE  NoGuess(c) \/ Guess(c)
<1>1. req'[p] = r /\ \A q \in Procs \ {p} : req'[q] = req[q]
  BY RequestsMove
<1>2. Idle.step = "idle"
  BY RowTypes
<1>3. ASSUME \/ r.step \notin {"post", "check"} \/ r.ch # c
             \/ /\ r.ch = req[p].ch /\ r.row = req[p].row
                /\ req[p].step \in {"post", "check"}
      PROVE  Guessing(c)' \subseteq Guessing(c) /\ Unlocking(c)' \subseteq Unlocking(c)
  BY <1>1, <1>3 DEF Guessing, Unlocking
<1>4. req[p].step # "lock" \/ req[p].ch # c => Locking(c) \subseteq Locking(c)'
  BY <1>1 DEF Locking
<1>5. /\ guesses' = Kept(guesses) => guesses'[c] = guesses[c]
      /\ req[p].ch # c /\ guesses' = Counted(guesses, req[p].ch) => guesses'[c] = guesses[c]
      /\ guesses' = Counted(guesses, c) => guesses'[c] = guesses[c] + 1
  BY DEF TypeOK, Kept, Counted, Zero
<1>6. req[p].step \in {"check", "lock", "done"} =>
        req[p].ch \in Challenges /\ challenge[req[p].ch].st # "none"
  BY DEF Holders
<1>7. \A d \in Challenges : challenge[d].st \in {"none", "open", "closed"}
                           /\ challenge[d].failed \in Nat
  BY DEF TypeOK, Row
<1>8. CASE req[p].step \notin Active /\ r.step \notin Active \cup {"trust"}
           /\ Quiet(c) /\ UNCHANGED guesses
  <2>1. /\ Guessing(c)' \subseteq Guessing(c) /\ Unlocking(c)' \subseteq Unlocking(c)
        /\ Locking(c) \subseteq Locking(c)'
    BY <1>3, <1>4, <1>8 DEF Active
  <2>2. CASE challenge'[c].st = "closed"
    BY <1>8, <2>1, <2>2 DEF Quiet, NoGuess
  <2>3. CASE challenge'[c].st # "closed"
    BY <1>8, <2>1, <2>3 DEF Quiet, NoGuess
  <2>4. QED  BY <2>2, <2>3
<1>9. CASE /\ req[p].step = "idle" /\ r.step = "post" /\ r.ch \in Challenges
           /\ Open(r.ch) /\ r.row = challenge[r.ch]
           /\ UNCHANGED <<challenge, guesses>>
  <2>1. Locking(c) \subseteq Locking(c)'
    BY <1>4, <1>9
  <2>2. CASE c # r.ch
    BY <1>3, <1>9, <2>1, <2>2, NothingGuessed
  <2>3. CASE c = r.ch /\ challenge[c].failed + 2 <= Limit
    BY <1>9, <2>3 DEF NoGuess, Open
  <2>4. CASE c = r.ch /\ ~(challenge[c].failed + 2 <= Limit)
    <3>1. ~(r.row.failed + 1 < Limit)
      BY <1>7, <1>9, <2>4
    <3>2. Unlocking(c)' \subseteq Unlocking(c)
      BY <1>1, <3>1 DEF Unlocking, Guessing
    <3>3. QED  BY <1>9, <2>1, <2>4, <3>2 DEF NoGuess, Open
  <2>5. QED  BY <2>2, <2>3, <2>4
<1>10. CASE /\ req[p].step \in {"post", "check", "enrol", "trust"}
            /\ \/ r.step \notin {"post", "check"}
               \/ r.row = req[p].row /\ r.ch = req[p].ch /\ req[p].step = "post"
            /\ UNCHANGED <<challenge, guesses>>
  BY <1>3, <1>4, <1>10, NothingGuessed
<1>11. CASE /\ req[p].step = "check" /\ IncrementFailedAttempts(req[p].ch)
            /\ guesses' = Counted(guesses, req[p].ch)
            /\ IF req[p].row.failed + 1 >= Limit THEN r.step = "lock" /\ r.ch = req[p].ch
                                                 ELSE r = Idle
  <2>1. r.step \notin {"post", "check"}
    BY <1>2, <1>11
  <2>2. /\ Guessing(c)' \subseteq Guessing(c) /\ Unlocking(c)' \subseteq Unlocking(c)
        /\ Locking(c) \subseteq Locking(c)'
    BY <1>3, <1>4, <1>11, <2>1
  <2>3. /\ challenge'[req[p].ch].st = challenge[req[p].ch].st
        /\ Open(req[p].ch) => challenge'[req[p].ch].failed = challenge[req[p].ch].failed + 1
        /\ \A d \in Challenges \ {req[p].ch} : challenge'[d] = challenge[d]
    BY <1>6, <1>11, Statements
  <2>4. CASE req[p].ch # c
    BY <1>5, <1>11, <2>2, <2>3, <2>4, NothingGuessed
  <2>5. CASE req[p].ch = c
    <3>1. p \in Guessing(c) /\ p \notin Guessing(c)'
      BY <1>1, <1>11, <2>1, <2>5 DEF Guessing
    <3>2. guesses'[c] = guesses[c] + 1
      BY <1>5, <1>11, <2>5
    <3>3. CASE challenge[c].st = "closed"
      BY <2>2, <2>3, <2>5, <3>1, <3>2, <3>3 DEF Guess
    <3>4. CASE challenge[c].st = "open"
      <4>1. \/ p \in Unlocking(c) /\ p \notin Unlocking(c)'
            \/ /\ p \notin Locking(c) /\ p \in Locking(c)'
               /\ Limit <= challenge[c].failed + 1
        <5>1. req[p].row.failed \in Nat /\ challenge[c].failed \in Nat /\ Limit \in Nat
          BY <1>7 DEF TypeOK, Request, Row
        <5>2. CASE req[p].row.failed + 1 >= Limit
          <6>1. req[p].row.failed <= challenge[c].failed
            BY <3>1, <3>4 DEF CountRead, Open
          <6>2. Limit <= challenge[c].failed + 1
            BY <5>1, <5>2, <6>1
          <6>3. p \notin Locking(c) /\ p \in Locking(c)'
            BY <1>1, <1>11, <2>5, <5>2 DEF Locking
          <6>4. QED  BY <6>2, <6>3
        <5>3. CASE ~(req[p].row.failed + 1 >= Limit)
          <6>1. req[p].row.failed + 1 < Limit
            BY <5>1, <5>3
          <6>2. QED  BY <3>1, <6>1 DEF Unlocking
        <5>4. QED  BY <5>2, <5>3
      <4>2. QED  BY <2>2, <2>3, <2>5, <3>1, <3>2, <3>4, <4>1 DEF Guess, Open
    <3>5. QED  BY <1>6, <1>7, <1>11, <2>5, <3>3, <3>4
  <2>6. QED  BY <2>4, <2>5
<1>12. CASE /\ req[p].step \in {"lock", "done"} /\ r.step \notin {"post", "check"}
            /\ Close(req[p].ch) /\ guesses' = Kept(guesses)
  <2>1. Guessing(c)' \subseteq Guessing(c) /\ Unlocking(c)' \subseteq Unlocking(c)
    BY <1>3, <1>12
  <2>2. /\ challenge'[req[p].ch].st = "closed"
        /\ \A d \in Challenges \ {req[p].ch} : challenge'[d] = challenge[d]
    BY <1>6, <1>12, Statements
  <2>3. CASE req[p].ch = c
    BY <1>5, <1>6, <1>12, <2>1, <2>2, <2>3 DEF NoGuess
  <2>4. CASE req[p].ch # c
    BY <1>4, <1>5, <1>12, <2>1, <2>2, <2>4, NothingGuessed
  <2>5. QED  BY <2>3, <2>4
<1>13. \A d \in Challenges : MarkUsed(d) => Close(d)
  BY DEF MarkUsed
<1>14. QED
  BY <1>2, <1>6, <1>8, <1>9, <1>10, <1>11, <1>12, <1>13 DEF Move, NothingCounted

LEMMA OtherGuesses ==
  ASSUME TypeOK, MfaOther, NEW c \in Challenges, ~lost'
  PROVE  NoGuess(c)
<1>1. Guessing(c)' \subseteq Guessing(c) /\ Unlocking(c)' \subseteq Unlocking(c)
  BY RequestsMove, RowTypes DEF Guessing, Unlocking
<1>2. Locking(c) \subseteq Locking(c)'
  BY DEF MfaOther, Locking
<1>3. guesses'[c] = guesses[c]
  BY DEF MfaOther, Kept
<1>4. CASE challenge'[c] = challenge[c]
  BY <1>1, <1>2, <1>3, <1>4, NothingGuessed
<1>5. CASE Open(c) /\ Close(c)
  <2>1. challenge'[c].st = "closed"
    BY <1>5, Statements
  <2>2. QED  BY <1>1, <1>3, <1>5, <2>1 DEF NoGuess, Open
<1>6. ASSUME NEW d \in Challenges, d # c, Close(d) PROVE challenge'[c] = challenge[c]
  BY <1>6, Statements
<1>7. QED  BY <1>4, <1>5, <1>6 DEF MfaOther

-----------------------------------------------------------------------------
(* The invariant and what follows from it.                                 *)

LEMMA Start == Init => IInv
<1> SUFFICES ASSUME Init PROVE IInv
  OBVIOUS
<1>1. TypeOK
  BY RowTypes DEF Init, TypeOK, Zero
<1>2. \A p \in Procs : req[p].step = "idle"
  BY RowTypes DEF Init
<1>3. Holders /\ DeviceInv
  BY <1>2 DEF Init, Holders, DeviceInv, DeviceEarned
<1>4. CountRead
  BY <1>2 DEF CountRead, Guessing
<1>5. ASSUME NEW c \in Challenges PROVE EntriesLeft(c) /\ GuessesLeft(c)
  <2>1. Entering(c) = {} /\ Guessing(c) = {} /\ Unlocking(c) = {} /\ Locking(c) = {}
    BY <1>2 DEF Entering, Guessing, Unlocking, Locking
  <2>2. Cardinality({}) = 0
    BY FS_EmptySet
  <2>3. P \in Nat
    BY FS_CardinalityType DEF P
  <2>4. P # 0
    BY FS_EmptySet DEF P
  <2>5. entries[c] = 0 /\ guesses[c] = 0 /\ challenge[c].st = "none" /\ challenge[c].failed = 0
    BY RowTypes DEF Init, Zero
  <2>6. EntriesLeft(c)
    BY <2>1, <2>2, <2>3, <2>5 DEF EntriesLeft
  <2>7. GuessesLeft(c)
    BY <2>1, <2>2, <2>3, <2>4, <2>5 DEF GuessesLeft
  <2>8. QED  BY <2>6, <2>7
<1>6. lost = FALSE
  BY DEF Init
<1>7. QED  BY <1>1, <1>3, <1>4, <1>5, <1>6 DEF IInv

\* A failure that was not counted stays known, and ends the count of guesses.
LEMMA LossMove ==
  ASSUME (\E p \in Procs : MfaMove(p)) \/ MfaOther
  PROVE  /\ lost => lost'
         /\ \/ UNCHANGED <<guesses, lost>>
            \/ guesses' = Kept(guesses)
            \/ \E c : guesses' = Counted(guesses, c)
<1>1. ASSUME NEW p \in Procs, NEW r \in Request, Move(p, r)
      PROVE  /\ lost => lost'
             /\ \/ UNCHANGED <<guesses, lost>>
                \/ guesses' = Kept(guesses)
                \/ \E c : guesses' = Counted(guesses, c)
  BY <1>1 DEF Move, NothingCounted, MarkUsed
<1>2. CASE MfaOther
  <2>1. CASE UNCHANGED <<guesses, lost>>
    BY <2>1
  <2>2. CASE /\ lost' = (lost \/ \E p \in Procs : req[p].step = "lock")
             /\ guesses' = Kept(guesses)
    BY <2>2
  <2>3. QED  BY <1>2, <2>1, <2>2 DEF MfaOther
<1>3. QED  BY <1>1, <1>2 DEF MfaMove

LEMMA StepKept == IInv /\ [Next]_vars => IInv'
<1> SUFFICES ASSUME IInv, [Next]_vars PROVE IInv'
  OBVIOUS
<1>1. CASE UNCHANGED vars
  <2>1. UNCHANGED <<config, enrolled, challenge, device, req, guesses, entries, lost,
                    proven, skipped>>
    BY <1>1 DEF vars, tables, history
  <2>2. TypeOK' /\ Holders' /\ DeviceInv'
    BY <2>1 DEF IInv, TypeOK, Holders, DeviceInv, DeviceEarned
  <2>3. CountRead'
    BY <2>1 DEF IInv, CountRead, Guessing, Open
  <2>4. \A c \in Challenges : EntriesLeft(c) => EntriesLeft(c)'
    BY <2>1 DEF EntriesLeft, Entering
  <2>5. \A c \in Challenges : GuessesLeft(c) => GuessesLeft(c)'
    BY <2>1 DEF GuessesLeft, Guessing, Unlocking, Locking
  <2>6. QED  BY <2>1, <2>2, <2>3, <2>4, <2>5 DEF IInv
<1>2. CASE Next
  <2>1. TypeOK /\ Holders /\ DeviceInv /\ CountRead
    BY DEF IInv
  <2>2. (\E p \in Procs : MfaMove(p)) \/ MfaOther
    BY <1>2, <2>1, StepMoves, EnvironmentMoves DEF Next
  <2>3. TypeOK'
    <3>1. ASSUME NEW p \in Procs, Step(p) PROVE TypeOK'
      <4>1. MfaMove(p) /\ Tables'
        BY <2>1, <3>1, StepMoves
      <4>2. req' \in [Procs -> Request]
        BY <2>1, <4>1 DEF MfaMove, Move, TypeOK
      <4>3. QED  BY <4>1, <4>2 DEF Tables, TypeOK
    <3>2. QED  BY <1>2, <2>1, <3>1, EnvironmentMoves DEF Next
  <2>4. Holders' /\ CountRead' /\ DeviceInv'
    BY <1>2, <2>1, <2>2, <2>3, HoldersKept, CountsKept, DevicesKept
  <2>5. \A c \in Challenges : Grows(c)
    BY <2>1, <2>2, RowsGrow
  <2>6. \A c \in Challenges :
          /\ entries[c] \in Nat /\ entries'[c] \in Nat
          /\ guesses[c] \in Nat /\ guesses'[c] \in Nat
          /\ challenge[c].failed \in Nat /\ challenge'[c].failed \in Nat
    BY <2>1, <2>3 DEF TypeOK, Row
  <2>7. ASSUME NEW c \in Challenges PROVE EntriesLeft(c)'
    <3>1. EntriesMove(c)
      BY <2>1, <2>2, MoveEntries, OtherEntries DEF MfaMove
    <3>2. EntriesLeft(c) /\ Grows(c) /\ entries[c] \in Nat /\ entries'[c] \in Nat
      BY <2>5, <2>6 DEF IInv
    <3>3. QED  BY <3>1, <3>2, EntriesCounted
  <2>8. lost' => guesses' = Zero
    BY <2>2, LossMove DEF IInv, Kept, Counted
  <2>9. ~lost' => ~lost
    BY <2>2, LossMove
  <2>10. ASSUME NEW c \in Challenges, ~lost' PROVE GuessesLeft(c)'
    <3>1. NoGuess(c) \/ Guess(c)
      BY <2>1, <2>2, <2>10, MoveGuesses, OtherGuesses DEF MfaMove
    <3>2. GuessesLeft(c)
      BY <2>9, <2>10 DEF IInv
    <3>3. QED  BY <2>6, <3>1, <3>2, GuessesCounted
  <2>11. QED  BY <2>3, <2>4, <2>7, <2>8, <2>10 DEF IInv, Zero
<1>3. QED  BY <1>1, <1>2

LEMMA Invariance == Spec => []IInv
<1>1. QED  BY Start, StepKept, PTL DEF Spec

\* The tables, the requests and the histories keep their types.
THEOREM TypesKept == Spec => []TypeOK
<1>1. IInv => TypeOK
  BY DEF IInv
<1>2. QED  BY <1>1, Invariance, PTL

\* At most Limit + 2 * (P - 1) wrong codes are compared with one challenge, when
\* P requests run at a time (handleMfaPost).
THEOREM GuessesFew == Spec => []GuessesBounded
<1>1. IInv => GuessesBounded
  <2> SUFFICES ASSUME IInv, NEW c \in Challenges PROVE guesses[c] <= Limit + 2 * (P - 1)
    BY DEF GuessesBounded, P
  <2>1. P \in Nat /\ P >= 1
    <3>1. P \in Nat
      BY FS_CardinalityType DEF P
    <3>2. P # 0
      BY FS_EmptySet DEF P
    <3>3. QED  BY <3>1, <3>2
  <2>2. guesses[c] \in Nat /\ Limit \in Nat
    BY DEF IInv, TypeOK
  <2>3. CASE lost
    BY <2>1, <2>2, <2>3 DEF IInv, Zero
  <2>4. CASE ~lost
    <3>1. GuessesLeft(c)
      BY <2>4 DEF IInv
    <3>2. /\ Cardinality(Guessing(c)) \in Nat /\ Cardinality(Unlocking(c)) \in Nat
          /\ Cardinality(Locking(c)) \in Nat /\ Cardinality(Locking(c)) <= P
      <4>1. /\ Guessing(c) \in SUBSET Procs /\ Unlocking(c) \in SUBSET Procs
            /\ Locking(c) \in SUBSET Procs
        BY DEF Guessing, Unlocking, Locking
      <4>2. QED  BY <4>1, FS_Subset, FS_CardinalityType DEF P
    <3>3. QED  BY <2>1, <2>2, <3>1, <3>2 DEF GuessesLeft
  <2>5. QED  BY <2>3, <2>4
<1>2. QED  BY <1>1, Invariance, PTL

\* A challenge lets in no more requests than run at a time (MarkChallengeUsed).
THEOREM EntriesFew == Spec => []ChallengeSpent
<1>1. IInv => ChallengeSpent
  <2> SUFFICES ASSUME IInv, NEW c \in Challenges PROVE entries[c] <= P
    BY DEF ChallengeSpent, P
  <2>1. entries[c] + Cardinality(Entering(c)) <= P
    BY DEF IInv, EntriesLeft
  <2>2. Entering(c) \in SUBSET Procs
    BY DEF Entering
  <2>3. P \in Nat /\ Cardinality(Entering(c)) \in Nat
    BY <2>2, FS_Subset, FS_CardinalityType DEF P
  <2>4. entries[c] \in Nat
    BY DEF IInv, TypeOK
  <2>5. QED  BY <2>1, <2>3, <2>4
<1>2. QED  BY <1>1, Invariance, PTL

\* No device is trusted, or vouches for the user, before a factor was proven
\* (CreateTrustedDevice, IsDeviceTrusted).
THEOREM DevicesEarned == Spec => []DeviceEarned
<1>1. IInv => DeviceEarned
  BY DEF IInv, DeviceInv
<1>2. QED  BY <1>1, Invariance, PTL

-----------------------------------------------------------------------------
(* A challenge is good once.                                               *)

\* A statement is about one row.
OneRow == \E c : \A d \in Challenges : d # c => challenge'[d] = challenge[d]

LEMMA StepOneRow ==
  ASSUME TypeOK, NEW p \in Procs, Step(p)
  PROVE  OneRow
<1>0. challenge \in [Challenges -> Row]
  BY DEF TypeOK
<1>1. UNCHANGED challenge => OneRow
  BY DEF OneRow
<1>2. ASSUME NEW c, NEW row, challenge' = [challenge EXCEPT ![c] = row] PROVE OneRow
  BY <1>0, <1>2 DEF OneRow
<1>3. \A c : Close(c) => OneRow
  BY <1>2 DEF Close
<1>4. \A c, row : Set(c, row) => OneRow
  BY <1>1, <1>2 DEF Set
<1>5. \A c : MarkUsed(c) => OneRow
  BY <1>1, <1>3 DEF MarkUsed
<1>6. ASSUME NEW c \in Challenges, CreateMfaChallenge(p, c) \/ SwitchCreate(p, c) PROVE OneRow
  <2>1. CASE CreateMfaChallenge(p, c)
    BY <1>2, <2>1 DEF CreateMfaChallenge
  <2>2. CASE SwitchCreate(p, c)
    BY <1>2, <2>2 DEF SwitchCreate
  <2>3. QED  BY <1>6, <2>1, <2>2
<1>7. CASE UpdateChallengeCode(p)
  BY <1>1, <1>4, <1>7 DEF UpdateChallengeCode
<1>8. CASE SwitchMark(p) \/ LockChallenge(p) \/ FactorProven(p)
  BY <1>3, <1>5, <1>8 DEF SwitchMark, LockChallenge, FactorProven
<1>9. CASE WrongCode(p)
  BY <1>1, <1>4, <1>9 DEF WrongCode, IncrementFailedAttempts
<1>10. CASE UNCHANGED challenge
  BY <1>1, <1>10
<1>11. QED
  BY <1>6, <1>7, <1>8, <1>9, <1>10
  DEF Step, PasswordRight, NoFactor, NoMethod, DeviceVouches, CreateTrustedDevice, GetEmail,
      GetSwitch, PostRead, Load, PostUser, WrongEnrolment, RightCode, SaveTotpSecret,
      NotTrusted, StatementFails, tables

\* Nothing is counted once something was lost.
LossEnds == lost => entries = Zero

\* The stages of the challenges, and what the statements on them do to it.
StagesSpent ==
  /\ ChallengeStages' \in [Challenges -> {"none", "good", "spent"}]
  /\ \A c \in Challenges :
       \/ ChallengeStages'[c] = ChallengeStages[c]
       \/ ChallengeStages[c] = "good" /\ ChallengeStages'[c] = "spent"

LEMMA StageMoves ==
  ASSUME TypeOK, TypeOK'
  PROVE  /\ \A c \in Challenges : ChallengeStages[c] = "good" <=> Open(c)
         /\ (\A c \in Challenges : challenge'[c].st = challenge[c].st) =>
              ChallengeStages' = ChallengeStages /\ StagesSpent
         /\ \A c \in Challenges : Close(c) /\ challenge[c].st # "none" =>
              StagesSpent /\ ChallengeStages' = [ChallengeStages EXCEPT ![c] = "spent"]
         /\ \A c \in Challenges :
              /\ \A d \in Challenges \ {c} : challenge'[d].st = challenge[d].st
              /\ Quiet(c)
              => \/ StagesSpent
                 \/ /\ ChallengeStages[c] = "none"
                    /\ ChallengeStages' = [ChallengeStages EXCEPT ![c] = "good"]
<1>1. \A c \in Challenges : /\ challenge[c].st \in {"none", "open", "closed"}
                           /\ challenge'[c].st \in {"none", "open", "closed"}
  BY DEF TypeOK, Row
<1>2. ChallengeStages' = [c \in Challenges |-> ChallengeStage(c)']
  BY DEF ChallengeStages
<1>3. \A c \in Challenges : /\ ChallengeStages[c] = ChallengeStage(c)
                           /\ ChallengeStages'[c] = ChallengeStage(c)'
  BY <1>2 DEF ChallengeStages
<1>4. \A c \in Challenges :
        /\ challenge[c].st = "none" => ChallengeStage(c) = "none"
        /\ challenge[c].st = "open" => ChallengeStage(c) = "good"
        /\ challenge[c].st = "closed" => ChallengeStage(c) = "spent"
        /\ challenge'[c].st = "none" => ChallengeStage(c)' = "none"
        /\ challenge'[c].st = "open" => ChallengeStage(c)' = "good"
        /\ challenge'[c].st = "closed" => ChallengeStage(c)' = "spent"
  BY DEF ChallengeStage
<1>5. ChallengeStages' \in [Challenges -> {"none", "good", "spent"}]
  BY <1>1, <1>2, <1>4
<1>6. \A c \in Challenges : ChallengeStages[c] = "good" <=> Open(c)
  BY <1>1, <1>3, <1>4 DEF Open
<1>7. ASSUME \A c \in Challenges : challenge'[c].st = challenge[c].st
      PROVE  ChallengeStages' = ChallengeStages /\ StagesSpent
  <2>1. \A c \in Challenges : ChallengeStage(c)' = ChallengeStage(c)
    BY <1>1, <1>4, <1>7
  <2>2. QED  BY <1>2, <1>5, <2>1 DEF ChallengeStages, StagesSpent
<1>8. ASSUME NEW c \in Challenges, \A d \in Challenges \ {c} : challenge'[d].st = challenge[d].st
      PROVE  /\ \A s : ChallengeStage(c)' = s =>
                  ChallengeStages' = [ChallengeStages EXCEPT ![c] = s]
             /\ \A d \in Challenges \ {c} : ChallengeStages'[d] = ChallengeStages[d]
  <2>1. \A d \in Challenges \ {c} : ChallengeStage(d)' = ChallengeStage(d)
    BY <1>1, <1>4, <1>8
  <2>2. QED  BY <1>2, <1>3, <2>1 DEF ChallengeStages
<1>9. ASSUME NEW c \in Challenges, Close(c), challenge[c].st # "none"
      PROVE  StagesSpent /\ ChallengeStages' = [ChallengeStages EXCEPT ![c] = "spent"]
  <2>1. challenge'[c].st = "closed" /\ \A d \in Challenges \ {c} : challenge'[d] = challenge[d]
    BY <1>9, Statements
  <2>2. QED  BY <1>1, <1>3, <1>4, <1>5, <1>8, <1>9, <2>1 DEF StagesSpent
<1>10. ASSUME NEW c \in Challenges, Quiet(c),
              \A d \in Challenges \ {c} : challenge'[d].st = challenge[d].st
       PROVE  \/ StagesSpent
              \/ /\ ChallengeStages[c] = "none"
                 /\ ChallengeStages' = [ChallengeStages EXCEPT ![c] = "good"]
  <2>1. CASE challenge[c].st = "none" /\ challenge'[c].st = "open"
    BY <1>3, <1>4, <1>8, <1>10, <2>1
  <2>2. CASE ~(challenge[c].st = "none" /\ challenge'[c].st = "open")
    BY <1>1, <1>3, <1>4, <1>5, <1>8, <1>10, <2>2 DEF Quiet, StagesSpent
  <2>3. QED  BY <2>1, <2>2
<1>11. QED  BY <1>6, <1>7, <1>9, <1>10


Entry == {"post", "check", "enrol", "done"}

\* Who may be let in after a request moved.
LEMMA EntrantsMove ==
  ASSUME TypeOK, NEW p \in Procs, NEW r \in Request, req' = [req EXCEPT ![p] = r]
  PROVE  /\ r.step \notin Entry => Entrants' = {h \in Entrants : h[1] # p}
         /\ req[p].step \notin Entry => {h \in Entrants : h[1] # p} = Entrants
         /\ r.step \in Entry /\ r.ch \in Challenges =>
              Entrants' = {h \in Entrants : h[1] # p} \cup {<<p, r.ch>>}
         /\ req[p].step \in Entry /\ req[p].ch \in Challenges =>
              /\ <<p, req[p].ch>> \in Entrants
              /\ {h \in Entrants : h[1] # p} = Entrants \ {<<p, req[p].ch>>}
<1>1. req'[p] = r /\ \A q \in Procs \ {p} : req'[q] = req[q]
  BY DEF TypeOK
<1>2. \A h \in Procs \X Challenges : h[1] # p => (h \in Entrants' <=> h \in Entrants)
  <2>1. \A h \in Procs \X Challenges : h[1] # p => req'[h[1]] = req[h[1]]
    BY <1>1
  <2>2. QED  BY <2>1 DEF Entrants
<1>3. \A h \in Procs \X Challenges : h[1] = p =>
        (h \in Entrants' <=> r.ch = h[2] /\ r.step \in Entry)
  BY <1>1 DEF Entrants, Entry
<1>4. \A h \in Procs \X Challenges : h[1] = p =>
        (h \in Entrants <=> req[p].ch = h[2] /\ req[p].step \in Entry)
  BY DEF Entrants, Entry
<1>5. Entrants \subseteq Procs \X Challenges /\ Entrants' \subseteq Procs \X Challenges
  BY DEF Entrants
<1>6. \A h \in Procs \X Challenges, c \in Challenges : h[1] = p /\ h[2] = c => h = <<p, c>>
  OBVIOUS
<1>7. \A c \in Challenges : /\ <<p, c>> \in Procs \X Challenges
                           /\ <<p, c>>[1] = p /\ <<p, c>>[2] = c
  OBVIOUS
<1>8. r.step \notin Entry => Entrants' = {h \in Entrants : h[1] # p}
  BY <1>2, <1>3, <1>5
<1>9. req[p].step \notin Entry => {h \in Entrants : h[1] # p} = Entrants
  BY <1>4, <1>5
<1>10. ASSUME r.step \in Entry, r.ch \in Challenges
       PROVE  Entrants' = {h \in Entrants : h[1] # p} \cup {<<p, r.ch>>}
  BY <1>2, <1>3, <1>5, <1>6, <1>7, <1>10
<1>11. ASSUME req[p].step \in Entry, req[p].ch \in Challenges
       PROVE  /\ <<p, req[p].ch>> \in Entrants
              /\ {h \in Entrants : h[1] # p} = Entrants \ {<<p, req[p].ch>>}
  BY <1>4, <1>5, <1>6, <1>7, <1>11
<1>12. QED  BY <1>8, <1>9, <1>10, <1>11

\* A request that moves issues a challenge, finds one open, is let in or closes it.
LEMMA MoveOneTime ==
  ASSUME TypeOK, TypeOK', Holders, LossEnds, NEW p \in Procs, MfaMove(p), OneRow
  PROVE  [OneTime!Next]_(OneTime!vars) /\ LossEnds'
<1>0. /\ lost \in BOOLEAN /\ entries \in [Challenges -> Nat]
      /\ Zero = OneTime!Unused
      /\ req[p].step \notin {"idle", "login"} =>
           req[p].ch \in Challenges /\ challenge[req[p].ch].st # "none"
  BY DEF TypeOK, Zero, OneTime!Unused, Holders
<1>1. PICK r \in Request : Move(p, r)
  BY DEF MfaMove
<1>2. req' = [req EXCEPT ![p] = r]
  BY <1>1 DEF Move
<1>3. LossEnds'
  BY <1>1 DEF Move, LossEnds, NothingCounted, MarkUsed, Kept, Counted, Failing
<1>e. /\ r.step \notin Entry => Entrants' = {h \in Entrants : h[1] # p}
      /\ req[p].step \notin Entry => {h \in Entrants : h[1] # p} = Entrants
      /\ r.step \in Entry /\ r.ch \in Challenges =>
           Entrants' = {h \in Entrants : h[1] # p} \cup {<<p, r.ch>>}
      /\ req[p].step \in Entry /\ req[p].ch \in Challenges =>
           /\ <<p, req[p].ch>> \in Entrants
           /\ {h \in Entrants : h[1] # p} = Entrants \ {<<p, req[p].ch>>}
  BY <1>2, EntrantsMove
<1>4. r.step \notin Entry =>
        /\ Entrants' = {h \in Entrants : h[1] # p}
        /\ Entrants' \in SUBSET Entrants
        /\ req[p].step \notin Entry => Entrants' = Entrants
  <2>1. {h \in Entrants : h[1] # p} \in SUBSET Entrants
    OBVIOUS
  <2>2. QED  BY <1>e, <2>1
<1>5. Idle.step = "idle" /\ "idle" \notin Entry /\ "lock" \notin Entry /\ "trust" \notin Entry
  BY DEF Idle, Entry
\* An UPDATE fails that counts or closes.
<1>6. ASSUME Failing, lost' = TRUE, entries' = Zero, UNCHANGED challenge, r.step \notin Entry
      PROVE  OneTime!Next
  <2>1. Entrants' \in SUBSET Entrants
    BY <1>4, <1>6
  <2>2. ~NoLosses
    BY <1>6 DEF Failing, NoLosses
  <2>3. ChallengeStages' = ChallengeStages
    BY <1>6, StageMoves
  <2>4. OneTime!Lose
    BY <1>0, <1>6, <2>1, <2>2, <2>3 DEF OneTime!Lose
  <2>5. QED  BY <2>4 DEF OneTime!Next
\* A request ends, or goes on to close the challenge, without being let in.
<1>7. ASSUME \A c \in Challenges : challenge'[c].st = challenge[c].st,
             UNCHANGED <<entries, lost>>, r.step \notin Entry
      PROVE  OneTime!Next
  <2>1. Entrants' \in SUBSET Entrants
    BY <1>4, <1>7
  <2>2. ChallengeStages' = ChallengeStages
    BY <1>7, StageMoves
  <2>3. OneTime!Release
    BY <1>7, <2>1, <2>2 DEF OneTime!Release
  <2>4. QED  BY <2>3 DEF OneTime!Next
<1>8. CASE /\ req[p].step \notin Active /\ r.step \notin Active \cup {"trust"}
           /\ \A c \in Challenges : Quiet(c)
           /\ UNCHANGED <<guesses, entries, lost, proven>>
  <2>1. Entrants' = Entrants
    BY <1>4, <1>8 DEF Active, Entry
  <2>2. PICK c : \A d \in Challenges : d # c => challenge'[d] = challenge[d]
    BY DEF OneRow
  <2>3. CASE c \notin Challenges
    BY <1>3, <1>7, <1>8, <2>2, <2>3 DEF Active, Entry
  <2>4. CASE c \in Challenges /\ StagesSpent
    <3>1. OneTime!Spend
      BY <1>8, <2>1, <2>4 DEF OneTime!Spend, StagesSpent
    <3>2. QED  BY <1>3, <3>1 DEF OneTime!Next
  <2>5. CASE c \in Challenges /\ ~StagesSpent
    <3>1. /\ ChallengeStages[c] = "none"
          /\ ChallengeStages' = [ChallengeStages EXCEPT ![c] = "good"]
      BY <1>8, <2>2, <2>5, StageMoves
    <3>2. OneTime!Issue(c)
      BY <1>8, <2>1, <3>1 DEF OneTime!Issue
    <3>3. QED  BY <1>3, <2>5, <3>2 DEF OneTime!Next
  <2>6. QED  BY <2>3, <2>4, <2>5
<1>9. CASE /\ req[p].step = "idle" /\ r.step = "post" /\ r.ch \in Challenges /\ Open(r.ch)
           /\ UNCHANGED challenge /\ NothingCounted
  <2>1. Entrants' = Entrants \cup {<<p, r.ch>>}
    BY <1>e, <1>5, <1>9 DEF Entry
  <2>2. \A c \in Challenges : <<p, c>> \notin Entrants \cup {}
    BY <1>9 DEF Entrants
  <2>3. ChallengeStages' = ChallengeStages /\ ChallengeStages[r.ch] = "good"
    BY <1>9, StageMoves
  <2>4. OneTime!Find(p, r.ch)
    BY <1>9, <2>1, <2>2, <2>3 DEF OneTime!Find, NothingCounted
  <2>5. QED  BY <1>3, <1>9, <2>4 DEF OneTime!Next
<1>10. CASE /\ req[p].step \in {"post", "check", "enrol"} /\ r.step \in {"check", "enrol", "done"}
            /\ r.ch = req[p].ch /\ UNCHANGED challenge /\ NothingCounted
  <2>1. req[p].ch \in Challenges /\ req[p].step \in Entry /\ r.step \in Entry
    BY <1>0, <1>10 DEF Entry
  <2>2. Entrants' = Entrants
    <3>1. /\ Entrants' = {h \in Entrants : h[1] # p} \cup {<<p, r.ch>>}
          /\ {h \in Entrants : h[1] # p} = Entrants \ {<<p, r.ch>>}
          /\ <<p, r.ch>> \in Entrants
      BY <1>e, <1>10, <2>1
    <3>2. QED  BY <3>1
  <2>3. ChallengeStages' = ChallengeStages
    BY <1>10, StageMoves
  <2>4. QED  BY <1>3, <1>10, <2>2, <2>3 DEF OneTime!vars, NothingCounted
<1>11. CASE r = Idle /\ UNCHANGED challenge /\ NothingCounted
  BY <1>3, <1>5, <1>7, <1>11 DEF NothingCounted
<1>12. CASE /\ req[p].step = "check"
            /\ \/ IncrementFailedAttempts(req[p].ch) /\ UNCHANGED lost
               \/ Failing /\ lost' = TRUE /\ UNCHANGED challenge
            /\ entries' = Kept(entries) /\ r.step \notin Entry
  <2>1. CASE IncrementFailedAttempts(req[p].ch) /\ UNCHANGED lost
    <3>1. req[p].ch \in Challenges
      BY <1>0, <1>12
    <3>2. \A c \in Challenges : challenge'[c].st = challenge[c].st
      BY <2>1, <3>1, Statements
    <3>3. entries' = entries
      BY <1>12, <2>1 DEF Kept, LossEnds
    <3>4. QED  BY <1>3, <1>7, <1>12, <2>1, <3>2, <3>3
  <2>2. CASE Failing /\ lost' = TRUE /\ UNCHANGED challenge
    BY <1>3, <1>6, <1>12, <2>2 DEF Kept
  <2>3. QED  BY <1>12, <2>1, <2>2
<1>13. CASE /\ req[p].step = "lock" /\ r = Idle /\ MarkUsed(req[p].ch) /\ entries' = Kept(entries)
  <2>1. CASE Close(req[p].ch) /\ UNCHANGED lost
    <3>1. StagesSpent
      BY <1>0, <1>13, <2>1, StageMoves
    <3>2. Entrants' = Entrants
      BY <1>4, <1>5, <1>13
    <3>3. entries' = entries
      BY <1>13, <2>1 DEF Kept, LossEnds
    <3>4. OneTime!Spend
      BY <2>1, <3>1, <3>2, <3>3 DEF OneTime!Spend, StagesSpent
    <3>5. QED  BY <1>3, <3>4 DEF OneTime!Next
  <2>2. CASE Failing /\ lost' = TRUE /\ UNCHANGED challenge
    BY <1>3, <1>5, <1>6, <1>13, <2>2 DEF Kept
  <2>3. QED  BY <1>13, <2>1, <2>2 DEF MarkUsed
<1>14. CASE /\ req[p].step = "done" /\ r.step = "trust" /\ MarkUsed(req[p].ch)
            /\ entries' = Counted(entries, req[p].ch)
  <2> DEFINE c == req[p].ch
  <2>1. c \in Challenges /\ challenge[c].st # "none" /\ req[p].step \in Entry
    BY <1>0, <1>14 DEF Entry
  <2>2. CASE Close(c) /\ UNCHANGED lost
    <3>1. ChallengeStages' = [ChallengeStages EXCEPT ![c] = "spent"]
      BY <2>1, <2>2, StageMoves
    <3>2. <<p, c>> \in Entrants /\ Entrants' = Entrants \ {<<p, c>>}
      BY <1>e, <1>5, <1>14, <2>1
    <3>3. entries' = IF lost THEN entries ELSE [entries EXCEPT ![c] = @ + 1]
      BY <1>14, <2>2 DEF Counted, LossEnds
    <3> HIDE DEF c
    <3>4. OneTime!Use(p, c)
      BY <2>2, <3>1, <3>2, <3>3 DEF OneTime!Use
    <3>5. QED  BY <1>3, <2>1, <3>4 DEF OneTime!Next
  <2>3. CASE Failing /\ lost' = TRUE /\ UNCHANGED challenge
    BY <1>3, <1>5, <1>6, <1>14, <2>3 DEF Counted
  <2>4. QED  BY <1>14, <2>2, <2>3 DEF MarkUsed
<1>15. QED
  BY <1>1, <1>5, <1>8, <1>9, <1>10, <1>11, <1>12, <1>13, <1>14 DEF Move

\* So does everything else that happens to the challenges.
LEMMA OtherOneTime ==
  ASSUME TypeOK, TypeOK', LossEnds, MfaOther
  PROVE  [OneTime!Next]_(OneTime!vars) /\ LossEnds'
<1>0. lost \in BOOLEAN /\ Zero = OneTime!Unused
  BY DEF TypeOK, Zero, OneTime!Unused
<1>1. CASE UNCHANGED <<req, challenge, guesses, entries, lost, proven, skipped>>
  <2>1. ChallengeStages' = ChallengeStages
    BY <1>1, StageMoves
  <2>2. QED  BY <1>1, <2>1 DEF OneTime!vars, Entrants, LossEnds
<1>2. ASSUME NEW c \in Challenges, Open(c), Close(c),
             UNCHANGED <<req, guesses, entries, lost, proven, skipped>>
      PROVE  [OneTime!Next]_(OneTime!vars) /\ LossEnds'
  <2>1. StagesSpent
    BY <1>2, StageMoves DEF Open
  <2>2. OneTime!Spend
    BY <1>2, <2>1 DEF OneTime!Spend, StagesSpent, Entrants
  <2>3. QED  BY <1>2, <2>2 DEF OneTime!Next, LossEnds
<1>3. CASE /\ req' = [p \in Procs |-> Idle] /\ "crash" \in Operations
           /\ lost' = (lost \/ \E p \in Procs : req[p].step = "lock")
           /\ entries' = Kept(entries) /\ UNCHANGED challenge
  <2>1. Entrants' = {}
    BY <1>3 DEF Entrants, Idle
  <2>2. ChallengeStages' = ChallengeStages /\ ~NoLosses
    BY <1>3, StageMoves DEF NoLosses
  <2>3. CASE lost'
    <3>1. OneTime!Lose
      BY <1>0, <1>3, <2>1, <2>2, <2>3 DEF OneTime!Lose, Kept
    <3>2. QED  BY <1>3, <2>3, <3>1 DEF OneTime!Next, LossEnds, Kept
  <2>4. CASE ~lost'
    <3>1. UNCHANGED <<entries, lost>>
      BY <1>0, <1>3, <2>4 DEF Kept
    <3>2. OneTime!Release
      BY <2>1, <2>2, <3>1 DEF OneTime!Release
    <3>3. QED  BY <2>4, <3>2 DEF OneTime!Next, LossEnds
  <2>5. QED  BY <2>3, <2>4
<1>4. QED  BY <1>1, <1>2, <1>3 DEF MfaOther

\* A challenge of the second factor is good once, however the requests it was
\* found open by overlap (handleMfaPost, MarkChallengeUsed).
THEOREM ChallengesAreGoodOnce == Spec => ChallengesGoodOnce
<1>1. Init => OneTime!Init /\ LossEnds
  BY DEF Init, OneTime!Init, LossEnds, ChallengeStages, ChallengeStage, Entrants, NoRow, Idle,
         Zero, OneTime!Unused
<1>2. IInv /\ IInv' /\ LossEnds /\ [Next]_vars => [OneTime!Next]_(OneTime!vars) /\ LossEnds'
  <2> SUFFICES ASSUME IInv, IInv', LossEnds, [Next]_vars
               PROVE  [OneTime!Next]_(OneTime!vars) /\ LossEnds'
    OBVIOUS
  <2>1. TypeOK /\ TypeOK' /\ Holders
    BY DEF IInv
  <2>2. ASSUME NEW p \in Procs, Step(p) PROVE [OneTime!Next]_(OneTime!vars) /\ LossEnds'
    BY <2>1, <2>2, StepMoves, StepOneRow, MoveOneTime
  <2>3. CASE Environment
    BY <2>1, <2>3, EnvironmentMoves, OtherOneTime
  <2>4. CASE UNCHANGED vars
    BY <2>1, <2>4, OtherOneTime DEF vars, tables, history, MfaOther
  <2>5. QED  BY <2>2, <2>3, <2>4 DEF Next
<1>3. QED  BY Invariance, <1>1, <1>2, PTL DEF Spec, ChallengesGoodOnce, OneTime!Spec

=============================================================================
