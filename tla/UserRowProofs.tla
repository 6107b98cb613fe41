--------------------------- MODULE UserRowProofs ---------------------------
(***************************************************************************)
(* The lockout and the second factor of UserRow, for every number of       *)
(* requests, every threshold and every set of secrets.                     *)
(***************************************************************************)
EXTENDS UserRow, FiniteSetTheorems, TLAPS

USE AttemptsAssumption, ProcsAssumption, NoneAssumption

-----------------------------------------------------------------------------
(* Types.                                                                  *)

\* A request that starts, moves on or ends is well typed.
LEMMA LocTypes ==
  ASSUME loc \in [Procs -> Request],
         NEW p \in Procs, NEW s \in Steps, NEW t \in Tasks, NEW r \in UserColumns
  PROVE  /\ Ends(p) => loc' \in [Procs -> Request]
         /\ GoTo(p, s) => loc' \in [Procs -> Request]
         /\ Start(p, s, t, r) => loc' \in [Procs -> Request]
         /\ [loc EXCEPT ![p].step = s, ![p].row = r] \in [Procs -> Request]
<1>1. Idle \in Request
  BY DEF Idle, Request, NoColumns, Steps, Tasks, UserColumns
<1>2. [step |-> s, task |-> t, row |-> r] \in Request
  BY DEF Request
<1>3. [loc[p] EXCEPT !.step = s] \in Request
  BY DEF Request
<1>4. [loc[p] EXCEPT !.step = s, !.row = r] \in Request
  BY DEF Request
<1>5. Ends(p) => loc' \in [Procs -> Request]
  BY <1>1 DEF Ends
<1>6. GoTo(p, s) => loc' \in [Procs -> Request]
  BY <1>3 DEF GoTo
<1>7. Start(p, s, t, r) => loc' \in [Procs -> Request]
  BY <1>2 DEF Start
<1>8. [loc EXCEPT ![p].step = s, ![p].row = r] \in [Procs -> Request]
  BY <1>4
<1>9. QED  BY <1>5, <1>6, <1>7, <1>8

\* What a request remembers of a row is a row.
LEMMA ColumnTypes ==
  ASSUME NEW row \in UserColumns, NEW seen \in UserColumns
  PROVE  /\ NoColumns \in UserColumns
         /\ EnrolledOf(row) \in UserColumns
         /\ SecretOf(row) \in UserColumns
         /\ CountOf(row, seen) \in UserColumns
         /\ UpdateOf(row) \in UserColumns
  BY DEF NoColumns, EnrolledOf, SecretOf, CountOf, UpdateOf, UserColumns

\* The statement after a right password is a step of the request.
LEMMA AfterPasswordStep == \A t \in Tasks : AfterPassword(t) \in Steps
  BY DEF AfterPassword, Tasks, Steps

\* UpdateUser writes a row.
LEMMA UpdateTypes ==
  ASSUME user \in UserColumns, NEW row \in UserColumns, NEW ch \in Changes
  PROVE  [user EXCEPT
            !.password = Keep(ch.password, row.password),
            !.totp_verified = Keep(ch.totp_verified, row.totp_verified),
            !.require_password_change =
               Keep(ch.require_password_change, row.require_password_change)] \in UserColumns
<1>1. Keep(ch.password, row.password) \in Passwords \cup {None}
  BY DEF Keep, Changes, UserColumns
<1>2. Keep(ch.totp_verified, row.totp_verified) \in BOOLEAN
  BY DEF Keep, Changes, UserColumns
<1>3. Keep(ch.require_password_change, row.require_password_change) \in BOOLEAN
  BY DEF Keep, Changes, UserColumns
<1>4. QED  BY <1>1, <1>2, <1>3 DEF UserColumns

\* So do the statements that count failures.
LEMMA CountTypes ==
  ASSUME user \in UserColumns, NEW n \in Nat, NEW b \in BOOLEAN
  PROVE  /\ [user EXCEPT !.failed_login_attempts = n] \in UserColumns
         /\ [user EXCEPT !.failed_login_attempts = n, !.locked = b] \in UserColumns
         /\ [user EXCEPT !.locked = b] \in UserColumns
  BY DEF UserColumns

\* Every statement keeps the types.
LEMMA TypeStep == TypeOK /\ [Next]_vars => TypeOK'
<1> SUFFICES ASSUME TypeOK, [Next]_vars PROVE TypeOK'
  OBVIOUS
<1> DEFINE LocType == [Procs -> Request]
<1>0. /\ user \in UserColumns /\ loc \in LocType /\ guesses \in Nat /\ late \in Nat
      /\ proven \subseteq Secrets /\ revived \in BOOLEAN
  BY DEF TypeOK
<1>p. \A p \in Procs : loc[p].row \in UserColumns /\ loc[p].task \in Tasks
  BY <1>0 DEF Request
<1>1. ASSUME NEW p \in Procs, NEW t \in Tasks, CheckRequest(p, t) PROVE TypeOK'
  <2>1. loc' \in LocType
    BY <1>0, <1>1, LocTypes, ColumnTypes DEF CheckRequest, Steps
  <2>2. QED  BY <1>0, <1>1, <2>1 DEF CheckRequest, TypeOK, lockHistory, totpHistory
<1>2. ASSUME NEW p \in Procs, NEW t \in Tasks, AccountRequest(p, t) PROVE TypeOK'
  <2>1. loc' \in LocType
    <3>1. EnrolledOf(user) \in UserColumns
      BY <1>0, ColumnTypes
    <3>2. "verify" \in Steps /\ AfterPassword(t) \in Steps
      BY AfterPasswordStep DEF Steps
    <3>3. \/ Start(p, "verify", t, EnrolledOf(user))
          \/ Start(p, AfterPassword(t), t, EnrolledOf(user))
      BY <1>2 DEF AccountRequest
    <3>4. QED  BY <1>0, <3>1, <3>2, <3>3, LocTypes
  <2>2. QED  BY <1>0, <1>2, <2>1 DEF AccountRequest, TypeOK, lockHistory, totpHistory
<1>3. ASSUME NEW p \in Procs, VerifyRead(p) PROVE TypeOK'
  <2>1. loc' \in LocType
    <3>1. CASE loc' = [loc EXCEPT ![p].step = "check", ![p].row = CountOf(user, loc[p].row)]
      BY <1>0, <1>p, <3>1, LocTypes, ColumnTypes DEF Steps
    <3>2. CASE Ends(p)  BY <1>0, <1>p, <3>2, LocTypes DEF Steps
    <3>3. QED  BY <1>3, <3>1, <3>2 DEF VerifyRead
  <2>2. QED  BY <1>0, <1>3, <2>1 DEF VerifyRead, TypeOK, lockHistory, totpHistory
<1>4. ASSUME NEW p \in Procs, WrongPassword(p) PROVE TypeOK'
  <2>1. loc' \in LocType
    BY <1>0, <1>p, <1>4, LocTypes DEF WrongPassword, Steps
  <2>2. user' \in UserColumns
    <3>1. loc[p].row.failed_login_attempts + 1 \in Nat
      BY <1>p DEF UserColumns
    <3>2. TRUE \in BOOLEAN
      OBVIOUS
    <3>3. QED  BY <1>0, <1>4, <3>1, <3>2, CountTypes DEF WrongPassword, Lockout
  <2>3. guesses' \in Nat /\ late' \in Nat
    BY <1>0, <1>4 DEF WrongPassword
  <2>4. QED  BY <1>0, <1>4, <2>1, <2>2, <2>3 DEF WrongPassword, TypeOK, totpHistory
<1>f. FALSE \in BOOLEAN /\ 0 \in Nat
  OBVIOUS
<1>c. ClearFailures => user' \in UserColumns /\ guesses' \in Nat /\ late' \in Nat
  BY <1>0, <1>f, CountTypes DEF ClearFailures
<1>5. ASSUME NEW p \in Procs, RightPassword(p) PROVE TypeOK'
  <2>1. loc' \in LocType
    BY <1>0, <1>p, <1>5, LocTypes, AfterPasswordStep DEF RightPassword
  <2>2. user' \in UserColumns /\ guesses' \in Nat /\ late' \in Nat
    BY <1>0, <1>c, <1>5 DEF RightPassword, lockHistory
  <2>3. QED  BY <1>0, <1>5, <2>1, <2>2 DEF RightPassword, TypeOK, totpHistory
<1>6. ASSUME NEW p \in Procs, CountFails(p) \/ StatementFails(p) PROVE TypeOK'
  <2>1. loc' \in LocType
    BY <1>0, <1>p, <1>6, LocTypes DEF CountFails, StatementFails, Steps
  <2>2. QED
    BY <1>0, <1>6, <2>1 DEF CountFails, StatementFails, TypeOK, lockHistory, totpHistory
<1>7. ASSUME NEW p \in Procs, UpdateRead(p) \/ ForceRead(p) \/ ResetRead(p) PROVE TypeOK'
  <2>1. loc' \in LocType
    <3>1. /\ "write" \in Steps /\ "update" \in Steps
          /\ "admin" \in Tasks /\ "force" \in Tasks /\ "reset" \in Tasks
      BY DEF Steps, Tasks
    <3>2. NoColumns \in UserColumns /\ UpdateOf(user) \in UserColumns
      BY <1>0, ColumnTypes
    <3>3. CASE loc' = [loc EXCEPT ![p].step = "write", ![p].row = UpdateOf(user)]
      BY <1>0, <3>1, <3>2, <3>3, LocTypes
    <3>4. CASE Start(p, "write", "admin", UpdateOf(user))
      BY <1>0, <3>1, <3>2, <3>4, LocTypes
    <3>5. CASE Start(p, "update", "force", NoColumns) \/ Start(p, "update", "reset", NoColumns)
      BY <1>0, <3>1, <3>2, <3>5, LocTypes
    <3>6. QED  BY <1>7, <3>3, <3>4, <3>5 DEF UpdateRead, ForceRead, ResetRead
  <2>2. QED
    BY <1>0, <1>7, <2>1 DEF UpdateRead, ForceRead, ResetRead, TypeOK, lockHistory, totpHistory
<1>8. ASSUME NEW p \in Procs, NEW ch \in Changes, UpdateWrite(p, ch) PROVE TypeOK'
  <2>1. loc' \in LocType
    BY <1>0, <1>p, <1>8, LocTypes DEF UpdateWrite, Steps
  <2>2. user' \in UserColumns
    BY <1>0, <1>p, <1>8, UpdateTypes DEF UpdateWrite
  <2>3. revived' \in BOOLEAN
    BY <1>8 DEF UpdateWrite
  <2>4. QED  BY <1>0, <1>8, <2>1, <2>2, <2>3 DEF UpdateWrite, TypeOK, lockHistory
<1>9. ASSUME NEW p \in Procs, NEW s \in Secrets, StoreTotpSecretPending(p, s) PROVE TypeOK'
  <2>1. loc' \in LocType
    BY <1>0, <1>p, <1>9, LocTypes DEF StoreTotpSecretPending, Steps
  <2>2. user' \in UserColumns
    BY <1>0, <1>9 DEF StoreTotpSecretPending, UserColumns
  <2>3. QED  BY <1>0, <1>9, <2>1, <2>2 DEF StoreTotpSecretPending, TypeOK, lockHistory
<1>10. ASSUME NEW p \in Procs, NEW s \in Secrets, EnrolRead(p, s) PROVE TypeOK'
  <2>1. [NoColumns EXCEPT !.totp_secret = s] \in UserColumns
    BY DEF NoColumns, UserColumns
  <2>2. loc' \in LocType
    BY <1>0, <1>10, <2>1, LocTypes DEF EnrolRead, Steps, Tasks
  <2>3. QED  BY <1>0, <1>10, <2>2 DEF EnrolRead, TypeOK, lockHistory
<1>11. ASSUME NEW p \in Procs, VerifyTotp(p) PROVE TypeOK'
  <2>1. loc' \in LocType
    BY <1>0, <1>11, LocTypes, ColumnTypes DEF VerifyTotp, Steps, Tasks
  <2>2. user.totp_secret \in Secrets
    BY <1>0, <1>11 DEF VerifyTotp, UserColumns
  <2>3. QED  BY <1>0, <1>11, <2>1, <2>2 DEF VerifyTotp, TypeOK, lockHistory
<1>12. ASSUME NEW p \in Procs, SaveTotpSecret(p) \/ DisableMfa(p) PROVE TypeOK'
  <2>1. loc' \in LocType
    BY <1>0, <1>p, <1>12, LocTypes DEF SaveTotpSecret, DisableMfa, Steps
  <2>2. loc[p].row.totp_secret \in Secrets \cup {None}
    BY <1>p DEF UserColumns
  <2>3. user' \in UserColumns
    BY <1>0, <1>12, <2>2 DEF SaveTotpSecret, DisableMfa, UserColumns
  <2>4. QED
    BY <1>0, <1>12, <2>1, <2>3 DEF SaveTotpSecret, DisableMfa, TypeOK, lockHistory
<1>13. ASSUME UnlockUser \/ LockExpires PROVE TypeOK'
  <2>1. user' \in UserColumns /\ guesses' \in Nat /\ late' \in Nat
    <3>1. CASE UnlockUser  BY <1>c, <3>1 DEF UnlockUser
    <3>2. CASE LockExpires  BY <1>0, <1>f, <3>2, CountTypes DEF LockExpires
    <3>3. QED  BY <1>13, <3>1, <3>2
  <2>2. QED  BY <1>0, <1>13, <2>1 DEF UnlockUser, LockExpires, TypeOK, totpHistory
<1>14. ASSUME Crash PROVE TypeOK'
  <2>1. Idle \in Request
    BY DEF Idle, Request, NoColumns, Steps, Tasks, UserColumns
  <2>2. QED  BY <1>0, <1>14, <2>1 DEF Crash, TypeOK, lockHistory, totpHistory
<1>15. CASE UNCHANGED vars
  BY <1>0, <1>15 DEF TypeOK, vars, lockHistory, totpHistory
<1>16. QED
  BY <1>1, <1>2, <1>3, <1>4, <1>5, <1>6, <1>7, <1>8, <1>9, <1>10, <1>11, <1>12, <1>13,
     <1>14, <1>15 DEF Next, Step
\* The columns of a new account, whatever is known of it.
LEMMA TypeInit == Init => TypeOK
<1> SUFFICES ASSUME Init PROVE TypeOK
  OBVIOUS
<1>1. Idle \in Request
  BY DEF Idle, Request, NoColumns, Steps, Tasks, UserColumns
<1>2. {None} \subseteq Secrets \cup {None} /\ {FALSE} \subseteq BOOLEAN /\ {0} \subseteq Nat
  OBVIOUS
<1>3. user \in UserColumns
  BY <1>2, Zenon DEF Init, UserColumns
<1>4. QED  BY <1>1, <1>3 DEF Init, TypeOK

-----------------------------------------------------------------------------
(* The lockout.                                                            *)

\* A goroutine that leaves "check" makes room for nobody else.
LEMMA CheckingBounds ==
  /\ IsFiniteSet(Checking) /\ Cardinality(Checking) \in Nat
  /\ Cardinality(Procs) \in Nat /\ Cardinality(Procs) > 0
  /\ \A p \in Checking : Cardinality(Checking \ {p}) = Cardinality(Checking) - 1
  /\ Cardinality(Checking) <= Cardinality(Procs)
<1>1. Checking \subseteq Procs
  BY DEF Checking
<1>2. IsFiniteSet(Checking) /\ Cardinality(Checking) <= Cardinality(Procs)
  BY <1>1, FS_Subset
<1>3. Cardinality(Checking) \in Nat /\ Cardinality(Procs) \in Nat
  BY <1>2, FS_CardinalityType
<1>4. Cardinality(Procs) > 0
  BY <1>3, FS_EmptySet
<1>5. \A p \in Checking : Cardinality(Checking \ {p}) = Cardinality(Checking) - 1
  BY <1>2, FS_RemoveElement
<1>6. QED  BY <1>2, <1>3, <1>4, <1>5

\* A statement that neither locks nor counts keeps the budget, when no request
\* reads the row of a locked account into a new check.
LEMMA BudgetKept ==
  ASSUME TypeOK, LateBudget, user'.locked = user.locked, late' = late,
         user.locked => Checking' \subseteq Checking
  PROVE  LateBudget'
<1>1. ASSUME user.locked PROVE Cardinality(Checking') <= Cardinality(Checking)
  BY <1>1, CheckingBounds, FS_Subset
<1>2. ASSUME user.locked
      PROVE  Cardinality(Checking') \in Nat /\ Cardinality(Checking) \in Nat
  <2>1. IsFiniteSet(Checking')
    BY <1>2, CheckingBounds, FS_Subset
  <2>2. QED  BY <2>1, CheckingBounds, FS_CardinalityType
<1>3. QED  BY <1>1, <1>2, CheckingBounds DEF LateBudget, TypeOK

\* Every statement keeps the budget.
LEMMA BudgetStep == TypeOK /\ LateBudget /\ [Next]_vars => LateBudget'
<1> SUFFICES ASSUME TypeOK, LateBudget, [Next]_vars PROVE LateBudget'
  OBVIOUS
<1>0. loc \in [Procs -> Request] /\ user \in UserColumns /\ late \in Nat
  BY DEF TypeOK
<1>m. ASSUME NEW p \in Procs, NEW s \in Steps, NEW t \in Tasks, NEW r,
             s # "check", Ends(p) \/ GoTo(p, s) \/ Start(p, s, t, r)
      PROVE  Checking' = Checking \ {p}
  BY <1>0, <1>m DEF Checking, At, Ends, GoTo, Start, Idle, Request
<1>1. ASSUME NEW p \in Procs, NEW t \in Tasks, CheckRequest(p, t) PROVE LateBudget'
  <2>1. ~user.locked
    BY <1>1 DEF CheckRequest, CanCheck
  <2>2. QED  BY <1>1, <2>1, BudgetKept DEF CheckRequest, lockHistory
<1>2. ASSUME NEW p \in Procs, NEW t \in Tasks, AccountRequest(p, t) PROVE LateBudget'
  <2>1. AfterPassword(t) # "check" /\ AfterPassword(t) \in Steps /\ "verify" \in Steps
    BY DEF AfterPassword, Steps
  <2>2. Checking' = Checking \ {p}
    BY <1>2, <1>m, <2>1 DEF AccountRequest
  <2>3. QED  BY <1>2, <2>2, BudgetKept DEF AccountRequest, lockHistory
<1>3. ASSUME NEW p \in Procs, VerifyRead(p) PROVE LateBudget'
  <2>1. CASE CanCheck
    BY <1>3, <2>1, BudgetKept DEF VerifyRead, CanCheck, lockHistory
  <2>2. CASE Ends(p)
    <3>1. Checking' = Checking \ {p}
      BY <1>m, <2>2 DEF Steps, Tasks
    <3>2. QED  BY <1>3, <3>1, BudgetKept DEF VerifyRead, lockHistory
  <2>3. QED  BY <1>3, <2>1, <2>2 DEF VerifyRead
<1>4. ASSUME NEW p \in Procs, WrongPassword(p) PROVE LateBudget'
  <2>1. Checking' = Checking \ {p}
    BY <1>m, <1>4 DEF WrongPassword, Steps, Tasks
  <2>2. p \in Checking
    BY <1>4 DEF WrongPassword, Checking
  <2>3. Cardinality(Checking') = Cardinality(Checking) - 1
    BY <2>1, <2>2, CheckingBounds
  <2>4. user.locked => user'.locked
    BY <1>0, <1>4 DEF WrongPassword, Lockout, UserColumns
  <2>5. CASE user.locked
    BY <1>0, <1>4, <2>3, <2>4, <2>5, CheckingBounds DEF WrongPassword, LateBudget
  <2>6. CASE ~user.locked
    BY <1>0, <1>4, <2>3, <2>6, CheckingBounds DEF WrongPassword, LateBudget
  <2>7. QED  BY <2>5, <2>6
<1>c. ASSUME ClearFailures PROVE LateBudget'
  BY <1>0, <1>c DEF ClearFailures, LateBudget, UserColumns
<1>5. ASSUME NEW p \in Procs, RightPassword(p) PROVE LateBudget'
  <2>1. CASE ClearFailures  BY <1>c, <2>1
  <2>2. CASE UNCHANGED <<user, lockHistory>>
    <3>1. AfterPassword(loc[p].task) # "check" /\ AfterPassword(loc[p].task) \in Steps
      BY DEF AfterPassword, Steps
    <3>2. Checking' = Checking \ {p}
      BY <1>m, <1>5, <3>1 DEF RightPassword, Steps, Tasks
    <3>3. QED  BY <2>2, <3>2, BudgetKept DEF lockHistory
  <2>3. QED  BY <1>5, <2>1, <2>2 DEF RightPassword
<1>6. ASSUME NEW p \in Procs, CountFails(p) \/ StatementFails(p) PROVE LateBudget'
  <2>1. Checking' = Checking \ {p}
    BY <1>m, <1>6 DEF CountFails, StatementFails, Steps, Tasks
  <2>2. QED  BY <1>6, <2>1, BudgetKept DEF CountFails, StatementFails, lockHistory
<1>7. ASSUME NEW p \in Procs, UpdateRead(p) \/ ForceRead(p) \/ ResetRead(p) PROVE LateBudget'
  <2>1. CASE loc' = [loc EXCEPT ![p].step = "write", ![p].row = UpdateOf(user)]
    <3>1. Checking' = Checking \ {p}
      BY <1>0, <2>1 DEF Checking, At, Request
    <3>2. QED
      BY <1>7, <3>1, BudgetKept DEF UpdateRead, ForceRead, ResetRead, lockHistory
  <2>2. CASE \E t \in Tasks, r \in {UpdateOf(user), NoColumns} :
               Start(p, "write", t, r) \/ Start(p, "update", t, r)
    <3>1. Checking' = Checking \ {p}
      BY <1>m, <2>2 DEF Steps
    <3>2. QED
      BY <1>7, <3>1, BudgetKept DEF UpdateRead, ForceRead, ResetRead, lockHistory
  <2>3. "admin" \in Tasks /\ "force" \in Tasks /\ "reset" \in Tasks
    BY DEF Tasks
  <2>4. QED  BY <1>7, <2>1, <2>2, <2>3 DEF UpdateRead, ForceRead, ResetRead
<1>8. ASSUME NEW p \in Procs, NEW ch \in Changes, UpdateWrite(p, ch) PROVE LateBudget'
  <2>1. Checking' = Checking \ {p}
    BY <1>m, <1>8 DEF UpdateWrite, Steps, Tasks
  <2>2. user'.locked = user.locked
    BY <1>0, <1>8 DEF UpdateWrite, UserColumns
  <2>3. QED  BY <1>8, <2>1, <2>2, BudgetKept DEF UpdateWrite, lockHistory
<1>9. ASSUME NEW p \in Procs, NEW s \in Secrets, StoreTotpSecretPending(p, s)
      PROVE  LateBudget'
  <2>1. Checking' = Checking \ {p}
    BY <1>m, <1>9 DEF StoreTotpSecretPending, Steps, Tasks
  <2>2. user'.locked = user.locked
    BY <1>0, <1>9 DEF StoreTotpSecretPending, UserColumns
  <2>3. QED  BY <1>9, <2>1, <2>2, BudgetKept DEF StoreTotpSecretPending, lockHistory
<1>10. ASSUME NEW p \in Procs, VerifyTotp(p) \/ \E s \in Secrets : EnrolRead(p, s)
       PROVE  LateBudget'
  <2>1. PICK r : Start(p, "saveSecret", "enrol", r)
    BY <1>10 DEF VerifyTotp, EnrolRead
  <2>2. Checking' = Checking \ {p}
    BY <1>m, <2>1 DEF Steps, Tasks
  <2>3. QED  BY <1>10, <2>2, BudgetKept DEF VerifyTotp, EnrolRead, lockHistory
<1>11. ASSUME NEW p \in Procs, SaveTotpSecret(p) \/ DisableMfa(p) PROVE LateBudget'
  <2>1. Checking' = Checking \ {p}
    BY <1>m, <1>11 DEF SaveTotpSecret, DisableMfa, Steps, Tasks
  <2>2. user'.locked = user.locked
    BY <1>0, <1>11 DEF SaveTotpSecret, DisableMfa, UserColumns
  <2>3. QED
    BY <1>11, <2>1, <2>2, BudgetKept DEF SaveTotpSecret, DisableMfa, lockHistory
<1>12. ASSUME UnlockUser \/ LockExpires PROVE LateBudget'
  <2>1. CASE UnlockUser  BY <1>c, <2>1 DEF UnlockUser
  <2>2. CASE LockExpires
    BY <1>0, <2>2 DEF LockExpires, LateBudget, UserColumns
  <2>3. QED  BY <1>12, <2>1, <2>2
<1>13. ASSUME Crash PROVE LateBudget'
  <2>1. Checking' = {}
    BY <1>13 DEF Crash, Checking, At, Idle
  <2>2. QED  BY <1>13, <2>1, BudgetKept DEF Crash, lockHistory
<1>14. CASE UNCHANGED vars
  <2>1. Checking' = Checking
    BY <1>14 DEF vars, Checking, At
  <2>2. QED  BY <1>14, <2>1, BudgetKept DEF vars, lockHistory
<1>15. QED
  BY <1>1, <1>2, <1>3, <1>4, <1>5, <1>6, <1>7, <1>8, <1>9, <1>10, <1>11, <1>12, <1>13,
     <1>14 DEF Next, Step

-----------------------------------------------------------------------------
(* How many wrong passwords are counted before the lock.                   *)

LEMMA ProcsCounted == Cardinality(Procs) \in Nat
  BY FS_CardinalityType

LEMMA ThresholdTypes ==
  /\ Thresholds \subseteq Nat /\ IsFiniteSet(Thresholds)
  /\ \A n \in Nat : n + 1 < MaxAttempts <=> n \in Thresholds
<1>1. 0 \in Int /\ MaxAttempts - 2 \in Int
  OBVIOUS
<1>2. IsFiniteSet(Thresholds)
  BY <1>1, FS_Interval DEF Thresholds
<1>3. QED  BY <1>2 DEF Thresholds

\* There are finitely many profiles: each is determined by its graph.
LEMMA ProfilesFinite == IsFiniteSet(Profiles)
<1> DEFINE Pairs == Thresholds \X (0 .. Cardinality(Procs))
           Graph(f) == {<<n, f[n]>> : n \in Thresholds}
           graph == [f \in Profiles |-> Graph(f)]
<1>1. IsFiniteSet(0 .. Cardinality(Procs))
  BY ProcsCounted, FS_Interval
<1>2. IsFiniteSet(SUBSET Pairs)
  BY <1>1, ThresholdTypes, FS_Product, FS_SUBSET
<1>3. \A f \in Profiles : Graph(f) \in SUBSET Pairs
  BY DEF Profiles
<1>4. ASSUME NEW f \in Profiles, NEW g \in Profiles, Graph(f) = Graph(g)  PROVE f = g
  <2>1. ASSUME NEW n \in Thresholds  PROVE f[n] = g[n]
    <3>1. <<n, f[n]>> \in Graph(g)
      BY <1>4
    <3>2. QED  BY <3>1
  <2>2. QED  BY <2>1 DEF Profiles
<1>5. graph \in Injection(Profiles, SUBSET Pairs)
  BY <1>3, <1>4 DEF Injection, IsInjective
<1>6. QED  BY <1>2, <1>5, FS_Injection

\* The requests that hold more than a count are requests.
LEMMA HigherFinite ==
  ASSUME NEW H \in SUBSET Procs
  PROVE  IsFiniteSet(H) /\ Cardinality(H) \in 0 .. Cardinality(Procs)
  BY FS_Subset, FS_CardinalityType, ProcsCounted

LEMMA LevelTypes ==
  TypeOK => /\ user \in UserColumns /\ user.failed_login_attempts \in Nat
            /\ \A p \in Procs : /\ Level(p) \in Nat /\ loc[p] \in Request
                                /\ loc[p].row.failed_login_attempts \in Nat
<1> SUFFICES ASSUME TypeOK, NEW p \in Procs
             PROVE  /\ user \in UserColumns /\ user.failed_login_attempts \in Nat
                    /\ Level(p) \in Nat /\ loc[p] \in Request
                    /\ loc[p].row.failed_login_attempts \in Nat
  BY ProcsAssumption
<1>1. user \in UserColumns /\ loc[p] \in Request
  BY DEF TypeOK
<1>2. user.failed_login_attempts \in Nat /\ loc[p].row.failed_login_attempts \in Nat
  BY <1>1 DEF Request, UserColumns
<1>3. QED  BY <1>1, <1>2 DEF Level

LEMMA LevelCounts == TypeOK => \A p \in Procs : Level(p) \in Nat
  BY LevelTypes

\* The profile of a state is one of them.
LEMMA ProfileIsOne == TypeOK => Profile \in Profiles
<1> SUFFICES ASSUME TypeOK PROVE Profile \in Profiles
  OBVIOUS
<1>1. \A n \in Thresholds : Higher(n) \in SUBSET Procs
  BY DEF Higher
<1>2. \A n \in Thresholds : Profile[n] = Cardinality(Higher(n))
  BY DEF Profile
<1>3. Profile \in [Thresholds -> 0 .. Cardinality(Procs)]
  BY <1>1, HigherFinite DEF Profile
<1>4. ASSUME NEW m \in Thresholds, NEW n \in Thresholds, m <= n
      PROVE  Profile[n] <= Profile[m]
  <2>1. Higher(n) \in SUBSET Higher(m)
    BY <1>4, LevelTypes, ThresholdTypes DEF Higher
  <2>2. QED  BY <1>1, <1>2, <2>1, HigherFinite, FS_Subset
<1>5. QED  BY <1>3, <1>4 DEF Profiles

\* When no request holds less than before, the profile is no earlier.
LEMMA ProfileUp ==
  ASSUME TypeOK, TypeOK', \A p \in Procs : Level(p) <= Level(p)'
  PROVE  \A n \in Thresholds : Profile[n] <= Profile'[n]
<1> TAKE n \in Thresholds
<1>0. (TypeOK => \A p \in Procs : Level(p) \in Nat)'
  BY LevelCounts, PTL
<1>1. \A p \in Procs : Level(p) \in Nat /\ Level(p)' \in Nat
  BY <1>0, LevelTypes
<1>2. n \in Nat
  BY ThresholdTypes
<1>3. Higher(n) \in SUBSET Higher(n)' /\ Higher(n)' \in SUBSET Procs
  BY <1>1, <1>2 DEF Higher
<1>4. Profile[n] = Cardinality(Higher(n)) /\ Profile'[n] = Cardinality(Higher(n)')
  BY DEF Profile
<1>5. QED  BY <1>3, <1>4, HigherFinite, FS_Subset

\* "Before" is an order, and respects the profiles that are no earlier.
LEMMA BeforeOrder ==
  ASSUME NEW f \in Profiles, NEW g \in Profiles, NEW h \in Profiles
  PROVE  /\ ~Before(f, f)
         /\ Before(f, g) /\ Before(g, h) => Before(f, h)
         /\ Before(f, g) /\ (\A n \in Thresholds : g[n] <= h[n]) => Before(f, h)
<1>1. \A n \in Thresholds : n \in Nat /\ f[n] \in Nat /\ g[n] \in Nat /\ h[n] \in Nat
  BY ThresholdTypes, ProcsCounted DEF Profiles
<1>2. ~Before(f, f)
  BY <1>1 DEF Before
<1>3. ASSUME Before(f, g), Before(g, h)  PROVE Before(f, h)
  <2>1. PICK m \in Thresholds : f[m] < g[m] /\ \A i \in Thresholds : i < m => f[i] <= g[i]
    BY <1>3 DEF Before
  <2>2. PICK n \in Thresholds : g[n] < h[n] /\ \A i \in Thresholds : i < n => g[i] <= h[i]
    BY <1>3 DEF Before
  <2>3. CASE m <= n
    <3>1. f[m] < h[m]
      BY <1>1, <2>1, <2>2, <2>3
    <3>2. ASSUME NEW i \in Thresholds, i < m PROVE f[i] <= h[i]
      <4>1. f[i] <= g[i] /\ g[i] <= h[i]
        BY <1>1, <2>1, <2>2, <2>3, <3>2
      <4>2. QED  BY <1>1, <4>1
    <3>3. QED  BY <3>1, <3>2 DEF Before
  <2>4. CASE n < m
    <3>1. f[n] < h[n]
      BY <1>1, <2>1, <2>2, <2>4
    <3>2. ASSUME NEW i \in Thresholds, i < n PROVE f[i] <= h[i]
      <4>1. f[i] <= g[i] /\ g[i] <= h[i]
        BY <1>1, <2>1, <2>2, <2>4, <3>2
      <4>2. QED  BY <1>1, <4>1
    <3>3. QED  BY <3>1, <3>2 DEF Before
  <2>5. QED  BY <1>1, <2>3, <2>4
<1>4. ASSUME Before(f, g), \A n \in Thresholds : g[n] <= h[n]  PROVE Before(f, h)
  <2>1. PICK m \in Thresholds : f[m] < g[m] /\ \A i \in Thresholds : i < m => f[i] <= g[i]
    BY <1>4 DEF Before
  <2>2. f[m] < h[m]
    BY <1>1, <1>4, <2>1
  <2>3. ASSUME NEW i \in Thresholds, i < m PROVE f[i] <= h[i]
    <3>1. f[i] <= g[i] /\ g[i] <= h[i]
      BY <1>4, <2>1, <2>3
    <3>2. QED  BY <1>1, <3>1
  <2>4. QED  BY <2>2, <2>3 DEF Before
<1>5. QED  BY <1>2, <1>3, <1>4

Earlier(f) == {g \in Profiles : Before(g, f)}

LEMMA EarlierFinite ==
  ASSUME NEW f
  PROVE  IsFiniteSet(Earlier(f)) /\ Cardinality(Earlier(f)) \in Nat
<1>1. Earlier(f) \in SUBSET Profiles
  BY DEF Earlier
<1>2. QED  BY <1>1, ProfilesFinite, FS_Subset, FS_CardinalityType

\* A later profile has one more before it, at least.
LEMMA EarlierGrows ==
  ASSUME NEW f \in Profiles, NEW g \in Profiles, Before(f, g)
  PROVE  Cardinality(Earlier(f)) + 1 <= Cardinality(Earlier(g))
<1>1. f \notin Earlier(f)
  BY BeforeOrder DEF Earlier
<1>2. Earlier(f) \cup {f} \in SUBSET Earlier(g)
  BY BeforeOrder DEF Earlier
<1>3. Cardinality(Earlier(f) \cup {f}) = Cardinality(Earlier(f)) + 1
  BY <1>1, EarlierFinite, FS_AddElement
<1>4. Cardinality(Earlier(f) \cup {f}) <= Cardinality(Earlier(g))
  BY <1>2, EarlierFinite, FS_Subset
<1>5. QED  BY <1>3, <1>4

\* A statement that counts nothing and lets no request hold less keeps the account.
LEMMA SpentKept ==
  ASSUME TypeOK, TypeOK', GuessesSpent, user'.locked = user.locked, guesses' = guesses,
         \A p \in Procs : Level(p) <= Level(p)'
  PROVE  GuessesSpent'
<1> DEFINE f == Profile
           g == Profile'
<1>1. (TypeOK => Profile \in Profiles)'
  BY ProfileIsOne, PTL
<1>2. f \in Profiles /\ g \in Profiles
  BY <1>1, ProfileIsOne
<1>3. \A n \in Thresholds : f[n] <= g[n]
  BY ProfileUp
<1> HIDE DEF f, g
<1>4. Earlier(f) \in SUBSET Earlier(g)
  BY <1>2, <1>3, BeforeOrder DEF Earlier
<1>5. /\ Cardinality(Earlier(f)) <= Cardinality(Earlier(g))
      /\ Cardinality(Earlier(f)) \in Nat /\ Cardinality(Earlier(g)) \in Nat
  BY <1>4, EarlierFinite, FS_Subset
<1>6. guesses \in Nat
  BY DEF TypeOK
<1>7. GuessesSpent' <=> (~user'.locked => guesses' <= Cardinality(Earlier(g)))
  BY DEF GuessesSpent, Earlier, g
<1>8. GuessesSpent <=> (~user.locked => guesses <= Cardinality(Earlier(f)))
  BY DEF GuessesSpent, Earlier, f
<1>9. QED  BY <1>5, <1>6, <1>7, <1>8

\* A wrong password that does not lock the account moves the profile on: at the
\* count it was compared with, one more request holds more, and nobody holds less
\* of what counts there or below.
LEMMA SpentMoved ==
  ASSUME TypeOK, TypeOK', GuessesSpent, NEW p \in Procs, WrongPassword(p)
  PROVE  GuessesSpent'
<1> DEFINE f == Profile
           g == Profile'
           read == loc[p].row.failed_login_attempts
<1>1. (TypeOK => Profile \in Profiles)'
  BY ProfileIsOne, PTL
<1>2. f \in Profiles /\ g \in Profiles
  BY <1>1, ProfileIsOne
<1>3. SUFFICES ASSUME ~user'.locked PROVE GuessesSpent'
  BY DEF GuessesSpent
<1>4. /\ user \in UserColumns /\ user.failed_login_attempts \in Nat /\ read \in Nat
      /\ \A q \in Procs : Level(q) \in Nat /\ loc[q].row.failed_login_attempts \in Nat
  BY LevelTypes
<1>5. /\ ~user.locked /\ read + 1 < MaxAttempts
      /\ user'.failed_login_attempts = read + 1
  BY <1>3, <1>4 DEF WrongPassword, Lockout, UserColumns
<1>6. /\ loc' = [loc EXCEPT ![p] = Idle] /\ guesses' = guesses + 1 /\ At(p, "check")
      /\ loc \in [Procs -> Request]
  BY DEF WrongPassword, Ends, TypeOK
<1>7. PICK n \in Thresholds : n = Level(p) /\ n <= read /\ n \in Nat
  <2>1. Level(p) <= read /\ Level(p) \in Nat
    BY <1>4, <1>6 DEF Level
  <2>2. Level(p) + 1 < MaxAttempts
    BY <1>4, <1>5, <2>1
  <2>3. QED  BY <2>1, <2>2, ThresholdTypes
<1>8. Level(p)' = read + 1
  BY <1>5, <1>6 DEF Level, At, Idle
<1>9. ASSUME NEW q \in Procs, q # p
      PROVE  Level(q)' = IF At(q, "check") /\ loc[q].row.failed_login_attempts < read + 1
                           THEN loc[q].row.failed_login_attempts ELSE read + 1
  BY <1>5, <1>6, <1>9 DEF Level, At
<1>10. ASSUME NEW q \in Procs, NEW m \in Nat, m <= n, Level(q) > m  PROVE Level(q)' > m
  <2>1. CASE q = p
    BY <1>4, <1>7, <1>8, <1>10, <2>1
  <2>2. CASE q # p
    BY <1>4, <1>7, <1>9, <1>10, <2>2 DEF Level
  <2>3. QED  BY <2>1, <2>2
<1>11. \A m \in Thresholds : m <= n =>
         Higher(m) \in SUBSET Higher(m)' /\ Higher(m)' \in SUBSET Procs
  BY <1>10, ThresholdTypes DEF Higher
<1>12. p \notin Higher(n) /\ p \in Higher(n)'
  <2>1. read + 1 > n
    BY <1>4, <1>7
  <2>2. ~(n > n)
    BY <1>7
  <2>3. QED  BY <1>7, <1>8, <2>1, <2>2 DEF Higher
<1>13. \A m \in Thresholds : f[m] = Cardinality(Higher(m)) /\ g[m] = Cardinality(Higher(m)')
  BY DEF Profile
<1>14. Before(f, g)
  <2>1. ASSUME NEW m \in Thresholds, m <= n
        PROVE  /\ Cardinality(Higher(m)) <= Cardinality(Higher(m)')
               /\ Cardinality(Higher(m)) \in Nat /\ Cardinality(Higher(m)') \in Nat
               /\ Cardinality(Higher(m)) = Cardinality(Higher(m)') => Higher(m) = Higher(m)'
    <3>1. Higher(m) \in SUBSET Higher(m)' /\ Higher(m)' \in SUBSET Procs
      BY <1>11, <2>1
    <3>2. Higher(m) \in SUBSET Procs
      BY <3>1
    <3>3. QED  BY <3>1, <3>2, HigherFinite, FS_Subset
  <2>2. f[n] < g[n]
    BY <1>7, <1>12, <1>13, <2>1
  <2>3. \A m \in Thresholds : m < n => f[m] <= g[m]
    BY <1>7, <1>13, <2>1, ThresholdTypes
  <2>4. QED  BY <1>7, <2>2, <2>3 DEF Before
<1> HIDE DEF f, g
<1>15. /\ Cardinality(Earlier(f)) + 1 <= Cardinality(Earlier(g))
       /\ Cardinality(Earlier(f)) \in Nat /\ Cardinality(Earlier(g)) \in Nat
  BY <1>2, <1>14, EarlierGrows, EarlierFinite
<1>16. GuessesSpent' <=> (~user'.locked => guesses' <= Cardinality(Earlier(g)))
  BY DEF GuessesSpent, Earlier, g
<1>17. GuessesSpent <=> (~user.locked => guesses <= Cardinality(Earlier(f)))
  BY DEF GuessesSpent, Earlier, f
<1>18. guesses \in Nat
  BY DEF TypeOK
<1>19. QED  BY <1>5, <1>6, <1>15, <1>16, <1>17, <1>18

\* A request that is not put back to an older count holds no less than before.
LEMMA LevelsKept ==
  ASSUME TypeOK, TypeOK', user'.failed_login_attempts = user.failed_login_attempts,
         \A p \in Procs : \/ loc'[p] = loc[p]
                          \/ loc'[p].step # "check"
                          \/ loc'[p].row.failed_login_attempts = user.failed_login_attempts
  PROVE  \A p \in Procs : Level(p) <= Level(p)'
<1> TAKE p \in Procs
<1>1. /\ user.failed_login_attempts \in Nat /\ loc[p].row.failed_login_attempts \in Nat
      /\ Level(p) \in Nat /\ Level(p) <= user.failed_login_attempts
  BY LevelTypes DEF Level
<1>2. CASE loc'[p] = loc[p]
  <2>1. Level(p)' = Level(p)
    BY <1>2 DEF Level, At
  <2>2. QED  BY <1>1, <2>1
<1>3. CASE \/ loc'[p].step # "check"
           \/ loc'[p].row.failed_login_attempts = user.failed_login_attempts
  <2>1. Level(p)' = user.failed_login_attempts
    BY <1>1, <1>3 DEF Level, At
  <2>2. QED  BY <1>1, <2>1
<1>4. QED  BY <1>2, <1>3

\* What the other statements do to the lock.
Unlocking == guesses' = 0
Uncounted ==
  /\ guesses' = guesses /\ user'.locked = user.locked
  /\ user'.failed_login_attempts = user.failed_login_attempts
  /\ \A p \in Procs : \/ loc'[p] = loc[p]
                      \/ loc'[p].step # "check"
                      \/ loc'[p].row.failed_login_attempts = user.failed_login_attempts

LEMMA CountingSteps ==
  ASSUME TypeOK, [Next]_vars
  PROVE  (\E p \in Procs : WrongPassword(p)) \/ Unlocking \/ Uncounted
<1> DEFINE Goal == (\E p \in Procs : WrongPassword(p)) \/ Unlocking \/ Uncounted
<1>0. loc \in [Procs -> Request] /\ user \in UserColumns
  BY DEF TypeOK
<1>m. ASSUME NEW p \in Procs, NEW s \in Steps, NEW t \in Tasks, NEW r,
             s # "check" \/ (t \in {"signIn", "setPassword"} /\ r = CountOf(user, NoColumns)),
             Ends(p) \/ (s # "check" /\ GoTo(p, s)) \/ Start(p, s, t, r)
      PROVE  \A q \in Procs : \/ loc'[q] = loc[q]
                              \/ loc'[q].step # "check"
                              \/ loc'[q].row.failed_login_attempts = user.failed_login_attempts
  <2> TAKE q \in Procs
  <2>1. CASE q # p
    BY <1>0, <1>m, <2>1 DEF Ends, GoTo, Start
  <2>2. CASE q = p
    <3>1. CASE Ends(p)  BY <1>0, <2>2, <3>1 DEF Ends, Idle
    <3>2. CASE s # "check" /\ GoTo(p, s)  BY <1>0, <2>2, <3>2 DEF GoTo, Request
    <3>3. CASE Start(p, s, t, r)
      <4>1. loc'[p] = [step |-> s, task |-> t, row |-> r]
        BY <1>0, <3>3 DEF Start
      <4>2. CountOf(user, NoColumns).failed_login_attempts = user.failed_login_attempts
        BY DEF CountOf, NoColumns
      <4>3. QED  BY <1>m, <2>2, <4>1, <4>2
    <3>4. QED  BY <1>m, <3>1, <3>2, <3>3
  <2>3. QED  BY <2>1, <2>2
<1>1. ASSUME NEW p \in Procs, NEW t \in Tasks, CheckRequest(p, t) PROVE Goal
  <2>1. "check" \in Steps
    BY DEF Steps
  <2>2. QED  BY <1>1, <1>m, <2>1 DEF CheckRequest, lockHistory, Uncounted
<1>2. ASSUME NEW p \in Procs, NEW t \in Tasks, AccountRequest(p, t) PROVE Goal
  <2>1. AfterPassword(t) # "check" /\ AfterPassword(t) \in Steps /\ "verify" \in Steps
    BY DEF AfterPassword, Steps
  <2>2. QED  BY <1>2, <1>m, <2>1 DEF AccountRequest, lockHistory, Uncounted
<1>3. ASSUME NEW p \in Procs, VerifyRead(p) PROVE Goal
  <2>1. CASE loc' = [loc EXCEPT ![p].step = "check", ![p].row = CountOf(user, @)]
    <3>1. loc[p].row \in UserColumns /\ loc[p] \in Request
      BY <1>0 DEF Request
    <3>2. CountOf(user, loc[p].row).failed_login_attempts = user.failed_login_attempts
      BY <3>1 DEF CountOf, UserColumns
    <3>3. loc'[p].row = CountOf(user, loc[p].row) /\ \A q \in Procs : q # p => loc'[q] = loc[q]
      BY <1>0, <2>1, <3>1 DEF Request
    <3>4. QED  BY <1>3, <3>2, <3>3 DEF VerifyRead, lockHistory, Uncounted
  <2>2. CASE Ends(p)
    BY <1>3, <1>m, <2>2 DEF VerifyRead, lockHistory, Uncounted, Steps, Tasks
  <2>3. QED  BY <1>3, <2>1, <2>2 DEF VerifyRead
<1>c. ASSUME ClearFailures PROVE Goal
  BY <1>c DEF ClearFailures, Unlocking
<1>5. ASSUME NEW p \in Procs, RightPassword(p) PROVE Goal
  <2>1. CASE ClearFailures  BY <1>c, <2>1
  <2>2. CASE UNCHANGED <<user, lockHistory>>
    <3>1. AfterPassword(loc[p].task) # "check" /\ AfterPassword(loc[p].task) \in Steps
      BY DEF AfterPassword, Steps
    <3>2. Ends(p) \/ GoTo(p, AfterPassword(loc[p].task))
      BY <1>5 DEF RightPassword
    <3>3. "signIn" \in Tasks
      BY DEF Tasks
    <3>4. QED  BY <1>m, <2>2, <3>1, <3>2, <3>3 DEF lockHistory, Uncounted
  <2>3. QED  BY <1>5, <2>1, <2>2 DEF RightPassword
<1>6. ASSUME NEW p \in Procs, CountFails(p) \/ StatementFails(p) PROVE Goal
  BY <1>m, <1>6 DEF CountFails, StatementFails, Steps, Tasks, lockHistory, Uncounted
<1>7. ASSUME NEW p \in Procs, UpdateRead(p) \/ ForceRead(p) \/ ResetRead(p) PROVE Goal
  <2>0. UNCHANGED <<user, lockHistory>>
    BY <1>7 DEF UpdateRead, ForceRead, ResetRead
  <2>1. CASE loc' = [loc EXCEPT ![p].step = "write", ![p].row = UpdateOf(user)]
    <3>1. loc'[p].step # "check" /\ \A q \in Procs : q # p => loc'[q] = loc[q]
      BY <1>0, <2>1 DEF Request
    <3>2. QED  BY <2>0, <3>1 DEF lockHistory, Uncounted
  <2>2. CASE \E t \in Tasks, r \in {UpdateOf(user), NoColumns} :
               Start(p, "write", t, r) \/ Start(p, "update", t, r)
    BY <1>m, <2>0, <2>2 DEF Steps, lockHistory, Uncounted
  <2>3. "admin" \in Tasks /\ "force" \in Tasks /\ "reset" \in Tasks
    BY DEF Tasks
  <2>4. QED  BY <1>7, <2>1, <2>2, <2>3 DEF UpdateRead, ForceRead, ResetRead
<1>8. ASSUME NEW p \in Procs, Ends(p), UNCHANGED lockHistory,
             user'.locked = user.locked,
             user'.failed_login_attempts = user.failed_login_attempts
      PROVE  Goal
  BY <1>m, <1>8 DEF Steps, Tasks, lockHistory, Uncounted
<1>9. ASSUME NEW p \in Procs, NEW ch \in Changes, UpdateWrite(p, ch) PROVE Goal
  <2>1. /\ user'.locked = user.locked
        /\ user'.failed_login_attempts = user.failed_login_attempts
    BY <1>0, <1>9 DEF UpdateWrite, UserColumns
  <2>2. QED  BY <1>8, <1>9, <2>1 DEF UpdateWrite
<1>10. ASSUME NEW p \in Procs, \/ \E s \in Secrets : StoreTotpSecretPending(p, s)
                               \/ SaveTotpSecret(p) \/ DisableMfa(p)
       PROVE  Goal
  <2>1. /\ user'.locked = user.locked
        /\ user'.failed_login_attempts = user.failed_login_attempts
    BY <1>0, <1>10 DEF StoreTotpSecretPending, SaveTotpSecret, DisableMfa, UserColumns
  <2>2. QED
    BY <1>8, <1>10, <2>1 DEF StoreTotpSecretPending, SaveTotpSecret, DisableMfa
<1>11. ASSUME NEW p \in Procs, VerifyTotp(p) \/ \E s \in Secrets : EnrolRead(p, s)
       PROVE  Goal
  <2>1. PICK r : Start(p, "saveSecret", "enrol", r)
    BY <1>11 DEF VerifyTotp, EnrolRead
  <2>2. UNCHANGED <<user, lockHistory>>
    BY <1>11 DEF VerifyTotp, EnrolRead
  <2>3. QED  BY <1>m, <2>1, <2>2 DEF Steps, Tasks, lockHistory, Uncounted
<1>12. ASSUME UnlockUser \/ LockExpires PROVE Goal
  BY <1>12 DEF UnlockUser, LockExpires, ClearFailures, Unlocking
<1>13. ASSUME Crash PROVE Goal
  BY <1>13 DEF Crash, Idle, lockHistory, Uncounted
<1>14. CASE UNCHANGED vars
  BY <1>14 DEF vars, lockHistory, Uncounted
<1>15. QED
  BY <1>1, <1>2, <1>3, <1>5, <1>6, <1>7, <1>9, <1>10, <1>11, <1>12, <1>13, <1>14
     DEF Next, Step

\* Every statement keeps the account.
LEMMA SpentStep == TypeOK /\ TypeOK' /\ GuessesSpent /\ [Next]_vars => GuessesSpent'
<1> SUFFICES ASSUME TypeOK, TypeOK', GuessesSpent, [Next]_vars PROVE GuessesSpent'
  OBVIOUS
<1>1. CASE Unlocking
  <2>1. IsFiniteSet(Earlier(Profile'))  /\ Cardinality(Earlier(Profile')) \in Nat
    BY EarlierFinite
  <2>2. QED  BY <1>1, <2>1 DEF Unlocking, GuessesSpent, Earlier
<1>2. CASE Uncounted
  <2>1. \A p \in Procs : Level(p) <= Level(p)'
    BY <1>2, LevelsKept DEF Uncounted
  <2>2. QED  BY <1>2, <2>1, SpentKept DEF Uncounted
<1>3. QED  BY <1>1, <1>2, CountingSteps, SpentMoved

-----------------------------------------------------------------------------
(* The second factor.                                                      *)

\* A request that goes anywhere but to "saveSecret" leaves the others there.
LEMMA SavesKept ==
  ASSUME TypeOK, SavesProven, proven \subseteq proven',
         \A p \in Procs : loc'[p].step = "saveSecret" => loc'[p] = loc[p]
  PROVE  SavesProven'
  BY DEF SavesProven, At

\* Every statement keeps what is known of the secrets.
LEMMA SecretStep == TypeOK /\ SavesProven /\ SecretProven /\ [Next]_vars
                      => SavesProven' /\ SecretProven'
<1> SUFFICES ASSUME TypeOK, SavesProven, SecretProven, [Next]_vars
             PROVE  SavesProven' /\ SecretProven'
  OBVIOUS
<1>0. loc \in [Procs -> Request] /\ user \in UserColumns /\ revived \in BOOLEAN
  BY DEF TypeOK
<1>m. ASSUME NEW p \in Procs, NEW s \in Steps, NEW t \in Tasks, NEW r, s # "saveSecret",
             Ends(p) \/ GoTo(p, s) \/ Start(p, s, t, r)
      PROVE  \A q \in Procs : loc'[q].step = "saveSecret" => loc'[q] = loc[q]
  BY <1>0, <1>m DEF Ends, GoTo, Start, Idle, Request
<1>a. \A t : AfterPassword(t) \in Steps \ {"saveSecret"}
  BY DEF AfterPassword, Steps
<1>1. ASSUME NEW p \in Procs, NEW t \in Tasks, CheckRequest(p, t)
      PROVE  SavesProven' /\ SecretProven'
  <2>1. \A q \in Procs : loc'[q].step = "saveSecret" => loc'[q] = loc[q]
    BY <1>m, <1>1 DEF CheckRequest, Steps
  <2>2. QED
    BY <1>1, <2>1, SavesKept DEF CheckRequest, totpHistory, SecretProven
<1>2. ASSUME NEW p \in Procs, NEW t \in Tasks, AccountRequest(p, t)
      PROVE  SavesProven' /\ SecretProven'
  <2>1. \A q \in Procs : loc'[q].step = "saveSecret" => loc'[q] = loc[q]
    BY <1>m, <1>a, <1>2 DEF AccountRequest, Steps
  <2>2. QED
    BY <1>2, <2>1, SavesKept DEF AccountRequest, totpHistory, SecretProven
<1>3. ASSUME NEW p \in Procs, VerifyRead(p) PROVE SavesProven' /\ SecretProven'
  <2>1. CASE Ends(p)
    <3>1. \A q \in Procs : loc'[q].step = "saveSecret" => loc'[q] = loc[q]
      BY <1>m, <2>1 DEF Steps, Tasks
    <3>2. QED  BY <1>3, <3>1, SavesKept DEF VerifyRead, totpHistory, SecretProven
  <2>2. CASE loc' = [loc EXCEPT ![p].step = "check", ![p].row = CountOf(user, loc[p].row)]
    <3>1. \A q \in Procs : loc'[q].step = "saveSecret" => loc'[q] = loc[q]
      BY <1>0, <2>2 DEF Request
    <3>2. QED  BY <1>3, <3>1, SavesKept DEF VerifyRead, totpHistory, SecretProven
  <2>3. QED  BY <1>3, <2>1, <2>2 DEF VerifyRead
<1>4. ASSUME NEW p \in Procs, WrongPassword(p) PROVE SavesProven' /\ SecretProven'
  <2>1. \A q \in Procs : loc'[q].step = "saveSecret" => loc'[q] = loc[q]
    BY <1>m, <1>4 DEF WrongPassword, Steps, Tasks
  <2>2. /\ user'.totp_verified = user.totp_verified
        /\ user'.totp_secret = user.totp_secret
    BY <1>0, <1>4 DEF WrongPassword, Lockout, UserColumns
  <2>3. QED
    BY <1>4, <2>1, <2>2, SavesKept DEF WrongPassword, totpHistory, SecretProven
<1>5. ASSUME NEW p \in Procs, RightPassword(p) PROVE SavesProven' /\ SecretProven'
  <2>1. \A q \in Procs : loc'[q].step = "saveSecret" => loc'[q] = loc[q]
    BY <1>m, <1>a, <1>5 DEF RightPassword, Steps, Tasks
  <2>2. /\ user'.totp_verified = user.totp_verified
        /\ user'.totp_secret = user.totp_secret
    BY <1>0, <1>5 DEF RightPassword, ClearFailures, UserColumns
  <2>3. QED
    BY <1>5, <2>1, <2>2, SavesKept DEF RightPassword, totpHistory, SecretProven
<1>6. ASSUME NEW p \in Procs, CountFails(p) \/ StatementFails(p)
      PROVE  SavesProven' /\ SecretProven'
  <2>1. \A q \in Procs : loc'[q].step = "saveSecret" => loc'[q] = loc[q]
    BY <1>m, <1>6 DEF CountFails, StatementFails, Steps, Tasks
  <2>2. QED
    BY <1>6, <2>1, SavesKept DEF CountFails, StatementFails, totpHistory, SecretProven
<1>7. ASSUME NEW p \in Procs, UpdateRead(p) \/ ForceRead(p) \/ ResetRead(p)
      PROVE  SavesProven' /\ SecretProven'
  <2>1. \A q \in Procs : loc'[q].step = "saveSecret" => loc'[q] = loc[q]
    <3>1. "admin" \in Tasks /\ "force" \in Tasks /\ "reset" \in Tasks
          /\ "write" \in Steps /\ "update" \in Steps
      BY DEF Tasks, Steps
    <3>2. CASE loc' = [loc EXCEPT ![p].step = "write", ![p].row = UpdateOf(user)]
      BY <1>0, <3>2 DEF Request
    <3>3. CASE Start(p, "write", "admin", UpdateOf(user))
      BY <1>m, <3>1, <3>3
    <3>4. CASE Start(p, "update", "force", NoColumns) \/ Start(p, "update", "reset", NoColumns)
      BY <1>m, <3>1, <3>4
    <3>5. QED  BY <1>7, <3>2, <3>3, <3>4 DEF UpdateRead, ForceRead, ResetRead
  <2>2. QED
    BY <1>7, <2>1, SavesKept
    DEF UpdateRead, ForceRead, ResetRead, totpHistory, SecretProven
<1>8. ASSUME NEW p \in Procs, NEW ch \in Changes, UpdateWrite(p, ch)
      PROVE  SavesProven' /\ SecretProven'
  <2>1. \A q \in Procs : loc'[q].step = "saveSecret" => loc'[q] = loc[q]
    BY <1>m, <1>8 DEF UpdateWrite, Steps, Tasks
  <2>2. user'.totp_secret = user.totp_secret
    BY <1>0, <1>8 DEF UpdateWrite, UserColumns
  <2>3. user'.totp_verified = TRUE /\ ~revived' => user.totp_verified /\ ~revived
    BY <1>0, <1>8 DEF UpdateWrite
  <2>4. user' \in UserColumns
    BY <1>8, TypeStep DEF TypeOK, Next, Step
  <2>5. user'.totp_verified \in BOOLEAN
    BY <2>4 DEF UserColumns
  <2>6. proven' = proven
    BY <1>8 DEF UpdateWrite
  <2>7. SavesProven'
    BY <2>1, <2>6, SavesKept
  <2>8. QED  BY <2>2, <2>3, <2>5, <2>6, <2>7 DEF SecretProven
<1>9. ASSUME NEW p \in Procs, NEW s \in Secrets, StoreTotpSecretPending(p, s)
      PROVE  SavesProven' /\ SecretProven'
  <2>1. \A q \in Procs : loc'[q].step = "saveSecret" => loc'[q] = loc[q]
    BY <1>m, <1>9 DEF StoreTotpSecretPending, Steps, Tasks
  <2>2. ~user'.totp_verified
    BY <1>0, <1>9 DEF StoreTotpSecretPending, UserColumns
  <2>3. \A q \in Procs : At(q, "saveSecret") => loc[q].row.totp_secret \in proven'
    BY <1>9 DEF StoreTotpSecretPending, Generated, SavesProven
  <2>4. QED  BY <2>1, <2>2, <2>3 DEF SavesProven, SecretProven, At
<1>10. ASSUME NEW p \in Procs, NEW s \in Secrets, EnrolRead(p, s)
       PROVE  SavesProven' /\ SecretProven'
  <2>1. /\ loc' = [loc EXCEPT ![p] = [step |-> "saveSecret", task |-> "enrol",
                                      row |-> [NoColumns EXCEPT !.totp_secret = s]]]
        /\ user' = user /\ revived' = revived /\ proven' = proven \cup {s}
    BY <1>10 DEF EnrolRead, Start
  <2>2. [NoColumns EXCEPT !.totp_secret = s].totp_secret = s
    BY DEF NoColumns
  <2>3. \A q \in Procs : loc'[q].step = "saveSecret" => loc'[q].row.totp_secret \in proven'
    BY <1>0, <2>1, <2>2 DEF SavesProven, At, Request
  <2>4. QED  BY <2>1, <2>3 DEF SavesProven, SecretProven, At
<1>11. ASSUME NEW p \in Procs, VerifyTotp(p) PROVE SavesProven' /\ SecretProven'
  <2>1. /\ loc' = [loc EXCEPT ![p] = [step |-> "saveSecret", task |-> "enrol",
                                      row |-> SecretOf(user)]]
        /\ user' = user /\ revived' = revived
        /\ proven' = proven \cup {user.totp_secret}
    BY <1>11 DEF VerifyTotp, Start
  <2>2. SecretOf(user).totp_secret = user.totp_secret
    BY DEF NoColumns, SecretOf
  <2>3. \A q \in Procs : loc'[q].step = "saveSecret" => loc'[q].row.totp_secret \in proven'
    BY <1>0, <2>1, <2>2 DEF SavesProven, At, Request
  <2>4. QED  BY <2>1, <2>3 DEF SavesProven, SecretProven, At
<1>12. ASSUME NEW p \in Procs, SaveTotpSecret(p) PROVE SavesProven' /\ SecretProven'
  <2>1. \A q \in Procs : loc'[q].step = "saveSecret" => loc'[q] = loc[q]
    BY <1>m, <1>12 DEF SaveTotpSecret, Steps, Tasks
  <2>2. user'.totp_secret \in proven
    BY <1>0, <1>12 DEF SaveTotpSecret, SavesProven, UserColumns
  <2>3. QED  BY <1>12, <2>1, <2>2, SavesKept DEF SaveTotpSecret, SecretProven
<1>13. ASSUME NEW p \in Procs, DisableMfa(p) PROVE SavesProven' /\ SecretProven'
  <2>1. \A q \in Procs : loc'[q].step = "saveSecret" => loc'[q] = loc[q]
    BY <1>m, <1>13 DEF DisableMfa, Steps, Tasks
  <2>2. ~user'.totp_verified
    BY <1>0, <1>13 DEF DisableMfa, UserColumns
  <2>3. QED  BY <1>13, <2>1, <2>2, SavesKept DEF DisableMfa, SecretProven
<1>14. ASSUME UnlockUser \/ LockExpires PROVE SavesProven' /\ SecretProven'
  <2>1. /\ user'.totp_verified = user.totp_verified
        /\ user'.totp_secret = user.totp_secret
    BY <1>0, <1>14 DEF UnlockUser, LockExpires, ClearFailures, UserColumns
  <2>2. QED
    BY <1>14, <2>1, SavesKept DEF UnlockUser, LockExpires, totpHistory, SecretProven
<1>15. ASSUME Crash PROVE SavesProven' /\ SecretProven'
  <2>1. \A q \in Procs : loc'[q].step # "saveSecret"
    BY <1>15 DEF Crash, Idle
  <2>2. QED  BY <1>15, <2>1, SavesKept DEF Crash, totpHistory, SecretProven
<1>16. CASE UNCHANGED vars
  BY <1>16 DEF vars, totpHistory, SavesProven, SecretProven, At
<1>17. QED
  BY <1>1, <1>2, <1>3, <1>4, <1>5, <1>6, <1>7, <1>8, <1>9, <1>10, <1>11, <1>12, <1>13,
     <1>14, <1>15, <1>16 DEF Next, Step

-----------------------------------------------------------------------------
(* The theorems.                                                           *)

\* The invariant behind the two properties holds in every reachable state.
THEOREM UserRowInvariant == Spec => []IInv
<1>1. Init => IInv
  <2> SUFFICES ASSUME Init PROVE IInv
    OBVIOUS
  <2>1. TypeOK
    BY TypeInit
  <2>2. LateBudget /\ SavesProven /\ SecretProven
    BY <2>1 DEF Init, LateBudget, SavesProven, SecretProven, At, Idle
  <2>3. GuessesSpent
    BY EarlierFinite DEF Init, GuessesSpent, Earlier
  <2>4. QED  BY <2>1, <2>2, <2>3 DEF IInv
<1>2. IInv /\ [Next]_vars => IInv'
  BY TypeStep, BudgetStep, SpentStep, SecretStep DEF IInv
<1>3. QED  BY <1>1, <1>2, PTL DEF Spec

\* Rows and requests keep their shape.
THEOREM UserRowTypeCorrect == Spec => []TypeOK
<1>1. IInv => TypeOK
  BY DEF IInv
<1>2. QED  BY <1>1, UserRowInvariant, PTL

\* Once an account is locked, fewer wrong passwords are still compared than
\* there are goroutines (verifyPasswordWithLockout).
THEOREM LockStopsGuessing == Spec => []LateGuesses
<1>1. IInv => LateGuesses
  BY CheckingBounds DEF IInv, LateBudget, LateGuesses, TypeOK
<1>2. QED  BY <1>1, UserRowInvariant, PTL

\* However the requests overlap and whatever counts they write back, a lock is
\* reached before more wrong passwords were counted than there are profiles
\* (verifyPasswordWithLockout).
THEOREM LockIsReached == Spec => []LockReached
<1>1. ASSUME IInv, ~user.locked PROVE guesses < Cardinality(Profiles)
  <2>1. Profile \in Profiles /\ guesses \in Nat
    BY <1>1, ProfileIsOne DEF IInv, TypeOK
  <2>2. Earlier(Profile) \in SUBSET Profiles /\ Profile \notin Earlier(Profile)
    BY <2>1, BeforeOrder DEF Earlier
  <2>3. /\ Cardinality(Earlier(Profile)) <= Cardinality(Profiles)
        /\ Cardinality(Profiles) = Cardinality(Earlier(Profile)) => Profiles = Earlier(Profile)
        /\ Cardinality(Earlier(Profile)) \in Nat /\ Cardinality(Profiles) \in Nat
    BY <2>2, ProfilesFinite, FS_Subset, FS_CardinalityType
  <2>4. guesses <= Cardinality(Earlier(Profile))
    BY <1>1 DEF IInv, GuessesSpent, Earlier
  <2>5. QED  BY <2>1, <2>2, <2>3, <2>4
<1>2. IInv => LockReached
  BY <1>1 DEF LockReached
<1>3. QED  BY <1>2, UserRowInvariant, PTL

\* However enrolments, removals and updates overlap, a secret that is asked for
\* was proven by a code, unless UpdateUser set the flag (HandleVerifyTotp,
\* handleMfaPost, HandleDeleteMfa).
THEOREM EnrolledSecretProven == Spec => []SecretProven
<1>1. IInv => SecretProven
  BY DEF IInv
<1>2. QED  BY <1>1, UserRowInvariant, PTL
=============================================================================
