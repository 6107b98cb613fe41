------------------------ MODULE TokenEndpointProofs ------------------------
(***************************************************************************)
(* The safety properties of TokenEndpoint hold for every number of users,  *)
(* logins, codes, grants and concurrent requests, and for every set of     *)
(* operations that may arrive; and its tables implement the registry of    *)
(* grants.                                                                 *)
(***************************************************************************)
EXTENDS TokenEndpointInv, FiniteSetTheorems, TLAPS

USE OwnerAssumption, NoneAssumption

(***************************************************************************)
(* Bulk updates keep the shape of their table.                             *)
(***************************************************************************)
LEMMA BulkTypes ==
  ASSUME TablesType, NEW S
  PROVE  /\ Revoked(S) \in [Grants -> TokenRow]
         /\ Deactivated(S) \in [Grants -> SessionRow]
         /\ ClosedLogins(S) \in [Logins -> LoginState]
<1>1. Revoked(S) \in [Grants -> TokenRow]
  BY DEF TablesType, Revoked, TokenRow
<1>2. Deactivated(S) \in [Grants -> SessionRow]
  BY DEF TablesType, Deactivated, SessionRow
<1>3. ClosedLogins(S) \in [Logins -> LoginState]
  BY DEF TablesType, ClosedLogins, LoginState
<1>4. QED  BY <1>1, <1>2, <1>3

(***************************************************************************)
(* So do updates of one field of one row, and of a request.                *)
(***************************************************************************)
\* Marking a code used, and purging a set of codes, keep the shape of auth_codes.
LEMMA CodeUpdate ==
  ASSUME code \in [Codes -> CodeRow], NEW c, NEW S
  PROVE  /\ [code EXCEPT ![c].st = "used"] \in [Codes -> CodeRow]
         /\ [d \in Codes |-> IF d \in S THEN [code[d] EXCEPT !.st = "deleted"] ELSE code[d]]
              \in [Codes -> CodeRow]
  BY DEF CodeRow

\* Revoking one tokens row, and purging a set of them, keep the shape of tokens.
LEMMA TokenUpdate ==
  ASSUME token \in [Grants -> TokenRow], NEW g, NEW S
  PROVE  /\ [token EXCEPT ![g].st = "revoked"] \in [Grants -> TokenRow]
         /\ [h \in Grants |-> IF h \in S THEN [token[h] EXCEPT !.st = "deleted"] ELSE token[h]]
              \in [Grants -> TokenRow]
  BY DEF TokenRow

\* Loading a login into a request keeps the shape of the requests.
LEMMA RequestUpdate ==
  ASSUME req \in [Procs -> Request], NEW p \in Procs, NEW l \in Logins \cup {None}
  PROVE  [req EXCEPT ![p].login = l] \in [Procs -> Request]
  BY DEF Request

\* A response leaves well-typed requests behind.
LEMMA RespondTypes ==
  ASSUME pc \in [Procs -> PcLabels], req \in [Procs -> Request], NEW p \in Procs, Respond(p)
  PROVE  pc' \in [Procs -> PcLabels] /\ req' \in [Procs -> Request]
  BY DEF Respond, Goto, NoRequest, Request, PcLabels

\* The empty tables are well typed.
LEMMA TypeInit == Init => TypeOK
  BY DEF Init, TablesInit, TypeOK, TablesType, UserState, LoginState, CodeRow, TokenRow,
         SessionRow, PcLabels, Request, NoRequest, SweepStages

(***************************************************************************)
(* Type correctness, one step per action.                                  *)
(***************************************************************************)
\* A statement of a request in flight writes well-typed rows only.
LEMMA RequestStepTypes ==
  ASSUME TypeOK, RequestsAgree, GrantsReserved, NEW p \in Procs, RequestStep(p)
  PROVE  TypeOK'
<1> USE DEF TypeOK, tables, requests, sweeper, clocks, history, Goto, Respond, NoRequest, Request
<1>1. CASE LoginInsert(p)
  BY <1>1 DEF LoginInsert, TablesType, LoginState, PcLabels
<1>2. CASE LoginInsertFails(p)
  BY <1>2 DEF LoginInsertFails, TablesType, PcLabels
<1>3. CASE AuthorizeTouch(p)
  BY <1>3 DEF AuthorizeTouch, TablesType, Touched, PcLabels
<1>4. ASSUME NEW c \in Codes, CreateAuthCode(p, c)  PROVE TypeOK'
  BY <1>4 DEF CreateAuthCode, TablesType, CodeRow, PcLabels
<1>5. CASE NoAuthCode(p)
  BY <1>5 DEF NoAuthCode, TablesType, PcLabels
<1>6. CASE ReplayedCode(p)
  BY <1>6, BulkTypes DEF ReplayedCode, RevokeTokensByUserAndClient, TablesType, PcLabels
<1>7. CASE MarkAuthCodeAsUsed(p)
  <2>1. code' \in [Codes -> CodeRow]
    BY <1>7, CodeUpdate DEF MarkAuthCodeAsUsed, TablesType
  <2>2. pc' \in [Procs -> PcLabels]
    BY <1>7 DEF MarkAuthCodeAsUsed, PcLabels
  <2>3. QED
    BY <1>7, <2>1, <2>2 DEF MarkAuthCodeAsUsed, TablesType
<1>8. CASE LoadUser(p)
  BY <1>8 DEF LoadUser, TablesType, PcLabels
<1>9. CASE CheckRevoked(p)
  BY <1>9 DEF CheckRevoked, TablesType, PcLabels
<1>10. CASE ReplayedRefreshToken(p)
  BY <1>10, BulkTypes DEF ReplayedRefreshToken, TablesType, PcLabels
<1>11. CASE RefreshNeedsMfa(p)
  BY <1>11 DEF RefreshNeedsMfa, TablesType, PcLabels
<1>12. CASE ReadPriorLogin(p)
  <2>1. req' \in [Procs -> Request]
    <3> DEFINE g == req[p].parent
               prior == IF SessionExists(g) THEN session[g].login ELSE None
    <3>1. prior \in Logins \cup {None}
      BY <1>12 DEF ReadPriorLogin, RequestsAgree, RequestAgrees, TablesType, SessionRow
    <3>2. req' = [req EXCEPT ![p].login = prior]
      BY <1>12 DEF ReadPriorLogin
    <3> HIDE DEF prior
    <3>3. req \in [Procs -> Request]
      OBVIOUS
    <3> HIDE DEF TypeOK, Request
    <3>4. QED  BY <3>1, <3>2, <3>3, RequestUpdate
  <2>2. pc' \in [Procs -> PcLabels]
    BY <1>12 DEF ReadPriorLogin, PcLabels
  <2>3. QED
    BY <1>12, <2>1, <2>2 DEF ReadPriorLogin, TablesType
<1>13. CASE TouchPriorLogin(p)
  BY <1>13 DEF TouchPriorLogin, TablesType, Touched, PcLabels
<1>14. CASE RotateRefreshToken(p)
  <2>1. token' \in [Grants -> TokenRow]
    BY <1>14, BulkTypes DEF RotateRefreshToken
  <2>2. pc' \in [Procs -> PcLabels] /\ req' \in [Procs -> Request]
    <3>1. CASE Goto(p, "insertToken") /\ UNCHANGED req
      BY <3>1 DEF PcLabels
    <3>2. CASE Respond(p)
      BY <3>2, RespondTypes
    <3>3. QED
      BY <1>14, <3>1, <3>2 DEF RotateRefreshToken
  <2>3. QED
    BY <1>14, <2>1, <2>2 DEF RotateRefreshToken, TablesType
<1>15. ASSUME NEW g \in Grants, CreateToken(p, g)  PROVE TypeOK'
  <2>1. token' \in [Grants -> TokenRow]
    BY <1>15 DEF CreateToken, GrantType, GrantTypes, TablesType, TokenRow
  <2>2. req' \in [Procs -> Request] /\ pc' \in [Procs -> PcLabels]
    BY <1>15 DEF CreateToken, PcLabels
  <2>3. origin' \in [Grants -> [code : Codes \cup {None}, parent : Grants \cup {None}]]
    BY <1>15 DEF CreateToken
  <2>4. QED
    BY <1>15, <2>1, <2>2, <2>3 DEF CreateToken, TablesType
<1>16. CASE CreateSession(p)
  <2>1. req[p].grant \in Grants
    BY <1>16 DEF CreateSession, GrantsReserved, GrantReserved
  <2>2. session' \in [Grants -> SessionRow]
    BY <1>16, <2>1 DEF CreateSession, TablesType, SessionRow
  <2>3. pc' \in [Procs -> PcLabels] /\ req' \in [Procs -> Request]
    BY <1>16 DEF CreateSession, PcLabels
  <2>4. QED
    BY <1>16, <2>1, <2>2, <2>3 DEF CreateSession, TablesType
<1>17. CASE RevokeOthers(p)
  BY <1>17, BulkTypes DEF RevokeOthers, RevokeUserAccess, TablesType, PcLabels
<1>18. CASE IgnoredError(p)
  BY <1>18 DEF IgnoredError, AfterIgnoredError, TablesType, PcLabels
<1>19. CASE FatalError(p)
  BY <1>19 DEF FatalError, TablesType, PcLabels
<1>20. QED
  BY <1>1, <1>2, <1>3, <1>4, <1>5, <1>6, <1>7, <1>8, <1>9, <1>10, <1>11, <1>12, <1>13,
     <1>14, <1>15, <1>16, <1>17, <1>18, <1>19 DEF RequestStep

\* The first statement of a request loads well-typed rows.
LEMMA RequestStartTypes ==
  ASSUME TypeOK, NEW p \in Procs, RequestStart(p)
  PROVE  TypeOK'
<1> USE DEF TypeOK, tables, requests, sweeper, clocks, history, Start, Goto, NoRequest, Request
<1>1. ASSUME NEW l \in Logins, LoginAuthenticate(p, l)  PROVE TypeOK'
  BY <1>1 DEF LoginAuthenticate, TablesType, PcLabels
<1>2. ASSUME NEW l \in Logins, AuthorizeRead(p, l)  PROVE TypeOK'
  BY <1>2 DEF AuthorizeRead, TablesType, PcLabels
<1>3. ASSUME NEW c \in Codes, ExchangeRead(p, c)  PROVE TypeOK'
  <2>1. req' \in [Procs -> Request]
    <3> DEFINE r == [NoRequest EXCEPT !.user = code[c].user, !.login = code[c].login,
                                       !.code = c]
    <3>1. r \in Request
      BY <1>3 DEF TablesType, CodeRow
    <3>2. req' = [req EXCEPT ![p] = r]
      BY <1>3 DEF ExchangeRead
    <3> HIDE DEF r
    <3>3. QED  BY <3>1, <3>2
  <2>2. pc' \in [Procs -> PcLabels]
    BY <1>3 DEF ExchangeRead, PcLabels
  <2>3. QED
    BY <1>3, <2>1, <2>2 DEF ExchangeRead, TablesType
<1>4. ASSUME NEW u \in Users, DirectGrant(p, u)  PROVE TypeOK'
  BY <1>4 DEF DirectGrant, TablesType, PcLabels
<1>5. ASSUME NEW g \in Grants, RefreshReadSession(p, g)  PROVE TypeOK'
  BY <1>5 DEF RefreshReadSession, TablesType, SessionRow, PcLabels
<1>6. ASSUME NEW g \in Grants, RevokeOthersStart(p, g)  PROVE TypeOK'
  BY <1>6 DEF RevokeOthersStart, TablesType, SessionRow, PcLabels
<1>7. ASSUME NEW l \in Logins, ConsentRead(p, l)  PROVE TypeOK'
  BY <1>7 DEF ConsentRead, TablesType, PcLabels
<1>8. QED
  BY <1>1, <1>2, <1>3, <1>4, <1>5, <1>6, <1>7 DEF RequestStart

\* Logout and revocation keep the types.
LEMMA RevocationTypes ==
  ASSUME TypeOK, Revocation
  PROVE  TypeOK'
<1> USE DEF TypeOK, tables, requests, sweeper, clocks, history
<1>1. ASSUME NEW l \in Logins, Logout(l)  PROVE TypeOK'
  BY <1>1, BulkTypes DEF Logout, DeactivateWithCascade, TablesType
<1>2. ASSUME NEW g \in Grants, RevokeToken(g)  PROVE TypeOK'
  BY <1>2, TokenUpdate DEF RevokeToken, TablesType
<1>3. ASSUME NEW g \in Grants, DeactivateSession(g)  PROVE TypeOK'
  BY <1>3 DEF DeactivateSession, TablesType, SessionRow
<1>4. QED
  BY <1>1, <1>2, <1>3 DEF Revocation

\* Account operations, both statements of them, keep the types.
LEMMA AccountTypes ==
  ASSUME TypeOK, NEW u \in Users, AccountStart(u) \/ AccountStep(u)
  PROVE  TypeOK'
<1> USE DEF TypeOK, tables, requests, sweeper, clocks, history
<1>1. CASE RevokeAllAccess(u)
  BY <1>1, BulkTypes DEF RevokeAllAccess, RevokeUserAccess, TablesType
<1>2. CASE DeactivateUser(u)
  BY <1>2 DEF DeactivateUser, TablesType, UserState
<1>3. CASE ReactivateUser(u)
  BY <1>3 DEF ReactivateUser, TablesType, UserState
<1>4. CASE PasswordReset(u)
  BY <1>4, BulkTypes DEF PasswordReset, TablesType
<1>5. CASE ForcedPasswordChange(u)
  BY <1>5, BulkTypes DEF ForcedPasswordChange, RevokeUserAccess, TablesType
<1>6. CASE DeactivateUserRevoke(u)
  BY <1>6, BulkTypes DEF DeactivateUserRevoke, RevokeUserAccess, TablesType
<1>7. CASE DeactivateUserRevokeFails(u)
  BY <1>7 DEF DeactivateUserRevokeFails, TablesType
<1>8. CASE DropLogins(u)
  BY <1>8, BulkTypes DEF DropLogins, TablesType
<1>9. CASE PasswordResetMisses(u) \/ DropLoginsFails(u)
  BY <1>9 DEF PasswordResetMisses, DropLoginsFails, TablesType
<1>10. QED
  BY <1>1, <1>2, <1>3, <1>4, <1>5, <1>6, <1>7, <1>8, <1>9
     DEF AccountStart, AccountStep, DeactivateUserSecond, DropLoginsSecond

\* The passing of time keeps the types.
LEMMA ClockTypes ==
  ASSUME TypeOK, Clock
  PROVE  TypeOK'
<1> USE DEF TypeOK, TablesType, tables, requests, sweeper, clocks, history
<1>1. ASSUME NEW l \in Logins, LoginGoesIdle(l) \/ LoginGetsOld(l)  PROVE TypeOK'
  BY <1>1 DEF LoginGoesIdle, LoginGetsOld
<1>2. ASSUME NEW c \in Codes, CodeGetsOld(c)  PROVE TypeOK'
  BY <1>2 DEF CodeGetsOld
<1>3. ASSUME NEW g \in Grants, AccessLapses(g) \/ RefreshExpires(g)  PROVE TypeOK'
  BY <1>3 DEF AccessLapses, RefreshExpires
<1>4. QED
  BY <1>1, <1>2, <1>3 DEF Clock

\* The cleanup goroutine keeps the types.
LEMMA SweepTypes ==
  ASSUME TypeOK, Sweep
  PROVE  TypeOK'
<1> USE DEF TypeOK, tables, requests, sweeper, clocks, history, SweepTo, SweepStages
<1>1. CASE SweepIdleIds
  BY <1>1 DEF SweepIdleIds, TablesType
<1>2. ASSUME NEW l \in Logins, SweepCascade(l)  PROVE TypeOK'
  BY <1>2, BulkTypes DEF SweepCascade, DeactivateWithCascade, TablesType
<1>3. CASE SweepMaxAgeIds
  BY <1>3 DEF SweepMaxAgeIds, TablesType
<1>4. CASE SweepCodes
  <2>1. code' \in [Codes -> CodeRow]
    <3>1. PICK gone \in SUBSET {c \in oldCodes : CodeExists(c) /\ \A p \in Procs : req[p].code # c} :
            code' = [c \in Codes |-> IF c \in gone THEN [code[c] EXCEPT !.st = "deleted"]
                                     ELSE code[c]]
      BY <1>4 DEF SweepCodes
    <3>2. QED  BY <3>1, CodeUpdate DEF TablesType
  <2>2. QED
    BY <1>4, <2>1 DEF SweepCodes, TablesType
<1>5. CASE SweepTokens
  <2>1. token' \in [Grants -> TokenRow]
    <3>1. PICK gone \in SUBSET {g \in expired : TokenExists(g) /\ \A p \in Procs : ~Holds(p, g)} :
            token' = [g \in Grants |-> IF g \in gone THEN [token[g] EXCEPT !.st = "deleted"]
                                       ELSE token[g]]
      BY <1>5 DEF SweepTokens
    <3>2. QED  BY <3>1, TokenUpdate DEF TablesType
  <2>2. QED
    BY <1>5, <2>1 DEF SweepTokens, TablesType
<1>6. CASE SweepSessions
  BY <1>6 DEF SweepSessions, TablesType, SessionRow
<1>7. CASE SweepLogins
  BY <1>7 DEF SweepLogins, TablesType, LoginState
<1>8. CASE SweepFails
  BY <1>8 DEF SweepFails, TablesType
<1>9. QED
  BY <1>1, <1>2, <1>3, <1>4, <1>5, <1>6, <1>7, <1>8 DEF Sweep

\* A restart keeps the types.
LEMMA CrashTypes ==
  ASSUME TypeOK, Crash
  PROVE  TypeOK'
  BY DEF Crash, TypeOK, TablesType, tables, clocks, PcLabels, Request, NoRequest, SweepStages

\* A step that changes nothing keeps the types.
LEMMA StutterTypes == TypeOK /\ UNCHANGED vars => TypeOK'
  BY DEF TypeOK, TablesType, vars, tables, requests, sweeper, clocks, history

\* Every step keeps the types, given what requests have loaded.
LEMMA TypeStep ==
  ASSUME TypeOK, RequestsAgree, GrantsReserved, [Next]_vars
  PROVE  TypeOK'
<1>1. ASSUME NEW p \in Procs, RequestStart(p) \/ RequestStep(p)  PROVE TypeOK'
  BY <1>1, RequestStepTypes, RequestStartTypes
<1>2. ASSUME NEW u \in Users, AccountStart(u) \/ AccountStep(u)  PROVE TypeOK'
  BY <1>2, AccountTypes
<1>3. QED
  BY <1>1, <1>2, RevocationTypes, ClockTypes, SweepTypes, CrashTypes, StutterTypes DEF Next

(***************************************************************************)
(* What a step may do to a row.  Outside the INSERT that creates it, a row *)
(* keeps its subject and its login, a spent code stays spent, and neither  *)
(* a session nor a token comes back.                                       *)
(***************************************************************************)
CodeKept(c) ==
  /\ code'[c].user = code[c].user /\ code'[c].login = code[c].login
  /\ code'[c].st = "free" <=> code[c].st = "free"
  /\ code[c].st \in {"used", "deleted"} => code'[c].st \in {"used", "deleted"}

SessionKept(g) ==
  /\ session'[g].user = session[g].user /\ session'[g].login = session[g].login
  /\ session'[g].st = "free" <=> session[g].st = "free"
  /\ session'[g].st = "active" => session[g].st = "active"
  /\ session[g].st = "deleted" => session'[g].st = "deleted"

TokenKept(g) ==
  /\ token'[g].user = token[g].user
  /\ token'[g].st = "free" <=> token[g].st = "free"
  /\ token'[g].st = "valid" => token[g].st = "valid"

RequestKept(p) == pc'[p] = pc[p] /\ req'[p] = req[p]

CodesFrame == \A c \in Codes : CodeKept(c) \/ \E p \in Procs : CreateAuthCode(p, c)

SessionsFrame ==
  \A g \in Grants :
    SessionKept(g) \/ \E p \in Procs : CreateSession(p) /\ req[p].grant = g

TokensFrame == \A g \in Grants : TokenKept(g) \/ \E p \in Procs : CreateToken(p, g)

OriginFrame ==
  \A g \in Grants : origin'[g] = origin[g] \/ \E p \in Procs : CreateToken(p, g)

RequestDropped(p) == pc'[p] = "ready" /\ req'[p] = NoRequest

RequestsFrame ==
  \A p \in Procs :
    RequestKept(p) \/ RequestDropped(p) \/ RequestStart(p) \/ RequestStep(p)

Frame == CodesFrame /\ SessionsFrame /\ TokensFrame /\ OriginFrame /\ RequestsFrame

\* A variable that is left alone satisfies its frame.
LEMMA UnchangedFrame ==
  /\ UNCHANGED code => CodesFrame
  /\ UNCHANGED session => SessionsFrame
  /\ UNCHANGED token => TokensFrame
  /\ UNCHANGED origin => OriginFrame
  /\ UNCHANGED <<pc, req>> => RequestsFrame
  BY DEF CodesFrame, CodeKept, SessionsFrame, SessionKept, TokensFrame, TokenKept,
         OriginFrame, RequestsFrame, RequestKept

\* Bulk revocation only ever moves a row forward in its life.
LEMMA BulkFrame ==
  ASSUME TypeOK
  PROVE  /\ \A S : token' = Revoked(S) => TokensFrame
         /\ \A S : session' = Deactivated(S) => SessionsFrame
<1> USE DEF TypeOK, TablesType
<1>1. ASSUME NEW S, token' = Revoked(S), NEW g \in Grants  PROVE TokenKept(g)
  BY <1>1 DEF Revoked, TokenKept, TokenRow
<1>2. ASSUME NEW S, session' = Deactivated(S), NEW g \in Grants  PROVE SessionKept(g)
  BY <1>2 DEF Deactivated, SessionKept, SessionRow
<1>3. QED  BY <1>1, <1>2 DEF TokensFrame, SessionsFrame

\* A request changes its own state and nobody else's.
LEMMA OthersKept ==
  ASSUME TypeOK, NEW p \in Procs, RequestStart(p) \/ RequestStep(p), NEW q \in Procs, q # p
  PROVE  RequestKept(q)
<1> USE DEF Goto, RequestKept, TypeOK
<1>1. CASE RequestStart(p)
  BY <1>1 DEF RequestStart, LoginAuthenticate, AuthorizeRead, ConsentRead, ExchangeRead,
     DirectGrant, RefreshReadSession, RevokeOthersStart, Start
<1>2. CASE RequestStep(p)
  BY <1>2 DEF requests, RequestStep, LoginInsert, LoginInsertFails, AuthorizeTouch, CreateAuthCode,
     NoAuthCode, ReplayedCode, MarkAuthCodeAsUsed, LoadUser, CheckRevoked,
     ReplayedRefreshToken, RefreshNeedsMfa, ReadPriorLogin, TouchPriorLogin,
     RotateRefreshToken, CreateToken, CreateSession, RevokeOthers, IgnoredError, FatalError,
     Respond
<1>3. QED  BY <1>1, <1>2

\* The frame of a statement of a request in flight.
LEMMA RequestStepFrame ==
  ASSUME TypeOK, NEW p \in Procs, RequestStep(p)
  PROVE  Frame /\ UNCHANGED <<user, pending, missed>>
<1> USE DEF tables, requests, sweeper, clocks, history
<1>1. RequestsFrame
  BY OthersKept DEF RequestsFrame
<1>2. CodesFrame /\ SessionsFrame /\ TokensFrame /\ OriginFrame
  <2>1. ASSUME NEW c \in Codes, CreateAuthCode(p, c)  PROVE CodesFrame
    <3>1. ASSUME NEW d \in Codes, d # c  PROVE CodeKept(d)
      BY <2>1, <3>1 DEF CreateAuthCode, CodeKept, TypeOK, TablesType
    <3>2. QED  BY <2>1, <3>1 DEF CodesFrame
  <2>2. CASE MarkAuthCodeAsUsed(p)
    <3>1. ASSUME NEW d \in Codes  PROVE CodeKept(d)
      BY <2>2 DEF MarkAuthCodeAsUsed, CodeKept, CodeExists, CodeRow, TypeOK, TablesType
    <3>2. CodesFrame
      BY <3>1 DEF CodesFrame
    <3>3. QED  BY <2>2, <3>2, UnchangedFrame DEF MarkAuthCodeAsUsed
  <2>3. ASSUME NEW g \in Grants, CreateToken(p, g)  PROVE TokensFrame /\ OriginFrame
    <3>1. ASSUME NEW h \in Grants, h # g  PROVE TokenKept(h) /\ origin'[h] = origin[h]
      BY <2>3, <3>1 DEF CreateToken, TokenKept, TypeOK, TablesType
    <3>2. QED  BY <2>3, <3>1 DEF TokensFrame, OriginFrame
  <2>4. CASE CreateSession(p)
    <3>1. ASSUME NEW h \in Grants, h # req[p].grant  PROVE SessionKept(h)
      BY <2>4, <3>1 DEF CreateSession, SessionKept, TypeOK, TablesType
    <3>2. SessionsFrame
      BY <2>4, <3>1 DEF SessionsFrame
    <3>3. QED  BY <2>4, <3>2, UnchangedFrame DEF CreateSession
  <2>5. CASE RevokeOthers(p)
    BY <2>5, UnchangedFrame, BulkFrame DEF RevokeOthers, RevokeUserAccess
  <2>6. CASE ReplayedCode(p)
    BY <2>6, UnchangedFrame, BulkFrame DEF ReplayedCode, RevokeTokensByUserAndClient
  <2>7. CASE ReplayedRefreshToken(p) \/ RotateRefreshToken(p)
    BY <2>7, UnchangedFrame, BulkFrame DEF ReplayedRefreshToken, RotateRefreshToken
  <2>8. CASE LoginInsert(p) \/ LoginInsertFails(p) \/ AuthorizeTouch(p) \/ NoAuthCode(p)
    BY <2>8, UnchangedFrame DEF LoginInsert, LoginInsertFails, AuthorizeTouch, NoAuthCode
  <2>9. CASE \/ LoadUser(p) \/ CheckRevoked(p) \/ RefreshNeedsMfa(p) \/ ReadPriorLogin(p)
             \/ TouchPriorLogin(p) \/ IgnoredError(p) \/ FatalError(p)
    BY <2>9, UnchangedFrame DEF LoadUser, CheckRevoked, RefreshNeedsMfa, ReadPriorLogin,
       TouchPriorLogin, IgnoredError, FatalError
  <2>10. ASSUME NEW c \in Codes, CreateAuthCode(p, c)
         PROVE  SessionsFrame /\ TokensFrame /\ OriginFrame
    BY <2>10, UnchangedFrame DEF CreateAuthCode
  <2>11. ASSUME NEW g \in Grants, CreateToken(p, g)  PROVE CodesFrame /\ SessionsFrame
    BY <2>11, UnchangedFrame DEF CreateToken
  <2>12. QED
    BY <2>1, <2>2, <2>3, <2>4, <2>5, <2>6, <2>7, <2>8, <2>9, <2>10, <2>11 DEF RequestStep
<1>3. UNCHANGED <<user, pending, missed>>
  BY DEF RequestStep, LoginInsert, LoginInsertFails, AuthorizeTouch, CreateAuthCode,
     NoAuthCode, ReplayedCode, MarkAuthCodeAsUsed, LoadUser, CheckRevoked,
     ReplayedRefreshToken, RefreshNeedsMfa, ReadPriorLogin, TouchPriorLogin,
     RotateRefreshToken, CreateToken, CreateSession, RevokeOthers, IgnoredError, FatalError,
     RevokeUserAccess
<1>4. QED  BY <1>1, <1>2, <1>3 DEF Frame

\* The frame of the first statement of a request: it changes no table.
LEMMA RequestStartFrame ==
  ASSUME TypeOK, NEW p \in Procs, RequestStart(p)
  PROVE  Frame /\ UNCHANGED <<tables, pending, sweeper, clocks, history>>
<1> USE DEF RequestStart, LoginAuthenticate, AuthorizeRead, ConsentRead, ExchangeRead, DirectGrant,
            RefreshReadSession, RevokeOthersStart
<1>1. UNCHANGED <<tables, pending, sweeper, clocks, history>>
  OBVIOUS
<1> HIDE DEF RequestStart
<1>3. RequestsFrame
  BY OthersKept DEF RequestsFrame
<1>4. QED
  BY <1>1, <1>3, UnchangedFrame DEF Frame, tables, history

\* The frame of logout and revocation.
LEMMA RevocationFrame ==
  ASSUME TypeOK, Revocation
  PROVE  Frame /\ UNCHANGED <<user, code, requests, pending, sweeper, clocks, history>>
<1> USE UnchangedFrame DEF Frame, requests, history, sweeper, clocks
<1>1. ASSUME NEW l \in Logins, Logout(l)
      PROVE  Frame /\ UNCHANGED <<user, code, requests, pending, sweeper, clocks, history>>
  BY <1>1, BulkFrame DEF Logout, DeactivateWithCascade
<1>2. ASSUME NEW g \in Grants, RevokeToken(g)
      PROVE  Frame /\ UNCHANGED <<user, code, requests, pending, sweeper, clocks, history>>
  <2>1. ASSUME NEW h \in Grants  PROVE TokenKept(h)
    BY <1>2 DEF RevokeToken, TokenExists, TokenKept, TypeOK, TablesType, TokenRow
  <2>2. TokensFrame
    BY <2>1 DEF TokensFrame
  <2>3. QED  BY <1>2, <2>2 DEF RevokeToken
<1>3. ASSUME NEW g \in Grants, DeactivateSession(g)
      PROVE  Frame /\ UNCHANGED <<user, code, requests, pending, sweeper, clocks, history>>
  <2>1. ASSUME NEW h \in Grants  PROVE SessionKept(h)
    BY <1>3 DEF DeactivateSession, SessionExists, SessionKept, TypeOK, TablesType, SessionRow
  <2>2. SessionsFrame
    BY <2>1 DEF SessionsFrame
  <2>3. QED  BY <1>3, <2>2 DEF DeactivateSession
<1>4. QED
  BY <1>1, <1>2, <1>3 DEF Revocation

\* The frame of the account operations.
LEMMA AccountFrame ==
  ASSUME TypeOK, NEW u \in Users, AccountStart(u) \/ AccountStep(u)
  PROVE  Frame /\ UNCHANGED <<code, requests, sweeper, clocks, origin, late>>
<1> USE UnchangedFrame, BulkFrame DEF Frame, requests, tables, history
<1>1. CASE RevokeAllAccess(u)
  BY <1>1 DEF RevokeAllAccess, RevokeUserAccess
<1>2. CASE DeactivateUser(u)
  BY <1>2 DEF DeactivateUser
<1>3. CASE ReactivateUser(u)
  BY <1>3 DEF ReactivateUser
<1>4. CASE PasswordReset(u)
  BY <1>4 DEF PasswordReset
<1>5. CASE ForcedPasswordChange(u)
  BY <1>5 DEF ForcedPasswordChange, RevokeUserAccess
<1>6. CASE DeactivateUserRevoke(u)
  BY <1>6 DEF DeactivateUserRevoke, RevokeUserAccess
<1>7. CASE DeactivateUserRevokeFails(u)
  BY <1>7 DEF DeactivateUserRevokeFails
<1>8. CASE DropLogins(u)
  BY <1>8 DEF DropLogins
<1>9. CASE PasswordResetMisses(u) \/ DropLoginsFails(u)
  BY <1>9 DEF PasswordResetMisses, DropLoginsFails
<1>10. QED
  BY <1>1, <1>2, <1>3, <1>4, <1>5, <1>6, <1>7, <1>8, <1>9
     DEF AccountStart, AccountStep, DeactivateUserSecond, DropLoginsSecond

\* The frame of the passing of time.
LEMMA ClockFrame ==
  ASSUME Clock
  PROVE  Frame /\ UNCHANGED <<tables, requests, pending, sweeper, history>>
<1>1. UNCHANGED <<tables, requests, pending, sweeper, history>>
  BY DEF Clock, LoginGoesIdle, LoginGetsOld, CodeGetsOld, AccessLapses, RefreshExpires
<1>2. QED
  BY <1>1, UnchangedFrame DEF Frame, tables, requests, history

\* The frame of the cleanup goroutine: rows only move on to deleted.
LEMMA SweepFrame ==
  ASSUME TypeOK, Sweep
  PROVE  Frame /\ UNCHANGED <<user, requests, pending, clocks, history>>
<1> USE UnchangedFrame, BulkFrame DEF Frame, requests, tables, history
<1>1. CASE SweepIdleIds
  BY <1>1 DEF SweepIdleIds
<1>2. ASSUME NEW l \in Logins, SweepCascade(l)
      PROVE  Frame /\ UNCHANGED <<user, requests, pending, clocks, history>>
  BY <1>2 DEF SweepCascade, DeactivateWithCascade
<1>3. CASE SweepMaxAgeIds
  BY <1>3 DEF SweepMaxAgeIds
<1>4. CASE SweepCodes
  <2>1. ASSUME NEW c \in Codes  PROVE CodeKept(c)
    BY <1>4 DEF SweepCodes, CodeExists, CodeKept, TypeOK, TablesType, CodeRow
  <2>2. CodesFrame
    BY <2>1 DEF CodesFrame
  <2>3. QED  BY <1>4, <2>2 DEF SweepCodes
<1>5. CASE SweepTokens
  <2>1. ASSUME NEW g \in Grants  PROVE TokenKept(g)
    BY <1>5 DEF SweepTokens, TokenExists, TokenKept, TypeOK, TablesType, TokenRow
  <2>2. TokensFrame
    BY <2>1 DEF TokensFrame
  <2>3. QED  BY <1>5, <2>2 DEF SweepTokens
<1>6. CASE SweepSessions
  <2>1. ASSUME NEW g \in Grants  PROVE SessionKept(g)
    BY <1>6 DEF SweepSessions, SessionExists, SessionKept, TypeOK, TablesType, SessionRow
  <2>2. SessionsFrame
    BY <2>1 DEF SessionsFrame
  <2>3. QED  BY <1>6, <2>2 DEF SweepSessions
<1>7. CASE SweepLogins \/ SweepFails
  BY <1>7 DEF SweepLogins, SweepFails
<1>8. QED
  BY <1>1, <1>2, <1>3, <1>4, <1>5, <1>6, <1>7 DEF Sweep

\* The frame of a restart: the tables stay, the requests are dropped.
LEMMA CrashFrame ==
  ASSUME Crash
  PROVE  Frame /\ UNCHANGED <<tables, clocks, origin, late>>
<1>1. RequestsFrame
  BY DEF Crash, RequestsFrame, RequestDropped
<1>2. QED
  BY <1>1, UnchangedFrame DEF Crash, Frame, tables

\* Every step respects the frame.
LEMMA StepFrame ==
  ASSUME TypeOK, [Next]_vars
  PROVE  Frame
<1>1. CASE UNCHANGED vars
  BY <1>1, UnchangedFrame DEF Frame, vars, tables, requests, history
<1>2. CASE Next
  BY <1>2, RequestStepFrame, RequestStartFrame, RevocationFrame, AccountFrame, ClockFrame,
     SweepFrame, CrashFrame DEF Next
<1>3. QED  BY <1>1, <1>2

(***************************************************************************)
(* Rows that were inserted stay inserted, with the same subject; what is   *)
(* spent stays spent.                                                      *)
(***************************************************************************)
LEMMA RowsPersist ==
  ASSUME IInv, TypeOK', [Next]_vars
  PROVE  /\ \A c \in Codes :
              /\ code[c].st # "free" => code'[c].st # "free" /\ code'[c].login = code[c].login
              /\ code[c].st \in {"used", "deleted"} => code'[c].st \in {"used", "deleted"}
         /\ \A g \in Grants :
              /\ token[g].st # "free" => token'[g].st # "free"
              /\ token[g].st \in {"revoked", "deleted"} => token'[g].st \in {"revoked", "deleted"}
              /\ session[g].st # "free" => /\ session'[g].st # "free"
                                           /\ session'[g].user = session[g].user
                                           /\ session'[g].login = session[g].login
              /\ session[g].st = "deleted" => session'[g].st = "deleted"
<1>1. Frame
  BY StepFrame DEF IInv
<1>2. ASSUME NEW c \in Codes
      PROVE  /\ code[c].st # "free" => code'[c].st # "free" /\ code'[c].login = code[c].login
             /\ code[c].st \in {"used", "deleted"} => code'[c].st \in {"used", "deleted"}
  <2>1. CASE CodeKept(c)
    BY <2>1 DEF CodeKept
  <2>2. ASSUME NEW p \in Procs, CreateAuthCode(p, c)  PROVE code[c].st = "free"
    BY <2>2 DEF CreateAuthCode
  <2>3. QED  BY <1>1, <2>1, <2>2 DEF Frame, CodesFrame
<1>3. ASSUME NEW g \in Grants
      PROVE  /\ token[g].st # "free" => token'[g].st # "free"
             /\ token[g].st \in {"revoked", "deleted"} => token'[g].st \in {"revoked", "deleted"}
  <2>1. CASE TokenKept(g)
    BY <2>1 DEF TokenKept, TypeOK, TablesType, TokenRow
  <2>2. ASSUME NEW p \in Procs, CreateToken(p, g)  PROVE token[g].st = "free"
    BY <2>2 DEF CreateToken
  <2>3. QED  BY <1>1, <2>1, <2>2 DEF Frame, TokensFrame
<1>4. ASSUME NEW g \in Grants, session[g].st # "free"
      PROVE  SessionKept(g)
  <2>1. ASSUME NEW p \in Procs, CreateSession(p), req[p].grant = g
        PROVE  session[g].st = "free"
    BY <2>1 DEF CreateSession, IInv, GrantsReserved, GrantReserved
  <2>2. QED  BY <1>1, <1>4, <2>1 DEF Frame, SessionsFrame
<1>5. QED
  BY <1>2, <1>3, <1>4 DEF SessionKept

\* Every step keeps each code and session with its user and login.
LEMMA RowsAgreeStep ==
  ASSUME IInv, TypeOK', [Next]_vars
  PROVE  RowsAgree'
<1>1. Frame
  BY StepFrame DEF IInv
<1>2. ASSUME NEW c \in Codes, code'[c].st # "free"
      PROVE  /\ code'[c].user \in Users
             /\ code'[c].login # None => Owner[code'[c].login] = code'[c].user
  <2>1. CASE CodeKept(c)
    BY <1>2, <2>1 DEF CodeKept, IInv, RowsAgree
  <2>2. ASSUME NEW p \in Procs, CreateAuthCode(p, c)
        PROVE  code'[c].user = req[p].user /\ code'[c].login = req[p].login
    BY <2>2 DEF CreateAuthCode, IInv, TypeOK, TablesType
  <2>3. ASSUME NEW p \in Procs, CreateAuthCode(p, c)
        PROVE  req[p].user \in Users /\ (req[p].login # None => Owner[req[p].login] = req[p].user)
    BY <2>3 DEF CreateAuthCode, IInv, RequestsAgree, RequestAgrees
  <2>4. QED  BY <1>1, <2>1, <2>2, <2>3 DEF Frame, CodesFrame
<1>3. ASSUME NEW g \in Grants, session'[g].st # "free"
      PROVE  /\ session'[g].user \in Users
             /\ session'[g].login # None => Owner[session'[g].login] = session'[g].user
             /\ token'[g].st # "free"
  <2>1. CASE SessionKept(g)
    BY <1>3, <2>1, RowsPersist DEF SessionKept, IInv, RowsAgree
  <2>2. ASSUME NEW p \in Procs, CreateSession(p), req[p].grant = g
        PROVE  session'[g].user = req[p].user /\ session'[g].login = req[p].login
    BY <2>2 DEF CreateSession, IInv, TypeOK, TablesType
  <2>3. ASSUME NEW p \in Procs, CreateSession(p), req[p].grant = g
        PROVE  /\ req[p].user \in Users
               /\ req[p].login # None => Owner[req[p].login] = req[p].user
               /\ token[g].st # "free"
    BY <2>3 DEF CreateSession, IInv, RequestsAgree, RequestAgrees, GrantsReserved, GrantReserved
  <2>4. QED  BY <1>1, <2>1, <2>2, <2>3, RowsPersist DEF Frame, SessionsFrame
<1>4. QED  BY <1>2, <1>3 DEF RowsAgree

(***************************************************************************)
(* A request that starts has loaded rows that agree; one that goes on      *)
(* keeps them, drops them, or adds the login of a row that agrees.         *)
(***************************************************************************)
LEMMA StartAgrees ==
  ASSUME IInv, NEW p \in Procs, RequestStart(p)
  PROVE  LET r == req'[p]
         IN  /\ r.user \in Users
             /\ r.login # None => Owner[r.login] = r.user
             /\ pc'[p] \in {"replayCode", "markUsed"} => r.code # None
             /\ r.code # None => code[r.code].st # "free" /\ r.parent = None
             /\ r.parent # None => /\ session[r.parent].st # "free"
                                   /\ session[r.parent].user = r.user
             /\ pc'[p] \in {"checkRevoked", "replayRefresh", "priorLogin", "touchPrior", "rotate"}
                  => r.parent # None
             /\ pc'[p] \notin {"insertSession", "loadUser"}
             /\ pc'[p] = "insertToken" => r.code = None /\ r.parent = None
<1> DEFINE r == req'[p]
           Goal == /\ r.user \in Users
                   /\ r.login # None => Owner[r.login] = r.user
                   /\ pc'[p] \in {"replayCode", "markUsed"} => r.code # None
                   /\ r.code # None => code[r.code].st # "free" /\ r.parent = None
                   /\ r.parent # None => /\ session[r.parent].st # "free"
                                         /\ session[r.parent].user = r.user
                   /\ pc'[p] \in {"checkRevoked", "replayRefresh", "priorLogin", "touchPrior",
                                  "rotate"} => r.parent # None
                   /\ pc'[p] \notin {"insertSession", "loadUser"}
                   /\ pc'[p] = "insertToken" => r.code = None /\ r.parent = None
<1>1. pc \in [Procs -> PcLabels] /\ req \in [Procs -> Request] /\ RowsAgree
  BY DEF IInv, TypeOK
<1> USE <1>1 DEF Start, Goto, NoRequest, Request
<1>2. ASSUME NEW l \in Logins, LoginAuthenticate(p, l)  PROVE Goal
  BY <1>2 DEF LoginAuthenticate
<1>3. ASSUME NEW l \in Logins, AuthorizeRead(p, l)  PROVE Goal
  BY <1>3 DEF AuthorizeRead
<1>4. ASSUME NEW c \in Codes, ExchangeRead(p, c)  PROVE Goal
  <2>1. /\ r.user = code[c].user /\ r.login = code[c].login /\ r.code = c
        /\ r.parent = None /\ pc'[p] \in {"replayCode", "markUsed"}
    <3> DEFINE R == [NoRequest EXCEPT !.user = code[c].user, !.login = code[c].login,
                                       !.code = c]
    <3>1. req' = [req EXCEPT ![p] = R]
      BY <1>4 DEF ExchangeRead
    <3>2. pc'[p] \in {"replayCode", "markUsed"}
      BY <1>4 DEF ExchangeRead
    <3>3. R.user = code[c].user /\ R.login = code[c].login /\ R.code = c /\ R.parent = None
      OBVIOUS
    <3> HIDE DEF R
    <3>4. QED  BY <3>1, <3>2, <3>3
  <2>2. code[c].st # "free" /\ c # None
    BY <1>4 DEF ExchangeRead, CodeExists
  <2>3. code[c].user \in Users /\ (code[c].login # None => Owner[code[c].login] = code[c].user)
    BY <2>2 DEF RowsAgree
  <2> HIDE <1>1
  <2> HIDE DEF r
  <2>4. QED  BY <2>1, <2>2, <2>3
<1>5. ASSUME NEW u \in Users, DirectGrant(p, u)  PROVE Goal
  BY <1>5 DEF DirectGrant
<1>6. ASSUME NEW g \in Grants, RefreshReadSession(p, g)  PROVE Goal
  BY <1>6 DEF RefreshReadSession, RowsAgree
<1>7. ASSUME NEW g \in Grants, RevokeOthersStart(p, g)  PROVE Goal
  BY <1>7 DEF RevokeOthersStart, Live, RowsAgree
<1>8. ASSUME NEW l \in Logins, ConsentRead(p, l)  PROVE Goal
  BY <1>8 DEF ConsentRead
<1> HIDE DEF Goal
<1>9. Goal
  BY <1>2, <1>3, <1>4, <1>5, <1>6, <1>7, <1>8 DEF RequestStart
<1>10. QED  BY <1>9 DEF Goal

\* A request that goes on keeps its user, code and parent.
LEMMA StepAgrees ==
  ASSUME IInv, NEW p \in Procs, RequestStep(p)
  PROVE  \/ pc'[p] = "ready" /\ req'[p] = NoRequest
         \/ /\ pc[p] # "ready" /\ pc'[p] \notin {"replayCode", "markUsed", "checkRevoked"}
            /\ req'[p].user = req[p].user
            /\ req'[p].code = req[p].code /\ req'[p].parent = req[p].parent
            /\ req'[p].login # None => Owner[req'[p].login] = req[p].user
            /\ pc'[p] \in {"replayRefresh", "priorLogin", "touchPrior", "rotate"}
                 => req[p].parent # None
<1> DEFINE Done == pc'[p] = "ready" /\ req'[p] = NoRequest
           Same == /\ req'[p].user = req[p].user
                   /\ req'[p].code = req[p].code /\ req'[p].parent = req[p].parent
           LoginOK == req'[p].login # None => Owner[req'[p].login] = req[p].user
           Label == /\ pc[p] # "ready"
                    /\ pc'[p] \notin {"replayCode", "markUsed", "checkRevoked"}
                    /\ pc'[p] \in {"replayRefresh", "priorLogin", "touchPrior", "rotate"}
                         => req[p].parent # None
<1>1. /\ pc \in [Procs -> PcLabels] /\ req \in [Procs -> Request]
      /\ RequestAgrees(p) /\ RowsAgree
  BY DEF IInv, TypeOK, RequestsAgree
<1>2. Respond(p) => Done
  BY <1>1 DEF Respond, Goto
<1>3. UNCHANGED req => Same /\ LoginOK
  BY <1>1 DEF RequestAgrees
<1>4. CASE LoginInsert(p) \/ AuthorizeTouch(p) \/ MarkAuthCodeAsUsed(p)
  BY <1>1, <1>3, <1>4 DEF LoginInsert, AuthorizeTouch, MarkAuthCodeAsUsed, Goto
<1>5. CASE LoginInsertFails(p)
  BY <1>1, <1>5 DEF LoginInsertFails, Goto, Request
<1>6. CASE \/ (\E c \in Codes : CreateAuthCode(p, c)) \/ NoAuthCode(p) \/ ReplayedCode(p)
           \/ ReplayedRefreshToken(p) \/ RefreshNeedsMfa(p) \/ CreateSession(p)
           \/ RevokeOthers(p) \/ FatalError(p)
  BY <1>2, <1>6 DEF CreateAuthCode, NoAuthCode, ReplayedCode, ReplayedRefreshToken,
     RefreshNeedsMfa, CreateSession, RevokeOthers, FatalError
<1>7. CASE LoadUser(p)
  <2>1. CASE Respond(p)
    BY <1>2, <2>1
  <2>2. CASE ~Respond(p)
    BY <1>1, <1>3, <1>7, <2>2 DEF LoadUser, Goto
  <2>3. QED  BY <2>1, <2>2
<1>8. CASE CheckRevoked(p) \/ TouchPriorLogin(p)
  BY <1>1, <1>3, <1>8 DEF CheckRevoked, TouchPriorLogin, Goto, RequestAgrees
<1>9. CASE ReadPriorLogin(p)
  <2> DEFINE prior == IF SessionExists(req[p].parent) THEN session[req[p].parent].login ELSE None
  <2>1. /\ pc[p] = "priorLogin" /\ req[p].parent # None
        /\ req' = [req EXCEPT ![p].login = prior] /\ pc'[p] \in {"rotate", "touchPrior"}
    BY <1>1, <1>9 DEF ReadPriorLogin, Goto, RequestAgrees
  <2>2. prior # None => Owner[prior] = req[p].user
    BY <1>1, <2>1 DEF SessionExists, RowsAgree, RequestAgrees, Request
  <2> HIDE DEF prior
  <2>3. Same /\ req'[p].login = prior
    BY <1>1, <2>1 DEF Request
  <2>4. QED  BY <2>1, <2>2, <2>3
<1>10. CASE RotateRefreshToken(p)
  <2>1. CASE Respond(p)
    BY <1>2, <2>1
  <2>2. CASE ~Respond(p)
    BY <1>1, <1>3, <1>10, <2>2 DEF RotateRefreshToken, Goto
  <2>3. QED  BY <2>1, <2>2
<1>11. ASSUME NEW g \in Grants, CreateToken(p, g)  PROVE Same /\ LoginOK /\ Label
  BY <1>1, <1>11 DEF CreateToken, Goto, Request, RequestAgrees
<1>12. CASE IgnoredError(p)
  BY <1>1, <1>3, <1>12 DEF IgnoredError, AfterIgnoredError, Goto, RequestAgrees
<1>13. QED
  BY <1>4, <1>5, <1>6, <1>7, <1>8, <1>9, <1>10, <1>11, <1>12 DEF RequestStep

\* Every step keeps what the requests have loaded consistent.
LEMMA RequestsAgreeStep ==
  ASSUME IInv, TypeOK', [Next]_vars
  PROVE  RequestsAgree'
<1>1. SUFFICES ASSUME NEW p \in Procs  PROVE RequestAgrees(p)'
  BY DEF RequestsAgree
<1>2. RequestsFrame /\ RequestAgrees(p)
  BY StepFrame DEF IInv, Frame, RequestsAgree
<1>3. /\ req[p].code \in Codes \cup {None} /\ req[p].parent \in Grants \cup {None}
      /\ req'[p].code \in Codes \cup {None} /\ req'[p].parent \in Grants \cup {None}
  BY DEF IInv, TypeOK, Request
<1>4. CASE RequestKept(p)
  BY <1>2, <1>3, <1>4, RowsPersist DEF RequestKept, RequestAgrees
<1>5. CASE RequestStart(p)
  BY <1>3, <1>5, StartAgrees, RowsPersist DEF RequestAgrees
<1>6. CASE RequestStep(p)
  <2>1. CASE pc'[p] = "ready" /\ req'[p] = NoRequest
    BY <2>1 DEF NoRequest, RequestAgrees
  <2>2. CASE ~(pc'[p] = "ready" /\ req'[p] = NoRequest)
    BY <1>2, <1>3, <1>6, <2>2, StepAgrees, RowsPersist DEF RequestAgrees
  <2>3. QED  BY <2>1, <2>2
<1>7. CASE RequestDropped(p)
  BY <1>7 DEF RequestDropped, NoRequest, RequestAgrees
<1>8. QED  BY <1>2, <1>4, <1>5, <1>6, <1>7 DEF RequestsFrame

(***************************************************************************)
(* Only CreateToken leads to insertSession, and what it leaves behind.     *)
(***************************************************************************)
LEMMA ReachInsertSession ==
  ASSUME IInv, NEW p \in Procs, RequestStep(p), pc'[p] = "insertSession"
  PROVE  \E g \in Grants : CreateToken(p, g)
<1>1. pc \in [Procs -> PcLabels]
  BY DEF IInv, TypeOK
<1>2. QED
  BY <1>1 DEF RequestStep, LoginInsert, LoginInsertFails, AuthorizeTouch, CreateAuthCode,
     NoAuthCode, ReplayedCode, MarkAuthCodeAsUsed, LoadUser, CheckRevoked,
     ReplayedRefreshToken, RefreshNeedsMfa, ReadPriorLogin, TouchPriorLogin,
     RotateRefreshToken, CreateSession, RevokeOthers, IgnoredError, FatalError, Goto, Respond, AfterIgnoredError

\* The INSERT of a tokens row takes a fresh grant for one request.
LEMMA CreateTokenEffect ==
  ASSUME IInv, NEW p \in Procs, NEW g \in Grants, CreateToken(p, g)
  PROVE  /\ token[g].st = "free" /\ token'[g].st = "valid"
         /\ session[g].st = "free" /\ UNCHANGED session
         /\ req'[p].grant = g
         /\ pc[p] = "insertToken" /\ pc'[p] = "insertSession"
         /\ \A q \in Procs : q # p => pc'[q] = pc[q] /\ req'[q] = req[q]
         /\ origin'[g] = [code |-> req[p].code, parent |-> req[p].parent]
<1>1. /\ pc \in [Procs -> PcLabels] /\ req \in [Procs -> Request]
      /\ token \in [Grants -> TokenRow]
      /\ origin \in [Grants -> [code : Codes \cup {None}, parent : Grants \cup {None}]]
  BY DEF IInv, TypeOK, TablesType
<1>2. session[g].st = "free"
  BY DEF CreateToken, IInv, RowsAgree
<1>3. token'[g].st = "valid" /\ origin'[g] = [code |-> req[p].code, parent |-> req[p].parent]
  BY <1>1 DEF CreateToken
<1>4. QED
  BY <1>1, <1>2, <1>3 DEF CreateToken, Goto, Request

\* Every step keeps the grants of requests about to insert distinct.
LEMMA GrantsReservedStep ==
  ASSUME IInv, TypeOK', [Next]_vars
  PROVE  GrantsReserved'
<1> DEFINE Kept(p) == /\ RequestKept(p) /\ pc[p] = "insertSession"
                      /\ token[req[p].grant].st # "free"
                      /\ req[p].grant \in Grants
           Fresh(p) == \E g \in Grants : CreateToken(p, g)
<1>0. ASSUME NEW p \in Procs, Fresh(p)
      PROVE  LET g == req'[p].grant
             IN  /\ g # None /\ token[g].st = "free" /\ token'[g].st = "valid"
                 /\ session'[g].st = "free"
                 /\ \A q \in Procs : q # p => pc'[q] = pc[q] /\ req'[q] = req[q]
                 /\ pc[p] = "insertToken"
  <2>1. PICK g \in Grants : CreateToken(p, g)
    BY <1>0
  <2>2. /\ token[g].st = "free" /\ token'[g].st = "valid"
        /\ session[g].st = "free" /\ UNCHANGED session
        /\ req'[p].grant = g
        /\ pc[p] = "insertToken" /\ pc'[p] = "insertSession"
        /\ \A q \in Procs : q # p => pc'[q] = pc[q] /\ req'[q] = req[q]
        /\ origin'[g] = [code |-> req[p].code, parent |-> req[p].parent]
    BY <2>1, CreateTokenEffect, Zenon
  <2>3. g # None
    BY NoneAssumption
  <2>4. QED  BY <2>2, <2>3
<1>1. ASSUME NEW p \in Procs, pc'[p] = "insertSession"  PROVE Kept(p) \/ Fresh(p)
  <2>1. CASE RequestKept(p)
    <3>1. pc[p] = "insertSession"
      BY <1>1, <2>1 DEF RequestKept
    <3>2. token[req[p].grant].st # "free" /\ req[p].grant # None
      BY <3>1 DEF IInv, GrantsReserved, GrantReserved
    <3>3. QED  BY <2>1, <3>1, <3>2 DEF IInv, TypeOK, Request
  <2>2. CASE RequestStart(p)
    BY <1>1, <2>2, StartAgrees
  <2>3. CASE RequestStep(p)
    BY <1>1, <2>3, ReachInsertSession
  <2>4. QED
    BY <1>1, <2>1, <2>2, <2>3, StepFrame DEF IInv, Frame, RequestsFrame, RequestDropped
<1>2. ASSUME NEW p \in Procs, pc'[p] = "insertSession"  PROVE GrantReserved(p)'
  <2>1. CASE Kept(p)
    <3>1. req'[p] = req[p] /\ token'[req[p].grant].st # "free" /\ req[p].grant # None
      BY <2>1, RowsPersist DEF RequestKept
    <3>2. session[req[p].grant].st = "free"
      BY <2>1 DEF IInv, GrantsReserved, GrantReserved
    <3>3. ASSUME NEW q \in Procs, CreateSession(q), req[q].grant = req[p].grant  PROVE FALSE
      <4>1. pc[q] = "insertSession" /\ pc'[q] = "ready"
        BY <3>3 DEF CreateSession, Respond, Goto, IInv, TypeOK
      <4>2. q = p
        BY <2>1, <3>3, <4>1 DEF IInv, GrantsReserved
      <4>3. QED  BY <1>2, <4>1, <4>2
    <3>4. SessionKept(req[p].grant)
      BY <2>1, <3>3, StepFrame DEF IInv, Frame, SessionsFrame
    <3>5. QED  BY <3>1, <3>2, <3>4 DEF SessionKept, GrantReserved
  <2>2. CASE Fresh(p)
    BY <2>2, <1>0 DEF GrantReserved
  <2>3. QED  BY <1>1, <1>2, <2>1, <2>2
<1>3. ASSUME NEW p \in Procs, NEW q \in Procs, pc'[p] = "insertSession",
             pc'[q] = "insertSession", req'[p].grant = req'[q].grant
      PROVE  p = q
  <2>1. CASE Kept(p) /\ Kept(q)
    BY <1>3, <2>1 DEF RequestKept, IInv, GrantsReserved
  <2>2. CASE Fresh(p) /\ Fresh(q)
    BY <1>0, <1>3, <2>2
  <2>3. CASE Kept(p) /\ Fresh(q)
    BY <1>0, <1>3, <2>3 DEF RequestKept
  <2>4. CASE Fresh(p) /\ Kept(q)
    BY <1>0, <1>3, <2>4 DEF RequestKept
  <2>5. QED  BY <1>1, <1>3, <2>1, <2>2, <2>3, <2>4
<1>4. QED
  BY <1>2, <1>3 DEF GrantsReserved, GrantReserved

(***************************************************************************)
(* The single-use statement of a grant comes before the INSERT, and        *)
(* nothing undoes it.                                                      *)
(***************************************************************************)
LEMMA ReachLoadUser ==
  ASSUME IInv, NEW p \in Procs, RequestStep(p), pc'[p] = "loadUser"
  PROVE  \/ MarkAuthCodeAsUsed(p)
         \/ pc[p] = "checkRevoked" /\ req'[p] = req[p]
<1>1. pc \in [Procs -> PcLabels]
  BY DEF IInv, TypeOK
<1>2. QED
  BY <1>1 DEF RequestStep, LoginInsert, LoginInsertFails, AuthorizeTouch, CreateAuthCode,
     NoAuthCode, ReplayedCode, LoadUser, CheckRevoked, ReplayedRefreshToken, RefreshNeedsMfa,
     ReadPriorLogin, TouchPriorLogin, RotateRefreshToken, CreateToken, CreateSession,
     RevokeOthers, IgnoredError, FatalError, Goto, Respond, AfterIgnoredError

\* A request reaches the INSERT from the user look-up or the rotation.
LEMMA ReachInsertToken ==
  ASSUME IInv, NEW p \in Procs, RequestStep(p), pc'[p] = "insertToken"
  PROVE  LoadUser(p) \/ RotateRefreshToken(p)
<1>1. pc \in [Procs -> PcLabels]
  BY DEF IInv, TypeOK
<1>2. QED
  BY <1>1 DEF RequestStep, LoginInsert, LoginInsertFails, AuthorizeTouch, CreateAuthCode,
     NoAuthCode, ReplayedCode, MarkAuthCodeAsUsed, CheckRevoked, ReplayedRefreshToken,
     RefreshNeedsMfa, ReadPriorLogin, TouchPriorLogin, CreateToken, CreateSession,
     RevokeOthers, IgnoredError, FatalError, Goto, Respond, AfterIgnoredError

\* Every step keeps: spend first, insert afterwards.
LEMMA SpendsFirstStep ==
  ASSUME IInv, TypeOK', [Next]_vars
  PROVE  SpendsFirst'
<1>1. SUFFICES ASSUME NEW p \in Procs  PROVE Spent(p)'
  BY DEF SpendsFirst
<1>2. /\ pc \in [Procs -> PcLabels] /\ req[p] \in Request /\ req'[p] \in Request
      /\ Spent(p) /\ RequestAgrees(p)
  BY DEF IInv, TypeOK, SpendsFirst, RequestsAgree
<1>3. /\ req[p].code \in Codes \cup {None} /\ req[p].parent \in Grants \cup {None}
  BY <1>2 DEF Request
<1>4. CASE RequestKept(p)
  BY <1>2, <1>3, <1>4, RowsPersist DEF RequestKept, Spent
<1>5. CASE RequestStart(p)
  BY <1>5, StartAgrees DEF Spent
<1>6. CASE RequestStep(p)
  <2>1. CASE MarkAuthCodeAsUsed(p)
    <3>1. pc'[p] = "loadUser" /\ req'[p] = req[p]
      BY <1>2, <2>1 DEF MarkAuthCodeAsUsed, Goto
    <3>2. ASSUME req[p].code # None  PROVE code'[req[p].code].st \in {"used", "deleted"}
      <4>1. code[req[p].code].st # "free" /\ req[p].code \in Codes
        BY <1>2, <1>3, <3>2 DEF RequestAgrees
      <4>2. QED
        BY <2>1, <4>1 DEF MarkAuthCodeAsUsed, CodeExists, IInv, TypeOK, TablesType, CodeRow
    <3>3. QED  BY <3>1, <3>2 DEF Spent
  <2>2. CASE pc'[p] = "loadUser" /\ pc[p] = "checkRevoked" /\ req'[p] = req[p]
    <3>1. req[p].parent # None
      BY <1>2, <2>2 DEF RequestAgrees
    <3>2. QED  BY <1>2, <2>2, <3>1 DEF RequestAgrees, Spent
  <2>3. CASE LoadUser(p) /\ pc'[p] = "insertToken"
    <3>1. /\ pc[p] = "loadUser" /\ req'[p] = req[p] /\ req[p].parent = None
          /\ code' = code
      BY <1>2, <2>3 DEF LoadUser, Respond, Goto, tables
    <3>2. QED  BY <1>2, <2>3, <3>1 DEF Spent
  <2>4. CASE RotateRefreshToken(p) /\ pc'[p] = "insertToken"
    <3>1. /\ pc[p] = "rotate" /\ req'[p] = req[p]
          /\ token' = Revoked({req[p].parent})
      BY <1>2, <2>4 DEF RotateRefreshToken, Respond, Goto
    <3>2. req[p].parent # None /\ req[p].code = None
      BY <1>2, <3>1 DEF RequestAgrees
    <3>3. token[req[p].parent].st # "free" /\ req[p].parent \in Grants
      BY <1>2, <1>3, <3>2 DEF RequestAgrees, IInv, RowsAgree
    <3>4. token'[req[p].parent].st \in {"revoked", "deleted"}
      BY <3>1, <3>3 DEF Revoked, IInv, TypeOK, TablesType, TokenRow
    <3>5. QED  BY <2>4, <3>1, <3>2, <3>4 DEF Spent
  <2>5. CASE pc'[p] \notin {"loadUser", "insertToken"}
    BY <2>5 DEF Spent
  <2>6. QED  BY <1>6, <2>1, <2>2, <2>3, <2>4, <2>5, ReachLoadUser, ReachInsertToken
<1>7. CASE RequestDropped(p)
  BY <1>7 DEF RequestDropped, Spent
<1>8. QED
  BY <1>4, <1>5, <1>6, <1>7, StepFrame DEF IInv, Frame, RequestsFrame

\* Every step keeps the parents and the codes of grants spent.
LEMMA OriginStep ==
  ASSUME IInv, TypeOK', [Next]_vars
  PROVE  RotatedParentRetired' /\ RedeemedCodeSpent'
<1>1. SUFFICES ASSUME NEW g \in Grants
               PROVE  /\ origin'[g].parent # None
                           => token'[origin'[g].parent].st \in {"revoked", "deleted"}
                      /\ origin'[g].code # None
                           => code'[origin'[g].code].st \in {"used", "deleted"}
  BY DEF RotatedParentRetired, RedeemedCodeSpent
<1>2. CASE origin'[g] = origin[g]
  <2>1. /\ origin[g].parent \in Grants \cup {None} /\ origin[g].code \in Codes \cup {None}
    BY DEF IInv, TypeOK
  <2>2. /\ origin[g].parent # None => token[origin[g].parent].st \in {"revoked", "deleted"}
        /\ origin[g].code # None => code[origin[g].code].st \in {"used", "deleted"}
    BY DEF IInv, RotatedParentRetired, RedeemedCodeSpent
  <2>3. QED  BY <1>2, <2>1, <2>2, RowsPersist
<1>3. ASSUME NEW p \in Procs, CreateToken(p, g)
      PROVE  /\ origin'[g].parent # None
                  => token'[origin'[g].parent].st \in {"revoked", "deleted"}
             /\ origin'[g].code # None
                  => code'[origin'[g].code].st \in {"used", "deleted"}
  <2>1. /\ origin'[g].code = req[p].code /\ origin'[g].parent = req[p].parent
        /\ pc[p] = "insertToken"
    <3>1. origin'[g] = [code |-> req[p].code, parent |-> req[p].parent]
      BY <1>3, CreateTokenEffect
    <3>2. QED  BY <1>3, <3>1 DEF CreateToken
  <2>2. /\ req[p].code \in Codes \cup {None} /\ req[p].parent \in Grants \cup {None}
    BY DEF IInv, TypeOK, Request
  <2>3. /\ req[p].parent # None => token[req[p].parent].st \in {"revoked", "deleted"}
        /\ req[p].code # None => code[req[p].code].st \in {"used", "deleted"}
    BY <2>1 DEF IInv, SpendsFirst, Spent
  <2>4. QED  BY <2>1, <2>2, <2>3, RowsPersist
<1>4. QED
  BY <1>2, <1>3, StepFrame DEF IInv, Frame, OriginFrame

(***************************************************************************)
(* Where a live grant comes from: it was live before, for the same user    *)
(* and login, or its sessions row was inserted by this step.               *)
(***************************************************************************)
LEMMA LiveOrigin ==
  ASSUME IInv, TypeOK', [Next]_vars, NEW g \in Grants, Live(g)'
  PROVE  \/ /\ Live(g)
            /\ session'[g].user = session[g].user /\ session'[g].login = session[g].login
         \/ \E p \in Procs : CreateSession(p) /\ req[p].grant = g
<1>1. Frame /\ session'[g].st = "active" /\ token'[g].st = "valid"
  BY StepFrame DEF IInv, Live
<1>2. CASE SessionKept(g)
  <2>1. session[g].st = "active"
    BY <1>1, <1>2 DEF SessionKept
  <2>2. TokenKept(g)
    <3>1. token[g].st # "free"
      BY <2>1 DEF IInv, RowsAgree
    <3>2. QED  BY <1>1, <3>1, CreateTokenEffect DEF Frame, TokensFrame
  <2>3. QED  BY <1>1, <1>2, <2>1, <2>2 DEF SessionKept, TokenKept, Live
<1>3. QED  BY <1>1, <1>2 DEF Frame, SessionsFrame

\* A sessions row inserted under something closed is recorded as late.
LEMMA NewSession ==
  ASSUME IInv, NEW p \in Procs, CreateSession(p), NEW g \in Grants, req[p].grant = g
  PROVE  /\ InsertedLate(session'[g].user, session'[g].login) => g \in late'
         /\ UNCHANGED <<user, login, pending>>
<1>1. session'[g].user = req[p].user /\ session'[g].login = req[p].login
  BY DEF CreateSession, IInv, TypeOK, TablesType
<1>2. QED  BY <1>1 DEF CreateSession

\* The record of late grants only grows.
LEMMA LateGrows ==
  ASSUME TypeOK, [Next]_vars
  PROVE  late \subseteq late'
<1> USE DEF history
<1>1. ASSUME NEW p \in Procs, RequestStep(p)  PROVE late \subseteq late'
  BY <1>1 DEF RequestStep, LoginInsert, LoginInsertFails, AuthorizeTouch, CreateAuthCode,
     NoAuthCode, ReplayedCode, MarkAuthCodeAsUsed, LoadUser, CheckRevoked,
     ReplayedRefreshToken, RefreshNeedsMfa, ReadPriorLogin, TouchPriorLogin,
     RotateRefreshToken, CreateToken, CreateSession, RevokeOthers, IgnoredError, FatalError
<1>2. QED
  BY <1>1, RequestStartFrame, RevocationFrame, AccountFrame, ClockFrame, SweepFrame,
     CrashFrame DEF Next, vars

(***************************************************************************)
(* What a revocation leaves live: the grant it keeps, whose login it keeps *)
(* open; and nothing at all of a login that is closed by itself.           *)
(***************************************************************************)
LEMMA RevokeLeaves ==
  ASSUME IInv, NEW u, NEW k, RevokeUserAccess(u, k),
         NEW g \in Grants, Live(g)', Live(g), session[g].user = u
  PROVE  g = k /\ (session[g].login # None =>
                     login'[session[g].login] = login[session[g].login])
<1>1. g \in SessionsOfUser(u) /\ session[g].st = "active"
  BY DEF SessionsOfUser, SessionExists, Live
<1>2. g = k
  BY <1>1 DEF RevokeUserAccess, Deactivated, Live, IInv, TypeOK, TablesType, SessionRow
<1>3. ASSUME session[g].login # None
      PROVE  login'[session[g].login] = login[session[g].login]
  <2> DEFINE kept == {session[h].login : h \in {h \in SessionsOfUser(u) :
                                                  h = k /\ session[h].st = "active"}}
  <2>1. session[g].login \in kept
    BY <1>1, <1>2
  <2>2. login' = ClosedLogins(LoginsOf(u) \ kept)
    BY DEF RevokeUserAccess
  <2>3. session[g].login \in Logins
    BY <1>3 DEF IInv, TypeOK, TablesType, SessionRow
  <2> HIDE DEF kept
  <2>4. QED  BY <2>1, <2>2, <2>3 DEF ClosedLogins
<1>4. QED  BY <1>2, <1>3

\* Closing a login leaves none of its grants live.
LEMMA CascadeLeaves ==
  ASSUME IInv, NEW l \in Logins, DeactivateWithCascade(l),
         NEW g \in Grants, Live(g), session[g].login = l
  PROVE  ~Live(g)'
<1>1. g \in SessionsOfLogin(l) /\ session[g].st = "active"
  BY DEF SessionsOfLogin, SessionExists, Live
<1>2. QED
  BY <1>1 DEF DeactivateWithCascade, Deactivated, Live, IInv, TypeOK, TablesType, SessionRow

(***************************************************************************)
(* The statements that close a login, and those that change what an        *)
(* account operation still owes.                                           *)
(***************************************************************************)
LEMMA LoginCloses ==
  ASSUME TypeOK, [Next]_vars, NEW l \in Logins, login[l] = "active", login'[l] # "active"
  PROVE  \/ DeactivateWithCascade(l)
         \/ \E k : RevokeUserAccess(Owner[l], k)
         \/ DropLogins(Owner[l])
<1> DEFINE Goal == \/ DeactivateWithCascade(l)
                   \/ \E k : RevokeUserAccess(Owner[l], k)
                   \/ DropLogins(Owner[l])
<1> USE DEF tables
<1>1. ASSUME NEW m \in Logins, DeactivateWithCascade(m)  PROVE Goal
  <2>1. m = l
    BY <1>1 DEF DeactivateWithCascade, ClosedLogins, TypeOK, TablesType
  <2>2. QED  BY <1>1, <2>1
<1>2. ASSUME NEW u \in Users, NEW k, RevokeUserAccess(u, k)  PROVE Goal
  <2>1. l \in LoginsOf(u)
    BY <1>2 DEF RevokeUserAccess, ClosedLogins
  <2>2. QED  BY <1>2, <2>1 DEF LoginsOf
<1>3. ASSUME NEW u \in Users, DropLogins(u)  PROVE Goal
  <2>1. l \in LoginsOf(u)
    BY <1>3 DEF DropLogins, ClosedLogins
  <2>2. QED  BY <1>3, <2>1 DEF LoginsOf
<1>4. ASSUME NEW p \in Procs, RequestStep(p)  PROVE Goal
  <2>1. CASE LoginInsert(p)
    BY <2>1 DEF LoginInsert, TypeOK, TablesType
  <2>2. CASE RevokeOthers(p)
    <3>1. RevokeUserAccess(req[p].user, req[p].parent)
      BY <2>2 DEF RevokeOthers
    <3>2. l \in LoginsOf(req[p].user)
      BY <3>1 DEF RevokeUserAccess, ClosedLogins
    <3>3. QED  BY <3>1, <3>2 DEF LoginsOf
  <2>3. CASE ~LoginInsert(p) /\ ~RevokeOthers(p)
    BY <1>4, <2>3 DEF RequestStep, LoginInsertFails, AuthorizeTouch, CreateAuthCode,
       NoAuthCode, ReplayedCode, MarkAuthCodeAsUsed, LoadUser, CheckRevoked,
       ReplayedRefreshToken, RefreshNeedsMfa, ReadPriorLogin, TouchPriorLogin,
       RotateRefreshToken, CreateToken, CreateSession, IgnoredError, FatalError
  <2>4. QED  BY <2>1, <2>2, <2>3
<1>5. ASSUME Revocation  PROVE Goal
  BY <1>1, <1>5 DEF Revocation, Logout, RevokeToken, DeactivateSession
<1>6. ASSUME NEW u \in Users, AccountStart(u) \/ AccountStep(u)  PROVE Goal
  BY <1>2, <1>3, <1>6 DEF AccountStart, AccountStep, DeactivateUserSecond, DropLoginsSecond,
     RevokeAllAccess, DeactivateUser, ReactivateUser, PasswordReset, PasswordResetMisses,
     ForcedPasswordChange, DeactivateUserRevoke, DeactivateUserRevokeFails, DropLoginsFails
<1>7. ASSUME Sweep  PROVE Goal
  <2>1. CASE SweepLogins
    BY <2>1 DEF SweepLogins
  <2>2. ASSUME NEW m \in Logins, SweepCascade(m)  PROVE Goal
    BY <1>1, <2>2 DEF SweepCascade
  <2>3. CASE \/ SweepIdleIds \/ SweepMaxAgeIds \/ SweepCodes \/ SweepTokens \/ SweepSessions
             \/ SweepFails
    BY <2>3 DEF SweepIdleIds, SweepMaxAgeIds, SweepCodes, SweepTokens, SweepSessions, SweepFails
  <2>4. QED  BY <1>7, <2>1, <2>2, <2>3 DEF Sweep
<1>8. QED
  BY <1>4, <1>5, <1>6, <1>7, RequestStartFrame, ClockFrame, CrashFrame DEF Next, vars

\* How a user comes to owe, or to have run, an account operation.
LEMMA AccountChange ==
  ASSUME TypeOK, [Next]_vars, NEW u \in Users
  PROVE  /\ \/ <<u, "dropLogins">> \in pending' => <<u, "dropLogins">> \in pending
            \/ session' = Deactivated(SessionsOfUser(u))
            \/ u \in missed'
            \/ RevokeUserAccess(u, None)
         /\ \/ /\ user'[u] = user[u] \/ user'[u] = "active"
               /\ <<u, "revokeAll">> \in pending => <<u, "revokeAll">> \in pending'
            \/ <<u, "revokeAll">> \in pending'
            \/ u \in missed'
            \/ RevokeUserAccess(u, None)
         /\ u \in missed => u \in missed' \/ RevokeUserAccess(u, None)
<1> USE DEF requests, tables, history
<1>1. CASE UNCHANGED <<user, pending, missed>>
  BY <1>1
<1>2. ASSUME NEW v \in Users, AccountStart(v) \/ AccountStep(v), v # u
      PROVE  /\ user'[u] = user[u]
             /\ \A op \in {"dropLogins", "revokeAll"} : <<u, op>> \in pending' <=> <<u, op>> \in pending
             /\ u \in missed => u \in missed'
  BY <1>2 DEF AccountStart, AccountStep, DeactivateUserSecond, DropLoginsSecond,
     RevokeAllAccess, DeactivateUser, ReactivateUser, PasswordReset, PasswordResetMisses,
     ForcedPasswordChange, DeactivateUserRevoke, DeactivateUserRevokeFails, DropLogins,
     DropLoginsFails, RevokeUserAccess, TypeOK, TablesType
<1>3. CASE RevokeAllAccess(u) \/ DeactivateUserRevoke(u)
  BY <1>3 DEF RevokeAllAccess, DeactivateUserRevoke
<1>4. CASE ForcedPasswordChange(u)
  BY <1>4 DEF ForcedPasswordChange
<1>5. CASE DeactivateUser(u) \/ DeactivateUserRevokeFails(u)
  BY <1>5 DEF DeactivateUser, DeactivateUserRevokeFails
<1>6. CASE ReactivateUser(u)
  BY <1>6 DEF ReactivateUser, TypeOK, TablesType
<1>7. CASE PasswordReset(u) \/ DropLogins(u)
  BY <1>7 DEF PasswordReset, DropLogins
<1>8. CASE PasswordResetMisses(u) \/ DropLoginsFails(u)
  BY <1>8 DEF PasswordResetMisses, DropLoginsFails
<1>9. CASE Crash
  BY <1>9 DEF Crash
<1>10. ASSUME AccountStart(u) \/ AccountStep(u)
       PROVE  \/ RevokeAllAccess(u) \/ DeactivateUserRevoke(u) \/ ForcedPasswordChange(u)
              \/ DeactivateUser(u) \/ DeactivateUserRevokeFails(u) \/ ReactivateUser(u)
              \/ PasswordReset(u) \/ DropLogins(u)
              \/ PasswordResetMisses(u) \/ DropLoginsFails(u)
  BY <1>10 DEF AccountStart, AccountStep, DeactivateUserSecond, DropLoginsSecond
<1>11. ASSUME ~UNCHANGED <<user, pending, missed>>
       PROVE  Crash \/ \E v \in Users : AccountStart(v) \/ AccountStep(v)
  BY <1>11, RequestStepFrame, RequestStartFrame, RevocationFrame, ClockFrame, SweepFrame
     DEF Next, vars
<1>12. QED
  BY <1>1, <1>2, <1>3, <1>4, <1>5, <1>6, <1>7, <1>8, <1>9, <1>10, <1>11

\* A live grant has a user, and a login of that user if any.
LEMMA SubjectOfLive ==
  ASSUME IInv, NEW g \in Grants, Live(g)
  PROVE  /\ session[g].user \in Users
         /\ session[g].login \in Logins \cup {None}
         /\ session[g].login # None => Owner[session[g].login] = session[g].user
  BY DEF IInv, RowsAgree, Live, TypeOK, TablesType, SessionRow

(***************************************************************************)
(* The three properties about revocations, one step at a time.             *)
(***************************************************************************)
LEMMA ResetDrainsStep ==
  ASSUME IInv, TypeOK', [Next]_vars
  PROVE  ResetDrains'
<1>1. SUFFICES ASSUME NEW g \in Grants, Live(g)', <<session'[g].user, "dropLogins">> \in pending'
               PROVE  g \in late' \/ session'[g].user \in missed'
  BY DEF ResetDrains
<1>2. ASSUME NEW p \in Procs, CreateSession(p), req[p].grant = g  PROVE g \in late'
  BY <1>1, <1>2, NewSession DEF InsertedLate
<1>3. CASE Live(g) /\ session'[g].user = session[g].user
  <2> DEFINE u == session[g].user
  <2>1. u \in Users
    BY <1>3, SubjectOfLive
  <2>2. ~RevokeUserAccess(u, None)
    BY <1>1, <1>3, RevokeLeaves
  <2>3. CASE <<u, "dropLogins">> \in pending
    <3>1. g \in late \/ u \in missed
      BY <1>3, <2>3 DEF IInv, ResetDrains
    <3>2. u \in missed => u \in missed'
      BY <2>1, <2>2, AccountChange DEF IInv
    <3>3. QED  BY <1>3, <3>1, <3>2, LateGrows DEF IInv
  <2>4. session' # Deactivated(SessionsOfUser(u))
    <3>1. g \in SessionsOfUser(u) /\ session[g].st = "active"
      BY <1>3 DEF SessionsOfUser, SessionExists, Live
    <3>2. QED
      BY <1>1, <3>1 DEF Deactivated, Live, IInv, TypeOK, TablesType, SessionRow
  <2>5. \/ <<u, "dropLogins">> \in pending' => <<u, "dropLogins">> \in pending
        \/ u \in missed'
    BY <2>1, <2>2, <2>4, AccountChange DEF IInv
  <2>6. QED  BY <1>1, <1>3, <2>3, <2>5
<1>4. QED  BY <1>1, <1>2, <1>3, LiveOrigin

\* Every step keeps: closed logins have only late live grants.
LEMMA CascadeCompleteStep ==
  ASSUME IInv, TypeOK', [Next]_vars
  PROVE  CascadeComplete'
<1>1. SUFFICES ASSUME NEW g \in Grants, Live(g)', session'[g].login # None,
                      login'[session'[g].login] # "active"
               PROVE  g \in late' \/ session'[g].user \in missed'
  BY DEF CascadeComplete
<1>2. ASSUME NEW p \in Procs, CreateSession(p), req[p].grant = g  PROVE g \in late'
  BY <1>1, <1>2, NewSession DEF InsertedLate
<1>3. CASE /\ Live(g) /\ session'[g].login = session[g].login
           /\ session'[g].user = session[g].user
  <2> DEFINE l == session[g].login
             u == session[g].user
  <2>1. l \in Logins /\ Owner[l] = u /\ u \in Users
    BY <1>1, <1>3, SubjectOfLive
  <2>2. SUFFICES g \in late \/ u \in missed
    <3>1. u \in missed => u \in missed'
      BY <1>1, <1>3, <2>1, RevokeLeaves, AccountChange DEF IInv
    <3>2. QED  BY <1>3, <2>2, <3>1, LateGrows DEF IInv
  <2>3. CASE login[l] # "active"
    BY <1>1, <1>3, <2>3 DEF IInv, CascadeComplete
  <2>4. CASE login[l] = "active"
    <3>1. ~DeactivateWithCascade(l)
      BY <1>1, <1>3, <2>1, CascadeLeaves
    <3>2. ASSUME NEW k  PROVE ~RevokeUserAccess(u, k)
      BY <1>1, <1>3, <2>1, <2>4, RevokeLeaves
    <3>3. DropLogins(u)
      BY <1>1, <1>3, <2>1, <2>4, <3>1, <3>2, LoginCloses DEF IInv
    <3>4. QED
      BY <1>3, <2>1, <3>3 DEF DropLogins, IInv, ResetDrains
  <2>5. QED  BY <2>3, <2>4
<1>4. QED  BY <1>1, <1>2, <1>3, LiveOrigin

\* Every step keeps: deactivated users have only late live grants.
LEMMA DeactivationCompleteStep ==
  ASSUME IInv, TypeOK', [Next]_vars
  PROVE  DeactivationComplete'
<1>1. SUFFICES ASSUME NEW g \in Grants, Live(g)', user'[session'[g].user] = "deactivated",
                      <<session'[g].user, "revokeAll">> \notin pending',
                      session'[g].user \notin missed'
               PROVE  g \in late'
  BY DEF DeactivationComplete
<1>2. ASSUME NEW p \in Procs, CreateSession(p), req[p].grant = g  PROVE g \in late'
  BY <1>1, <1>2, NewSession DEF InsertedLate
<1>3. CASE Live(g) /\ session'[g].user = session[g].user
  <2> DEFINE u == session[g].user
  <2>1. u \in Users
    BY <1>3, SubjectOfLive
  <2>2. ~RevokeUserAccess(u, None)
    BY <1>1, <1>3, RevokeLeaves
  <2>3. /\ user[u] = "deactivated" /\ <<u, "revokeAll">> \notin pending /\ u \notin missed
    BY <1>1, <1>3, <2>1, <2>2, AccountChange DEF IInv
  <2>4. g \in late
    BY <1>3, <2>3 DEF IInv, DeactivationComplete
  <2>5. QED  BY <2>4, LateGrows DEF IInv
<1>4. QED  BY <1>1, <1>2, <1>3, LiveOrigin

(***************************************************************************)
(* The theorems.                                                           *)
(***************************************************************************)
\* With empty tables and no request under way the invariant holds.
LEMMA InitInv == Init => IInv
<1> SUFFICES ASSUME Init  PROVE IInv
  OBVIOUS
<1>1. RowsAgree /\ RotatedParentRetired /\ RedeemedCodeSpent
  BY DEF Init, TablesInit, RowsAgree, RotatedParentRetired, RedeemedCodeSpent
<1>2. RequestsAgree /\ GrantsReserved /\ SpendsFirst
  BY DEF Init, NoRequest, RequestsAgree, RequestAgrees, GrantsReserved, GrantReserved,
         SpendsFirst, Spent
<1>3. ResetDrains /\ CascadeComplete /\ DeactivationComplete
  BY DEF Init, TablesInit, ResetDrains, CascadeComplete, DeactivationComplete, Live
<1>4. QED  BY <1>1, <1>2, <1>3, TypeInit DEF IInv

\* The invariant survives every step of every handler.
LEMMA InvStep ==
  ASSUME IInv, [Next]_vars
  PROVE  IInv'
<1>1. TypeOK'
  BY TypeStep DEF IInv
<1>2. QED
  BY <1>1, RowsAgreeStep, RequestsAgreeStep, GrantsReservedStep, SpendsFirstStep, OriginStep,
     ResetDrainsStep, CascadeCompleteStep, DeactivationCompleteStep DEF IInv

\* Every reachable state satisfies the inductive invariant.
THEOREM InductiveInvariant == Spec => []IInv
<1>1. IInv /\ [Next]_vars => IInv'
  BY InvStep
<1>2. QED  BY InitInv, <1>1, PTL DEF Spec

\* Every table, request and history variable keeps its shape: no handler writes
\* a row that its readers do not expect.
THEOREM TypeCorrect == Spec => []TypeOK
<1>1. IInv => TypeOK
  BY DEF IInv
<1>2. QED  BY InductiveInvariant, <1>1, PTL

\* However many requests race, a refresh token that yielded a grant is revoked
\* or purged from then on: a later /token request with it is a replay.
THEOREM ParentRetired == Spec => []RotatedParentRetired
<1>1. IInv => RotatedParentRetired
  BY DEF IInv
<1>2. QED  BY InductiveInvariant, <1>1, PTL

\* However many requests race, a code that yielded a grant is marked used or
\* purged from then on.
THEOREM CodeSpent == Spec => []RedeemedCodeSpent
<1>1. IInv => RedeemedCodeSpent
  BY DEF IInv
<1>2. QED  BY InductiveInvariant, <1>1, PTL

\* Logout, the idle sweep and the account operations reach every grant born
\* from the logins they close; only a request already past its checks, or a
\* code still outstanding, brings a live grant under a closed login.
THEOREM CascadeReachesAll == Spec => []CascadeComplete
<1>1. IInv => CascadeComplete
  BY DEF IInv
<1>2. QED  BY InductiveInvariant, <1>1, PTL

\* Once the revocation of DeactivateUser has run, no grant of the user that
\* existed before is live, whatever is deactivated, refreshed or reset meanwhile.
THEOREM DeactivationReachesAll == Spec => []DeactivationComplete
<1>1. IInv => DeactivationComplete
  BY DEF IInv
<1>2. QED  BY InductiveInvariant, <1>1, PTL
(***************************************************************************)
(* The link to the browser login.  What a request has loaded of it stays   *)
(* what the rows say: their login columns never change.                    *)
(***************************************************************************)
\* A request that starts has loaded the login of its code, or none yet.
LEMMA StartCarries ==
  ASSUME IInv, NEW p \in Procs, RequestStart(p)
  PROVE  /\ pc'[p] \in {"ready", "insertLogin", "touchLogin", "createCode", "replayCode",
                        "markUsed", "checkRevoked", "insertToken", "revokeOthers"}
         /\ pc'[p] = "markUsed" => req'[p].login = code[req'[p].code].login
         /\ pc'[p] \in {"checkRevoked", "insertToken"} => req'[p].login = None
<1> DEFINE Goal == /\ pc'[p] \in {"ready", "insertLogin", "touchLogin", "createCode",
                                  "replayCode", "markUsed", "checkRevoked", "insertToken",
                                  "revokeOthers"}
                   /\ pc'[p] = "markUsed" => req'[p].login = code[req'[p].code].login
                   /\ pc'[p] \in {"checkRevoked", "insertToken"} => req'[p].login = None
<1>1. pc \in [Procs -> PcLabels] /\ req \in [Procs -> Request]
  BY DEF IInv, TypeOK
<1>2. ASSUME NEW c \in Codes, ExchangeRead(p, c)  PROVE Goal
  <2> DEFINE R == [NoRequest EXCEPT !.user = code[c].user, !.login = code[c].login, !.code = c]
  <2>1. req' = [req EXCEPT ![p] = R] /\ pc'[p] \in {"replayCode", "markUsed"}
    BY <1>1, <1>2 DEF ExchangeRead, Start, Goto
  <2>2. R.login = code[c].login /\ R.code = c
    BY DEF NoRequest
  <2> HIDE DEF R
  <2>3. QED  BY <1>1, <2>1, <2>2
<1>3. ASSUME NEW l \in Logins,
             LoginAuthenticate(p, l) \/ AuthorizeRead(p, l) \/ ConsentRead(p, l)
      PROVE  Goal
  BY <1>1, <1>3 DEF LoginAuthenticate, AuthorizeRead, ConsentRead, Start, Goto
<1>4. ASSUME NEW u \in Users, DirectGrant(p, u)  PROVE Goal
  BY <1>1, <1>4 DEF DirectGrant, Start, Goto, NoRequest
<1>5. ASSUME NEW g \in Grants, RefreshReadSession(p, g)  PROVE Goal
  BY <1>1, <1>5 DEF RefreshReadSession, Start, Goto, NoRequest
<1>6. ASSUME NEW g \in Grants, RevokeOthersStart(p, g)  PROVE Goal
  BY <1>1, <1>6 DEF RevokeOthersStart, Start, Goto, NoRequest
<1>7. QED
  BY <1>2, <1>3, <1>4, <1>5, <1>6 DEF RequestStart

\* A request that has its session's login carries what it will insert.
LEMMA PriorCarried ==
  ASSUME IInv, NEW p \in Procs, ReadPriorLogin(p)
  PROVE  /\ pc'[p] \in {"touchPrior", "rotate"}
         /\ req'[p].parent = req[p].parent /\ req'[p].code = None /\ req[p].parent # None
         /\ \/ req'[p].login = session[req[p].parent].login
            \/ req'[p].login = None /\ session[req[p].parent].st = "deleted"
<1> DEFINE h == req[p].parent
           prior == IF SessionExists(h) THEN session[h].login ELSE None
<1>1. pc \in [Procs -> PcLabels] /\ req \in [Procs -> Request] /\ RequestAgrees(p)
  BY DEF IInv, TypeOK, RequestsAgree
<1>2. pc[p] = "priorLogin" /\ req' = [req EXCEPT ![p].login = prior]
      /\ pc'[p] \in {"touchPrior", "rotate"}
  BY <1>1 DEF ReadPriorLogin, Goto
<1>3. h # None /\ h \in Grants /\ req[p].code = None /\ session[h].st # "free"
  BY <1>1, <1>2 DEF RequestAgrees, Request
<1>4. prior = session[h].login \/ (prior = None /\ session[h].st = "deleted")
  BY <1>3 DEF SessionExists, IInv, TypeOK, TablesType, SessionRow
<1> HIDE DEF prior
<1>5. req'[p].login = prior /\ req'[p].parent = h /\ req'[p].code = req[p].code
  BY <1>1, <1>2 DEF Request
<1>6. QED  BY <1>2, <1>3, <1>4, <1>5

\* A request that goes on carries on what it had loaded.
LEMMA StepCarries ==
  ASSUME IInv, NEW p \in Procs, RequestStep(p)
  PROVE  \/ pc'[p] \in {"ready", "createCode", "replayRefresh"}
         \/ MarkAuthCodeAsUsed(p) /\ pc'[p] = "loadUser" /\ req'[p] = req[p]
         \/ pc[p] = "checkRevoked" /\ pc'[p] = "loadUser" /\ req'[p] = req[p]
         \/ /\ pc[p] = "loadUser" /\ req'[p] = req[p]
            /\ pc'[p] = IF req[p].parent = None THEN "insertToken" ELSE "priorLogin"
         \/ ReadPriorLogin(p)
         \/ /\ pc[p] = "priorLogin" /\ pc'[p] = "rotate" /\ req'[p] = req[p]
            /\ "dbFail" \in Operations
         \/ /\ pc[p] \in {"touchPrior", "rotate"} /\ pc'[p] \in {"rotate", "insertToken"}
            /\ req'[p] = req[p]
         \/ \E g \in Grants : CreateToken(p, g)
<1>1. pc \in [Procs -> PcLabels] /\ req \in [Procs -> Request]
  BY DEF IInv, TypeOK
<1>2. QED
  BY <1>1 DEF RequestStep, LoginInsert, LoginInsertFails, AuthorizeTouch, CreateAuthCode,
     NoAuthCode, ReplayedCode, MarkAuthCodeAsUsed, LoadUser, CheckRevoked,
     ReplayedRefreshToken, RefreshNeedsMfa, TouchPriorLogin, RotateRefreshToken, CreateSession,
     RevokeOthers, IgnoredError, FatalError, Goto, Respond, AfterIgnoredError

\* The INSERT of a grant leaves alone what was recorded of those inserted before.
LEMMA OriginsPersist ==
  ASSUME IInv, [Next]_vars, NEW g \in Grants, token[g].st # "free"
  PROVE  origin'[g] = origin[g]
<1>1. ASSUME NEW p \in Procs, CreateToken(p, g)  PROVE FALSE
  BY <1>1 DEF CreateToken
<1>2. QED  BY <1>1, StepFrame DEF IInv, Frame, OriginFrame

\* What a request carries stays what it will insert while others run.
LEMMA CarriedPersists ==
  ASSUME IInv, TypeOK', [Next]_vars, NEW p \in Procs, Carried(p),
         req'[p].login = req[p].login, req'[p].code = req[p].code,
         req'[p].parent = req[p].parent
  PROVE  Carried(p)'
<1>1. /\ req[p].code \in Codes \cup {None} /\ req[p].parent \in Grants \cup {None}
      /\ RequestAgrees(p)
  BY DEF IInv, TypeOK, Request, RequestsAgree
<1>2. req[p].code # None => code'[req[p].code].login = code[req[p].code].login
  BY <1>1, RowsPersist DEF RequestAgrees
<1>3. req[p].parent # None =>
        /\ session'[req[p].parent].login = session[req[p].parent].login
        /\ session[req[p].parent].st = "deleted" => session'[req[p].parent].st = "deleted"
  BY <1>1, RowsPersist DEF RequestAgrees
<1>4. QED  BY <1>1, <1>2, <1>3 DEF Carried

\* Every step keeps what each request carries in agreement with the rows.
LEMMA CarriesStep ==
  ASSUME IInv, TypeOK', [Next]_vars, NEW p \in Procs, Carries(p)
  PROVE  Carries(p)'
<1>1. /\ pc \in [Procs -> PcLabels] /\ req \in [Procs -> Request]
      /\ RequestAgrees(p) /\ RequestsFrame
  BY StepFrame DEF IInv, TypeOK, RequestsAgree, Frame
<1>2. req[p].code \in Codes \cup {None} /\ req[p].parent \in Grants \cup {None}
  BY <1>1 DEF Request
<1>3. req[p].code # None => /\ code'[req[p].code].login = code[req[p].code].login
                            /\ req[p].parent = None
  BY <1>1, <1>2, RowsPersist DEF RequestAgrees
<1>4. CASE RequestKept(p)
  <2>1. Carried(p) => Carried(p)'
    BY <1>4, CarriedPersists DEF RequestKept
  <2>2. ASSUME pc[p] = "insertSession"  PROVE origin'[req[p].grant] = origin[req[p].grant]
    <3>1. req[p].grant \in Grants /\ token[req[p].grant].st # "free"
      BY <1>1, <2>2 DEF IInv, GrantsReserved, GrantReserved, Request
    <3>2. QED  BY <3>1, OriginsPersist
  <2>3. QED  BY <1>3, <1>4, <2>1, <2>2 DEF RequestKept, Carries
<1>5. CASE RequestStart(p)
  <2>1. /\ req'[p].code \in Codes \cup {None}
        /\ req'[p].code # None => code[req'[p].code].st # "free"
    BY <1>5, StartAgrees DEF TypeOK, Request
  <2>2. req'[p].code # None => code'[req'[p].code].login = code[req'[p].code].login
    BY <2>1, RowsPersist
  <2>3. pc'[p] = "insertToken" => req'[p].code = None /\ req'[p].parent = None
    BY <1>5, StartAgrees
  <2>4. QED  BY <1>5, <2>2, <2>3, StartCarries DEF Carries, Carried
<1>6. CASE RequestStep(p)
  <2>1. CASE pc'[p] \in {"ready", "createCode", "replayRefresh"}
    BY <2>1 DEF Carries
  <2>2. CASE MarkAuthCodeAsUsed(p) /\ pc'[p] = "loadUser" /\ req'[p] = req[p]
    <3>1. pc[p] = "markUsed" /\ req[p].code # None
      BY <1>1, <2>2 DEF MarkAuthCodeAsUsed, RequestAgrees
    <3>2. QED  BY <1>3, <2>2, <3>1 DEF Carries
  <2>3. CASE pc[p] = "checkRevoked" /\ pc'[p] = "loadUser" /\ req'[p] = req[p]
    <3>1. req[p].parent # None /\ req[p].code = None
      BY <1>1, <2>3 DEF RequestAgrees
    <3>2. QED  BY <2>3, <3>1 DEF Carries
  <2>4. CASE /\ pc[p] = "loadUser" /\ req'[p] = req[p]
             /\ pc'[p] = IF req[p].parent = None THEN "insertToken" ELSE "priorLogin"
    <3>1. CASE req[p].parent = None
      BY <1>3, <2>4, <3>1 DEF Carries, Carried
    <3>2. CASE req[p].parent # None
      BY <2>4, <3>2 DEF Carries
    <3>3. QED  BY <3>1, <3>2
  <2>5. CASE ReadPriorLogin(p)
    <3> DEFINE h == req[p].parent
    <3>1. /\ pc'[p] \in {"touchPrior", "rotate"} /\ h \in Grants
          /\ req'[p].parent = h /\ req'[p].code = None /\ h # None
          /\ \/ req'[p].login = session[h].login
             \/ req'[p].login = None /\ session[h].st = "deleted"
      BY <1>2, <2>5, PriorCarried
    <3>2. session' = session
      BY <2>5 DEF ReadPriorLogin, tables
    <3>3. QED  BY <3>1, <3>2 DEF Carries, Carried
  <2>6. CASE /\ pc[p] = "priorLogin" /\ pc'[p] = "rotate" /\ req'[p] = req[p]
             /\ "dbFail" \in Operations
    <3>1. req[p].parent # None /\ req[p].code = None
      BY <1>1, <2>6 DEF RequestAgrees
    <3>2. QED  BY <2>6, <3>1 DEF Carries, Carried
  <2>7. CASE /\ pc[p] \in {"touchPrior", "rotate"} /\ pc'[p] \in {"rotate", "insertToken"}
             /\ req'[p] = req[p]
    BY <2>7, CarriedPersists DEF Carries
  <2>8. ASSUME NEW g \in Grants, CreateToken(p, g)  PROVE Carries(p)'
    <3>1. req' = [req EXCEPT ![p].grant = g]
      BY <2>8 DEF CreateToken
    <3>2. /\ req'[p].login = req[p].login /\ req'[p].code = req[p].code
          /\ req'[p].parent = req[p].parent /\ req'[p].grant = g
      BY <1>1, <3>1 DEF Request
    <3>3. /\ pc[p] = "insertToken" /\ pc'[p] = "insertSession"
          /\ origin'[g] = [code |-> req[p].code, parent |-> req[p].parent]
      BY <2>8, CreateTokenEffect
    <3>4. QED  BY <3>2, <3>3, CarriedPersists DEF Carries
  <2>9. QED  BY <1>6, <2>1, <2>2, <2>3, <2>4, <2>5, <2>6, <2>7, <2>8, StepCarries
<1>7. CASE RequestDropped(p)
  BY <1>7 DEF RequestDropped, Carries
<1>8. QED  BY <1>1, <1>4, <1>5, <1>6, <1>7 DEF RequestsFrame

\* Every step keeps the parents of grants inserted.
LEMMA ParentsInsertedStep ==
  ASSUME IInv, TypeOK', [Next]_vars, ParentsInserted
  PROVE  ParentsInserted'
<1>1. SUFFICES ASSUME NEW g \in Grants, origin'[g].parent # None
               PROVE  session'[origin'[g].parent].st # "free"
  BY DEF ParentsInserted
<1>2. CASE origin'[g] = origin[g]
  <2>1. origin[g].parent \in Grants /\ session[origin[g].parent].st # "free"
    BY <1>1, <1>2 DEF ParentsInserted, IInv, TypeOK
  <2>2. QED  BY <1>2, <2>1, RowsPersist
<1>3. ASSUME NEW p \in Procs, CreateToken(p, g)
      PROVE  session'[origin'[g].parent].st # "free"
  <2>1. origin'[g] = [code |-> req[p].code, parent |-> req[p].parent]
    BY <1>3, CreateTokenEffect
  <2>2. origin'[g].parent = req[p].parent
    BY <2>1
  <2>3. req[p].parent \in Grants /\ session[req[p].parent].st # "free"
    BY <1>1, <2>2 DEF IInv, TypeOK, Request, RequestsAgree, RequestAgrees
  <2>4. QED  BY <2>2, <2>3, RowsPersist
<1>4. QED  BY <1>2, <1>3, StepFrame DEF IInv, Frame, OriginFrame

\* Every step keeps the link: rows that are there keep it, and a new row is given it.
LEMMA LinkInheritedStep ==
  ASSUME IInv, TypeOK', [Next]_vars, LinkInv
  PROVE  LinkInherited'
<1> DEFINE Linked(g) == \/ session[g].login = Inherited(g)
                        \/ /\ session[g].login = None
                           /\ origin[g].parent # None
                           /\ \/ session[origin[g].parent].st = "deleted"
                              \/ "dbFail" \in Operations
<1>1. SUFFICES ASSUME NEW g \in Grants, session'[g].st # "free"  PROVE Linked(g)'
  BY DEF LinkInherited
<1>2. token[g].st # "free" /\ origin'[g] = origin[g]
  <2>1. token[g].st # "free"
    <3>1. ASSUME NEW p \in Procs, CreateSession(p), req[p].grant = g  PROVE token[g].st # "free"
      BY <3>1 DEF CreateSession, IInv, GrantsReserved, GrantReserved
    <3>2. CASE SessionKept(g)
      BY <1>1, <3>2 DEF SessionKept, IInv, RowsAgree
    <3>3. QED  BY <3>1, <3>2, StepFrame DEF IInv, Frame, SessionsFrame
  <2>2. QED  BY <2>1, OriginsPersist
<1>3. /\ origin[g].code \in Codes \cup {None} /\ origin[g].parent \in Grants \cup {None}
      /\ origin[g].code # None => code'[origin[g].code].login = code[origin[g].code].login
      /\ origin[g].parent # None =>
           /\ session'[origin[g].parent].login = session[origin[g].parent].login
           /\ session[origin[g].parent].st = "deleted"
                => session'[origin[g].parent].st = "deleted"
  <2>1. /\ origin[g].code \in Codes \cup {None} /\ origin[g].parent \in Grants \cup {None}
        /\ origin[g].code # None => code[origin[g].code].st # "free"
        /\ origin[g].parent # None => session[origin[g].parent].st # "free"
    BY DEF IInv, TypeOK, RedeemedCodeSpent, LinkInv, ParentsInserted
  <2>2. QED  BY <2>1, RowsPersist
<1>4. CASE session[g].st # "free"
  <2>1. session'[g].login = session[g].login /\ Linked(g)
    BY <1>4, RowsPersist DEF LinkInv, LinkInherited
  <2>2. QED  BY <1>2, <1>3, <2>1 DEF Inherited
<1>5. ASSUME NEW p \in Procs, CreateSession(p), req[p].grant = g  PROVE Linked(g)'
  <2>1. pc[p] = "insertSession" /\ session'[g].login = req[p].login
    BY <1>5 DEF CreateSession, IInv, TypeOK, TablesType
  <2>2. /\ Carried(p) /\ origin[g] = [code |-> req[p].code, parent |-> req[p].parent]
    BY <1>5, <2>1 DEF LinkInv, Carries
  <2>3. origin[g].code = req[p].code /\ origin[g].parent = req[p].parent
    BY <2>2
  <2>4. req[p].code # None => req[p].parent = None
    BY DEF IInv, RequestsAgree, RequestAgrees
  <2>5. QED  BY <1>2, <1>3, <2>1, <2>2, <2>3, <2>4 DEF Carried, Inherited
<1>6. QED
  BY <1>1, <1>4, <1>5, StepFrame DEF IInv, Frame, SessionsFrame, SessionKept

\* However requests and the cleanup goroutine overlap, a grant carries the browser
\* login of the code or the grant it came from, or none when cleanup deleted that
\* row in the middle of the refresh or the look-up failed.
THEOREM LinksInherited == Spec => []LinkInherited
<1>1. Init => LinkInv
  BY DEF Init, TablesInit, LinkInv, Carries, ParentsInserted, LinkInherited
<1>2. IInv /\ IInv' /\ LinkInv /\ [Next]_vars => LinkInv'
  <2>1. ASSUME IInv, IInv', LinkInv, [Next]_vars  PROVE LinkInv'
    BY <2>1, CarriesStep, ParentsInsertedStep, LinkInheritedStep DEF IInv, LinkInv
  <2>2. QED  BY <2>1
<1>3. LinkInv => LinkInherited
  BY DEF LinkInv
<1>4. QED  BY InductiveInvariant, <1>1, <1>2, <1>3, PTL DEF Spec

(***************************************************************************)
(* How often a code or a refresh token can be redeemed.  Who has found it  *)
(* good before the first grant may still insert one; nobody joins later.   *)
(***************************************************************************)
\* What is issued and what may still be stays within the requests at a time: by a
\* holder that inserts or drops out, or as long as nothing was issued.
LEMMA WithinKept ==
  ASSUME IsFiniteSet(Procs), NEW A, NEW H \in SUBSET Procs, NEW B, NEW K \in SUBSET Procs,
         Within(A, H),
         \/ B \subseteq A /\ K \subseteq H
         \/ A = {} /\ B = {}
         \/ \E p \in H : \E g : B = A \cup {g} /\ K \subseteq H \ {p}
  PROVE  Within(B, K)
<1>1. /\ IsFiniteSet(H) /\ IsFiniteSet(K) /\ IsFiniteSet(A)
      /\ Cardinality(K) <= Cardinality(Procs)
  BY FS_Subset DEF Within
<1>2. /\ Cardinality(H) \in Nat /\ Cardinality(K) \in Nat /\ Cardinality(A) \in Nat
      /\ Cardinality(Procs) \in Nat
  BY <1>1, FS_CardinalityType
<1>3. Cardinality(A) + Cardinality(H) <= Cardinality(Procs)
  BY DEF Within
<1>4. CASE B \subseteq A /\ K \subseteq H
  <2>1. Cardinality(K) <= Cardinality(H)
    BY <1>1, <1>4, FS_Subset
  <2>2. IsFiniteSet(B) /\ Cardinality(B) <= Cardinality(A) /\ Cardinality(B) \in Nat
    BY <1>1, <1>4, FS_Subset, FS_CardinalityType
  <2>3. QED  BY <1>2, <1>3, <2>1, <2>2 DEF Within
<1>5. CASE A = {} /\ B = {}
  BY <1>1, <1>2, <1>5, FS_EmptySet DEF Within
<1>6. ASSUME NEW p \in H, NEW g, B = A \cup {g}, K \subseteq H \ {p}  PROVE Within(B, K)
  <2>1. IsFiniteSet(H \ {p}) /\ Cardinality(H \ {p}) = Cardinality(H) - 1
    BY <1>1, FS_RemoveElement
  <2>2. Cardinality(K) <= Cardinality(H) - 1
    BY <1>6, <2>1, FS_Subset
  <2>3. /\ IsFiniteSet(B) /\ Cardinality(B) \in Nat
        /\ Cardinality(B) <= Cardinality(A) + 1
    <3>1. /\ IsFiniteSet(A \cup {g})
          /\ Cardinality(A \cup {g}) = IF g \in A THEN Cardinality(A) ELSE Cardinality(A) + 1
      BY <1>1, FS_AddElement
    <3>2. QED  BY <1>2, <1>6, <3>1
  <2>4. QED  BY <1>2, <1>3, <2>2, <2>3 DEF Within
<1>7. QED  BY <1>4, <1>5, <1>6

\* A step that inserts no grant leaves the record of what was issued alone.
LEMMA NothingIssued ==
  ASSUME IInv, [Next]_vars, \A p \in Procs, g \in Grants : ~CreateToken(p, g)
  PROVE  origin' = origin
<1>1. \A g \in Grants : origin'[g] = origin[g]
  BY StepFrame DEF IInv, Frame, OriginFrame
<1>2. /\ origin \in [Grants -> [code : Codes \cup {None}, parent : Grants \cup {None}]]
      /\ origin' \in [Grants -> [code : Codes \cup {None}, parent : Grants \cup {None}]]
  BY InvStep DEF IInv, TypeOK
<1>3. QED  BY <1>1, <1>2

\* Only a request that reads a code as unused joins those that may redeem it.
LEMMA CodeJoins ==
  ASSUME IInv, [Next]_vars, NEW c \in Codes, NEW p \in Procs,
         p \in CodeHolders(c)', p \notin CodeHolders(c)
  PROVE  code[c].st = "unused" /\ RequestStart(p)
<1>1. /\ pc \in [Procs -> PcLabels] /\ req \in [Procs -> Request] /\ RequestAgrees(p)
      /\ RequestsFrame
  BY StepFrame DEF IInv, TypeOK, RequestsAgree, Frame
<1>2. pc'[p] \in {"markUsed", "loadUser", "insertToken"} /\ req'[p].code = c /\ c # None
  BY DEF CodeHolders
<1>3. ~RequestKept(p) /\ ~RequestDropped(p)
  BY <1>2 DEF CodeHolders, RequestKept, RequestDropped, NoRequest
<1>4. CASE RequestStart(p)
  <2>1. pc'[p] = "markUsed"
    BY <1>2, <1>4, StartAgrees
  <2>2. ASSUME NEW d \in Codes, ExchangeRead(p, d)  PROVE code[c].st = "unused"
    <3> DEFINE R == [NoRequest EXCEPT !.user = code[d].user, !.login = code[d].login, !.code = d]
    <3>1. req' = [req EXCEPT ![p] = R] /\ code[d].st \in {"unused", "used"}
      BY <2>2 DEF ExchangeRead, Start, CodeExists
    <3>2. code[d].st # "used"
      BY <1>1, <2>1, <2>2 DEF ExchangeRead, Start, Goto
    <3>3. R.code = d
      BY DEF NoRequest
    <3> HIDE DEF R
    <3>4. d = c
      BY <1>1, <1>2, <3>1, <3>3
    <3>5. QED  BY <3>1, <3>2, <3>4
  <2>3. QED
    BY <1>1, <1>4, <2>1, <2>2 DEF RequestStart, LoginAuthenticate, AuthorizeRead, ConsentRead,
       DirectGrant, RefreshReadSession, RevokeOthersStart, Start, Goto
<1>5. CASE RequestStep(p)
  <2>1. req[p].code = c /\ req[p].parent = None /\ pc'[p] # "markUsed"
    BY <1>1, <1>2, <1>5, StepAgrees DEF RequestAgrees
  <2>2. pc[p] \in {"markUsed", "loadUser"}
    <3>1. CASE pc'[p] = "loadUser"
      BY <1>1, <1>5, <2>1, <3>1, ReachLoadUser DEF MarkAuthCodeAsUsed, RequestAgrees
    <3>2. CASE pc'[p] = "insertToken"
      BY <1>1, <1>5, <2>1, <3>2, ReachInsertToken DEF LoadUser, RotateRefreshToken, RequestAgrees
    <3>3. QED  BY <1>2, <2>1, <3>1, <3>2
  <2>3. QED  BY <2>1, <2>2 DEF CodeHolders
<1>6. QED  BY <1>1, <1>3, <1>4, <1>5 DEF RequestsFrame

\* Every step keeps the redemptions of a code within the requests at a time.
LEMMA CodeStep ==
  ASSUME IInv, IsFiniteSet(Procs), [Next]_vars, NEW c \in Codes,
         Within(CodeGrants(c), CodeHolders(c))
  PROVE  Within(CodeGrants(c)', CodeHolders(c)')
<1>1. CodeHolders(c) \in SUBSET Procs /\ CodeHolders(c)' \in SUBSET Procs
  BY DEF CodeHolders
<1>2. ASSUME NEW p \in Procs, NEW g \in Grants, CreateToken(p, g)
      PROVE  Within(CodeGrants(c)', CodeHolders(c)')
  <2>1. /\ pc[p] = "insertToken" /\ pc'[p] = "insertSession"
        /\ \A q \in Procs : q # p => pc'[q] = pc[q] /\ req'[q] = req[q]
        /\ origin'[g] = [code |-> req[p].code, parent |-> req[p].parent]
    BY <1>2, CreateTokenEffect
  <2>2. \A h \in Grants : h # g => origin'[h] = origin[h]
    BY <1>2 DEF CreateToken, IInv, TypeOK
  <2>3. CodeHolders(c)' \subseteq CodeHolders(c) \ {p}
    BY <2>1 DEF CodeHolders
  <2>4. CASE req[p].code = c
    <3>1. origin'[g].code = c
      BY <2>1, <2>4
    <3>2. p \in CodeHolders(c) /\ CodeGrants(c)' = CodeGrants(c) \cup {g}
      BY <2>1, <2>2, <2>4, <3>1 DEF CodeHolders, CodeGrants
    <3>3. QED  BY <1>1, <2>3, <3>2, WithinKept
  <2>5. CASE req[p].code # c
    <3>1. origin'[g].code # c
      BY <2>1, <2>5
    <3>2. CodeGrants(c)' \subseteq CodeGrants(c)
      BY <2>2, <3>1 DEF CodeGrants
    <3>3. QED  BY <1>1, <2>3, <3>2, WithinKept
  <2>6. QED  BY <2>4, <2>5
<1>3. CASE \A p \in Procs, g \in Grants : ~CreateToken(p, g)
  <2>1. CodeGrants(c)' = CodeGrants(c)
    BY <1>3, NothingIssued DEF CodeGrants
  <2>2. CASE CodeHolders(c)' \subseteq CodeHolders(c)
    BY <1>1, <2>1, <2>2, WithinKept
  <2>3. CASE ~(CodeHolders(c)' \subseteq CodeHolders(c))
    <3>1. code[c].st = "unused" /\ c # None
      BY <1>1, <2>3, CodeJoins
    <3>2. CodeGrants(c) = {}
      BY <3>1 DEF CodeGrants, IInv, RedeemedCodeSpent
    <3>3. QED  BY <1>1, <2>1, <3>2, WithinKept
  <2>4. QED  BY <2>2, <2>3
<1>4. QED  BY <1>2, <1>3

\* A tokens row goes when it has expired and no request is about to look at it.
LEMMA TokenPurged ==
  ASSUME IInv, [Next]_vars, NEW g \in Grants, token[g].st # "deleted", token'[g].st = "deleted"
  PROVE  /\ g \in expired /\ \A p \in Procs : ~Holds(p, g)
         /\ UNCHANGED <<requests, expired>>
<1> DEFINE Goal == /\ g \in expired /\ \A p \in Procs : ~Holds(p, g)
                   /\ UNCHANGED <<requests, expired>>
<1>1. token \in [Grants -> TokenRow] /\ token' # token
  BY DEF IInv, TypeOK, TablesType
<1>2. ASSUME NEW S  PROVE token' # Revoked(S)
  BY <1>1 DEF Revoked, TokenRow
<1>3. CASE SweepTokens
  <2>1. PICK gone \in SUBSET {h \in expired : TokenExists(h) /\ \A p \in Procs : ~Holds(p, h)} :
          token' = [h \in Grants |-> IF h \in gone THEN [token[h] EXCEPT !.st = "deleted"]
                                     ELSE token[h]]
    BY <1>3 DEF SweepTokens
  <2>2. g \in gone
    BY <2>1
  <2>3. QED  BY <1>3, <2>1, <2>2 DEF SweepTokens, clocks
<1>4. ASSUME NEW p \in Procs, RequestStep(p)  PROVE Goal
  <2>1. ASSUME NEW h \in Grants, CreateToken(p, h)  PROVE FALSE
    BY <1>1, <2>1 DEF CreateToken
  <2>2. QED
    BY <1>1, <1>2, <1>4, <2>1 DEF RequestStep, LoginInsert, LoginInsertFails, AuthorizeTouch,
       CreateAuthCode, NoAuthCode, ReplayedCode, MarkAuthCodeAsUsed, LoadUser, CheckRevoked,
       ReplayedRefreshToken, RefreshNeedsMfa, ReadPriorLogin, TouchPriorLogin,
       RotateRefreshToken, CreateSession, RevokeOthers, IgnoredError, FatalError, tables,
       RevokeTokensByUserAndClient, RevokeUserAccess
<1>5. CASE Revocation
  <2>1. ASSUME NEW h \in Grants, RevokeToken(h)  PROVE FALSE
    BY <1>1, <2>1 DEF RevokeToken
  <2>2. QED
    BY <1>1, <1>2, <1>5, <2>1 DEF Revocation, Logout, DeactivateWithCascade, DeactivateSession
<1>6. ASSUME NEW u \in Users, AccountStart(u) \/ AccountStep(u)  PROVE Goal
  BY <1>1, <1>2, <1>6 DEF AccountStart, AccountStep, DeactivateUserSecond, DropLoginsSecond,
     RevokeAllAccess, DeactivateUser, ReactivateUser, PasswordReset, PasswordResetMisses,
     ForcedPasswordChange, DeactivateUserRevoke, DeactivateUserRevokeFails, DropLogins,
     DropLoginsFails, RevokeUserAccess, tables
<1>7. CASE Sweep /\ ~SweepTokens
  BY <1>1, <1>2, <1>7 DEF Sweep, SweepIdleIds, SweepCascade, DeactivateWithCascade,
     SweepMaxAgeIds, SweepCodes, SweepSessions, SweepLogins, SweepFails, tables
<1>8. QED
  BY <1>1, <1>3, <1>4, <1>5, <1>6, <1>7, RequestStartFrame, ClockFrame, CrashFrame
     DEF IInv, Next, vars, tables

\* What has expired stays so.
LEMMA ExpiredGrows ==
  ASSUME IInv, [Next]_vars
  PROVE  expired \subseteq expired'
<1> USE DEF clocks, vars
<1>1. ASSUME NEW p \in Procs, RequestStep(p)  PROVE expired \subseteq expired'
  BY <1>1 DEF RequestStep, LoginInsert, LoginInsertFails, AuthorizeTouch, CreateAuthCode,
     NoAuthCode, ReplayedCode, MarkAuthCodeAsUsed, LoadUser, CheckRevoked,
     ReplayedRefreshToken, RefreshNeedsMfa, ReadPriorLogin, TouchPriorLogin,
     RotateRefreshToken, CreateToken, CreateSession, RevokeOthers, IgnoredError, FatalError
<1>2. CASE Clock
  BY <1>2 DEF Clock, LoginGoesIdle, LoginGetsOld, CodeGetsOld, AccessLapses, RefreshExpires
<1>3. QED
  BY <1>1, <1>2, RequestStartFrame, RevocationFrame, AccountFrame, SweepFrame, CrashFrame
     DEF IInv, Next

\* Every step keeps: only what has expired is purged, and nothing that is about
\* to be looked at.
LEMMA PurgedExpiredStep ==
  ASSUME IInv, [Next]_vars, PurgedExpired
  PROVE  PurgedExpired'
<1>1. ASSUME NEW g \in Grants, token'[g].st = "deleted"  PROVE g \in expired'
  BY <1>1, TokenPurged, ExpiredGrows DEF PurgedExpired
<1>2. ASSUME NEW p \in Procs, pc'[p] = "checkRevoked"
      PROVE  token'[req'[p].parent].st # "deleted"
  <2>1. /\ pc \in [Procs -> PcLabels] /\ req \in [Procs -> Request] /\ RequestsFrame
        /\ RequestAgrees(p)
    BY StepFrame DEF IInv, TypeOK, Frame, RequestsAgree
  <2>2. CASE RequestKept(p)
    <3>1. pc[p] = "checkRevoked" /\ req'[p] = req[p] /\ token[req[p].parent].st # "deleted"
      BY <1>2, <2>2 DEF RequestKept, PurgedExpired
    <3>2. req[p].parent \in Grants
      BY <2>1, <3>1 DEF RequestAgrees, Request
    <3>3. QED  BY <3>1, <3>2, TokenPurged DEF Holds
  <2>3. CASE RequestStart(p)
    <3>1. PICK g \in Grants : RefreshReadSession(p, g)
      BY <1>2, <2>1, <2>3 DEF RequestStart, LoginAuthenticate, AuthorizeRead, ConsentRead,
         ExchangeRead, DirectGrant, RevokeOthersStart, Start, Goto
    <3>2. req'[p].parent = g /\ g \notin expired /\ token' = token
      BY <2>1, <3>1 DEF RefreshReadSession, Start, NoRequest, Request, tables
    <3>3. QED  BY <3>2 DEF PurgedExpired
  <2>4. CASE RequestStep(p)
    BY <1>2, <2>4, StepAgrees
  <2>5. QED
    BY <1>2, <2>1, <2>2, <2>3, <2>4 DEF RequestsFrame, RequestDropped
<1>3. QED  BY <1>1, <1>2 DEF PurgedExpired

\* Only a request that sees a refresh token not revoked joins those that may
\* redeem it.
LEMMA ParentJoins ==
  ASSUME IInv, [Next]_vars, PurgedExpired, "dbFail" \notin Operations,
         NEW h \in Grants, NEW p \in Procs, p \in ParentHolders(h)', p \notin ParentHolders(h)
  PROVE  token[h].st = "valid"
<1>1. /\ pc \in [Procs -> PcLabels] /\ req \in [Procs -> Request] /\ RequestAgrees(p)
      /\ RequestsFrame
  BY StepFrame DEF IInv, TypeOK, RequestsAgree, Frame
<1>2. /\ pc'[p] \in {"loadUser", "priorLogin", "touchPrior", "rotate", "insertToken"}
      /\ req'[p].parent = h /\ h # None
  BY DEF ParentHolders
<1>3. ~RequestKept(p) /\ ~RequestDropped(p)
  BY <1>2 DEF ParentHolders, RequestKept, RequestDropped, NoRequest
<1>4. ~RequestStart(p)
  BY <1>2, StartAgrees, StartCarries
<1>5. CASE RequestStep(p)
  <2>1. req[p].parent = h /\ req[p].code = None
    BY <1>1, <1>2, <1>5, StepAgrees DEF RequestAgrees
  <2>2. pc[p] = "checkRevoked"
    BY <1>1, <1>2, <1>5, <2>1, StepCarries DEF ParentHolders, MarkAuthCodeAsUsed,
       ReadPriorLogin, CreateToken, Goto, RequestAgrees
  <2>3. CheckRevoked(p)
    BY <1>1, <1>2, <1>5, <2>2 DEF RequestStep, LoginInsert, LoginInsertFails, AuthorizeTouch,
       CreateAuthCode, NoAuthCode, ReplayedCode, MarkAuthCodeAsUsed, LoadUser,
       ReplayedRefreshToken, RefreshNeedsMfa, ReadPriorLogin, TouchPriorLogin,
       RotateRefreshToken, CreateToken, CreateSession, RevokeOthers, IgnoredError, FatalError
  <2>4. token[h].st # "revoked"
    BY <1>1, <1>2, <2>1, <2>3 DEF CheckRevoked, Goto
  <2>5. token[h].st \notin {"free", "deleted"}
    BY <1>1, <1>2, <2>1, <2>2 DEF RequestAgrees, IInv, RowsAgree, PurgedExpired
  <2>6. QED  BY <2>4, <2>5 DEF IInv, TypeOK, TablesType, TokenRow
<1>6. QED  BY <1>1, <1>3, <1>4, <1>5 DEF RequestsFrame

\* Every step keeps the redemptions of a refresh token within the requests at a time.
LEMMA ParentStep ==
  ASSUME IInv, IsFiniteSet(Procs), [Next]_vars, PurgedExpired, "dbFail" \notin Operations,
         NEW h \in Grants, Within(ParentGrants(h), ParentHolders(h))
  PROVE  Within(ParentGrants(h)', ParentHolders(h)')
<1>1. ParentHolders(h) \in SUBSET Procs /\ ParentHolders(h)' \in SUBSET Procs
  BY DEF ParentHolders
<1>2. ASSUME NEW p \in Procs, NEW g \in Grants, CreateToken(p, g)
      PROVE  Within(ParentGrants(h)', ParentHolders(h)')
  <2>1. /\ pc[p] = "insertToken" /\ pc'[p] = "insertSession"
        /\ \A q \in Procs : q # p => pc'[q] = pc[q] /\ req'[q] = req[q]
        /\ origin'[g] = [code |-> req[p].code, parent |-> req[p].parent]
    BY <1>2, CreateTokenEffect
  <2>2. \A f \in Grants : f # g => origin'[f] = origin[f]
    BY <1>2 DEF CreateToken, IInv, TypeOK
  <2>3. ParentHolders(h)' \subseteq ParentHolders(h) \ {p}
    BY <2>1 DEF ParentHolders
  <2>4. CASE req[p].parent = h
    <3>1. origin'[g].parent = h
      BY <2>1, <2>4
    <3>2. p \in ParentHolders(h) /\ ParentGrants(h)' = ParentGrants(h) \cup {g}
      BY <2>1, <2>2, <2>4, <3>1 DEF ParentHolders, ParentGrants
    <3>3. \E q \in ParentHolders(h) : \E f :
            /\ ParentGrants(h)' = ParentGrants(h) \cup {f}
            /\ ParentHolders(h)' \subseteq ParentHolders(h) \ {q}
      BY <2>3, <3>2, Zenon
    <3>4. QED  BY <1>1, <3>3, WithinKept
  <2>5. CASE req[p].parent # h
    <3>1. origin'[g].parent # h
      BY <2>1, <2>5
    <3>2. ParentGrants(h)' \subseteq ParentGrants(h)
      BY <2>2, <3>1 DEF ParentGrants
    <3>3. QED  BY <1>1, <2>3, <3>2, WithinKept
  <2>6. QED  BY <2>4, <2>5
<1>3. CASE \A p \in Procs, g \in Grants : ~CreateToken(p, g)
  <2>1. ParentGrants(h)' = ParentGrants(h)
    BY <1>3, NothingIssued DEF ParentGrants
  <2>2. CASE ParentHolders(h)' \subseteq ParentHolders(h)
    BY <1>1, <2>1, <2>2, WithinKept
  <2>3. CASE ~(ParentHolders(h)' \subseteq ParentHolders(h))
    <3>1. token[h].st = "valid" /\ h # None
      BY <1>1, <2>3, ParentJoins
    <3>2. ParentGrants(h) = {}
      BY <3>1 DEF ParentGrants, IInv, RotatedParentRetired
    <3>3. QED  BY <1>1, <2>1, <3>2, WithinKept
  <2>4. QED  BY <2>2, <2>3
<1>4. QED  BY <1>2, <1>3

LEMMA RedeemInvariance ==
  ASSUME IsFiniteSet(Procs)
  PROVE  Spec => []RedeemInv
<1>1. ASSUME Init  PROVE RedeemInv
  <2>1. PurgedExpired
    BY <1>1 DEF Init, TablesInit, PurgedExpired
  <2>2. ASSUME NEW S, NEW H, S = {}, H = {}  PROVE Within(S, H)
    BY <2>2, FS_EmptySet, FS_CardinalityType DEF Within
  <2>3. ASSUME NEW c \in Codes  PROVE CodeGrants(c) = {} /\ CodeHolders(c) = {}
    BY <1>1 DEF Init, CodeGrants, CodeHolders
  <2>4. ASSUME NEW h \in Grants  PROVE ParentGrants(h) = {} /\ ParentHolders(h) = {}
    BY <1>1 DEF Init, ParentGrants, ParentHolders
  <2>5. QED  BY <2>1, <2>2, <2>3, <2>4 DEF RedeemInv
<1>2. IInv /\ RedeemInv /\ [Next]_vars => RedeemInv'
  BY PurgedExpiredStep, CodeStep, ParentStep DEF RedeemInv
<1>3. QED  BY InductiveInvariant, <1>1, <1>2, PTL DEF Spec

\* With any finite number of requests at a time, only requests that overlap redeem
\* a code or a refresh token twice.
THEOREM RedemptionsFew ==
  ASSUME IsFiniteSet(Procs)
  PROVE  Spec => []RedemptionsBounded
<1>1. RedeemInv => RedemptionsBounded
  <2>1. ASSUME NEW A, NEW H \in SUBSET Procs, Within(A, H)
        PROVE  Cardinality(A) <= Cardinality(Procs)
    BY <2>1, FS_Subset, FS_CardinalityType DEF Within
  <2>2. \A c : CodeHolders(c) \in SUBSET Procs /\ ParentHolders(c) \in SUBSET Procs
    BY DEF CodeHolders, ParentHolders
  <2>3. QED
    BY <2>1, <2>2 DEF RedeemInv, RedemptionsBounded, CodeGrants, ParentGrants
<1>2. QED  BY RedeemInvariance, <1>1, PTL

(***************************************************************************)
(* The tables implement the registry of grants.                            *)
(***************************************************************************)
\* Every step keeps the two rows of a grant with one user.
LEMMA SubjectsAgreeStep ==
  ASSUME IInv, TypeOK', [Next]_vars, SubjectsAgree
  PROVE  SubjectsAgree'
<1>1. Frame /\ pc \in [Procs -> PcLabels] /\ req \in [Procs -> Request]
  BY StepFrame DEF IInv, TypeOK
<1>2. ASSUME NEW g \in Grants, token[g].st # "free"  PROVE TokenKept(g)
  BY <1>1, <1>2 DEF Frame, TokensFrame, CreateToken
<1>3. ASSUME NEW g \in Grants, session'[g].st # "free"
      PROVE  token'[g].user = session'[g].user
  <2>1. CASE session[g].st # "free"
    <3>1. /\ session'[g].user = session[g].user /\ token[g].user = session[g].user
          /\ token[g].st # "free"
      BY <2>1, RowsPersist DEF SubjectsAgree, IInv, RowsAgree
    <3>2. QED  BY <1>2, <3>1 DEF TokenKept
  <2>2. ASSUME NEW p \in Procs, CreateSession(p), req[p].grant = g
        PROVE  token'[g].user = session'[g].user
    <3>1. /\ session'[g].user = req[p].user /\ token[g].user = req[p].user
          /\ token[g].st # "free"
      BY <2>2 DEF CreateSession, SubjectsAgree, IInv, TypeOK, TablesType, GrantsReserved,
         GrantReserved
    <3>2. QED  BY <1>2, <3>1 DEF TokenKept
  <2>3. QED  BY <1>1, <1>3, <2>1, <2>2 DEF Frame, SessionsFrame, SessionKept
<1>4. ASSUME NEW p \in Procs, pc'[p] = "insertSession"
      PROVE  token'[req'[p].grant].user = req'[p].user
  <2>1. CASE RequestKept(p)
    <3>1. /\ pc[p] = "insertSession" /\ req'[p] = req[p]
          /\ token[req[p].grant].user = req[p].user
      BY <1>4, <2>1 DEF RequestKept, SubjectsAgree
    <3>2. req[p].grant \in Grants /\ token[req[p].grant].st # "free"
      BY <1>1, <3>1 DEF IInv, GrantsReserved, GrantReserved, Request
    <3>3. QED  BY <1>2, <3>1, <3>2 DEF TokenKept
  <2>2. ASSUME NEW g \in Grants, CreateToken(p, g)
        PROVE  token'[req'[p].grant].user = req'[p].user
    <3>1. /\ token' = [token EXCEPT ![g] = [st |-> "valid", user |-> req[p].user,
                                            type |-> GrantType(req[p])]]
          /\ req' = [req EXCEPT ![p].grant = g] /\ token \in [Grants -> TokenRow]
      BY <2>2 DEF CreateToken, IInv, TypeOK, TablesType
    <3>2. token'[g].user = req[p].user
      BY <3>1
    <3>3. req'[p].grant = g /\ req'[p].user = req[p].user
      BY <1>1, <3>1 DEF Request
    <3>4. QED  BY <3>2, <3>3
  <2>3. QED
    BY <1>1, <1>4, <2>1, <2>2, StartAgrees, ReachInsertSession
       DEF Frame, RequestsFrame, RequestDropped
<1>5. QED  BY <1>3, <1>4 DEF SubjectsAgree

\* The stage of a grant in the registry, from its two rows.
Stage(g) ==
  IF token[g].st = "free" THEN "absent"
  ELSE IF token[g].st # "valid" \/ session[g].st \in {"deactivated", "deleted"} THEN "ended"
  ELSE IF session[g].st = "active" THEN "live" ELSE "pending"

\* A step that only moves rows on leaves stages as they are or ends them.
LEMMA StageKept ==
  ASSUME IInv, TypeOK', NEW g \in Grants, TokenKept(g), SessionKept(g)
  PROVE  Stage(g)' = Stage(g) \/ (Stage(g) \in {"pending", "live"} /\ Stage(g)' = "ended")
<1>1. /\ token[g].st \in {"free", "valid", "revoked", "deleted"}
      /\ session[g].st \in {"free", "active", "deactivated", "deleted"}
      /\ token'[g].st \in {"free", "valid", "revoked", "deleted"}
      /\ session'[g].st \in {"free", "active", "deactivated", "deleted"}
  BY DEF IInv, TypeOK, TablesType, TokenRow, SessionRow
<1>2. QED  BY <1>1 DEF TokenKept, SessionKept, Stage

\* The tokens row mints a grant, the sessions row opens it, whatever revokes,
\* closes or purges a row ends it.
LEMMA RegistryStep ==
  ASSUME IInv, IInv', SubjectsAgree, [Next]_vars
  PROVE  [Registry!Next]_(Registry!vars)
<1> DEFINE stage == [g \in Grants |-> Stage(g)]
           subject == [g \in Grants |-> token[g].user]
           parent == [g \in Grants |-> origin[g].parent]
           Minted == \E g \in Grants, u \in Users, h \in Grants \cup {None} :
                       /\ stage[g] = "absent"
                       /\ h # None => stage[h] = "ended" /\ subject[h] = u
                       /\ stage' = [stage EXCEPT ![g] = "pending"]
                       /\ subject' = [subject EXCEPT ![g] = u]
                       /\ parent' = [parent EXCEPT ![g] = h]
           Opened == \E g \in Grants : /\ stage[g] = "pending"
                                       /\ stage' = [stage EXCEPT ![g] = "live"]
                                       /\ UNCHANGED <<subject, parent>>
           Ended == \E S \in SUBSET Grants :
                       /\ \A g \in S : stage[g] \in {"pending", "live"}
                       /\ stage' = [g \in Grants |-> IF g \in S THEN "ended" ELSE stage[g]]
                       /\ UNCHANGED <<subject, parent>>
<1>1. SUFFICES Minted \/ Opened \/ Ended
  BY DEF Registry!Next, Registry!Mint, Registry!Open, Registry!End, Stage
<1>2. Frame /\ TypeOK /\ TypeOK'
  BY StepFrame DEF IInv
<1>3. ASSUME NEW p \in Procs, NEW g \in Grants, CreateToken(p, g)  PROVE Minted
  <2> DEFINE u == req[p].user
             h == req[p].parent
  <2>1. /\ u \in Users /\ h \in Grants \cup {None} /\ pc[p] = "insertToken"
        /\ h # None => /\ token[h].st \in {"revoked", "deleted"}
                       /\ token[h].user = u
    BY <1>2, <1>3 DEF CreateToken, TypeOK, Request, IInv, RequestsAgree, RequestAgrees,
       SpendsFirst, Spent, SubjectsAgree
  <2>2. /\ token[g].st = "free" /\ token'[g].st = "valid" /\ session[g].st = "free"
        /\ session' = session
        /\ origin'[g] = [code |-> req[p].code, parent |-> h]
    BY <1>3, CreateTokenEffect
  <2>3. /\ token' = [token EXCEPT ![g] = [st |-> "valid", user |-> u, type |-> GrantType(req[p])]]
        /\ token \in [Grants -> TokenRow]
    BY <1>2, <1>3 DEF CreateToken, TypeOK, TablesType
  <2>4. token'[g].user = u /\ \A f \in Grants : f # g => token'[f] = token[f]
    BY <2>3
  <2>5. origin'[g].parent = h /\ \A f \in Grants : f # g => origin'[f] = origin[f]
    <3>1. \A f \in Grants : f # g => origin'[f] = origin[f]
      BY <1>2, <1>3 DEF CreateToken, TypeOK
    <3>2. QED  BY <2>2, <3>1
  <2>6. /\ Stage(g) = "absent" /\ Stage(g)' = "pending"
        /\ \A f \in Grants : f # g => Stage(f)' = Stage(f)
        /\ h # None => Stage(h) = "ended"
    BY <2>1, <2>2, <2>4 DEF Stage
  <2>7. /\ stage[g] = "absent" /\ (h # None => stage[h] = "ended" /\ subject[h] = u)
        /\ stage' = [stage EXCEPT ![g] = "pending"]
        /\ subject' = [subject EXCEPT ![g] = u]
        /\ parent' = [parent EXCEPT ![g] = h]
    BY <2>1, <2>4, <2>5, <2>6
  <2> HIDE DEF stage, subject, parent, u, h
  <2>8. QED  BY <2>1, <2>7
<1>4. CASE \A p \in Procs, g \in Grants : ~CreateToken(p, g)
  <2>1. origin' = origin /\ \A g \in Grants : TokenKept(g)
    BY <1>2, <1>4, NothingIssued DEF Frame, TokensFrame
  <2>2. subject' = subject /\ parent' = parent
    BY <2>1 DEF TokenKept
  <2>3. ASSUME NEW p \in Procs, NEW g \in Grants, CreateSession(p), req[p].grant = g
        PROVE  Opened \/ Ended
    <3>1. /\ session[g].st = "free" /\ token[g].st # "free"
          /\ token' = token /\ session \in [Grants -> SessionRow]
          /\ session' = [session EXCEPT ![g] = [st |-> "active", user |-> req[p].user,
                                                login |-> req[p].login]]
      BY <1>2, <2>3 DEF CreateSession, IInv, GrantsReserved, GrantReserved, TypeOK, Request,
         TablesType
    <3>2. session'[g].st = "active" /\ \A f \in Grants : f # g => session'[f] = session[f]
      BY <3>1
    <3>3. \A f \in Grants : f # g => Stage(f)' = Stage(f)
      BY <3>1, <3>2 DEF Stage
    <3>4. CASE token[g].st = "valid"
      <4>1. Stage(g) = "pending" /\ Stage(g)' = "live"
        BY <3>1, <3>2, <3>4 DEF Stage
      <4>2. stage[g] = "pending" /\ stage' = [stage EXCEPT ![g] = "live"]
        BY <3>1, <3>3, <4>1
      <4> HIDE DEF stage, subject, parent
      <4>3. QED  BY <2>2, <3>1, <4>2
    <3>5. CASE token[g].st # "valid"
      <4>1. Stage(g) = "ended" /\ Stage(g)' = "ended"
        BY <3>1, <3>5 DEF Stage
      <4>2. stage' = [f \in Grants |-> IF f \in {} THEN "ended" ELSE stage[f]]
        BY <3>3, <4>1
      <4> HIDE DEF stage, subject, parent
      <4>3. Ended
        BY <2>2, <4>2, {} \in SUBSET Grants, \A f \in {} : stage[f] \in {"pending", "live"}
      <4>4. QED  BY <4>3
    <3>6. QED  BY <3>4, <3>5
  <2>4. CASE \A p \in Procs, g \in Grants : ~(CreateSession(p) /\ req[p].grant = g)
    <3> DEFINE S == {g \in Grants : Stage(g) \in {"pending", "live"} /\ Stage(g)' = "ended"}
    <3>1. \A g \in Grants : SessionKept(g)
      BY <1>2, <2>4 DEF Frame, SessionsFrame
    <3>2. \A g \in Grants : Stage(g)' = IF g \in S THEN "ended" ELSE Stage(g)
      BY <1>2, <2>1, <3>1, StageKept
    <3>3. /\ \A g \in S : stage[g] \in {"pending", "live"}
          /\ stage' = [g \in Grants |-> IF g \in S THEN "ended" ELSE stage[g]]
      BY <3>2
    <3>4. S \in SUBSET Grants
      OBVIOUS
    <3> HIDE DEF stage, subject, parent, S
    <3>5. QED  BY <2>2, <3>3, <3>4
  <2>5. QED  BY <2>3, <2>4
<1>5. QED  BY <1>3, <1>4

\* The token endpoint implements the registry: whatever requests, revocations and
\* sweeps interleave, a grant is minted once for one user, opened at most once and
\* never after it has ended, and replaces only a grant of the same user that has.
THEOREM RegistryImplemented == Spec => RegistrySpec
<1>1. Init => Registry!Init /\ SubjectsAgree
  BY DEF Init, TablesInit, Registry!Init, SubjectsAgree
<1>2. IInv /\ IInv' /\ SubjectsAgree /\ [Next]_vars =>
        SubjectsAgree' /\ [Registry!Next]_(Registry!vars)
  BY SubjectsAgreeStep, RegistryStep DEF IInv
<1>3. QED  BY InductiveInvariant, <1>1, <1>2, PTL DEF Spec, RegistrySpec, Registry!Spec
(***************************************************************************)
(* The subject of a code and of a grant comes along to what is issued.     *)
(***************************************************************************)
\* A request that starts with a code has loaded the user of that code.
LEMMA StartSubject ==
  ASSUME IInv, NEW p \in Procs, RequestStart(p), req'[p].code # None
  PROVE  code[req'[p].code].user = req'[p].user
<1>1. req \in [Procs -> Request]
  BY DEF IInv, TypeOK
<1>2. ASSUME NEW c \in Codes, ExchangeRead(p, c)
      PROVE  code[req'[p].code].user = req'[p].user
  <2> DEFINE R == [NoRequest EXCEPT !.user = code[c].user, !.login = code[c].login, !.code = c]
  <2>1. req' = [req EXCEPT ![p] = R] /\ R.code = c /\ R.user = code[c].user
    BY <1>2 DEF ExchangeRead, Start, NoRequest
  <2> HIDE DEF R
  <2>2. QED  BY <1>1, <2>1
<1>3. ASSUME NEW r, req' = [req EXCEPT ![p] = r], r.code = None  PROVE req'[p].code = None
  BY <1>1, <1>3
<1>4. ASSUME NEW l \in Logins, LoginAuthenticate(p, l) \/ AuthorizeRead(p, l) \/ ConsentRead(p, l)
      PROVE  req'[p].code = None
  <2>1. req' = [req EXCEPT ![p] = [NoRequest EXCEPT !.user = Owner[l], !.login = l]]
    BY <1>4 DEF LoginAuthenticate, AuthorizeRead, ConsentRead, Start
  <2>2. [NoRequest EXCEPT !.user = Owner[l], !.login = l].code = None
    BY DEF NoRequest
  <2>3. QED  BY <1>3, <2>1, <2>2
<1>5. ASSUME NEW u \in Users, DirectGrant(p, u)  PROVE req'[p].code = None
  <2>1. req' = [req EXCEPT ![p] = [NoRequest EXCEPT !.user = u]]
    BY <1>5 DEF DirectGrant, Start
  <2>2. [NoRequest EXCEPT !.user = u].code = None
    BY DEF NoRequest
  <2>3. QED  BY <1>3, <2>1, <2>2
<1>6. ASSUME NEW g \in Grants, RefreshReadSession(p, g) \/ RevokeOthersStart(p, g)
      PROVE  req'[p].code = None
  <2>1. req' = [req EXCEPT ![p] = [NoRequest EXCEPT !.user = session[g].user, !.parent = g]]
    BY <1>6 DEF RefreshReadSession, RevokeOthersStart, Start
  <2>2. [NoRequest EXCEPT !.user = session[g].user, !.parent = g].code = None
    BY DEF NoRequest
  <2>3. QED  BY <1>3, <2>1, <2>2
<1>7. QED  BY <1>2, <1>4, <1>5, <1>6 DEF RequestStart

\* Every step keeps what was issued, and what requests hold, with one subject.
LEMMA SubjectInvStep ==
  ASSUME IInv, IInv', [Next]_vars, SubjectInv
  PROVE  SubjectInv'
<1>1. /\ Frame /\ RequestsAgree /\ RowsAgree /\ SubjectsAgree /\ SubjectsAgree'
      /\ req \in [Procs -> Request] /\ token \in [Grants -> TokenRow]
      /\ origin \in [Grants -> [code : Codes \cup {None}, parent : Grants \cup {None}]]
  BY StepFrame, SubjectsAgreeStep DEF IInv, SubjectInv, TypeOK, TablesType
<1>2. ASSUME NEW c \in Codes, code[c].st # "free"  PROVE code'[c].user = code[c].user
  BY <1>1, <1>2 DEF Frame, CodesFrame, CodeKept, CreateAuthCode
<1>3. ASSUME NEW g \in Grants, token[g].st # "free"  PROVE token'[g].user = token[g].user
  BY <1>1, <1>3 DEF Frame, TokensFrame, TokenKept, CreateToken
<1>4. ASSUME NEW p \in Procs, req'[p].code # None
      PROVE  code'[req'[p].code].user = req'[p].user
  <2>1. CASE RequestStart(p)
    <3>1. /\ req'[p].code \in Codes /\ code[req'[p].code].st # "free"
          /\ code[req'[p].code].user = req'[p].user
      BY <1>4, <2>1, StartAgrees, StartSubject DEF IInv, TypeOK, Request
    <3>2. QED  BY <1>2, <3>1
  <2>2. CASE req'[p].code = req[p].code /\ req'[p].user = req[p].user
    <3>1. /\ req[p].code \in Codes /\ code[req[p].code].st # "free"
          /\ code[req[p].code].user = req[p].user
      BY <1>1, <1>4, <2>2 DEF Request, RequestsAgree, RequestAgrees, SubjectInv
    <3>2. QED  BY <1>2, <2>2, <3>1
  <2>3. req'[p] # NoRequest
    BY <1>4 DEF NoRequest
  <2>4. CASE RequestStep(p)
    BY <2>2, <2>3, <2>4, StepAgrees
  <2>5. QED
    BY <1>1, <2>1, <2>2, <2>3, <2>4 DEF Frame, RequestsFrame, RequestKept, RequestDropped
<1>5. ASSUME NEW g \in Grants, token'[g].st = "free"
      PROVE  origin'[g] = [code |-> None, parent |-> None]
  <2>1. token[g].st = "free" /\ origin'[g] = origin[g]
    BY <1>1, <1>5, CreateTokenEffect DEF Frame, TokensFrame, TokenKept, OriginFrame
  <2>2. QED  BY <2>1 DEF SubjectInv
<1>6. ASSUME NEW g \in Grants, NEW c, NEW h, NEW u,
             origin'[g] = [code |-> c, parent |-> h], token'[g].user = u,
             c # None => c \in Codes /\ code[c].st # "free" /\ code[c].user = u,
             h # None => h \in Grants /\ token[h].st # "free" /\ token[h].user = u
      PROVE  /\ origin'[g].code # None => code'[origin'[g].code].user = token'[g].user
             /\ origin'[g].parent # None => token'[origin'[g].parent].user = token'[g].user
  BY <1>2, <1>3, <1>6
<1>7. ASSUME NEW g \in Grants
      PROVE  /\ origin'[g].code # None => code'[origin'[g].code].user = token'[g].user
             /\ origin'[g].parent # None => token'[origin'[g].parent].user = token'[g].user
  <2>1. ASSUME NEW p \in Procs, CreateToken(p, g)
        PROVE  /\ origin'[g].code # None => code'[origin'[g].code].user = token'[g].user
               /\ origin'[g].parent # None => token'[origin'[g].parent].user = token'[g].user
    <3>1. origin'[g] = [code |-> req[p].code, parent |-> req[p].parent]
      BY <2>1, CreateTokenEffect
    <3>2. token'[g].user = req[p].user
      BY <1>1, <2>1 DEF CreateToken
    <3>3. req[p].code # None => /\ req[p].code \in Codes /\ code[req[p].code].st # "free"
                                /\ code[req[p].code].user = req[p].user
      BY <1>1 DEF Request, RequestsAgree, RequestAgrees, SubjectInv
    <3>4. req[p].parent # None => /\ req[p].parent \in Grants
                                  /\ token[req[p].parent].st # "free"
                                  /\ token[req[p].parent].user = req[p].user
      BY <1>1 DEF Request, RequestsAgree, RequestAgrees, RowsAgree, SubjectsAgree
    <3>5. QED  BY <1>6, <3>1, <3>2, <3>3, <3>4
  <2>2. CASE origin'[g] = origin[g] /\ token[g].st = "free"
    BY <2>2 DEF SubjectInv
  <2>3. CASE origin'[g] = origin[g] /\ token[g].st # "free"
    <3>1. origin'[g] = [code |-> origin[g].code, parent |-> origin[g].parent]
      BY <1>1, <2>3
    <3>2. token'[g].user = token[g].user
      BY <1>3, <2>3
    <3>3. origin[g].code # None => /\ origin[g].code \in Codes
                                   /\ code[origin[g].code].st # "free"
                                   /\ code[origin[g].code].user = token[g].user
      BY <1>1 DEF IInv, RedeemedCodeSpent, SubjectInv, SubjectInherited
    <3>4. origin[g].parent # None => /\ origin[g].parent \in Grants
                                     /\ token[origin[g].parent].st # "free"
                                     /\ token[origin[g].parent].user = token[g].user
      BY <1>1 DEF IInv, RotatedParentRetired, SubjectInv, SubjectInherited
    <3>5. QED  BY <1>6, <3>1, <3>2, <3>3, <3>4
  <2>4. QED  BY <1>1, <2>1, <2>2, <2>3 DEF Frame, OriginFrame
<1>8. SubjectInherited'
  BY <1>1, <1>7 DEF SubjectInherited, SubjectsAgree
<1>9. QED  BY <1>1, <1>4, <1>5, <1>8 DEF SubjectInv

LEMMA SubjectInvariance == Spec => []SubjectInv
<1>1. Init => SubjectInv
  BY DEF Init, TablesInit, NoRequest, SubjectInv, SubjectsAgree, SubjectInherited
<1>2. IInv /\ IInv' /\ SubjectInv /\ [Next]_vars => SubjectInv'
  BY SubjectInvStep
<1>3. QED  BY InductiveInvariant, <1>1, <1>2, PTL DEF Spec

\* However exchanges, refreshes, replays and revocations overlap, what /token issues
\* belongs to the user who authorized the code or holds the refresh token: no request
\* hands out a grant for somebody else.
THEOREM SubjectsInherited == Spec => []SubjectInherited
<1>1. SubjectInv => SubjectInherited
  BY DEF SubjectInv
<1>2. QED  BY SubjectInvariance, <1>1, PTL
(***************************************************************************)
(* An authorization code is good once.                                     *)
(***************************************************************************)
\* Codes are inserted, marked and swept, and nothing else writes them.
LEMMA CodeWriters ==
  ASSUME TypeOK, [Next]_vars
  PROVE  \/ UNCHANGED code
         \/ \E p \in Procs, c \in Codes : CreateAuthCode(p, c)
         \/ \E p \in Procs : MarkAuthCodeAsUsed(p)
         \/ SweepCodes
<1> USE DEF tables, vars
<1>1. ASSUME NEW p \in Procs, RequestStep(p)
      PROVE  \/ UNCHANGED code
             \/ \E c \in Codes : CreateAuthCode(p, c)
             \/ MarkAuthCodeAsUsed(p)
  BY <1>1 DEF RequestStep, LoginInsert, LoginInsertFails, AuthorizeTouch, NoAuthCode,
     ReplayedCode, LoadUser, CheckRevoked, ReplayedRefreshToken, RefreshNeedsMfa, ReadPriorLogin,
     TouchPriorLogin, RotateRefreshToken, CreateToken, CreateSession, RevokeOthers,
     RevokeUserAccess, RevokeTokensByUserAndClient, IgnoredError, FatalError
<1>2. ASSUME NEW p \in Procs, RequestStart(p)  PROVE UNCHANGED code
  BY <1>2, RequestStartFrame
<1>3. CASE Revocation \/ Clock \/ Crash
  BY <1>3 DEF Revocation, Logout, RevokeToken, DeactivateSession, DeactivateWithCascade, Clock,
     LoginGoesIdle, LoginGetsOld, CodeGetsOld, AccessLapses, RefreshExpires, Crash
<1>4. ASSUME NEW u \in Users, AccountStart(u) \/ AccountStep(u)  PROVE UNCHANGED code
  BY <1>4 DEF AccountStart, AccountStep, DeactivateUserSecond, DropLoginsSecond, RevokeAllAccess,
     RevokeUserAccess, DeactivateUser, ReactivateUser, PasswordReset, ForcedPasswordChange,
     PasswordResetMisses, DeactivateUserRevoke, DeactivateUserRevokeFails, DropLogins,
     DropLoginsFails
<1>5. CASE Sweep
  BY <1>5 DEF Sweep, SweepIdleIds, SweepCascade, DeactivateWithCascade, SweepMaxAgeIds,
     SweepTokens, SweepSessions, SweepLogins, SweepFails
<1>6. QED  BY <1>1, <1>2, <1>3, <1>4, <1>5 DEF Next

\* What a write that keeps the rows there does to the stages of the codes.
LEMMA CodeStageMoves ==
  ASSUME TypeOK, TypeOK'
  PROVE  /\ (\A c \in Codes : CodeKept(c)) =>
              /\ CodeStages' \in [Codes -> {"none", "good", "spent"}]
              /\ \A c \in Codes : \/ CodeStages'[c] = CodeStages[c]
                                  \/ CodeStages[c] = "good" /\ CodeStages'[c] = "spent"
         /\ UNCHANGED code => CodeStages' = CodeStages
         /\ \A p \in Procs, c \in Codes : CreateAuthCode(p, c) =>
              CodeStages[c] = "none" /\ CodeStages' = [CodeStages EXCEPT ![c] = "good"]
<1>1. /\ code \in [Codes -> CodeRow] /\ code' \in [Codes -> CodeRow]
      /\ \A c \in Codes : /\ code[c].st \in {"free", "unused", "used", "deleted"}
                          /\ code'[c].st \in {"free", "unused", "used", "deleted"}
  BY DEF TypeOK, TablesType, CodeRow
<1>2. CodeStages' = [c \in Codes |-> CodeStage(c)']
  BY DEF CodeStages
<1>3. ASSUME \A c \in Codes : CodeKept(c)
      PROVE  /\ CodeStages' \in [Codes -> {"none", "good", "spent"}]
             /\ \A c \in Codes : \/ CodeStages'[c] = CodeStages[c]
                                 \/ CodeStages[c] = "good" /\ CodeStages'[c] = "spent"
  BY <1>1, <1>2, <1>3 DEF CodeKept, CodeStages, CodeStage
<1>4. UNCHANGED code => CodeStages' = CodeStages
  BY DEF CodeStages, CodeStage
<1>5. ASSUME NEW p \in Procs, NEW c \in Codes, CreateAuthCode(p, c)
      PROVE  CodeStages[c] = "none" /\ CodeStages' = [CodeStages EXCEPT ![c] = "good"]
  <2>1. code[c].st = "free" /\ code'[c].st = "unused" /\ \A d \in Codes : d # c => code'[d] = code[d]
    BY <1>1, <1>5 DEF CreateAuthCode
  <2>2. CodeStage(c)' = "good" /\ \A d \in Codes : d # c => CodeStage(d)' = CodeStage(d)
    BY <2>1 DEF CodeStage
  <2>3. QED  BY <1>2, <2>1, <2>2 DEF CodeStages, CodeStage
<1>6. QED  BY <1>3, <1>4, <1>5

\* A grant that is inserted is a use of its code by a request that holds it.
LEMMA CodeUsed ==
  ASSUME IInv, IInv', [Next]_vars, SubjectInv, \A c \in Codes : IsFiniteSet(CodeGrants(c)),
         NEW p \in Procs, NEW g \in Grants, CreateToken(p, g)
  PROVE  [OneTime!Next]_(OneTime!vars)
<1>1. /\ pc[p] = "insertToken" /\ pc'[p] = "insertSession"
      /\ \A q \in Procs : q # p => pc'[q] = pc[q] /\ req'[q] = req[q]
      /\ origin'[g] = [code |-> req[p].code, parent |-> req[p].parent]
      /\ origin[g].code = None /\ req[p].code \in Codes \cup {None}
  BY CreateTokenEffect DEF SubjectInv, IInv, TypeOK, Request
<1>2. /\ \A h \in Grants : h # g => origin'[h] = origin[h]
      /\ code' = code /\ CodeStages' = CodeStages
  BY CodeStageMoves DEF CreateToken, IInv, TypeOK
<1>3. CodeRedeemers' = {h \in CodeRedeemers : h[1] # p}
  BY <1>1 DEF CodeRedeemers, CodeHolders
<1>4. \A c \in Codes : CodeGrants(c)' = IF c = req[p].code THEN CodeGrants(c) \cup {g}
                                        ELSE CodeGrants(c)
  BY <1>1, <1>2 DEF CodeGrants
<1>5. CASE req[p].code = None
  <2>1. CodeRedeemers' = CodeRedeemers
    BY <1>3, <1>5 DEF CodeRedeemers, CodeHolders
  <2>2. CodeUses' = CodeUses
    BY <1>4, <1>5 DEF CodeUses
  <2>3. QED  BY <1>2, <2>1, <2>2 DEF OneTime!vars
<1>6. CASE req[p].code # None
  <2>1. PICK c \in Codes : c = req[p].code
    BY <1>1, <1>6
  <2>2. <<p, c>> \in CodeRedeemers /\ CodeRedeemers' = CodeRedeemers \ {<<p, c>>}
    BY <1>1, <1>3, <2>1 DEF CodeRedeemers, CodeHolders
  <2>3. CodeStages' = [CodeStages EXCEPT ![c] = "spent"]
    <3>1. code[c].st \in {"used", "deleted"}
      BY <1>1, <1>6, <2>1 DEF IInv, SpendsFirst, Spent
    <3>2. QED  BY <1>2, <3>1 DEF CodeStages, CodeStage
  <2>4. CodeUses' = [CodeUses EXCEPT ![c] = @ + 1]
    <3>1. Cardinality(CodeGrants(c)') = Cardinality(CodeGrants(c)) + 1
      <4>1. CodeGrants(c)' = CodeGrants(c) \cup {g} /\ g \notin CodeGrants(c)
        BY <1>1, <1>4, <1>6, <2>1 DEF CodeGrants
      <4>2. QED  BY <4>1, FS_AddElement
    <3>2. \A d \in Codes : d # c => CodeGrants(d)' = CodeGrants(d)
      BY <1>4, <2>1
    <3>3. QED  BY <3>1, <3>2 DEF CodeUses
  <2>5. OneTime!Use(p, c)
    BY <2>2, <2>3, <2>4 DEF OneTime!Use
  <2>6. QED  BY <2>5 DEF OneTime!Next
<1>7. QED  BY <1>5, <1>6

\* A request that joins has found the code good and held none.
LEMMA CodeFound ==
  ASSUME IInv, IInv', [Next]_vars, NEW p \in Procs, NEW c \in Codes,
         <<p, c>> \in CodeRedeemers', <<p, c>> \notin CodeRedeemers
  PROVE  OneTime!Find(p, c)
<1>1. RequestStart(p) /\ CodeStages[c] = "good"
  BY CodeJoins DEF CodeRedeemers, CodeStages, CodeStage
<1>2. pc[p] = "ready" /\ UNCHANGED <<tables, origin>>
  BY <1>1, RequestStartFrame DEF history, RequestStart, LoginAuthenticate, AuthorizeRead,
     ConsentRead, ExchangeRead, DirectGrant, RefreshReadSession, RevokeOthersStart, Start
<1>3. \A q \in Procs : q # p => pc'[q] = pc[q] /\ req'[q] = req[q]
  BY <1>1, OthersKept DEF IInv, RequestKept
<1>4. \A k \in Codes : <<p, k>> \notin CodeRedeemers
  BY <1>2 DEF CodeRedeemers, CodeHolders
<1>5. CodeRedeemers' = CodeRedeemers \cup {<<p, c>>}
  BY <1>3, <1>4 DEF CodeRedeemers, CodeHolders
<1>6. CodeStages' = CodeStages /\ CodeUses' = CodeUses
  BY <1>2, CodeStageMoves DEF tables, IInv, CodeUses, CodeGrants
<1>7. QED  BY <1>1, <1>4, <1>5, <1>6 DEF OneTime!Find

\* Every step issues a code, finds one good, uses it, spends it or gives it up.
LEMMA CodeOneTime ==
  ASSUME IInv, IInv', [Next]_vars, SubjectInv, \A c \in Codes : IsFiniteSet(CodeGrants(c))
  PROVE  [OneTime!Next]_(OneTime!vars)
<1>1. Frame /\ TypeOK /\ TypeOK'
  BY StepFrame DEF IInv
<1>2. CASE \E p \in Procs, g \in Grants : CreateToken(p, g)
  BY <1>2, CodeUsed
<1>3. CASE \A p \in Procs, g \in Grants : ~CreateToken(p, g)
  <2>1. CodeUses' = CodeUses
    BY <1>3, NothingIssued DEF CodeUses, CodeGrants
  <2>2. ASSUME NEW p \in Procs, NEW c \in Codes, CreateAuthCode(p, c)
        PROVE  [OneTime!Next]_(OneTime!vars)
    <3>1. /\ pc[p] = "createCode" /\ pc'[p] = "ready"
          /\ \A q \in Procs : q # p => pc'[q] = pc[q] /\ req'[q] = req[q]
      BY <1>1, <2>2 DEF CreateAuthCode, Respond, Goto, TypeOK
    <3>2. CodeRedeemers' = CodeRedeemers
      BY <3>1 DEF CodeRedeemers, CodeHolders
    <3>3. OneTime!Issue(c)
      BY <1>1, <2>1, <2>2, <3>2, CodeStageMoves DEF OneTime!Issue
    <3>4. QED  BY <3>3 DEF OneTime!Next
  <2>3. CASE \A p \in Procs, c \in Codes : ~CreateAuthCode(p, c)
    <3>1. \A c \in Codes : CodeKept(c)
      BY <1>1, <2>3 DEF Frame, CodesFrame
    <3>2. CASE CodeRedeemers' = CodeRedeemers
      <4>1. OneTime!Spend
        BY <1>1, <2>1, <3>1, <3>2, CodeStageMoves DEF OneTime!Spend
      <4>2. QED  BY <4>1 DEF OneTime!Next
    <3>3. CASE ~(CodeRedeemers' \subseteq CodeRedeemers)
      <4>1. PICK p \in Procs, c \in Codes : <<p, c>> \in CodeRedeemers' /\ <<p, c>> \notin CodeRedeemers
        BY <3>3 DEF CodeRedeemers
      <4>2. QED  BY <4>1, CodeFound DEF OneTime!Next
    <3>4. CASE UNCHANGED code /\ CodeRedeemers' \subseteq CodeRedeemers
      <4>1. OneTime!Release
        BY <1>1, <2>1, <3>4, CodeStageMoves DEF OneTime!Release
      <4>2. QED  BY <4>1 DEF OneTime!Next
    <3>5. ASSUME NEW p \in Procs, MarkAuthCodeAsUsed(p)  PROVE CodeRedeemers' = CodeRedeemers
      <4>1. /\ pc[p] = "markUsed" /\ pc'[p] = "loadUser" /\ req' = req
            /\ \A q \in Procs : q # p => pc'[q] = pc[q]
        BY <1>1, <3>5 DEF MarkAuthCodeAsUsed, Goto, TypeOK
      <4>2. \A c \in Codes : CodeHolders(c)' = CodeHolders(c)
        BY <4>1 DEF CodeHolders
      <4>3. QED  BY <4>2 DEF CodeRedeemers
    <3>6. SweepCodes => CodeRedeemers' = CodeRedeemers
      BY DEF SweepCodes, requests, CodeRedeemers, CodeHolders
    <3>7. QED  BY <1>1, <2>3, <3>2, <3>3, <3>4, <3>5, <3>6, CodeWriters
  <2>4. QED  BY <2>2, <2>3
<1>4. QED  BY <1>2, <1>3

\* An authorization code is good once, whatever /token requests, replays and sweeps
\* overlap: only a request that found it unused issues a grant for it, once, and by
\* then the code is marked (UserByAuthorizationCode, MarkAuthCodeAsUsed).
THEOREM CodesAreGoodOnce ==
  ASSUME IsFiniteSet(Procs)
  PROVE  Spec => CodesGoodOnce
<1>1. Init => OneTime!Init
  <2> SUFFICES ASSUME Init  PROVE OneTime!Init
    OBVIOUS
  <2>1. \A c \in Codes : CodeGrants(c) = {} /\ CodeHolders(c) = {} /\ CodeStage(c) = "none"
    BY DEF Init, TablesInit, CodeGrants, CodeHolders, CodeStage
  <2>2. CodeRedeemers = {} /\ CodeStages = [c \in Codes |-> "none"]
    BY <2>1 DEF CodeRedeemers, CodeStages
  <2>3. CodeUses = OneTime!Unused
    BY <2>1, FS_EmptySet DEF CodeUses, OneTime!Unused
  <2>4. QED  BY <2>2, <2>3 DEF OneTime!Init
<1>2. RedeemInv => \A c \in Codes : IsFiniteSet(CodeGrants(c))
  BY DEF RedeemInv, Within
<1>3. IInv /\ IInv' /\ SubjectInv /\ RedeemInv /\ [Next]_vars => [OneTime!Next]_(OneTime!vars)
  BY <1>2, CodeOneTime
<1>4. QED
  BY InductiveInvariant, SubjectInvariance, RedeemInvariance, <1>1, <1>3, PTL
     DEF Spec, CodesGoodOnce, OneTime!Spec
=============================================================================
