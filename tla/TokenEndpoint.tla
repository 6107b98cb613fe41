--------------------------- MODULE TokenEndpoint ---------------------------
(***************************************************************************)
(* Sign-in, /authorize, /token, logout, revocation, account operations and *)
(* the cleanup goroutine, over the tables of SessionStore.                 *)
(*                                                                         *)
(* Every HTTP request runs in a goroutine of its own and every SQL         *)
(* statement commits by itself, so requests interleave between statements: *)
(* an action is one statement (or one transaction) of one handler together *)
(* with the computation up to the next one.  A rejection that changed      *)
(* nothing is not a step; one that comes after a change is.                *)
(***************************************************************************)
EXTENDS SessionStore, Naturals

CONSTANTS
  Procs,       \* request goroutines
  Operations   \* the operations that arrive in this instance

AllOperations ==
  {"login", "authorize", "exchange", "refresh", "direct", "logout", "revoke",
   "endSession", "revokeOthers", "revokeAll", "deactivate", "reset", "clock",
   "sweep", "dbFail", "sweepFail", "crash"}

ASSUME OperationsAssumption == Operations \subseteq AllOperations

VARIABLES
  pc, req,       \* each request: its next statement, and what it has loaded
  pending,       \* second statements that account operations still have to run
  sweepPc,       \* the cleanup goroutine's stage
  sweepIds,      \*   and the ids its last SELECT returned
  idle, overage, \* logins past the idle timeout, past the maximal age
  lapsed,        \* grants whose access token expired a whole retention ago
  expired,       \* grants whose refresh token has expired
  oldCodes,      \* codes past their expiry
  origin,        \* history: the code or the grant a grant was issued from
  late,          \* history: grants inserted under a login or user already closed
  missed         \* history: users of whom a revocation failed and was not made up for

requests == <<pc, req>>
sweeper == <<sweepPc, sweepIds>>
clocks == <<idle, overage, lapsed, expired, oldCodes>>
history == <<origin, late, missed>>
vars == <<tables, requests, pending, sweeper, clocks, history>>

PcLabels ==
  {"ready", "insertLogin", "touchLogin", "createCode", "replayCode", "markUsed",
   "loadUser", "checkRevoked", "replayRefresh", "priorLogin", "touchPrior",
   "rotate", "insertToken", "insertSession", "revokeOthers"}

Request == [user : Users \cup {None}, login : Logins \cup {None},
            code : Codes \cup {None}, parent : Grants \cup {None},
            grant : Grants \cup {None}]

NoRequest == [user |-> None, login |-> None, code |-> None,
              parent |-> None, grant |-> None]

SweepStages == {"rest", "idleIds", "maxAgeIds", "tokens", "sessions", "logins"}

Init ==
  /\ TablesInit
  /\ pc = [p \in Procs |-> "ready"]
  /\ req = [p \in Procs |-> NoRequest]
  /\ pending = {}
  /\ sweepPc = "rest" /\ sweepIds = {}
  /\ idle = {} /\ overage = {} /\ lapsed = {} /\ expired = {} /\ oldCodes = {}
  /\ origin = [g \in Grants |-> [code |-> None, parent |-> None]]
  /\ late = {} /\ missed = {}

-----------------------------------------------------------------------------
(* Request plumbing. *)

Goto(p, label) == pc' = [pc EXCEPT ![p] = label]

Start(p, op, label, r) ==
  /\ op \in Operations
  /\ pc[p] = "ready"
  /\ Goto(p, label)
  /\ req' = [req EXCEPT ![p] = r]

Respond(p) ==
  /\ Goto(p, "ready")
  /\ req' = [req EXCEPT ![p] = NoRequest]

Holds(p, g) == g \in {req[p].parent, req[p].grant}

-----------------------------------------------------------------------------
(* Sign-in: AuthenticateUser, FinalizeLogin, CreateAuthCode.               *)

LoginAuthenticate(p, l) ==
  /\ login[l] = "free" /\ user[Owner[l]] = "active"
  /\ \A q \in Procs : ~(pc[q] = "insertLogin" /\ req[q].login = l)
  /\ Start(p, "login", "insertLogin", [NoRequest EXCEPT !.user = Owner[l], !.login = l])
  /\ UNCHANGED <<tables, pending, sweeper, clocks, history>>

LoginInsert(p) ==
  /\ pc[p] = "insertLogin"
  /\ login' = [login EXCEPT ![req[p].login] = "active"]
  /\ Goto(p, "createCode")
  /\ UNCHANGED <<user, code, token, session, req, pending, sweeper, clocks, history>>

\* FinalizeLogin swallows a failed INSERT: the code is issued without a login.
LoginInsertFails(p) ==
  /\ "dbFail" \in Operations
  /\ pc[p] = "insertLogin"
  /\ req' = [req EXCEPT ![p].login = None]
  /\ Goto(p, "createCode")
  /\ UNCHANGED <<tables, pending, sweeper, clocks, history>>

\* tryAutoLogin: SELECT the login of the cookie; idle or too old means no code.
AuthorizeRead(p, l) ==
  /\ LoginActive(l) /\ l \notin idle \cup overage
  /\ Start(p, "authorize", "touchLogin", [NoRequest EXCEPT !.user = Owner[l], !.login = l])
  /\ UNCHANGED <<tables, pending, sweeper, clocks, history>>

\* The consent page posts back: the login must still be active, however idle.
ConsentRead(p, l) ==
  /\ LoginActive(l)
  /\ Start(p, "authorize", "createCode", [NoRequest EXCEPT !.user = Owner[l], !.login = l])
  /\ UNCHANGED <<tables, pending, sweeper, clocks, history>>

\* UpdateLastActivity touches the row only while the login is active.
Touched(l) == IF LoginActive(l) THEN idle \ {l} ELSE idle

AuthorizeTouch(p) ==
  /\ pc[p] = "touchLogin"
  /\ idle' = Touched(req[p].login)
  /\ Goto(p, "createCode")
  /\ UNCHANGED <<tables, req, pending, sweeper, overage, lapsed, expired, oldCodes, history>>

CreateAuthCode(p, c) ==
  /\ pc[p] = "createCode"
  /\ code[c].st = "free"
  /\ code' = [code EXCEPT ![c] = [st |-> "unused", user |-> req[p].user,
                                  login |-> req[p].login]]
  /\ Respond(p)
  /\ UNCHANGED <<user, login, token, session, pending, sweeper, clocks, history>>

\* The consent page is shown instead of a code, or the INSERT fails.
NoAuthCode(p) ==
  /\ pc[p] = "createCode"
  /\ Respond(p)
  /\ UNCHANGED <<tables, pending, sweeper, clocks, history>>

-----------------------------------------------------------------------------
(* grant_type=authorization_code: UserByAuthorizationCode.                 *)

\* Mutant: the used column is not looked at.
ExchangeReadIgnoringUsed(p, c) ==
  /\ CodeExists(c) /\ c \notin oldCodes
  /\ Start(p, "exchange", "markUsed",
           [NoRequest EXCEPT !.user = code[c].user, !.login = code[c].login, !.code = c])
  /\ UNCHANGED <<tables, pending, sweeper, clocks, history>>

\* The client, redirect_uri and PKCE checks read only what the code was
\* created with; a request that fails one of them changes nothing.
ExchangeRead(p, c) ==
  /\ CodeExists(c)
  /\ LET r == [NoRequest EXCEPT !.user = code[c].user, !.login = code[c].login,
                                !.code = c]
     IN  IF code[c].st = "used"
         THEN Start(p, "exchange", "replayCode", r)
         ELSE c \notin oldCodes /\ Start(p, "exchange", "markUsed", r)
  /\ UNCHANGED <<tables, pending, sweeper, clocks, history>>

ReplayedCode(p) ==
  /\ pc[p] = "replayCode"
  /\ RevokeTokensByUserAndClient(req[p].user)
  /\ Respond(p)
  /\ UNCHANGED <<user, login, code, session, pending, sweeper, clocks, history>>

\* Mutant: the code is not marked.
LeaveAuthCodeUnused(p) ==
  /\ pc[p] = "markUsed"
  /\ Goto(p, "loadUser")
  /\ UNCHANGED <<tables, req, pending, sweeper, clocks, history>>

\* MarkAuthCodeAsUsed does not look at used: it succeeds on a used code too.
MarkAuthCodeAsUsed(p) ==
  /\ pc[p] = "markUsed"
  /\ code' = IF CodeExists(req[p].code) THEN [code EXCEPT ![req[p].code].st = "used"]
                                        ELSE code
  /\ Goto(p, "loadUser")
  /\ UNCHANGED <<user, login, token, session, req, pending, sweeper, clocks, history>>

\* Mutant: a refresh goes straight to the INSERTs, without the rotation.
LoadUserSkippingRotation(p) ==
  /\ pc[p] = "loadUser"
  /\ IF user[req[p].user] # "active"
     THEN Respond(p)
     ELSE Goto(p, "insertToken") /\ req' = req
  /\ UNCHANGED <<tables, pending, sweeper, clocks, history>>

\* UserByID finds active users only.
LoadUser(p) ==
  /\ pc[p] = "loadUser"
  /\ IF user[req[p].user] # "active"
     THEN Respond(p)
     ELSE /\ Goto(p, IF req[p].parent = None THEN "insertToken" ELSE "priorLogin")
          /\ req' = req
  /\ UNCHANGED <<tables, pending, sweeper, clocks, history>>

-----------------------------------------------------------------------------
(* grant_type=password: AuthenticateUser reads an active user.  The        *)
(* device_code grant comes here as well, see DeviceGrant.                  *)

DirectGrant(p, u) ==
  /\ user[u] = "active"
  /\ Start(p, "direct", "insertToken", [NoRequest EXCEPT !.user = u])
  /\ UNCHANGED <<tables, pending, sweeper, clocks, history>>

-----------------------------------------------------------------------------
(* grant_type=refresh_token: UserByRefreshToken and the rotation.          *)

\* An expired refresh JWT is rejected before any row is read.
RefreshReadSession(p, g) ==
  /\ g \notin expired
  /\ session[g].st = "active"
  /\ Start(p, "refresh", "checkRevoked",
           [NoRequest EXCEPT !.user = session[g].user, !.parent = g])
  /\ UNCHANGED <<tables, pending, sweeper, clocks, history>>

\* Only a row that is there and revoked rejects; a missing row passes.
CheckRevoked(p) ==
  /\ pc[p] = "checkRevoked"
  /\ Goto(p, IF token[req[p].parent].st = "revoked" THEN "replayRefresh" ELSE "loadUser")
  /\ UNCHANGED <<tables, req, pending, sweeper, clocks, history>>

ReplayedRefreshToken(p) ==
  /\ pc[p] = "replayRefresh"
  /\ token' = Revoked(TokensOfUser(req[p].user))
  /\ Respond(p)
  /\ UNCHANGED <<user, login, code, session, pending, sweeper, clocks, history>>

\* The stored access token was not issued with MFA and the user has TOTP now.
RefreshNeedsMfa(p) ==
  /\ pc[p] = "priorLogin"
  /\ Respond(p)
  /\ UNCHANGED <<tables, pending, sweeper, clocks, history>>

\* Mutant: the link is not carried over.
ForgetPriorLogin(p) ==
  /\ pc[p] = "priorLogin"
  /\ Goto(p, "rotate")
  /\ UNCHANGED <<tables, req, pending, sweeper, clocks, history>>

\* SELECT idp_session_id FROM sessions: a missing row is logged and read as NULL.
ReadPriorLogin(p) ==
  /\ pc[p] = "priorLogin"
  /\ LET g == req[p].parent
         prior == IF SessionExists(g) THEN session[g].login ELSE None
     IN  /\ req' = [req EXCEPT ![p].login = prior]
         /\ Goto(p, IF prior = None THEN "rotate" ELSE "touchPrior")
  /\ UNCHANGED <<tables, pending, sweeper, clocks, history>>

TouchPriorLogin(p) ==
  /\ pc[p] = "touchPrior"
  /\ idle' = Touched(req[p].login)
  /\ Goto(p, "rotate")
  /\ UNCHANGED <<tables, req, pending, sweeper, overage, lapsed, expired, oldCodes, history>>

\* Mutant: the parent stays valid.
KeepRefreshToken(p) ==
  /\ pc[p] = "rotate"
  /\ Goto(p, "insertToken")
  /\ UNCHANGED <<tables, req, pending, sweeper, clocks, history>>

\* The UPDATE ignores how many rows it changed; the requested scope is only
\* compared afterwards, so a request for too wide a scope has spent the token.
RotateRefreshToken(p) ==
  /\ pc[p] = "rotate"
  /\ token' = Revoked({req[p].parent})
  /\ \/ Goto(p, "insertToken") /\ UNCHANGED req
     \/ Respond(p)
  /\ UNCHANGED <<user, login, code, session, pending, sweeper, clocks, history>>

-----------------------------------------------------------------------------
(* The end of every grant: GenerateTokens, CreateToken, CreateSession.     *)

\* Mutant: the response type is stored where the grant type belongs.
ResponseType(r) == IF r.code # None THEN "code"
                   ELSE IF r.parent # None THEN "refresh_token" ELSE "direct"

GrantType(r) == IF r.code # None THEN "authorization_code"
                ELSE IF r.parent # None THEN "refresh_token" ELSE "direct"

CreateToken(p, g) ==
  /\ pc[p] = "insertToken"
  /\ token[g].st = "free"
  /\ token' = [token EXCEPT ![g] = [st |-> "valid", user |-> req[p].user,
                                    type |-> GrantType(req[p])]]
  /\ origin' = [origin EXCEPT ![g] = [code |-> req[p].code, parent |-> req[p].parent]]
  /\ req' = [req EXCEPT ![p].grant = g]
  /\ Goto(p, "insertSession")
  /\ UNCHANGED <<user, login, code, session, pending, sweeper, clocks, late, missed>>

\* History: the row is inserted after its login was closed, its user was
\* deactivated, or while an account operation on its user is half done.
InsertedLate(u, l) ==
  \/ l # None /\ login[l] # "active"
  \/ user[u] = "deactivated"
  \/ \E op \in pending : op[1] = u

CreateSession(p) ==
  /\ pc[p] = "insertSession"
  /\ LET r == req[p]
     IN  /\ session' = [session EXCEPT ![r.grant] = [st |-> "active", user |-> r.user,
                                                     login |-> r.login]]
         /\ late' = IF InsertedLate(r.user, r.login) THEN late \cup {r.grant} ELSE late
  /\ Respond(p)
  /\ UNCHANGED <<user, login, code, token, pending, sweeper, clocks, origin, missed>>

-----------------------------------------------------------------------------
(* Statements that fail in the middle of a request.                        *)

\* Errors that are logged and passed over: a failed touch, a failed check for
\* revocation, which lets the request through, and a failed look-up of the link.
AfterIgnoredError == [touchLogin |-> "createCode", checkRevoked |-> "loadUser",
                      priorLogin |-> "rotate", touchPrior |-> "rotate"]

IgnoredError(p) ==
  /\ "dbFail" \in Operations
  /\ pc[p] \in DOMAIN AfterIgnoredError
  /\ Goto(p, AfterIgnoredError[pc[p]])
  /\ UNCHANGED <<tables, req, pending, sweeper, clocks, history>>

\* Errors that end the request: a replay that revokes nothing, a code or refresh
\* token that is spent or not for nothing, a tokens row without a sessions row.
FatalError(p) ==
  /\ "dbFail" \in Operations
  /\ pc[p] \in {"replayCode", "markUsed", "loadUser", "replayRefresh", "rotate",
                 "insertToken", "insertSession", "revokeOthers"}
  /\ Respond(p)
  /\ UNCHANGED <<tables, pending, sweeper, clocks, history>>

-----------------------------------------------------------------------------
(* Logout and revocation: one statement or transaction each.               *)

\* /oauth2/logout takes the id from the cookie, whatever became of the row;
\* account and admin sign-out look the row up first and then do the same.
Logout(l) ==
  /\ "logout" \in Operations
  /\ login[l] # "free"
  /\ DeactivateWithCascade(l)
  /\ UNCHANGED <<requests, pending, sweeper, clocks, history>>

\* /oauth2/revoke and the admin API, by either token value of the grant.
RevokeToken(g) ==
  /\ "revoke" \in Operations
  /\ TokenExists(g)
  /\ token' = [token EXCEPT ![g].st = "revoked"]
  /\ UNCHANGED <<user, login, code, session, requests, pending, sweeper, clocks, history>>

DeactivateSession(g) ==
  /\ "endSession" \in Operations
  /\ SessionExists(g)
  /\ session' = [session EXCEPT ![g].st = "deactivated"]
  /\ UNCHANGED <<user, login, code, token, requests, pending, sweeper, clocks, history>>

-----------------------------------------------------------------------------
(* Account operations.                                                     *)

\* The middleware has accepted the caller's bearer g before the handler runs.
RevokeOthersStart(p, g) ==
  /\ Live(g) /\ user[session[g].user] = "active"
  /\ Start(p, "revokeOthers", "revokeOthers",
           [NoRequest EXCEPT !.user = session[g].user, !.parent = g])
  /\ UNCHANGED <<tables, pending, sweeper, clocks, history>>

RevokeOthers(p) ==
  /\ pc[p] = "revokeOthers"
  /\ RevokeUserAccess(req[p].user, req[p].parent)
  /\ Respond(p)
  /\ UNCHANGED <<pending, sweeper, clocks, history>>

\* The admin's "revoke access", and disabling MFA.
RevokeAllAccess(u) ==
  /\ "revokeAll" \in Operations
  /\ RevokeUserAccess(u, None)
  /\ missed' = missed \ {u}
  /\ UNCHANGED <<requests, pending, sweeper, clocks, origin, late>>

\* DeactivateUser: UPDATE users, then the revocation transaction.
DeactivateUser(u) ==
  /\ "deactivate" \in Operations
  /\ user[u] = "active" /\ <<u, "revokeAll">> \notin pending
  /\ user' = [user EXCEPT ![u] = "deactivated"]
  /\ pending' = pending \cup {<<u, "revokeAll">>}
  /\ UNCHANGED <<login, code, token, session, requests, sweeper, clocks, history>>

\* Mutant: the statement of the code replay is used for the revocation.
DeactivateUserRevokeCodeGrants(u) ==
  /\ <<u, "revokeAll">> \in pending
  /\ RevokeTokensByUserAndClient(u)
  /\ pending' = pending \ {<<u, "revokeAll">>}
  /\ missed' = missed \ {u}
  /\ UNCHANGED <<user, login, code, session, requests, sweeper, clocks, origin, late>>

DeactivateUserRevoke(u) ==
  /\ <<u, "revokeAll">> \in pending
  /\ RevokeUserAccess(u, None)
  /\ pending' = pending \ {<<u, "revokeAll">>}
  /\ missed' = missed \ {u}
  /\ UNCHANGED <<requests, sweeper, clocks, origin, late>>

\* The transaction fails.  Calling
\* DeactivateUser again is refused: the user is deactivated already.
DeactivateUserRevokeFails(u) ==
  /\ "dbFail" \in Operations
  /\ <<u, "revokeAll">> \in pending
  /\ pending' = pending \ {<<u, "revokeAll">>}
  /\ missed' = missed \cup {u}
  /\ UNCHANGED <<tables, requests, sweeper, clocks, origin, late>>

ReactivateUser(u) ==
  /\ "deactivate" \in Operations
  /\ user[u] = "deactivated"
  /\ user' = [user EXCEPT ![u] = "active"]
  /\ UNCHANGED <<login, code, token, session, requests, pending, sweeper, clocks, history>>

\* A password reset deactivates the sessions and then, in a statement of its
\* own, the logins; a forced change runs the whole revocation first.
PasswordReset(u) ==
  /\ "reset" \in Operations
  /\ <<u, "dropLogins">> \notin pending
  /\ session' = Deactivated(SessionsOfUser(u))
  /\ pending' = pending \cup {<<u, "dropLogins">>}
  /\ UNCHANGED <<user, login, code, token, requests, sweeper, clocks, history>>

ForcedPasswordChange(u) ==
  /\ "reset" \in Operations
  /\ user[u] = "active" /\ <<u, "dropLogins">> \notin pending
  /\ RevokeUserAccess(u, None)
  /\ pending' = pending \cup {<<u, "dropLogins">>}
  /\ missed' = missed \ {u}
  /\ UNCHANGED <<requests, sweeper, clocks, origin, late>>

\* Both ignore an error of the first statement and run the second all the same.
PasswordResetMisses(u) ==
  /\ {"reset", "dbFail"} \subseteq Operations
  /\ <<u, "dropLogins">> \notin pending
  /\ pending' = pending \cup {<<u, "dropLogins">>}
  /\ missed' = missed \cup {u}
  /\ UNCHANGED <<tables, requests, sweeper, clocks, origin, late>>

\* idpsession.DeactivateAllForUser
DropLogins(u) ==
  /\ <<u, "dropLogins">> \in pending
  /\ login' = ClosedLogins(LoginsOf(u))
  /\ pending' = pending \ {<<u, "dropLogins">>}
  /\ UNCHANGED <<user, code, token, session, requests, sweeper, clocks, history>>

DropLoginsFails(u) ==
  /\ "dbFail" \in Operations
  /\ <<u, "dropLogins">> \in pending
  /\ pending' = pending \ {<<u, "dropLogins">>}
  /\ UNCHANGED <<tables, requests, sweeper, clocks, history>>

-----------------------------------------------------------------------------
(* The process stops and starts again: the tables are what is left.        *)

Crash ==
  /\ "crash" \in Operations
  /\ pc' = [p \in Procs |-> "ready"]
  /\ req' = [p \in Procs |-> NoRequest]
  /\ pending' = {}
  /\ missed' = missed \cup {u \in Users : <<u, "revokeAll">> \in pending}
  /\ sweepPc' = "rest" /\ sweepIds' = {}
  /\ UNCHANGED <<tables, clocks, origin, late>>

-----------------------------------------------------------------------------
(* Time.  Lifetimes are abstracted to the order in which they run out: an  *)
(* access token and the retention period (15m + 24h) before the refresh    *)
(* token (30 days), and no request lasts as long as a retention period.    *)

LoginGoesIdle(l) ==
  /\ "clock" \in Operations /\ LoginActive(l)
  /\ idle' = idle \cup {l}
  /\ UNCHANGED <<tables, requests, pending, sweeper, overage, lapsed, expired, oldCodes, history>>

LoginGetsOld(l) ==
  /\ "clock" \in Operations /\ LoginActive(l)
  /\ overage' = overage \cup {l}
  /\ UNCHANGED <<tables, requests, pending, sweeper, idle, lapsed, expired, oldCodes, history>>

CodeGetsOld(c) ==
  /\ "clock" \in Operations /\ code[c].st # "free"
  /\ oldCodes' = oldCodes \cup {c}
  /\ UNCHANGED <<tables, requests, pending, sweeper, idle, overage, lapsed, expired, history>>

AccessLapses(g) ==
  /\ "clock" \in Operations /\ token[g].st # "free"
  /\ \A p \in Procs : req[p].grant # g
  /\ lapsed' = lapsed \cup {g}
  /\ UNCHANGED <<tables, requests, pending, sweeper, idle, overage, expired, oldCodes, history>>

RefreshExpires(g) ==
  /\ "clock" \in Operations /\ g \in lapsed
  /\ expired' = expired \cup {g}
  /\ UNCHANGED <<tables, requests, pending, sweeper, idle, overage, lapsed, oldCodes, history>>

-----------------------------------------------------------------------------
(* The cleanup goroutine: cleanup.Run, one tick after the other.           *)

SweepTo(stage, ids) == sweepPc' = stage /\ sweepIds' = ids

\* Mutant: the comparison with the cutoff is the wrong way round.
SweepFreshIds ==
  /\ "sweep" \in Operations
  /\ sweepPc = "rest"
  /\ SweepTo("idleIds", {l \in Logins \ idle : login[l] = "active"})
  /\ UNCHANGED <<tables, requests, pending, clocks, history>>

SweepIdleIds ==
  /\ "sweep" \in Operations
  /\ sweepPc = "rest"
  /\ SweepTo("idleIds", {l \in idle : login[l] = "active"})
  /\ UNCHANGED <<tables, requests, pending, clocks, history>>

\* The ids were read before: what happened to the login since does not matter.
SweepCascade(l) ==
  /\ l \in sweepIds
  /\ DeactivateWithCascade(l)
  /\ SweepTo(sweepPc, sweepIds \ {l})
  /\ UNCHANGED <<requests, pending, clocks, history>>

SweepMaxAgeIds ==
  /\ sweepPc = "idleIds" /\ sweepIds = {}
  /\ SweepTo("maxAgeIds", {l \in overage : login[l] = "active"})
  /\ UNCHANGED <<tables, requests, pending, clocks, history>>

\* A whole retention after the expiry no request still holds the row.
SweepCodes ==
  /\ sweepPc = "maxAgeIds" /\ sweepIds = {}
  /\ \E gone \in SUBSET {c \in oldCodes : CodeExists(c) /\ \A p \in Procs : req[p].code # c} :
       code' = [c \in Codes |-> IF c \in gone THEN [code[c] EXCEPT !.st = "deleted"]
                                ELSE code[c]]
  /\ SweepTo("tokens", {})
  /\ UNCHANGED <<user, login, token, session, requests, pending, clocks, history>>

SweepTokens ==
  /\ sweepPc = "tokens"
  /\ \E gone \in SUBSET {g \in expired : TokenExists(g) /\ \A p \in Procs : ~Holds(p, g)} :
       token' = [g \in Grants |-> IF g \in gone THEN [token[g] EXCEPT !.st = "deleted"]
                                  ELSE token[g]]
  /\ SweepTo("sessions", {})
  /\ UNCHANGED <<user, login, code, session, requests, pending, clocks, history>>

\* sessions.expires_at is the expiry of the access token.
SweepSessions ==
  /\ sweepPc = "sessions"
  /\ session' = [g \in Grants |-> IF g \in lapsed /\ SessionExists(g)
                                  THEN [session[g] EXCEPT !.st = "deleted"] ELSE session[g]]
  /\ SweepTo("logins", {})
  /\ UNCHANGED <<user, login, code, token, requests, pending, clocks, history>>

SweepLogins ==
  /\ sweepPc = "logins"
  /\ \E gone \in SUBSET {l \in Logins : login[l] = "deactivated"} :
       login' = [l \in Logins |-> IF l \in gone THEN "deleted" ELSE login[l]]
  /\ SweepTo("rest", {})
  /\ UNCHANGED <<user, code, token, session, requests, pending, clocks, history>>

\* A failed SELECT yields no ids, a failed cascade gives up the ids after it,
\* and a failed DELETE is passed over.
SweepFails ==
  /\ {"sweep", "sweepFail"} \subseteq Operations
  /\ \/ sweepPc = "rest" /\ SweepTo("idleIds", {})
     \/ sweepIds # {} /\ SweepTo(sweepPc, {})
     \/ sweepPc = "idleIds" /\ sweepIds = {} /\ SweepTo("maxAgeIds", {})
     \/ sweepPc = "sessions" /\ SweepTo("logins", {})
  /\ UNCHANGED <<tables, requests, pending, clocks, history>>

-----------------------------------------------------------------------------
RequestStep(p) ==
  \/ LoginInsert(p) \/ LoginInsertFails(p) \/ AuthorizeTouch(p)
  \/ (\E c \in Codes : CreateAuthCode(p, c)) \/ NoAuthCode(p)
  \/ ReplayedCode(p) \/ MarkAuthCodeAsUsed(p) \/ LoadUser(p)
  \/ CheckRevoked(p) \/ ReplayedRefreshToken(p) \/ RefreshNeedsMfa(p)
  \/ ReadPriorLogin(p) \/ TouchPriorLogin(p) \/ RotateRefreshToken(p)
  \/ (\E g \in Grants : CreateToken(p, g)) \/ CreateSession(p) \/ RevokeOthers(p)
  \/ IgnoredError(p) \/ FatalError(p)

RequestStart(p) ==
  \/ \E l \in Logins : LoginAuthenticate(p, l) \/ AuthorizeRead(p, l) \/ ConsentRead(p, l)
  \/ \E c \in Codes : ExchangeRead(p, c)
  \/ \E u \in Users : DirectGrant(p, u)
  \/ \E g \in Grants : RefreshReadSession(p, g) \/ RevokeOthersStart(p, g)

Revocation ==
  \/ \E l \in Logins : Logout(l)
  \/ \E g \in Grants : RevokeToken(g) \/ DeactivateSession(g)

DeactivateUserSecond(u) == DeactivateUserRevoke(u) \/ DeactivateUserRevokeFails(u)

DropLoginsSecond(u) == DropLogins(u) \/ DropLoginsFails(u)

AccountStep(u) == DeactivateUserSecond(u) \/ DropLoginsSecond(u)

AccountStart(u) ==
  \/ RevokeAllAccess(u) \/ DeactivateUser(u) \/ ReactivateUser(u)
  \/ PasswordReset(u) \/ ForcedPasswordChange(u) \/ PasswordResetMisses(u)

Clock ==
  \/ \E l \in Logins : LoginGoesIdle(l) \/ LoginGetsOld(l)
  \/ \E c \in Codes : CodeGetsOld(c)
  \/ \E g \in Grants : AccessLapses(g) \/ RefreshExpires(g)

Sweep ==
  \/ SweepIdleIds \/ (\E l \in Logins : SweepCascade(l)) \/ SweepMaxAgeIds
  \/ SweepCodes \/ SweepTokens \/ SweepSessions \/ SweepLogins
  \/ SweepFails

Next ==
  \/ \E p \in Procs : RequestStart(p) \/ RequestStep(p)
  \/ Revocation
  \/ \E u \in Users : AccountStart(u) \/ AccountStep(u)
  \/ Clock
  \/ Sweep
  \/ Crash

Spec == Init /\ [][Next]_vars

\* A goroutine that has started goes on to its next statement, the cleanup
\* goroutine keeps ticking, and an account operation runs its second statement.
Fairness ==
  /\ \A p \in Procs : WF_vars(RequestStep(p))
  /\ \A u \in Users : WF_vars(DeactivateUserSecond(u)) /\ WF_vars(DropLoginsSecond(u))
  /\ WF_vars(Sweep)

FairSpec == Spec /\ Fairness

-----------------------------------------------------------------------------
(* Properties.                                                             *)

\* Type invariant: the shape of every table, request and history variable.
TypeOK ==
  /\ TablesType
  /\ pc \in [Procs -> PcLabels]
  /\ req \in [Procs -> Request]
  /\ pending \subseteq Users \X {"revokeAll", "dropLogins"}
  /\ sweepPc \in SweepStages /\ sweepIds \subseteq Logins
  /\ idle \subseteq Logins /\ overage \subseteq Logins
  /\ lapsed \subseteq Grants /\ expired \subseteq Grants /\ oldCodes \subseteq Codes
  /\ origin \in [Grants -> [code : Codes \cup {None}, parent : Grants \cup {None}]]
  /\ late \subseteq Grants /\ missed \subseteq Users

\* Rotation retires the parent: once a grant was issued from a refresh token,
\* that token is revoked (or purged), whatever ran between the UPDATE of the
\* rotation and the INSERT of the new row.
RotatedParentRetired ==
  \A g \in Grants : LET h == origin[g].parent
                    IN  h # None => token[h].st \in {"revoked", "deleted"}

\* A code that yielded a grant can no longer be redeemed by a request that
\* arrives from now on: it is marked used, or purged.
RedeemedCodeSpent ==
  \A g \in Grants : LET c == origin[g].code
                    IN  c # None => code[c].st \in {"used", "deleted"}

\* Every revocation of a browser login (cascade, sweeper, account operations)
\* reaches every grant born from it: a live grant whose login is closed was
\* inserted after the closing, by a request already past its checks or from a
\* code that was still outstanding, or a revocation of its user failed.
CascadeComplete ==
  \A g \in Grants : LET l == session[g].login
                    IN  Live(g) /\ l # None /\ login[l] # "active"
                          => g \in late \/ session[g].user \in missed

\* The same for a deactivated user, once the second statement of
\* DeactivateUser has run and has not failed.
DeactivationComplete ==
  \A g \in Grants : LET u == session[g].user
                    IN  /\ Live(g)
                        /\ user[u] = "deactivated"
                        /\ <<u, "revokeAll">> \notin pending
                        => g \in late \/ u \in missed

\* The link to the browser login survives code exchange and refresh: a session
\* carries the login of its code, or of the session it was refreshed from,
\* except when cleanup deleted that session in the middle of the refresh or the
\* look-up failed; it never carries another login.
Inherited(g) ==
  LET o == origin[g]
  IN  IF o.code # None THEN code[o.code].login
      ELSE IF o.parent # None THEN session[o.parent].login ELSE None

LinkInherited ==
  \A g \in Grants :
    session[g].st # "free" =>
      \/ session[g].login = Inherited(g)
      \/ /\ session[g].login = None
         /\ origin[g].parent # None
         /\ session[origin[g].parent].st = "deleted" \/ "dbFail" \in Operations

\* Concurrency is the only way to redeem a code or a refresh token twice: one
\* code, or one refresh token, never yields more grants than there are
\* requests that can be in flight together, unless the look at a refresh token's
\* revocation fails, which lets the request through.
RedemptionsBounded ==
  /\ \A c \in Codes : Cardinality({g \in Grants : origin[g].code = c})
                        <= Cardinality(Procs)
  /\ \/ "dbFail" \in Operations
     \/ \A h \in Grants : Cardinality({g \in Grants : origin[g].parent = h})
                            <= Cardinality(Procs)

\* Refinement: tokens and sessions together are the registry of grants.
Registry ==
  INSTANCE GrantRegistry WITH
    stage <- [g \in Grants |->
                IF token[g].st = "free" THEN "absent"
                ELSE IF token[g].st # "valid" \/ session[g].st \in {"deactivated", "deleted"}
                     THEN "ended"
                     ELSE IF session[g].st = "active" THEN "live" ELSE "pending"],
    subject <- [g \in Grants |-> token[g].user],
    parent <- [g \in Grants |-> origin[g].parent]

RegistrySpec == Registry!Spec

\* The idle sweeper reads its ids once per tick and closes what it read: an
\* idle login does not stay open for ever, unless activity is recorded first.
IdleLoginCloses ==
  \A l \in Logins : LoginActive(l) /\ l \in idle ~> ~LoginActive(l) \/ l \notin idle

\* Deactivating a user ends the grants the user had: each dies, or the failure
\* of the second statement is what kept it (or an admin reactivates the user).
DeactivationSettles ==
  \A g \in Grants :
    /\ Live(g) /\ g \notin late
    /\ user[session[g].user] = "deactivated"
    ~> \/ ~Live(g)
       \/ user[session[g].user] = "active"
       \/ session[g].user \in missed
=============================================================================
