---------------------------- MODULE SessionStore ----------------------------
(***************************************************************************)
(* The five tables that decide whether a bearer is honoured: users,        *)
(* idp_sessions, auth_codes, tokens and sessions, and the SQL statements   *)
(* that change several of their rows at once.                              *)
(*                                                                         *)
(* GenerateTokens mints one id, one access token and one refresh token     *)
(* together; a member of Grants is that triple, so a tokens row and a      *)
(* sessions row of the same grant share their access and refresh token.    *)
(* Rows are never reused: a free row is one that was not inserted yet.     *)
(***************************************************************************)
EXTENDS FiniteSets

CONSTANTS
  Users,     \* rows of users
  Logins,    \* rows of idp_sessions: one browser sign-in each
  Codes,     \* rows of auth_codes
  Grants,    \* access/refresh token pairs
  Owner,     \* Owner[l]: the user who signs in when login l is created
  None       \* SQL NULL, and "not loaded" in a request

ASSUME OwnerAssumption == Owner \in [Logins -> Users]
ASSUME NoneAssumption == None \notin Users \cup Logins \cup Codes \cup Grants

VARIABLES
  user,      \* user[u]: users.deactivated_at IS NULL or not
  login,     \* login[l]: state of the idp_sessions row
  code,      \* code[c]: auth_codes row
  token,     \* token[g]: tokens row
  session    \* session[g]: sessions row

tables == <<user, login, code, token, session>>

\* "direct": password and device_code, which no statement tells apart.
GrantTypes == {"authorization_code", "refresh_token", "direct"}

UserState == {"active", "deactivated"}
LoginState == {"free", "active", "deactivated", "deleted"}
CodeRow == [st : {"free", "unused", "used", "deleted"},
            user : Users \cup {None}, login : Logins \cup {None}]
TokenRow == [st : {"free", "valid", "revoked", "deleted"},
             user : Users \cup {None}, type : GrantTypes \cup {None}]
SessionRow == [st : {"free", "active", "deactivated", "deleted"},
               user : Users \cup {None}, login : Logins \cup {None}]

TablesType ==
  /\ user \in [Users -> UserState]
  /\ login \in [Logins -> LoginState]
  /\ code \in [Codes -> CodeRow]
  /\ token \in [Grants -> TokenRow]
  /\ session \in [Grants -> SessionRow]

TablesInit ==
  /\ user = [u \in Users |-> "active"]
  /\ login = [l \in Logins |-> "free"]
  /\ code = [c \in Codes |-> [st |-> "free", user |-> None, login |-> None]]
  /\ token = [g \in Grants |-> [st |-> "free", user |-> None, type |-> None]]
  /\ session = [g \in Grants |-> [st |-> "free", user |-> None, login |-> None]]

-----------------------------------------------------------------------------
(* WHERE clauses. *)

CodeExists(c) == code[c].st \in {"unused", "used"}
TokenExists(g) == token[g].st \in {"valid", "revoked"}
SessionExists(g) == session[g].st \in {"active", "deactivated"}
LoginActive(l) == l # None /\ login[l] = "active"

\* ValidateBearer (and introspection) honour g: its sessions row is active and
\* its tokens row is not revoked.  JWT expiry comes on top and only ever ends it.
Live(g) == session[g].st = "active" /\ token[g].st = "valid"

SessionsOfUser(u) == {g \in Grants : SessionExists(g) /\ session[g].user = u}
TokensOfUser(u) == {g \in Grants : TokenExists(g) /\ token[g].user = u}
SessionsOfLogin(l) == {g \in Grants : SessionExists(g) /\ session[g].login = l}
LoginsOf(u) == {l \in Logins : Owner[l] = u}

-----------------------------------------------------------------------------
(* Bulk UPDATEs: each leaves rows that already carry a revoked_at or       *)
(* deactivated_at alone.                                                   *)

Revoked(S) ==
  [g \in Grants |-> IF g \in S /\ token[g].st = "valid"
                    THEN [token[g] EXCEPT !.st = "revoked"] ELSE token[g]]

Deactivated(S) ==
  [g \in Grants |-> IF g \in S /\ session[g].st = "active"
                    THEN [session[g] EXCEPT !.st = "deactivated"] ELSE session[g]]

ClosedLogins(S) ==
  [l \in Logins |-> IF l \in S /\ login[l] = "active" THEN "deactivated" ELSE login[l]]

\* RevokeTokensByUserAndClient: the client is ignored, only rows of the code
\* grant are revoked.
RevokeTokensByUserAndClient(u) ==
  token' = Revoked({g \in TokensOfUser(u) : token[g].type = "authorization_code"})

\* Mutant: the transaction closes the login and forgets what hangs on it.
DeactivateLoginOnly(l) ==
  /\ login' = ClosedLogins({l})
  /\ UNCHANGED <<user, code, token, session>>

\* DeactivateWithCascade, one transaction: the login, the sessions linked to it,
\* and the tokens that share an access token with one of those sessions.
DeactivateWithCascade(l) ==
  /\ login' = ClosedLogins({l})
  /\ session' = Deactivated(SessionsOfLogin(l))
  /\ token' = Revoked(SessionsOfLogin(l))
  /\ UNCHANGED <<user, code>>

\* Mutant: the NOT IN that spares the login of the kept session is dropped.
RevokeClosingEveryLogin(u, keep) ==
  /\ token' = Revoked(TokensOfUser(u) \ {keep})
  /\ session' = Deactivated(SessionsOfUser(u) \ {keep})
  /\ login' = ClosedLogins(LoginsOf(u))
  /\ UNCHANGED <<user, code>>

\* revokeUserAccess, one transaction: everything of u except the grant keep
\* (None keeps nothing); a login with a session left active stays active.
RevokeUserAccess(u, keep) ==
  /\ token' = Revoked(TokensOfUser(u) \ {keep})
  /\ session' = Deactivated(SessionsOfUser(u) \ {keep})
  /\ LET kept == {session[g].login : g \in {h \in SessionsOfUser(u) :
                                              h = keep /\ session[h].st = "active"}}
     IN  login' = ClosedLogins(LoginsOf(u) \ kept)
  /\ UNCHANGED <<user, code>>
=============================================================================
