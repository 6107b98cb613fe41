------------------------------- MODULE Consent -------------------------------
(***************************************************************************)
(* The end of every way to sign in: a browser login, the consent of the    *)
(* user, an authorization code.  One user, one browser, one client that    *)
(* requires consent.                                                       *)
(***************************************************************************)
EXTENDS Integers, FiniteSets

CONSTANTS
  Procs,        \* request goroutines
  Scopes,
  Asks,         \* what authorization requests ask for: scopes and prompt
  Operations    \* optional behaviour of the instance

ASSUME AsksAssumption ==
  Asks # {} /\ Asks \subseteq [scope : SUBSET Scopes, prompt : {"any", "consent", "login"}]

\* Where the prompt of a request is not looked at any more, it is "any".
Unprompted == {ask \in Asks : ask.prompt = "any"}

VARIABLES
  login,       \* the idp_sessions row the browser's cookie names
  consent,     \* user_consents.scopes of the user and the client; empty without a row
  req,         \* req[p]: what a request holds in local variables
  approved,    \* history: scopes the user has approved, each time
  unapproved   \* history: ways by which a code got scopes never approved together

consentTables == <<login, consent>>
consentHistory == <<approved, unapproved>>
consentVars == <<consentTables, req, consentHistory>>

Steps == {"idle", "finalize", "consent", "approve", "code"}

\* Some ways to sign in look at the user's consent, the others do not: signing
\* up, verifying an address, passkeys and federated identities.
Ways == {"asking", "direct"}

Request == [step : Steps, ask : Asks, way : Ways]

AnyAsk == CHOOSE a \in Asks : TRUE

Idle == [step |-> "idle", ask |-> AnyAsk, way |-> "asking"]

ConsentInit ==
  /\ login = "none" /\ consent = {}
  /\ req = [p \in Procs |-> Idle]
  /\ approved = {} /\ unapproved = {}

-----------------------------------------------------------------------------
At(p, step) == req[p].step = step
GoTo(p, step) == req' = [req EXCEPT ![p].step = step]
Ends(p) == req' = [req EXCEPT ![p] = Idle]
Begins(p, step, ask, way) ==
  req' = [req EXCEPT ![p] = [step |-> step, ask |-> ask, way |-> way]]

Failing == "dbFail" \in Operations

\* The user is who he says: password and second factor, or a passkey, ...
SignedIn(p, ask, way) ==
  /\ At(p, "idle")
  /\ way = "direct" => ask \in Unprompted
  /\ Begins(p, "finalize", ask, way)
  /\ UNCHANGED <<consentTables, consentHistory>>

\* When the row cannot be inserted the sign-in goes on without a login.
FinalizeLogin(p) ==
  /\ At(p, "finalize")
  /\ \/ login' = "active"
     \/ Failing /\ UNCHANGED login
  /\ GoTo(p, IF req[p].way = "asking" THEN "consent" ELSE "code")
  /\ UNCHANGED <<consent, consentHistory>>

\* tryAutoLogin, with the cookie of a browser login that is not too old.
AutoLogin(p, ask) ==
  /\ At(p, "idle") /\ login = "active" /\ ask.prompt # "login"
  /\ Begins(p, "consent", ask, "asking")
  /\ UNCHANGED <<consentTables, consentHistory>>

\* Mutant: any stored consent will do.
AnyConsent(ask) == consent = {} \/ ask.prompt = "consent"

NeedsConsent(ask) ==
  ask.prompt = "consent" \/ \A scopes \in consent : ~(ask.scope \subseteq scopes)

\* The browser is sent to the consent page, or the request goes on.
CheckConsent(p) ==
  /\ At(p, "consent")
  /\ IF NeedsConsent(req[p].ask) THEN Ends(p) ELSE GoTo(p, "code")
  /\ UNCHANGED <<consentTables, consentHistory>>

\* handleConsentPost: the form carries what the page has shown, signed.  The
\* login must not be deactivated; its age is not looked at.
ApproveRead(p, ask) ==
  /\ At(p, "idle") /\ login # "none" /\ ask \in Unprompted
  /\ Begins(p, "approve", ask, "asking")
  /\ UNCHANGED <<consentTables, consentHistory>>

\* The scopes approved now replace the ones before.
UpsertConsent(p) ==
  /\ At(p, "approve")
  /\ consent' = {req[p].ask.scope}
  /\ approved' = approved \cup {req[p].ask.scope}
  /\ GoTo(p, "code")
  /\ UNCHANGED <<login, unapproved>>

CreateAuthCode(p) ==
  LET scope == req[p].ask.scope
  IN  /\ At(p, "code")
      /\ unapproved' = IF \E s \in approved : scope \subseteq s THEN unapproved
                       ELSE unapproved \cup {req[p].way}
      /\ Ends(p)
      /\ UNCHANGED <<consentTables, approved>>

\* A statement fails whose error ends the request; GetConsent's means no consent.
ConsentStatementFails(p) ==
  /\ Failing /\ req[p].step \in {"consent", "approve", "code"}
  /\ Ends(p)
  /\ UNCHANGED <<consentTables, consentHistory>>

\* The browser login gets too old to sign in again, or is closed, or the
\* browser forgets it.
EndLogin(st) ==
  /\ login \in {"active", "stale"} \ {st}
  /\ login' = st
  /\ UNCHANGED <<consent, req, consentHistory>>

ConsentStep(p) ==
  \/ \E ask \in Asks : AutoLogin(p, ask) \/ ApproveRead(p, ask)
  \/ \E ask \in Asks, way \in Ways : SignedIn(p, ask, way)
  \/ FinalizeLogin(p) \/ CheckConsent(p) \/ UpsertConsent(p) \/ CreateAuthCode(p)
  \/ ConsentStatementFails(p)

-----------------------------------------------------------------------------
ConsentTypeOK ==
  /\ login \in {"none", "active", "stale"}
  /\ consent \in {{}} \cup {{s} : s \in SUBSET Scopes}
  /\ req \in [Procs -> Request]
  /\ approved \subseteq SUBSET Scopes /\ unapproved \subseteq Ways

\* Whoever looks at the consent issues codes only for scopes that the user has
\* approved together, although consent is read, overwritten and used in
\* separate statements of separate requests.
CodesConsented == "asking" \notin unapproved
=============================================================================
