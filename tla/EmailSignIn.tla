----------------------------- MODULE EmailSignIn -----------------------------
(***************************************************************************)
(* Rows that are good once: the links that are mailed to a user, magic     *)
(* links, which sign in, and password reset links, and the challenges of   *)
(* passkey logins.  Composed with Consent, where every way to sign in      *)
(* ends.                                                                   *)
(***************************************************************************)
EXTENDS Consent

CONSTANTS
  Links,     \* ids of magic_link_tokens, password_reset_tokens and passkey_challenges rows
  None

ASSUME ProcsAssumption == IsFiniteSet(Procs) /\ Procs # {}
ASSUME LinksAssumption == IsFiniteSet(Links) /\ None \notin Links

VARIABLES
  link,    \* the three tables
  mail,    \* mail[p]: what a request about a link holds in local variables
  uses,    \* history: sign-ins and password changes each link was good for, while nothing was lost
  lost     \* history: an UPDATE that spends links never happened

linkVars == <<link, mail, uses, lost>>
vars == <<consentVars, linkVars>>

MailKinds == {"magic", "reset"}
PasskeyKinds == {"named", "discoverable"}
Kinds == MailKinds \cup PasskeyKinds

\* No row yet, a row good for its kind, or a row used or expired: every request
\* refuses that.
LinkRow == {"none", "spent"} \cup Kinds

MailSteps == {"idle", "invalidate", "create", "markUsed", "update", "markReset", "logins"}

Mail == [step : MailSteps, kind : Kinds, link : Links \cup {None}]

NoMail == [step |-> "idle", kind |-> "magic", link |-> None]

Unused == [l \in Links |-> 0]

Init ==
  /\ ConsentInit
  /\ link = [l \in Links |-> "none"]
  /\ mail = [p \in Procs |-> NoMail]
  /\ uses = Unused /\ lost = FALSE

-----------------------------------------------------------------------------
Mailing(p, step) == mail[p].step = step
MailTo(p, step) == mail' = [mail EXCEPT ![p].step = step]
MailEnds(p) == mail' = [mail EXCEPT ![p] = NoMail]
Free(p) == At(p, "idle") /\ Mailing(p, "idle")

Valid(kind) == {l \in Links : link[l] = kind}

\* Mutant: used and expired links are told apart.
SpendUsed(ls) == link' = [l \in Links |-> IF l \in ls THEN "used" ELSE link[l]]

Spend(ls) == link' = [l \in Links |-> IF l \in ls THEN "spent" ELSE link[l]]

\* The history counts while every link was spent that should have been.
Used(l) == uses' = IF lost' THEN Unused ELSE [uses EXCEPT ![l] = @ + 1]
NotUsed == uses' = IF lost' THEN Unused ELSE uses

\* An UPDATE whose error is only logged.
Spends(ls) ==
  \/ Spend(ls) /\ UNCHANGED lost
  \/ Failing /\ lost' = TRUE /\ UNCHANGED link

-----------------------------------------------------------------------------
(* Asking for a link.                                                      *)

RequestLink(p, kind) ==
  /\ Free(p)
  /\ mail' = [mail EXCEPT ![p] = [NoMail EXCEPT !.step = "invalidate", !.kind = kind]]
  /\ UNCHANGED <<consentVars, link, uses, lost>>

\* The user was found, active and with a verified address; nobody else learns it.
HandleMagicLink(p) == RequestLink(p, "magic")
HandleForgotPassword(p) == RequestLink(p, "reset")

\* Mutant: links sent before stay good.
KeepPreviousTokens(p) ==
  Mailing(p, "invalidate") /\ MailTo(p, "create") /\ UNCHANGED <<consentVars, link, uses, lost>>

InvalidatePreviousTokens(p) ==
  /\ Mailing(p, "invalidate")
  /\ Spends(Valid(mail[p].kind)) /\ NotUsed
  /\ MailTo(p, "create")
  /\ UNCHANGED consentVars

CreateLinkToken(p, l) ==
  /\ Mailing(p, "create") /\ link[l] = "none"
  /\ link' = [link EXCEPT ![l] = mail[p].kind]
  /\ MailEnds(p)
  /\ UNCHANGED <<consentVars, uses, lost>>

\* A passkey login begins: the challenges before it stay good.
BeginPasskey(p, kind) ==
  /\ Free(p)
  /\ mail' = [mail EXCEPT ![p] = [NoMail EXCEPT !.step = "create", !.kind = kind]]
  /\ UNCHANGED <<consentVars, link, uses, lost>>

\* The user is named and has passkeys, or the authenticator tells who he is.
HandleLoginBegin(p) == BeginPasskey(p, "named")
HandleDiscoverableLoginBegin(p) == BeginPasskey(p, "discoverable")

-----------------------------------------------------------------------------
(* Following a link, or answering a challenge.                             *)

\* Mutant: used_at is not looked at.
AnyLink(l, kind) == link[l] \in {kind, "spent"}

\* The row is neither used nor expired.
Usable(l, kind) == link[l] = kind

OpenLink(p, l, kind, step) ==
  /\ Free(p) /\ Usable(l, kind)
  /\ mail' = [mail EXCEPT ![p] = [step |-> step, kind |-> kind, link |-> l]]
  /\ UNCHANGED <<consentVars, link, uses, lost>>

\* Or the code of the same mail: HandleMagicLinkVerifyCode.
HandleMagicLinkVerify(p, l) == OpenLink(p, l, "magic", "markUsed")
HandleResetPassword(p, l) == OpenLink(p, l, "reset", "update")

\* The answer is right; a wrong one leaves the row as it is.  Each of the two
\* refuses the other's challenges.
HandleLoginFinish(p, l) == OpenLink(p, l, "named", "markUsed")
HandleDiscoverableLoginFinish(p, l) == OpenLink(p, l, "discoverable", "markUsed")

\* The sign-in goes on without the prompt of the request, or a second factor is
\* asked for, which ends here; or the client or the user is refused.
CompleteLogin(p) ==
  \/ \E ask \in Unprompted : Begins(p, "finalize", ask, "asking")
  \/ UNCHANGED req

\* A passkey stands for the second factor, and nobody looks at the consent.
CompleteAuthFlow(p) == \E ask \in Unprompted : Begins(p, "finalize", ask, "direct")

MarkUsed(p, kinds) ==
  /\ Mailing(p, "markUsed") /\ mail[p].kind \in kinds
  /\ Spends({mail[p].link})
  /\ Used(mail[p].link)
  /\ MailEnds(p)
  /\ UNCHANGED <<consentTables, consentHistory>>

MarkTokenUsed(p) == MarkUsed(p, MailKinds) /\ CompleteLogin(p)
MarkPasskeyChallengeUsed(p) == MarkUsed(p, PasskeyKinds) /\ CompleteAuthFlow(p)

UpdatePassword(p) ==
  /\ Mailing(p, "update")
  /\ UNCHANGED <<consentVars, link, lost>>
  /\ Used(mail[p].link)
  /\ MailTo(p, "markReset")

\* The token is marked after the password was changed.
MarkResetUsed(p) ==
  /\ Mailing(p, "markReset")
  /\ Spends({mail[p].link}) /\ NotUsed
  /\ MailTo(p, "logins")
  /\ UNCHANGED consentVars

\* deactivateUserSessions and DeactivateAllForUser, whose errors are ignored.
DeactivateLogins(p) ==
  /\ Mailing(p, "logins")
  /\ \/ login' = "none"
     \/ Failing /\ UNCHANGED login
  /\ MailEnds(p)
  /\ UNCHANGED <<consent, req, consentHistory, link, uses, lost>>

\* A statement fails whose error ends the request.
MailStatementFails(p) ==
  /\ Failing /\ mail[p].step \in {"create", "update"}
  /\ MailEnds(p)
  /\ UNCHANGED <<consentVars, link, uses, lost>>

\* A link expires, or is purged.
Expire(l) ==
  /\ link[l] \in Kinds
  /\ Spend({l})
  /\ UNCHANGED <<consentVars, mail, uses, lost>>

\* The server stops and starts again: what was owed is never done.
Crash ==
  /\ "crash" \in Operations /\ \E p \in Procs : ~Free(p)
  /\ req' = [p \in Procs |-> Idle] /\ mail' = [p \in Procs |-> NoMail]
  /\ lost' = (lost \/ \E p \in Procs : Mailing(p, "markReset"))
  /\ NotUsed
  /\ UNCHANGED <<consentTables, consentHistory, link>>

-----------------------------------------------------------------------------
MailStep(p) ==
  \/ HandleMagicLink(p) \/ HandleForgotPassword(p) \/ InvalidatePreviousTokens(p)
  \/ HandleLoginBegin(p) \/ HandleDiscoverableLoginBegin(p)
  \/ \E l \in Links :
       \/ CreateLinkToken(p, l) \/ HandleMagicLinkVerify(p, l) \/ HandleResetPassword(p, l)
       \/ HandleLoginFinish(p, l) \/ HandleDiscoverableLoginFinish(p, l)
  \/ MarkTokenUsed(p) \/ MarkPasskeyChallengeUsed(p)
  \/ UpdatePassword(p) \/ MarkResetUsed(p) \/ DeactivateLogins(p)
  \/ MailStatementFails(p)

Next ==
  \/ \E p \in Procs : Mailing(p, "idle") /\ ConsentStep(p) /\ UNCHANGED linkVars
  \/ \E st \in {"stale", "none"} : EndLogin(st) /\ UNCHANGED linkVars
  \/ \E p \in Procs : MailStep(p)
  \/ \E l \in Links : Expire(l)
  \/ Crash

Spec == Init /\ [][Next]_vars

-----------------------------------------------------------------------------
\* Rows, requests and histories have the shape the code gives them.
TypeOK ==
  /\ ConsentTypeOK
  /\ link \in [Links -> LinkRow]
  /\ mail \in [Procs -> Mail]
  /\ uses \in [Links -> Nat] /\ lost \in BOOLEAN

\* A link is good only for requests that overlap: it is read as unused, used,
\* and marked in separate statements, and the mark is unconditional; a request
\* that starts after the mark is refused.
LinkSpent == lost \/ \A l \in Links : uses[l] <= Cardinality(Procs)

\* Only the latest link of a kind is good, or the latest of requests that
\* overlap: each invalidates what was there before it creates its own.
LinksBounded ==
  lost \/ \A kind \in MailKinds : Cardinality(Valid(kind)) <= Cardinality(Procs)

\* Refinement: a link or a passkey challenge is good once.  A request that found
\* it good will use it, and owes the mark between a password change and it.
LinkStage(l) == IF link[l] \in Kinds THEN "good" ELSE link[l]
LinkStages == [l \in Links |-> LinkStage(l)]
LinkHolders(steps) ==
  {h \in Procs \X Links : mail[h[1]].link = h[2] /\ mail[h[1]].step \in steps}
WillUse == LinkHolders({"markUsed", "update"})
Owes == LinkHolders({"markReset"})
NoLosses == {"dbFail", "crash"} \cap Operations = {}

OneTime ==
  INSTANCE OneTimeToken WITH
    Tokens <- Links, Reliable <- NoLosses, stage <- LinkStages, found <- WillUse, owed <- Owes

\* A link works only for requests that have read it before it was marked (magiclink,
\* passwordreset and passkey handlers).
LinksGoodOnce == OneTime!Spec
=============================================================================
