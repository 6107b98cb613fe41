------------------------- MODULE EmailSignInProofs -------------------------
(***************************************************************************)
(* Links that are good once, and codes only for scopes that were approved, *)
(* for every number of requests, links and scopes.                         *)
(***************************************************************************)
EXTENDS EmailSignIn, FiniteSetTheorems, TLAPS

USE AsksAssumption, ProcsAssumption, LinksAssumption

P == Cardinality(Procs)

\* A request that has looked at the consent, and is to issue a code, asks for
\* scopes that were approved together.
Covered(r) ==
  /\ r.step = "code" /\ r.way = "asking" => \E s \in approved : r.ask.scope \subseteq s
  /\ r.step \in {"consent", "approve"} => r.way = "asking"

ConsentInv ==
  /\ ConsentTypeOK
  /\ consent \subseteq approved
  /\ \A p \in Procs : Covered(req[p])
  /\ CodesConsented

\* Requests that will use a link, and requests that have used it unmarked.
Will(l) == {p \in Procs : mail[p].link = l /\ mail[p].step \in {"markUsed", "update"}}
Did(l) == {p \in Procs : mail[p].link = l /\ mail[p].step = "markReset"}

\* What a link was good for and what it may still be good for.
UsesLeft(l) ==
  /\ link[l] # "spent" => uses[l] <= Cardinality(Did(l))
  /\ uses[l] + Cardinality(Will(l)) <= P

\* Requests that have invalidated the links before theirs.
Creating(kind) == {p \in Procs : mail[p].step = "create" /\ mail[p].kind = kind}
LinksLeft(kind) == Cardinality(Valid(kind)) + Cardinality(Creating(kind)) <= P

\* A request about a link holds one that was sent.
LinkHeld ==
  \A p \in Procs : mail[p].step \in {"markUsed", "update", "markReset"} =>
    mail[p].link \in Links /\ link[mail[p].link] # "none"

LinkTypeOK ==
  /\ link \in [Links -> LinkRow] /\ mail \in [Procs -> Mail]
  /\ uses \in [Links -> Nat] /\ lost \in BOOLEAN

IInv ==
  /\ ConsentInv /\ LinkTypeOK /\ LinkHeld
  /\ lost \/ \A l \in Links : UsesLeft(l)
  /\ lost \/ \A kind \in MailKinds : LinksLeft(kind)

-----------------------------------------------------------------------------
(* The consent.                                                            *)

LEMMA IdleTypes ==
  /\ Idle \in Request /\ Idle.step = "idle"
  /\ NoMail \in Mail /\ NoMail.step = "idle" /\ NoMail.link = None
<1>1. AnyAsk \in Asks
  BY DEF AnyAsk
<1>2. QED  BY <1>1 DEF Idle, Request, Steps, Ways, NoMail, Mail, MailSteps, Kinds, MailKinds

\* The consent stays true of the requests when one of them moves on.
LEMMA RequestMoves ==
  ASSUME ConsentInv, NEW p \in Procs, NEW r \in Request, req' = [req EXCEPT ![p] = r],
         approved \subseteq approved', Covered(r)'
  PROVE  req' \in [Procs -> Request] /\ \A q \in Procs : Covered(req[q])'
<1>1. req' \in [Procs -> Request]
  BY DEF ConsentInv, ConsentTypeOK
<1>2. ASSUME NEW q \in Procs PROVE Covered(req[q])'
  <2>1. CASE q = p
    <3>1. req'[q] = r
      BY <2>1 DEF ConsentInv, ConsentTypeOK
    <3>2. QED  BY <3>1 DEF Covered
  <2>2. CASE q # p
    <3>1. req'[q] = req[q] /\ Covered(req[q])
      BY <2>2 DEF ConsentInv, ConsentTypeOK
    <3>2. QED  BY <3>1 DEF Covered
  <2>3. QED  BY <2>1, <2>2
<1>3. QED  BY <1>1, <1>2

\* A request begins, ends, or goes on without touching the tables.
LEMMA RequestOnly ==
  ASSUME ConsentInv, NEW p \in Procs, NEW r \in Request, req' = [req EXCEPT ![p] = r],
         Covered(r), UNCHANGED <<login, consent, approved, unapproved>>
  PROVE  ConsentInv'
<1>1. Covered(r)'
  BY DEF Covered
<1>2. req' \in [Procs -> Request] /\ \A q \in Procs : Covered(req[q])'
  BY <1>1, RequestMoves
<1>3. QED  BY <1>2 DEF ConsentInv, ConsentTypeOK, CodesConsented

LEMMA ConsentStepKept ==
  ASSUME ConsentInv, NEW p \in Procs, ConsentStep(p)
  PROVE  ConsentInv'
<1>0. /\ req \in [Procs -> Request] /\ req[p] \in Request /\ Covered(req[p])
      /\ login \in {"none", "active", "stale"}
      /\ consent \in {{}} \cup {{s} : s \in SUBSET Scopes} /\ consent \subseteq approved
      /\ approved \subseteq SUBSET Scopes /\ unapproved \subseteq Ways /\ "asking" \notin unapproved
  BY DEF ConsentInv, ConsentTypeOK, CodesConsented
<1>r. /\ req[p].step \in Steps /\ req[p].way \in Ways /\ req[p].ask \in Asks
      /\ req[p].ask.scope \subseteq Scopes
      /\ \A s \in Steps : /\ [req[p] EXCEPT !.step = s] \in Request
                          /\ [req[p] EXCEPT !.step = s].step = s
                          /\ [req[p] EXCEPT !.step = s].way = req[p].way
                          /\ [req[p] EXCEPT !.step = s].ask = req[p].ask
  BY <1>0 DEF Request
<1>b. ASSUME NEW step \in Steps, NEW ask \in Asks, NEW way \in Ways, Begins(p, step, ask, way),
             step # "code", step \in {"consent", "approve"} => way = "asking",
             UNCHANGED <<consentTables, consentHistory>>
      PROVE  ConsentInv'
  <2>1. PICK r \in Request : /\ req' = [req EXCEPT ![p] = r]
                             /\ r.step = step /\ r.way = way
    <3>1. [step |-> step, ask |-> ask, way |-> way] \in Request
      BY DEF Request
    <3>2. QED  BY <1>b, <3>1 DEF Begins
  <2>2. Covered(r)
    BY <1>b, <2>1 DEF Covered
  <2>3. QED  BY <1>b, <2>1, <2>2, RequestOnly DEF consentTables, consentHistory
<1>e. ASSUME Ends(p), UNCHANGED <<consentTables, consentHistory>> PROVE ConsentInv'
  <2>1. Covered(Idle)
    BY IdleTypes DEF Covered
  <2>2. QED  BY <1>e, <2>1, IdleTypes, RequestOnly DEF Ends, consentTables, consentHistory
<1>s. /\ "finalize" \in Steps /\ "consent" \in Steps /\ "approve" \in Steps /\ "code" \in Steps
      /\ "asking" \in Ways /\ Unprompted \subseteq Asks
  BY DEF Steps, Ways, Unprompted
<1>1. ASSUME NEW ask \in Asks, AutoLogin(p, ask) \/ ApproveRead(p, ask) PROVE ConsentInv'
  BY <1>1, <1>b, <1>s DEF AutoLogin, ApproveRead
<1>2. ASSUME NEW ask \in Asks, NEW way \in Ways, SignedIn(p, ask, way) PROVE ConsentInv'
  BY <1>2, <1>b, <1>s DEF SignedIn
<1>3. CASE FinalizeLogin(p)
  <2> DEFINE next == IF req[p].way = "asking" THEN "consent" ELSE "code"
  <2>1. PICK r \in Request : /\ req' = [req EXCEPT ![p] = r]
                             /\ r.step = next /\ r.way = req[p].way
    <3>1. next \in Steps
      BY <1>s
    <3>2. req' = [req EXCEPT ![p].step = next]
      BY <1>3 DEF FinalizeLogin, GoTo
    <3> HIDE DEF next
    <3>3. req' = [req EXCEPT ![p] = [req[p] EXCEPT !.step = next]]
      BY <1>0, <3>2
    <3>4. QED  BY <1>r, <3>1, <3>3
  <2>2. Covered(r)'
    BY <2>1 DEF Covered
  <2>3. approved' = approved /\ unapproved' = unapproved /\ consent' = consent
        /\ login' \in {"none", "active", "stale"}
    BY <1>0, <1>3 DEF FinalizeLogin, consentHistory
  <2>4. req' \in [Procs -> Request] /\ \A q \in Procs : Covered(req[q])'
    BY <2>1, <2>2, <2>3, RequestMoves
  <2>5. QED  BY <1>0, <2>3, <2>4 DEF ConsentInv, ConsentTypeOK, CodesConsented
<1>4. CASE CheckConsent(p)
  <2>1. CASE NeedsConsent(req[p].ask)
    BY <1>4, <1>e, <2>1 DEF CheckConsent
  <2>2. CASE ~NeedsConsent(req[p].ask)
    <3>1. \E s \in approved : req[p].ask.scope \subseteq s
      BY <1>0, <2>2 DEF NeedsConsent
    <3>2. PICK r \in Request : /\ req' = [req EXCEPT ![p] = r]
                               /\ r.step = "code" /\ r.ask = req[p].ask
      BY <1>r, <1>s, <1>4, <2>2 DEF CheckConsent, GoTo
    <3>3. Covered(r)
      BY <3>1, <3>2 DEF Covered
    <3>4. QED  BY <1>4, <3>2, <3>3, RequestOnly DEF CheckConsent, consentTables, consentHistory
  <2>3. QED  BY <2>1, <2>2
<1>5. CASE UpsertConsent(p)
  <2> DEFINE scope == req[p].ask.scope
  <2>1. PICK r \in Request : /\ req' = [req EXCEPT ![p] = r]
                             /\ r.step = "code" /\ r.ask = req[p].ask
    BY <1>r, <1>s, <1>5 DEF UpsertConsent, GoTo
  <2>2. /\ consent' = {scope} /\ approved' = approved \cup {scope}
        /\ login' = login /\ unapproved' = unapproved
    BY <1>5 DEF UpsertConsent
  <2>3. Covered(r)'
    BY <2>1, <2>2 DEF Covered
  <2>4. req' \in [Procs -> Request] /\ \A q \in Procs : Covered(req[q])'
    BY <2>1, <2>2, <2>3, RequestMoves
  <2>5. /\ consent' \in {{}} \cup {{s} : s \in SUBSET Scopes} /\ consent' \subseteq approved'
        /\ approved' \subseteq SUBSET Scopes
    BY <1>0, <1>r, <2>2
  <2>6. QED  BY <1>0, <2>2, <2>4, <2>5 DEF ConsentInv, ConsentTypeOK, CodesConsented
<1>6. CASE CreateAuthCode(p)
  <2>1. Covered(Idle)'
    BY IdleTypes DEF Covered
  <2>2. UNCHANGED <<login, consent, approved>> /\ req' = [req EXCEPT ![p] = Idle]
    BY <1>6 DEF CreateAuthCode, Ends, consentTables
  <2>3. req' \in [Procs -> Request] /\ \A q \in Procs : Covered(req[q])'
    BY <2>1, <2>2, IdleTypes, RequestMoves
  <2>4. unapproved' \subseteq Ways /\ "asking" \notin unapproved'
    BY <1>0, <1>r, <1>6 DEF CreateAuthCode, At, Covered
  <2>5. QED  BY <1>0, <2>2, <2>3, <2>4 DEF ConsentInv, ConsentTypeOK, CodesConsented
<1>7. CASE ConsentStatementFails(p)
  BY <1>7, <1>e DEF ConsentStatementFails
<1>8. QED
  BY <1>1, <1>2, <1>3, <1>4, <1>5, <1>6, <1>7 DEF ConsentStep

\* The requests about links, restarts and the passing of time keep it as well.
LEMMA ConsentKept == IInv /\ [Next]_vars => ConsentInv'
<1> SUFFICES ASSUME IInv, [Next]_vars PROVE ConsentInv'
  OBVIOUS
<1>0. ConsentInv
  BY DEF IInv
<1>1. ASSUME NEW p \in Procs, ConsentStep(p) PROVE ConsentInv'
  BY <1>0, <1>1, ConsentStepKept
<1>2. CASE UNCHANGED consentVars
  BY <1>0, <1>2 DEF consentVars, consentTables, consentHistory, ConsentInv, ConsentTypeOK,
     Covered, CodesConsented
<1>3. ASSUME login' \in {"none", "stale"}, UNCHANGED <<consent, req, approved, unapproved>>
      PROVE  ConsentInv'
  BY <1>0, <1>3 DEF ConsentInv, ConsentTypeOK, Covered, CodesConsented
<1>4. ASSUME NEW p \in Procs, NEW ask \in Unprompted, NEW way \in Ways,
             Begins(p, "finalize", ask, way), UNCHANGED <<consentTables, consentHistory>>
      PROVE  ConsentInv'
  <2>1. [step |-> "finalize", ask |-> ask, way |-> way] \in Request
    BY DEF Request, Unprompted, Steps
  <2>2. PICK r \in Request : req' = [req EXCEPT ![p] = r] /\ r.step = "finalize"
    BY <1>4, <2>1 DEF Begins
  <2>3. Covered(r)
    BY <2>2 DEF Covered
  <2>4. QED  BY <1>0, <1>4, <2>2, <2>3, RequestOnly DEF consentTables, consentHistory
<1>5. CASE Crash
  <2>1. /\ req' = [p \in Procs |-> Idle] /\ UNCHANGED <<login, consent, approved, unapproved>>
    BY <1>5 DEF Crash, consentTables, consentHistory
  <2>2. \A p \in Procs : Covered(req[p])'
    BY <2>1, IdleTypes DEF Covered
  <2>3. QED  BY <1>0, <2>1, <2>2, IdleTypes DEF ConsentInv, ConsentTypeOK, CodesConsented
<1>6. ASSUME NEW p \in Procs, MarkTokenUsed(p) \/ MarkPasskeyChallengeUsed(p) PROVE ConsentInv'
  <2>1. UNCHANGED <<consentTables, consentHistory>>
    BY <1>6 DEF MarkTokenUsed, MarkPasskeyChallengeUsed, MarkUsed
  <2>2. "asking" \in Ways /\ "direct" \in Ways
    BY DEF Ways
  <2>3. CASE UNCHANGED req
    BY <1>2, <2>1, <2>3 DEF consentVars
  <2>4. QED
    BY <1>4, <1>6, <2>1, <2>2, <2>3
    DEF MarkTokenUsed, MarkPasskeyChallengeUsed, CompleteLogin, CompleteAuthFlow
<1>7. ASSUME NEW p \in Procs, MailStep(p) PROVE ConsentInv'
  <2>1. CASE DeactivateLogins(p)
    BY <1>0, <1>2, <1>3, <2>1 DEF DeactivateLogins, consentVars, consentTables, consentHistory
  <2>2. QED
    BY <1>2, <1>6, <1>7, <2>1 DEF MailStep, HandleMagicLink, HandleForgotPassword, RequestLink,
       InvalidatePreviousTokens, HandleLoginBegin, HandleDiscoverableLoginBegin, BeginPasskey,
       CreateLinkToken, HandleMagicLinkVerify, HandleResetPassword, HandleLoginFinish,
       HandleDiscoverableLoginFinish, OpenLink, UpdatePassword, MarkResetUsed, MailStatementFails
<1>8. ASSUME NEW st \in {"stale", "none"}, EndLogin(st) PROVE ConsentInv'
  BY <1>3, <1>8 DEF EndLogin, consentHistory
<1>9. QED
  BY <1>1, <1>2, <1>5, <1>7, <1>8 DEF Next, Expire, vars

-----------------------------------------------------------------------------
(* The links.                                                              *)

Holding == {"markUsed", "update", "markReset"}

\* What a step of a request about a link does to the tables, and what the
\* request holds afterwards.
MailMove(p) ==
  \E m \in Mail :
    /\ mail' = [mail EXCEPT ![p] = m]
    /\ \/ /\ mail[p].step = "idle" /\ UNCHANGED <<link, uses, lost>>
          /\ \/ m.step = "invalidate"
             \/ m.step = "create" /\ m.kind \in PasskeyKinds
       \/ /\ mail[p].step = "invalidate" /\ m.step = "create" /\ m.kind = mail[p].kind
          /\ Spends(Valid(mail[p].kind)) /\ NotUsed
       \/ \E l \in Links :
            /\ mail[p].step = "create" /\ m = NoMail /\ link[l] = "none"
            /\ link' = [link EXCEPT ![l] = mail[p].kind] /\ UNCHANGED <<uses, lost>>
       \/ /\ mail[p].step = "idle" /\ UNCHANGED <<link, uses, lost>>
          /\ m.step \in {"markUsed", "update"} /\ m.link \in Links /\ link[m.link] \in Kinds
       \/ /\ mail[p].step = "markUsed" /\ m = NoMail
          /\ Spends({mail[p].link}) /\ Used(mail[p].link)
       \/ /\ mail[p].step = "update" /\ m.step = "markReset" /\ m.link = mail[p].link
          /\ Used(mail[p].link) /\ UNCHANGED <<link, lost>>
       \/ /\ mail[p].step = "markReset" /\ m.step = "logins"
          /\ Spends({mail[p].link}) /\ NotUsed
       \/ /\ mail[p].step \in {"logins", "create", "update"} /\ m = NoMail
          /\ UNCHANGED <<link, uses, lost>>

LEMMA MailMoves ==
  ASSUME LinkTypeOK, NEW p \in Procs, MailStep(p)
  PROVE  MailMove(p)
<1>0. mail \in [Procs -> Mail] /\ mail[p] \in Mail
  BY DEF LinkTypeOK
<1>s. \A s \in MailSteps : /\ [mail[p] EXCEPT !.step = s] \in Mail
                           /\ [mail[p] EXCEPT !.step = s].step = s
                           /\ [mail[p] EXCEPT !.step = s].kind = mail[p].kind
                           /\ [mail[p] EXCEPT !.step = s].link = mail[p].link
  BY <1>0 DEF Mail
<1>k. "magic" \in Kinds /\ "reset" \in Kinds /\ "named" \in Kinds /\ "discoverable" \in Kinds
  BY DEF Kinds, MailKinds, PasskeyKinds
<1>t. \A s \in MailSteps : MailTo(p, s) => mail' = [mail EXCEPT ![p] = [mail[p] EXCEPT !.step = s]]
  BY <1>0 DEF MailTo
<1>m. {"invalidate", "create", "markReset", "logins", "markUsed", "update"} \subseteq MailSteps
  BY DEF MailSteps
<1>1. ASSUME NEW kind \in Kinds, RequestLink(p, kind) PROVE MailMove(p)
  <2>1. PICK m \in Mail : mail' = [mail EXCEPT ![p] = m] /\ m.step = "invalidate"
    <3>1. [NoMail EXCEPT !.step = "invalidate", !.kind = kind] \in Mail
      BY <1>m DEF NoMail, Mail
    <3>2. QED  BY <1>1, <3>1 DEF RequestLink, NoMail
  <2>2. QED  BY <1>1, <2>1 DEF RequestLink, Free, Mailing, MailMove
<1>2. CASE InvalidatePreviousTokens(p)
  <2>1. mail' = [mail EXCEPT ![p] = [mail[p] EXCEPT !.step = "create"]]
    BY <1>2, <1>m, <1>t DEF InvalidatePreviousTokens
  <2>2. PICK m \in Mail : /\ mail' = [mail EXCEPT ![p] = m]
                          /\ m.step = "create" /\ m.kind = mail[p].kind
    BY <1>m, <1>s, <2>1
  <2>3. QED  BY <1>2, <2>2 DEF InvalidatePreviousTokens, Mailing, MailMove
<1>3. ASSUME NEW kind \in PasskeyKinds, BeginPasskey(p, kind) PROVE MailMove(p)
  <2>1. kind \in Kinds
    BY DEF Kinds
  <2>2. PICK m \in Mail : mail' = [mail EXCEPT ![p] = m] /\ m.step = "create" /\ m.kind = kind
    <3>1. [NoMail EXCEPT !.step = "create", !.kind = kind] \in Mail
      BY <1>m, <2>1 DEF NoMail, Mail
    <3>2. QED  BY <1>3, <3>1 DEF BeginPasskey, NoMail
  <2>3. QED  BY <1>3, <2>2 DEF BeginPasskey, Free, Mailing, MailMove
<1>4. ASSUME NEW l \in Links, CreateLinkToken(p, l) PROVE MailMove(p)
  <2>1. /\ mail' = [mail EXCEPT ![p] = NoMail] /\ mail[p].step = "create" /\ link[l] = "none"
        /\ link' = [link EXCEPT ![l] = mail[p].kind] /\ UNCHANGED <<uses, lost>>
    BY <1>4 DEF CreateLinkToken, Mailing, MailEnds
  <2>2. \E m \in Mail : /\ mail' = [mail EXCEPT ![p] = m]
                        /\ \E k \in Links :
                             /\ mail[p].step = "create" /\ m = NoMail /\ link[k] = "none"
                             /\ link' = [link EXCEPT ![k] = mail[p].kind]
                             /\ UNCHANGED <<uses, lost>>
    BY <2>1, IdleTypes
  <2>3. QED  BY <2>2, Zenon DEF MailMove
<1>5. ASSUME NEW l \in Links, NEW kind \in Kinds, NEW step \in {"markUsed", "update"},
             OpenLink(p, l, kind, step)
      PROVE  MailMove(p)
  <2>1. [step |-> step, kind |-> kind, link |-> l] \in Mail
    BY <1>m DEF Mail
  <2>2. PICK m \in Mail : mail' = [mail EXCEPT ![p] = m] /\ m.step = step /\ m.link = l
    BY <1>5, <2>1 DEF OpenLink
  <2>3. QED  BY <1>5, <2>2 DEF OpenLink, Usable, Free, Mailing, MailMove
<1>6. CASE MarkTokenUsed(p) \/ MarkPasskeyChallengeUsed(p)
  <2>1. /\ mail' = [mail EXCEPT ![p] = NoMail] /\ mail[p].step = "markUsed"
        /\ Spends({mail[p].link}) /\ Used(mail[p].link)
    BY <1>6 DEF MarkTokenUsed, MarkPasskeyChallengeUsed, MarkUsed, Mailing, MailEnds
  <2>2. \E m \in Mail : /\ mail' = [mail EXCEPT ![p] = m]
                        /\ mail[p].step = "markUsed" /\ m = NoMail
                        /\ Spends({mail[p].link}) /\ Used(mail[p].link)
    BY <2>1, IdleTypes
  <2>3. QED  BY <2>2, Zenon DEF MailMove
<1>7. CASE UpdatePassword(p)
  <2>1. mail' = [mail EXCEPT ![p] = [mail[p] EXCEPT !.step = "markReset"]]
    BY <1>7, <1>m, <1>t DEF UpdatePassword
  <2>2. PICK m \in Mail : /\ mail' = [mail EXCEPT ![p] = m]
                          /\ m.step = "markReset" /\ m.link = mail[p].link
    BY <1>m, <1>s, <2>1
  <2>3. QED  BY <1>7, <2>2 DEF UpdatePassword, Mailing, MailMove
<1>8. CASE MarkResetUsed(p)
  <2>1. mail' = [mail EXCEPT ![p] = [mail[p] EXCEPT !.step = "logins"]]
    BY <1>8, <1>m, <1>t DEF MarkResetUsed
  <2>2. PICK m \in Mail : mail' = [mail EXCEPT ![p] = m] /\ m.step = "logins"
    BY <1>m, <1>s, <2>1
  <2>3. QED  BY <1>8, <2>2 DEF MarkResetUsed, Mailing, MailMove
<1>9. CASE DeactivateLogins(p) \/ MailStatementFails(p)
  BY <1>9, IdleTypes DEF DeactivateLogins, MailStatementFails, Mailing, MailEnds, MailMove
<1>10. QED
  BY <1>1, <1>2, <1>3, <1>4, <1>5, <1>6, <1>7, <1>8, <1>9, <1>k
  DEF MailStep, HandleMagicLink, HandleForgotPassword, HandleLoginBegin, PasskeyKinds,
      HandleDiscoverableLoginBegin, HandleMagicLinkVerify, HandleResetPassword,
      HandleLoginFinish, HandleDiscoverableLoginFinish

\* A finite set that loses an element gets smaller.
LEMMA Loses ==
  ASSUME NEW S, NEW T, IsFiniteSet(S), T \subseteq S, NEW x \in S, x \notin T
  PROVE  Cardinality(T) + 1 <= Cardinality(S)
<1>1. T \subseteq S \ {x}
  OBVIOUS
<1>2. IsFiniteSet(S \ {x}) /\ Cardinality(S \ {x}) = Cardinality(S) - 1
  BY FS_RemoveElement
<1>3. Cardinality(T) <= Cardinality(S \ {x}) /\ IsFiniteSet(T)
  BY <1>1, <1>2, FS_Subset
<1>4. Cardinality(S) \in Nat /\ Cardinality(T) \in Nat
  BY <1>3, FS_CardinalityType
<1>5. QED  BY <1>2, <1>3, <1>4

\* Two groups of requests without a member in common.
LEMMA Apart ==
  ASSUME NEW S \in SUBSET Procs, NEW T \in SUBSET Procs, S \cap T = {}
  PROVE  /\ IsFiniteSet(S) /\ IsFiniteSet(T) /\ P \in Nat
         /\ Cardinality(S) \in Nat /\ Cardinality(T) \in Nat
         /\ Cardinality(S) + Cardinality(T) <= P
<1>1. IsFiniteSet(S) /\ IsFiniteSet(T) /\ P \in Nat
  BY FS_Subset, FS_CardinalityType DEF P
<1>2. Cardinality(S \cup T) = Cardinality(S) + Cardinality(T) - Cardinality(S \cap T)
  BY <1>1, FS_Union
<1>3. Cardinality(S \cap T) = 0
  BY FS_EmptySet
<1>4. Cardinality(S \cup T) <= P
  BY FS_Subset DEF P
<1>5. Cardinality(S) \in Nat /\ Cardinality(T) \in Nat
  BY <1>1, FS_CardinalityType
<1>6. QED  BY <1>1, <1>2, <1>3, <1>4, <1>5

LEMMA Counts ==
  \A l : /\ Will(l) \in SUBSET Procs /\ Did(l) \in SUBSET Procs /\ Will(l) \cap Did(l) = {}
         /\ IsFiniteSet(Will(l)) /\ IsFiniteSet(Did(l)) /\ P \in Nat
         /\ Cardinality(Will(l)) \in Nat /\ Cardinality(Did(l)) \in Nat
         /\ Cardinality(Will(l)) + Cardinality(Did(l)) <= P
<1>1. \A l : Will(l) \in SUBSET Procs /\ Did(l) \in SUBSET Procs /\ Will(l) \cap Did(l) = {}
  BY DEF Will, Did
<1>2. QED  BY <1>1, Apart

\* A link is left alone, or spent; or used by one of those who could, who
\* remains to mark it, or has.
LEMMA UsesCounted ==
  ASSUME NEW l \in Links, UsesLeft(l), uses[l] \in Nat, uses'[l] \in Nat,
         link[l] = "spent" => link'[l] = "spent",
         \/ uses'[l] = uses[l] /\ link'[l] # "spent" /\ Did(l) \subseteq Did(l)'
         \/ uses'[l] = uses[l] /\ link'[l] = "spent" /\ Will(l)' \subseteq Will(l)
         \/ /\ uses'[l] = uses[l] + 1 /\ Will(l)' \subseteq Will(l)
            /\ \E p \in Will(l) : p \notin Will(l)'
            /\ \/ link'[l] = "spent"
               \/ Did(l) \subseteq Did(l)' /\ \E q \in Did(l)' : q \notin Did(l)
  PROVE  UsesLeft(l)'
<1> DEFINE W == Cardinality(Will(l))
           D == Cardinality(Did(l))
<1>1. /\ P \in Nat /\ W \in Nat /\ D \in Nat /\ W + D <= P /\ IsFiniteSet(Will(l))
      /\ IsFiniteSet(Did(l))
  BY Counts
<1>2. /\ W' \in Nat /\ D' \in Nat /\ W' + D' <= P /\ IsFiniteSet(Did(l)')
  <2>1. Will(l)' \in SUBSET Procs /\ Did(l)' \in SUBSET Procs /\ Will(l)' \cap Did(l)' = {}
    BY DEF Will, Did
  <2>2. QED  BY <2>1, Apart
<1>3. Will(l)' \subseteq Will(l) => W' <= W
  BY <1>1, FS_Subset
<1>4. Did(l) \subseteq Did(l)' => D <= D'
  BY <1>2, FS_Subset
<1>5. \A p \in Will(l) : Will(l)' \subseteq Will(l) /\ p \notin Will(l)' => W' + 1 <= W
  BY <1>1, Loses
<1>6. \A q \in Did(l)' : Did(l) \subseteq Did(l)' /\ q \notin Did(l) => D + 1 <= D'
  BY <1>2, Loses
<1>7. (link[l] # "spent" => uses[l] <= D) /\ uses[l] + W <= P
  BY DEF UsesLeft
<1> HIDE DEF W, D
<1>8. (link'[l] # "spent" => uses'[l] <= D') /\ uses'[l] + W' <= P
  <2>1. CASE uses'[l] = uses[l] /\ link'[l] # "spent" /\ Did(l) \subseteq Did(l)'
    BY <1>1, <1>2, <1>4, <1>7, <2>1
  <2>2. CASE uses'[l] = uses[l] /\ link'[l] = "spent" /\ Will(l)' \subseteq Will(l)
    BY <1>1, <1>2, <1>3, <1>7, <2>2
  <2>3. CASE /\ uses'[l] = uses[l] + 1 /\ Will(l)' \subseteq Will(l)
             /\ \E p \in Will(l) : p \notin Will(l)'
             /\ \/ link'[l] = "spent"
                \/ Did(l) \subseteq Did(l)' /\ \E q \in Did(l)' : q \notin Did(l)
    <3>1. W' + 1 <= W
      BY <1>5, <2>3
    <3>2. link'[l] # "spent" => D + 1 <= D'
      BY <1>6, <2>3
    <3>3. uses'[l] = uses[l] + 1
      BY <2>3
    <3>4. uses'[l] + W' <= P
      <4>1. \A u, v, w, x, n \in Nat : u + w <= n /\ v = u + 1 /\ x + 1 <= w => v + x <= n
        OBVIOUS
      <4>2. P \in Nat /\ W \in Nat /\ W' \in Nat /\ uses[l] + W <= P
        BY <1>1, <1>2, <1>7
      <4>3. QED  BY <3>1, <3>3, <4>1, <4>2
    <3>5. ASSUME link'[l] # "spent" PROVE uses'[l] <= D'
      <4>1. uses[l] <= D /\ D + 1 <= D'
        BY <1>7, <3>2, <3>5
      <4>2. QED  BY <1>1, <1>2, <3>3, <4>1
    <3>6. QED  BY <3>4, <3>5, Zenon
  <2>4. QED  BY <2>1, <2>2, <2>3
<1>9. QED  BY <1>8 DEF UsesLeft, W, D, P

\* A step of the links: of a request, of the time, of a restart, or none.
LinkStep ==
  \/ \E p \in Procs : MailMove(p)
  \/ \E l \in Links : link[l] \in Kinds /\ Spend({l}) /\ UNCHANGED <<mail, uses, lost>>
  \/ /\ mail' = [p \in Procs |-> NoMail] /\ UNCHANGED link /\ NotUsed
     /\ "crash" \in Operations
     /\ lost' = (lost \/ \E p \in Procs : mail[p].step = "markReset")
  \/ UNCHANGED linkVars

LEMMA LinkSteps == LinkTypeOK /\ [Next]_vars => LinkStep
<1> SUFFICES ASSUME LinkTypeOK, [Next]_vars PROVE LinkStep
  OBVIOUS
<1>1. ASSUME NEW p \in Procs, MailStep(p) PROVE LinkStep
  BY <1>1, MailMoves DEF LinkStep
<1>2. ASSUME NEW l \in Links, Expire(l) PROVE LinkStep
  BY <1>2 DEF Expire, LinkStep
<1>3. CASE Crash
  BY <1>3 DEF Crash, Mailing, LinkStep
<1>4. CASE UNCHANGED linkVars
  BY <1>4 DEF LinkStep
<1>5. QED  BY <1>1, <1>2, <1>3, <1>4 DEF Next, vars

\* Rows are spent, and stay it; the history grows while nothing is lost.
LEMMA Spending ==
  ASSUME LinkTypeOK, LinkStep
  PROVE  /\ link' \in [Links -> LinkRow] /\ uses' \in [Links -> Nat] /\ lost' \in BOOLEAN
         /\ \A l \in Links : /\ link[l] # "none" => link'[l] # "none"
                             /\ link[l] = "spent" => link'[l] = "spent"
         /\ lost => lost'
<1>0. /\ link \in [Links -> LinkRow] /\ mail \in [Procs -> Mail] /\ uses \in [Links -> Nat]
      /\ lost \in BOOLEAN /\ Unused \in [Links -> Nat] /\ NoMail \in Mail
  BY IdleTypes DEF LinkTypeOK, Unused
<1>s. ASSUME NEW ls, Spends(ls)
      PROVE  /\ link' \in [Links -> LinkRow] /\ lost' \in BOOLEAN /\ (lost => lost')
             /\ \A l \in Links : /\ link[l] # "none" => link'[l] # "none"
                                 /\ link[l] = "spent" => link'[l] = "spent"
  BY <1>0, <1>s DEF Spends, Spend, LinkRow
<1>u. /\ NotUsed => uses' \in [Links -> Nat]
      /\ \A l : Used(l) => uses' \in [Links -> Nat]
  BY <1>0 DEF NotUsed, Used
<1>1. ASSUME NEW p \in Procs, MailMove(p)
      PROVE  /\ link' \in [Links -> LinkRow] /\ uses' \in [Links -> Nat] /\ lost' \in BOOLEAN
             /\ \A l \in Links : /\ link[l] # "none" => link'[l] # "none"
                                 /\ link[l] = "spent" => link'[l] = "spent"
             /\ lost => lost'
  <2>1. CASE UNCHANGED <<link, uses, lost>>
    BY <1>0, <2>1
  <2>2. CASE \E ls : Spends(ls) /\ (NotUsed \/ \E l : Used(l))
    BY <1>s, <1>u, <2>2
  <2>3. ASSUME NEW l \in Links, link[l] = "none", link' = [link EXCEPT ![l] = mail[p].kind],
               UNCHANGED <<uses, lost>>
        PROVE  /\ link' \in [Links -> LinkRow] /\ uses' \in [Links -> Nat] /\ lost' \in BOOLEAN
               /\ \A k \in Links : /\ link[k] # "none" => link'[k] # "none"
                                   /\ link[k] = "spent" => link'[k] = "spent"
               /\ lost => lost'
    <3>1. mail[p].kind \in Kinds
      BY <1>0 DEF Mail
    <3>2. QED  BY <1>0, <2>3, <3>1 DEF LinkRow
  <2>4. CASE \E l : Used(l) /\ UNCHANGED <<link, lost>>
    BY <1>0, <1>u, <2>4
  <2>5. QED  BY <1>1, <2>1, <2>2, <2>3, <2>4 DEF MailMove
<1>2. ASSUME NEW l \in Links, Spend({l}), UNCHANGED <<mail, uses, lost>>
      PROVE  /\ link' \in [Links -> LinkRow] /\ uses' \in [Links -> Nat] /\ lost' \in BOOLEAN
             /\ \A k \in Links : /\ link[k] # "none" => link'[k] # "none"
                                 /\ link[k] = "spent" => link'[k] = "spent"
             /\ lost => lost'
  BY <1>0, <1>2 DEF Spend, LinkRow
<1>3. QED  BY <1>0, <1>1, <1>2, <1>u DEF LinkStep, linkVars

LEMMA TypesHeld ==
  ASSUME LinkTypeOK, LinkHeld, LinkStep
  PROVE  LinkTypeOK' /\ LinkHeld'
<1>0. /\ mail \in [Procs -> Mail] /\ NoMail \in Mail /\ NoMail.step = "idle"
      /\ \A l \in Links : link[l] # "none" => link'[l] # "none"
      /\ "none" \notin Kinds
  BY Spending, IdleTypes DEF LinkTypeOK, Kinds, MailKinds, PasskeyKinds
<1>1. mail' \in [Procs -> Mail]
  BY <1>0 DEF LinkStep, MailMove, linkVars
<1>2. ASSUME UNCHANGED mail PROVE LinkHeld'
  BY <1>0, <1>2 DEF LinkHeld
<1>3. ASSUME mail' = [p \in Procs |-> NoMail] PROVE LinkHeld'
  BY <1>0, <1>3 DEF LinkHeld
<1>4. ASSUME NEW p \in Procs, MailMove(p) PROVE LinkHeld'
  <2>1. PICK m \in Mail :
          /\ mail' = [mail EXCEPT ![p] = m]
          /\ m.step \in Holding =>
               \/ m.link \in Links /\ link[m.link] \in Kinds
               \/ mail[p].step = "update" /\ m.link = mail[p].link
    <3>1. PICK m \in Mail :
           /\ mail' = [mail EXCEPT ![p] = m]
           /\ \/ m.step = "invalidate" \/ m.step = "create" \/ m = NoMail \/ m.step = "logins"
              \/ m.link \in Links /\ link[m.link] \in Kinds
              \/ mail[p].step = "update" /\ m.link = mail[p].link
      BY <1>4 DEF MailMove
    <3>2. QED  BY <1>0, <3>1 DEF Holding
  <2>2. m.step \in Holding => m.link \in Links /\ link[m.link] # "none"
    BY <1>0, <2>1 DEF LinkHeld
  <2>3. QED  BY <1>0, <2>1, <2>2 DEF LinkHeld, Holding
<1>5. LinkHeld'
  BY <1>2, <1>3, <1>4 DEF LinkStep, linkVars
<1>6. QED  BY <1>1, <1>5, Spending DEF LinkTypeOK

-----------------------------------------------------------------------------
(* Uses of a link.                                                         *)

LEMMA UsesStep ==
  ASSUME LinkTypeOK, LinkHeld, LinkStep, ~lost', NEW l \in Links, UsesLeft(l)
  PROVE  UsesLeft(l)'
<1>0. /\ mail \in [Procs -> Mail] /\ link \in [Links -> LinkRow] /\ uses \in [Links -> Nat]
      /\ ~lost /\ uses' \in [Links -> Nat] /\ NoMail.step = "idle"
      /\ link[l] = "spent" => link'[l] = "spent"
      /\ None \notin Links /\ "none" \notin Kinds /\ "spent" \notin Kinds
  BY Spending, IdleTypes DEF LinkTypeOK, Kinds, MailKinds, PasskeyKinds
<1>n. NotUsed => uses' = uses
  BY <1>0 DEF NotUsed
<1>s. \A ls : Spends(ls) => \A k \in Links : link'[k] = IF k \in ls THEN "spent" ELSE link[k]
  BY <1>0 DEF Spends, Spend
<1>u. ASSUME NEW k \in Links, Used(k)
      PROVE  uses'[l] = IF l = k THEN uses[l] + 1 ELSE uses[l]
  BY <1>0, <1>u DEF Used
\* No use: nobody new who will use it, unless it is unspent.
<1>k. ASSUME uses'[l] = uses[l],
             link'[l] # "spent" => Did(l) \subseteq Did(l)',
             link'[l] = "spent" => Will(l)' \subseteq Will(l)
      PROVE  UsesLeft(l)'
  BY <1>0, <1>k, UsesCounted
<1>1. ASSUME NEW p \in Procs, MailMove(p) PROVE UsesLeft(l)'
  <2> DEFINE step == mail[p].step
             k == mail[p].link
  <2>0. PICK m \in Mail :
    /\ mail' = [mail EXCEPT ![p] = m]
    /\ \/ /\ step = "idle" /\ UNCHANGED <<link, uses, lost>>
          /\ \/ m.step = "invalidate"
             \/ m.step = "create" /\ m.kind \in PasskeyKinds
       \/ /\ step = "invalidate" /\ m.step = "create" /\ m.kind = mail[p].kind
          /\ Spends(Valid(mail[p].kind)) /\ NotUsed
       \/ \E d \in Links :
            /\ step = "create" /\ m = NoMail /\ link[d] = "none"
            /\ link' = [link EXCEPT ![d] = mail[p].kind] /\ UNCHANGED <<uses, lost>>
       \/ /\ step = "idle" /\ UNCHANGED <<link, uses, lost>>
          /\ m.step \in {"markUsed", "update"} /\ m.link \in Links /\ link[m.link] \in Kinds
       \/ /\ step = "markUsed" /\ m = NoMail /\ Spends({k}) /\ Used(k)
       \/ /\ step = "update" /\ m.step = "markReset" /\ m.link = k
          /\ Used(k) /\ UNCHANGED <<link, lost>>
       \/ /\ step = "markReset" /\ m.step = "logins" /\ Spends({k}) /\ NotUsed
       \/ /\ step \in {"logins", "create", "update"} /\ m = NoMail
          /\ UNCHANGED <<link, uses, lost>>
    BY <1>1 DEF MailMove
  <2>m. mail'[p] = m /\ \A q \in Procs : q # p => mail'[q] = mail[q]
    BY <1>0, <2>0
  \* One who did not use the link and will not now.
  <2>a. ASSUME step # "markReset", m.step \notin Holding
        PROVE  Did(l) \subseteq Did(l)' /\ Will(l)' \subseteq Will(l)
    BY <2>a, <2>m DEF Did, Will, Holding
  <2>1. CASE step = "idle" /\ UNCHANGED <<link, uses, lost>> /\ m.step \notin Holding
    BY <1>k, <2>1, <2>a
  <2>2. CASE step = "invalidate" /\ m.step = "create" /\ NotUsed
    BY <1>k, <1>n, <2>2, <2>a DEF Holding
  <2>3. CASE step \in {"create", "logins", "update"} /\ m = NoMail /\ UNCHANGED <<uses, lost>>
    BY <1>0, <1>k, <2>3, <2>a DEF Holding
  <2>4. CASE /\ step = "idle" /\ UNCHANGED <<link, uses, lost>>
             /\ m.step \in {"markUsed", "update"} /\ m.link \in Links /\ link[m.link] \in Kinds
    <3>1. Did(l) \subseteq Did(l)'
      BY <2>4, <2>m DEF Did
    <3>2. link'[l] = "spent" => Will(l)' \subseteq Will(l)
      BY <1>0, <2>4, <2>m DEF Will
    <3>3. QED  BY <1>k, <2>4, <3>1, <3>2
  <2>5. CASE step = "markUsed" /\ m = NoMail /\ Spends({k}) /\ Used(k)
    <3>1. k \in Links
      BY <2>5 DEF LinkHeld
    <3>2. Did(l) \subseteq Did(l)' /\ Will(l)' \subseteq Will(l)
      BY <1>0, <2>5, <2>a DEF Holding
    <3>3. CASE l # k
      BY <1>k, <1>u, <2>5, <3>1, <3>2, <3>3
    <3>4. CASE l = k
      <4>1. uses'[l] = uses[l] + 1 /\ link'[l] = "spent"
        BY <1>s, <1>u, <2>5, <3>1, <3>4
      <4>2. p \in Will(l) /\ p \notin Will(l)'
        BY <1>0, <2>5, <2>m, <3>4 DEF Will
      <4>3. QED  BY <1>0, <3>2, <4>1, <4>2, UsesCounted
    <3>5. QED  BY <3>3, <3>4
  <2>6. CASE /\ step = "update" /\ m.step = "markReset" /\ m.link = k
             /\ Used(k) /\ UNCHANGED <<link, lost>>
    <3>1. k \in Links
      BY <2>6 DEF LinkHeld
    <3>2. Did(l) \subseteq Did(l)' /\ Will(l)' \subseteq Will(l)
      BY <2>6, <2>m DEF Did, Will
    <3>3. CASE l # k
      BY <1>k, <1>u, <2>6, <3>1, <3>2, <3>3
    <3>4. CASE l = k
      <4>1. uses'[l] = uses[l] + 1
        BY <1>u, <2>6, <3>1, <3>4
      <4>2. p \in Will(l) /\ p \notin Will(l)' /\ p \in Did(l)' /\ p \notin Did(l)
        BY <2>6, <2>m, <3>4 DEF Will, Did
      <4>3. QED  BY <1>0, <3>2, <4>1, <4>2, UsesCounted
    <3>5. QED  BY <3>3, <3>4
  <2>7. CASE step = "markReset" /\ m.step = "logins" /\ Spends({k}) /\ NotUsed
    <3>1. Will(l)' \subseteq Will(l)
      BY <2>7, <2>m DEF Will
    <3>2. link'[l] # "spent" => Did(l) \subseteq Did(l)'
      BY <1>s, <2>7, <2>m DEF Did
    <3>3. QED  BY <1>k, <1>n, <2>7, <3>1, <3>2
  <2>8. QED
    BY <2>0, <2>1, <2>2, <2>3, <2>4, <2>5, <2>6, <2>7 DEF Holding
<1>2. ASSUME NEW k \in Links, Spend({k}), UNCHANGED <<mail, uses, lost>> PROVE UsesLeft(l)'
  BY <1>k, <1>2 DEF Did, Will
<1>3. ASSUME mail' = [p \in Procs |-> NoMail], UNCHANGED link, NotUsed,
             lost' = (lost \/ \E p \in Procs : mail[p].step = "markReset")
      PROVE  UsesLeft(l)'
  <2>1. Did(l) = {} /\ Will(l)' = {}
    BY <1>0, <1>3 DEF Did, Will
  <2>2. QED  BY <1>k, <1>n, <1>3, <2>1
<1>4. CASE UNCHANGED linkVars
  BY <1>k, <1>4 DEF linkVars, Did, Will
<1>5. QED  BY <1>1, <1>2, <1>3, <1>4 DEF LinkStep

-----------------------------------------------------------------------------
(* The links that are good.                                                *)

\* Fewer links are good and fewer requests create one, or all were invalidated,
\* or a request has created its own.
LEMMA LinksCounted ==
  ASSUME NEW kind, LinksLeft(kind), Creating(kind)' \subseteq Procs,
         \/ Valid(kind)' \subseteq Valid(kind) /\ Creating(kind)' \subseteq Creating(kind)
         \/ Valid(kind)' = {}
         \/ \E l, p : /\ Valid(kind)' \subseteq Valid(kind) \cup {l}
                      /\ Creating(kind)' \subseteq Creating(kind)
                      /\ p \in Creating(kind) /\ p \notin Creating(kind)'
  PROVE  LinksLeft(kind)'
<1> DEFINE V == Cardinality(Valid(kind))
           C == Cardinality(Creating(kind))
<1>1. /\ IsFiniteSet(Valid(kind)) /\ IsFiniteSet(Creating(kind))
      /\ V \in Nat /\ C \in Nat /\ P \in Nat /\ V + C <= P
  <2>1. Valid(kind) \subseteq Links /\ Creating(kind) \subseteq Procs
    BY DEF Valid, Creating
  <2>2. QED  BY <2>1, FS_Subset, FS_CardinalityType DEF P, LinksLeft
<1>2. C' \in Nat /\ C' <= P /\ IsFiniteSet(Creating(kind)')
  BY FS_Subset, FS_CardinalityType DEF P
<1>3. CASE Valid(kind)' \subseteq Valid(kind) /\ Creating(kind)' \subseteq Creating(kind)
  <2>1. V' \in Nat /\ V' <= V /\ C' <= C
    BY <1>1, <1>3, FS_Subset, FS_CardinalityType
  <2>2. QED  BY <1>1, <1>2, <2>1 DEF LinksLeft, P
<1>4. CASE Valid(kind)' = {}
  <2>1. V' = 0
    BY <1>4, FS_EmptySet
  <2>2. QED  BY <1>2, <2>1 DEF LinksLeft, P
<1>5. ASSUME NEW l, NEW p, Valid(kind)' \subseteq Valid(kind) \cup {l},
             Creating(kind)' \subseteq Creating(kind),
             p \in Creating(kind), p \notin Creating(kind)'
      PROVE  LinksLeft(kind)'
  <2>1. C' + 1 <= C
    BY <1>1, <1>5, Loses
  <2>2. /\ IsFiniteSet(Valid(kind) \cup {l})
        /\ Cardinality(Valid(kind) \cup {l}) = IF l \in Valid(kind) THEN V ELSE V + 1
    BY <1>1, FS_AddElement
  <2>3. V' \in Nat /\ V' <= V + 1
    <3>1. /\ IsFiniteSet(Valid(kind)')
          /\ Cardinality(Valid(kind)') <= Cardinality(Valid(kind) \cup {l})
      BY <1>5, <2>2, FS_Subset
    <3>2. V' \in Nat
      BY <3>1, FS_CardinalityType
    <3> HIDE DEF V
    <3>3. Cardinality(Valid(kind) \cup {l}) <= V + 1
      BY <1>1, <2>2
    <3>4. Cardinality(Valid(kind) \cup {l}) \in Nat
      BY <2>2, FS_CardinalityType
    <3>5. V' <= Cardinality(Valid(kind) \cup {l})
      BY <3>1 DEF V
    <3>6. QED  BY <1>1, <3>2, <3>3, <3>4, <3>5
  <2>4. QED  BY <1>1, <1>2, <2>1, <2>3 DEF LinksLeft, P
<1>6. QED  BY <1>3, <1>4, <1>5

LEMMA LinksStep ==
  ASSUME LinkTypeOK, LinkStep, ~lost', NEW kind \in MailKinds, LinksLeft(kind)
  PROVE  LinksLeft(kind)'
<1>0. /\ mail \in [Procs -> Mail] /\ link \in [Links -> LinkRow]
      /\ ~lost /\ NoMail.step = "idle" /\ kind \notin PasskeyKinds
      /\ kind # "none" /\ kind # "spent" /\ Creating(kind)' \subseteq Procs
  BY Spending, IdleTypes DEF LinkTypeOK, MailKinds, PasskeyKinds, Creating
<1>s. \A ls : Spends(ls) => link' = [l \in Links |-> IF l \in ls THEN "spent" ELSE link[l]]
  BY <1>0 DEF Spends, Spend
<1>v. /\ UNCHANGED link => Valid(kind)' \subseteq Valid(kind)
      /\ \A ls : Spends(ls) => Valid(kind)' \subseteq Valid(kind)
  BY <1>0, <1>s DEF Valid
<1>1. ASSUME NEW p \in Procs, MailMove(p) PROVE LinksLeft(kind)'
  <2> DEFINE step == mail[p].step
             k == mail[p].link
  <2>0. PICK m \in Mail :
    /\ mail' = [mail EXCEPT ![p] = m]
    /\ \/ /\ step = "idle" /\ UNCHANGED <<link, uses, lost>>
          /\ \/ m.step = "invalidate"
             \/ m.step = "create" /\ m.kind \in PasskeyKinds
       \/ /\ step = "invalidate" /\ m.step = "create" /\ m.kind = mail[p].kind
          /\ Spends(Valid(mail[p].kind)) /\ NotUsed
       \/ \E d \in Links :
            /\ step = "create" /\ m = NoMail /\ link[d] = "none"
            /\ link' = [link EXCEPT ![d] = mail[p].kind] /\ UNCHANGED <<uses, lost>>
       \/ /\ step = "idle" /\ UNCHANGED <<link, uses, lost>>
          /\ m.step \in {"markUsed", "update"} /\ m.link \in Links /\ link[m.link] \in Kinds
       \/ /\ step = "markUsed" /\ m = NoMail /\ Spends({k}) /\ Used(k)
       \/ /\ step = "update" /\ m.step = "markReset" /\ m.link = k
          /\ Used(k) /\ UNCHANGED <<link, lost>>
       \/ /\ step = "markReset" /\ m.step = "logins" /\ Spends({k}) /\ NotUsed
       \/ /\ step \in {"logins", "create", "update"} /\ m = NoMail
          /\ UNCHANGED <<link, uses, lost>>
    BY <1>1 DEF MailMove
  <2>m. mail'[p] = m /\ \A q \in Procs : q # p => mail'[q] = mail[q]
    BY <1>0, <2>0
  <2>1. CASE m.step # "create" \/ m.kind # kind
    <3>1. Creating(kind)' \subseteq Creating(kind)
      BY <2>1, <2>m DEF Creating
    <3>2. CASE UNCHANGED link \/ \E ls : Spends(ls)
      BY <1>0, <1>v, <3>1, <3>2, LinksCounted
    <3>3. ASSUME NEW d \in Links, step = "create", m = NoMail, link[d] = "none",
                 link' = [link EXCEPT ![d] = mail[p].kind]
          PROVE  LinksLeft(kind)'
      <4>1. CASE mail[p].kind = kind
        <5>1. Valid(kind)' \subseteq Valid(kind) \cup {d}
          BY <1>0, <3>3 DEF Valid
        <5>2. p \in Creating(kind) /\ p \notin Creating(kind)'
          BY <1>0, <2>m, <3>3, <4>1 DEF Creating
        <5>3. QED  BY <1>0, <3>1, <5>1, <5>2, LinksCounted
      <4>2. CASE mail[p].kind # kind
        <5>1. Valid(kind)' \subseteq Valid(kind)
          BY <1>0, <3>3, <4>2 DEF Valid
        <5>2. QED  BY <1>0, <3>1, <5>1, LinksCounted
      <4>3. QED  BY <4>1, <4>2
    <3>4. QED  BY <2>0, <3>2, <3>3
  <2>2. CASE m.step = "create" /\ m.kind = kind
    <3>1. Spends(Valid(kind))
      BY <1>0, <2>0, <2>2
    <3>2. Valid(kind)' = {}
      BY <1>0, <1>s, <3>1 DEF Valid
    <3>3. QED  BY <1>0, <3>2, LinksCounted
  <2>3. QED  BY <2>1, <2>2
<1>2. ASSUME NEW k \in Links, Spend({k}), UNCHANGED <<mail, uses, lost>> PROVE LinksLeft(kind)'
  <2>1. Valid(kind)' \subseteq Valid(kind) /\ Creating(kind)' \subseteq Creating(kind)
    BY <1>0, <1>2 DEF Spend, Valid, Creating
  <2>2. QED  BY <1>0, <2>1, LinksCounted
<1>3. ASSUME mail' = [p \in Procs |-> NoMail], UNCHANGED link PROVE LinksLeft(kind)'
  <2>1. Creating(kind)' \subseteq Creating(kind)
    BY <1>0, <1>3 DEF Creating
  <2>2. QED  BY <1>0, <1>3, <1>v, <2>1, LinksCounted
<1>4. ASSUME UNCHANGED linkVars PROVE LinksLeft(kind)'
  <2>1. Valid(kind)' \subseteq Valid(kind) /\ Creating(kind)' \subseteq Creating(kind)
    BY <1>4 DEF linkVars, Valid, Creating
  <2>2. QED  BY <1>0, <2>1, LinksCounted
<1>5. QED  BY <1>1, <1>2, <1>3, <1>4 DEF LinkStep

-----------------------------------------------------------------------------
LEMMA Start == Init => IInv
<1> SUFFICES ASSUME Init PROVE IInv
  OBVIOUS
<1>1. ConsentInv
  BY IdleTypes DEF Init, ConsentInit, ConsentInv, ConsentTypeOK, Covered, CodesConsented
<1>2. LinkTypeOK /\ LinkHeld
  BY IdleTypes DEF Init, LinkTypeOK, LinkHeld, LinkRow, Unused
<1>3. \A l \in Links : UsesLeft(l)
  <2> SUFFICES ASSUME NEW l \in Links PROVE UsesLeft(l)
    OBVIOUS
  <2>1. Will(l) = {} /\ uses[l] = 0
    BY IdleTypes DEF Init, Will, Unused
  <2>2. Cardinality(Will(l)) = 0
    BY <2>1, FS_EmptySet
  <2>3. QED  BY <2>1, <2>2, Counts DEF UsesLeft
<1>4. \A kind \in MailKinds : LinksLeft(kind)
  <2> SUFFICES ASSUME NEW kind \in MailKinds PROVE LinksLeft(kind)
    OBVIOUS
  <2>1. Valid(kind) = {} /\ Creating(kind) = {}
    BY IdleTypes DEF Init, Valid, Creating, MailKinds
  <2>2. Cardinality(Valid(kind)) = 0 /\ Cardinality(Creating(kind)) = 0
    BY <2>1, FS_EmptySet
  <2>3. QED  BY <2>2, Counts DEF LinksLeft
<1>5. QED  BY <1>1, <1>2, <1>3, <1>4 DEF IInv

LEMMA StepKept == IInv /\ [Next]_vars => IInv'
<1> SUFFICES ASSUME IInv, [Next]_vars PROVE IInv'
  OBVIOUS
<1>1. LinkStep /\ ConsentInv' /\ LinkTypeOK /\ LinkHeld
  BY LinkSteps, ConsentKept DEF IInv
<1>2. LinkTypeOK' /\ LinkHeld' /\ (lost => lost')
  BY <1>1, TypesHeld, Spending
<1>3. ASSUME ~lost' PROVE \A l \in Links : UsesLeft(l)'
  BY <1>1, <1>2, <1>3, UsesStep DEF IInv
<1>4. ASSUME ~lost' PROVE \A kind \in MailKinds : LinksLeft(kind)'
  BY <1>1, <1>2, <1>4, LinksStep DEF IInv
<1>5. QED  BY <1>1, <1>2, <1>3, <1>4 DEF IInv

LEMMA Invariance == Spec => []IInv
BY Start, StepKept, PTL DEF Spec

\* Rows, requests and histories have the shape the code gives them.
THEOREM TypesKept == Spec => []TypeOK
<1>1. IInv => TypeOK
  BY DEF IInv, ConsentInv, LinkTypeOK, TypeOK
<1>2. QED  BY <1>1, Invariance, PTL

\* No way to sign in that looks at the consent issues a code for scopes the user
\* has not approved together.
THEOREM ConsentAsked == Spec => []CodesConsented
<1>1. IInv => CodesConsented
  BY DEF IInv, ConsentInv
<1>2. QED  BY <1>1, Invariance, PTL

\* A link or a challenge is good for at most as many requests as overlap.
THEOREM LinksSpent == Spec => []LinkSpent
<1>1. IInv => LinkSpent
  <2> SUFFICES ASSUME IInv, ~lost, NEW l \in Links PROVE uses[l] <= Cardinality(Procs)
    BY DEF LinkSpent
  <2>1. uses[l] + Cardinality(Will(l)) <= P /\ uses[l] \in Nat
    BY DEF IInv, LinkTypeOK, UsesLeft
  <2>2. QED  BY <2>1, Counts DEF P
<1>2. QED  BY <1>1, Invariance, PTL

\* At most as many links of a kind are good as requests for one overlap.
THEOREM LinksFew == Spec => []LinksBounded
<1>1. IInv => LinksBounded
  <2> SUFFICES ASSUME IInv, ~lost, NEW kind \in MailKinds
               PROVE  Cardinality(Valid(kind)) <= Cardinality(Procs)
    BY DEF LinksBounded
  <2>1. Cardinality(Valid(kind)) + Cardinality(Creating(kind)) <= P
    BY DEF IInv, LinksLeft
  <2>2. Cardinality(Valid(kind)) \in Nat /\ Cardinality(Creating(kind)) \in Nat /\ P \in Nat
    <3>1. Valid(kind) \subseteq Links /\ Creating(kind) \subseteq Procs
      BY DEF Valid, Creating
    <3>2. QED  BY <3>1, FS_Subset, FS_CardinalityType DEF P
  <2>3. QED  BY <2>1, <2>2 DEF P
<1>2. QED  BY <1>1, Invariance, PTL

-----------------------------------------------------------------------------
(* The rows are good once.                                                 *)

\* Nothing is counted once something was lost.
LossEnds == lost => uses = Unused

\* What the requests hold after one of them moved.
LEMMA HoldingMoves ==
  ASSUME LinkTypeOK, NEW p \in Procs, NEW m \in Mail, mail' = [mail EXCEPT ![p] = m],
         NEW steps
  PROVE  LinkHolders(steps)' =
           {h \in LinkHolders(steps) : h[1] # p}
             \cup {h \in {p} \X Links : m.link = h[2] /\ m.step \in steps}
<1>1. mail'[p] = m /\ \A q \in Procs \ {p} : mail'[q] = mail[q]
  BY DEF LinkTypeOK
<1>2. ASSUME NEW h \in Procs \X Links
      PROVE  h \in LinkHolders(steps)' <=>
               h \in {k \in LinkHolders(steps) : k[1] # p}
                       \cup {k \in {p} \X Links : m.link = k[2] /\ m.step \in steps}
  <2>1. CASE h[1] = p
    <3>1. h \in {p} \X Links
      BY <2>1
    <3>2. QED  BY <1>1, <2>1, <3>1 DEF LinkHolders
  <2>2. CASE h[1] # p
    <3>1. h \notin {p} \X Links /\ h[1] \in Procs \ {p}
      BY <2>2
    <3>2. QED  BY <1>1, <2>2, <3>1 DEF LinkHolders
  <2>3. QED  BY <2>1, <2>2
<1>3. QED  BY <1>2 DEF LinkHolders


\* The stages of the links, and what the statements on them do to it.
StagesSpent ==
  /\ LinkStages' \in [Links -> {"none", "good", "spent"}]
  /\ \A l \in Links : \/ LinkStages'[l] = LinkStages[l]
                      \/ LinkStages[l] = "good" /\ LinkStages'[l] = "spent"

LEMMA StageMoves ==
  ASSUME LinkTypeOK, LinkTypeOK'
  PROVE  /\ \A l \in Links : (LinkStages[l] = "good" <=> link[l] \in Kinds)
         /\ UNCHANGED link => LinkStages' = LinkStages /\ StagesSpent
         /\ \A ls : Spend(ls) /\ (\A l \in Links : l \in ls => link[l] # "none") =>
              StagesSpent /\ \A l \in Links : l \in ls => LinkStages'[l] = "spent"
         /\ \A l \in Links : Spend({l}) => LinkStages' = [LinkStages EXCEPT ![l] = "spent"]
         /\ \A l \in Links, kind \in Kinds :
              link[l] = "none" /\ link' = [link EXCEPT ![l] = kind] =>
                LinkStages[l] = "none" /\ LinkStages' = [LinkStages EXCEPT ![l] = "good"]
<1>1. /\ link \in [Links -> LinkRow] /\ link' \in [Links -> LinkRow]
      /\ "none" \notin Kinds /\ "spent" \notin Kinds
  BY DEF LinkTypeOK, Kinds, MailKinds, PasskeyKinds
<1>2. LinkStages' = [l \in Links |-> IF link'[l] \in Kinds THEN "good" ELSE link'[l]]
  BY DEF LinkStages, LinkStage
<1>3. \A l \in Links : link[l] \in {"none", "spent"} \/ link[l] \in Kinds
  BY <1>1 DEF LinkRow
<1>4. \A l \in Links : link'[l] \in {"none", "spent"} \/ link'[l] \in Kinds
  BY <1>1 DEF LinkRow
<1>5. \A l \in Links : (LinkStages[l] = "good" <=> link[l] \in Kinds)
  BY <1>1, <1>3 DEF LinkStages, LinkStage
<1>6. LinkStages' \in [Links -> {"none", "good", "spent"}]
  BY <1>2, <1>4
<1>7. UNCHANGED link => LinkStages' = LinkStages /\ StagesSpent
  BY <1>6 DEF LinkStages, LinkStage, StagesSpent
<1>8. ASSUME NEW ls, Spend(ls), \A l \in Links : l \in ls => link[l] # "none"
      PROVE  StagesSpent /\ \A l \in Links : l \in ls => LinkStages'[l] = "spent"
  <2>1. \A l \in Links : link'[l] = IF l \in ls THEN "spent" ELSE link[l]
    BY <1>8 DEF Spend
  <2>2. \A l \in Links : LinkStages'[l] = IF l \in ls THEN "spent" ELSE LinkStages[l]
    BY <1>1, <1>2, <2>1 DEF LinkStages, LinkStage
  <2>3. \A l \in Links : l \in ls => LinkStages[l] \in {"good", "spent"}
    BY <1>3, <1>8 DEF LinkStages, LinkStage
  <2>4. QED  BY <1>6, <2>2, <2>3 DEF StagesSpent
<1>9. ASSUME NEW l \in Links, Spend({l}) PROVE LinkStages' = [LinkStages EXCEPT ![l] = "spent"]
  <2>1. \A k \in Links : link'[k] = IF k = l THEN "spent" ELSE link[k]
    BY <1>9 DEF Spend
  <2>2. QED  BY <1>1, <1>2, <2>1 DEF LinkStages, LinkStage
<1>10. ASSUME NEW l \in Links, NEW kind \in Kinds, link[l] = "none",
              link' = [link EXCEPT ![l] = kind]
       PROVE  LinkStages[l] = "none" /\ LinkStages' = [LinkStages EXCEPT ![l] = "good"]
  <2>1. \A k \in Links : link'[k] = IF k = l THEN kind ELSE link[k]
    BY <1>1, <1>10
  <2>2. QED  BY <1>1, <1>2, <1>10, <2>1 DEF LinkStages, LinkStage
<1>11. QED  BY <1>5, <1>7, <1>8, <1>9, <1>10


\* A request that moves issues a row, finds one good, uses it or spends it.
LEMMA MailOneTime ==
  ASSUME LinkTypeOK, LinkTypeOK', LinkHeld, LossEnds, NEW p \in Procs, MailMove(p)
  PROVE  [OneTime!Next]_(OneTime!vars) /\ LossEnds'
<1>0. /\ mail \in [Procs -> Mail] /\ mail[p] \in Mail /\ lost \in BOOLEAN
      /\ uses \in [Links -> Nat] /\ Unused \in [Links -> Nat] /\ Unused = OneTime!Unused
  BY DEF LinkTypeOK, Unused, OneTime!Unused
<1>1. PICK m \in Mail :
        /\ mail' = [mail EXCEPT ![p] = m]
        /\ \/ /\ mail[p].step = "idle" /\ UNCHANGED <<link, uses, lost>>
              /\ \/ m.step = "invalidate"
                 \/ m.step = "create" /\ m.kind \in PasskeyKinds
           \/ /\ mail[p].step = "invalidate" /\ m.step = "create" /\ m.kind = mail[p].kind
              /\ Spends(Valid(mail[p].kind)) /\ NotUsed
           \/ \E l \in Links :
                /\ mail[p].step = "create" /\ m = NoMail /\ link[l] = "none"
                /\ link' = [link EXCEPT ![l] = mail[p].kind] /\ UNCHANGED <<uses, lost>>
           \/ /\ mail[p].step = "idle" /\ UNCHANGED <<link, uses, lost>>
              /\ m.step \in {"markUsed", "update"} /\ m.link \in Links /\ link[m.link] \in Kinds
           \/ /\ mail[p].step = "markUsed" /\ m = NoMail
              /\ Spends({mail[p].link}) /\ Used(mail[p].link)
           \/ /\ mail[p].step = "update" /\ m.step = "markReset" /\ m.link = mail[p].link
              /\ Used(mail[p].link) /\ UNCHANGED <<link, lost>>
           \/ /\ mail[p].step = "markReset" /\ m.step = "logins"
              /\ Spends({mail[p].link}) /\ NotUsed
           \/ /\ mail[p].step \in {"logins", "create", "update"} /\ m = NoMail
              /\ UNCHANGED <<link, uses, lost>>
  BY Zenon DEF MailMove
<1>2. \A steps : LinkHolders(steps)' =
                   {h \in LinkHolders(steps) : h[1] # p}
                     \cup {h \in {p} \X Links : m.link = h[2] /\ m.step \in steps}
  BY <1>1, HoldingMoves
<1>3. \A steps : LinkHolders(steps) =
                   {h \in LinkHolders(steps) : h[1] # p}
                     \cup {h \in {p} \X Links : mail[p].link = h[2] /\ mail[p].step \in steps}
  BY DEF LinkHolders
<1>4. \A steps : m.step \notin steps =>
        LinkHolders(steps)' = {h \in LinkHolders(steps) : h[1] # p}
  BY <1>2
<1>5. \A steps : m.step \notin steps /\ mail[p].step \notin steps =>
        LinkHolders(steps)' = LinkHolders(steps)
  BY <1>3, <1>4
<1>6. NoMail.step = "idle" /\ NoMail.link = None
  BY DEF NoMail
<1>7. LossEnds'
  BY <1>1 DEF LossEnds, Spends, NotUsed, Used
<1>8. ASSUME Failing, lost' = TRUE, uses' = Unused, UNCHANGED link,
             m.step \notin Holding
      PROVE  OneTime!Next
  <2>1. WillUse' \in SUBSET WillUse /\ Owes' \in SUBSET Owes
    BY <1>4, <1>8 DEF WillUse, Owes, Holding
  <2>2. ~NoLosses
    BY <1>8 DEF Failing, NoLosses
  <2>3. LinkStages' = LinkStages
    BY <1>8, StageMoves
  <2>4. OneTime!Lose
    BY <1>0, <1>8, <2>1, <2>2, <2>3 DEF OneTime!Lose
  <2>5. QED  BY <2>4 DEF OneTime!Next
<1>9. CASE UNCHANGED <<link, uses, lost>> /\ m.step \notin Holding /\ mail[p].step \notin Holding
  <2>1. WillUse' = WillUse /\ Owes' = Owes
    BY <1>5, <1>9 DEF WillUse, Owes, Holding
  <2>2. LinkStages' = LinkStages
    BY <1>9, StageMoves
  <2>3. QED  BY <1>7, <1>9, <2>1, <2>2 DEF OneTime!vars
<1>10. CASE /\ mail[p].step = "invalidate" /\ m.step = "create"
            /\ Spends(Valid(mail[p].kind)) /\ NotUsed
  <2>1. CASE Spend(Valid(mail[p].kind)) /\ UNCHANGED lost
    <3>1. StagesSpent
      <4>1. mail[p].kind \in Kinds /\ "none" \notin Kinds
        BY <1>0 DEF Mail, Kinds, MailKinds, PasskeyKinds
      <4>2. QED  BY <2>1, <4>1, StageMoves DEF Valid
    <3>2. WillUse' = WillUse /\ Owes' = Owes
      BY <1>5, <1>10 DEF WillUse, Owes
    <3>3. uses' = uses
      BY <1>10, <2>1 DEF NotUsed, LossEnds
    <3>4. OneTime!Spend
      BY <2>1, <3>1, <3>2, <3>3 DEF OneTime!Spend, StagesSpent
    <3>5. QED  BY <1>7, <3>4 DEF OneTime!Next
  <2>2. CASE Failing /\ lost' = TRUE /\ UNCHANGED link
    BY <1>7, <1>8, <1>10, <2>2 DEF NotUsed, Holding
  <2>3. QED  BY <1>10, <2>1, <2>2 DEF Spends
<1>11. ASSUME NEW l \in Links, mail[p].step = "create", m = NoMail, link[l] = "none",
              link' = [link EXCEPT ![l] = mail[p].kind], UNCHANGED <<uses, lost>>
       PROVE  OneTime!Next
  <2>1. WillUse' = WillUse /\ Owes' = Owes
    BY <1>5, <1>6, <1>11 DEF WillUse, Owes
  <2>2. mail[p].kind \in Kinds
    BY <1>0 DEF Mail
  <2>3. LinkStages[l] = "none" /\ LinkStages' = [LinkStages EXCEPT ![l] = "good"]
    BY <1>11, <2>2, StageMoves
  <2>4. OneTime!Issue(l)
    BY <1>11, <2>1, <2>3 DEF OneTime!Issue
  <2>5. QED  BY <2>4 DEF OneTime!Next
<1>12. CASE /\ mail[p].step = "idle" /\ UNCHANGED <<link, uses, lost>>
            /\ m.step \in {"markUsed", "update"} /\ m.link \in Links /\ link[m.link] \in Kinds
  <2>1. Owes' = Owes
    BY <1>5, <1>12 DEF Owes
  <2>2. WillUse' = WillUse \cup {<<p, m.link>>}
    <3>1. {h \in {p} \X Links : m.link = h[2]} = {<<p, m.link>>}
      BY <1>12
    <3>2. {h \in WillUse : h[1] # p} = WillUse
      BY <1>12 DEF WillUse, LinkHolders
    <3>3. QED  BY <1>2, <1>12, <3>1, <3>2 DEF WillUse
  <2>3. \A k \in Links : <<p, k>> \notin WillUse \cup Owes
    BY <1>12 DEF WillUse, Owes, LinkHolders
  <2>4. LinkStages' = LinkStages /\ LinkStages[m.link] = "good"
    BY <1>12, StageMoves
  <2>5. OneTime!Find(p, m.link)
    BY <1>12, <2>1, <2>2, <2>3, <2>4 DEF OneTime!Find
  <2>6. QED  BY <1>7, <1>12, <2>5 DEF OneTime!Next
<1>13. CASE /\ mail[p].step = "markUsed" /\ m = NoMail
            /\ Spends({mail[p].link}) /\ Used(mail[p].link)
  <2> DEFINE l == mail[p].link
  <2>1. l \in Links /\ link[l] # "none"
    BY <1>13 DEF LinkHeld
  <2>2. CASE Spend({l}) /\ UNCHANGED lost
    <3>1. <<p, l>> \in WillUse /\ Owes' = Owes
      BY <1>5, <1>6, <1>13, <2>1 DEF WillUse, Owes, LinkHolders
    <3>2. WillUse' = WillUse \ {<<p, l>>}
      <4>1. {h \in WillUse : h[1] # p} = WillUse \ {<<p, l>>}
        BY <1>13 DEF WillUse, LinkHolders
      <4>2. QED  BY <1>4, <1>6, <1>13, <4>1 DEF WillUse
    <3>3. LinkStages' = [LinkStages EXCEPT ![l] = "spent"]
      BY <2>1, <2>2, StageMoves
    <3>4. uses' = IF lost THEN uses ELSE [uses EXCEPT ![l] = @ + 1]
      BY <1>13, <2>2 DEF Used, LossEnds
    <3> HIDE DEF l
    <3>5. OneTime!Use(p, l)
      BY <2>2, <3>1, <3>2, <3>3, <3>4 DEF OneTime!Use
    <3>6. QED  BY <1>7, <2>1, <3>5 DEF OneTime!Next
  <2>3. CASE Failing /\ lost' = TRUE /\ UNCHANGED link
    BY <1>6, <1>7, <1>8, <1>13, <2>3 DEF Used, Holding
  <2>4. QED  BY <1>13, <2>2, <2>3 DEF Spends
<1>14. CASE /\ mail[p].step = "update" /\ m.step = "markReset" /\ m.link = mail[p].link
            /\ Used(mail[p].link) /\ UNCHANGED <<link, lost>>
  <2> DEFINE l == mail[p].link
  <2>1. l \in Links /\ link[l] # "none"
    BY <1>14 DEF LinkHeld
  <2>2. <<p, l>> \in WillUse
    BY <1>14, <2>1 DEF WillUse, LinkHolders
  <2>3. WillUse' = WillUse \ {<<p, l>>}
    <3>1. {h \in WillUse : h[1] # p} = WillUse \ {<<p, l>>}
      BY <1>14 DEF WillUse, LinkHolders
    <3>2. QED  BY <1>4, <1>14, <3>1 DEF WillUse
  <2>4. Owes' = Owes \cup {<<p, l>>}
    <3>1. {h \in {p} \X Links : m.link = h[2]} = {<<p, l>>}
      BY <1>14, <2>1
    <3>2. {h \in Owes : h[1] # p} = Owes
      BY <1>14 DEF Owes, LinkHolders
    <3>3. QED  BY <1>2, <1>14, <3>1, <3>2 DEF Owes
  <2>5. LinkStages' = LinkStages
    BY <1>14, StageMoves
  <2>6. uses' = IF lost THEN uses ELSE [uses EXCEPT ![l] = @ + 1]
    BY <1>14 DEF Used, LossEnds
  <2> HIDE DEF l
  <2>7. OneTime!Use(p, l)
    BY <1>14, <2>2, <2>3, <2>4, <2>5, <2>6 DEF OneTime!Use
  <2>8. QED  BY <1>7, <2>1, <2>7 DEF OneTime!Next
<1>15. CASE /\ mail[p].step = "markReset" /\ m.step = "logins"
            /\ Spends({mail[p].link}) /\ NotUsed
  <2> DEFINE l == mail[p].link
  <2>1. l \in Links /\ link[l] # "none"
    BY <1>15 DEF LinkHeld
  <2>2. CASE Spend({l}) /\ UNCHANGED lost
    <3>1. WillUse' = WillUse
      BY <1>5, <1>15 DEF WillUse
    <3>2. Owes' = Owes \ {<<p, l>>}
      <4>1. {h \in Owes : h[1] # p} = Owes \ {<<p, l>>}
        BY <1>15 DEF Owes, LinkHolders
      <4>2. QED  BY <1>4, <1>15, <4>1 DEF Owes
    <3>3. StagesSpent /\ LinkStages'[l] = "spent"
      BY <2>1, <2>2, StageMoves
    <3>4. uses' = uses
      BY <1>15, <2>2 DEF NotUsed, LossEnds
    <3> HIDE DEF l
    <3>5. Owes' \in SUBSET Owes /\ \A h \in Owes \ Owes' : LinkStages'[h[2]] = "spent"
      BY <3>2, <3>3
    <3>6. OneTime!Spend
      BY <2>2, <3>1, <3>3, <3>4, <3>5 DEF OneTime!Spend, StagesSpent
    <3>7. QED  BY <1>7, <3>6 DEF OneTime!Next
  <2>3. CASE Failing /\ lost' = TRUE /\ UNCHANGED link
    BY <1>7, <1>8, <1>15, <2>3 DEF NotUsed, Holding
  <2>4. QED  BY <1>15, <2>2, <2>3 DEF Spends
<1>16. CASE mail[p].step = "update" /\ m = NoMail /\ UNCHANGED <<link, uses, lost>>
  <2>1. WillUse' \in SUBSET WillUse /\ Owes' = Owes
    BY <1>4, <1>5, <1>6, <1>16 DEF WillUse, Owes
  <2>2. LinkStages' = LinkStages
    BY <1>16, StageMoves
  <2>3. OneTime!Release
    BY <1>16, <2>1, <2>2 DEF OneTime!Release
  <2>4. QED  BY <1>7, <2>3 DEF OneTime!Next
<1>17. QED
  BY <1>1, <1>6, <1>7, <1>9, <1>10, <1>11, <1>12, <1>13, <1>14, <1>15, <1>16 DEF Holding

\* So does everything else that happens to the links.
LEMMA LinksOneTime ==
  ASSUME LinkTypeOK, LinkTypeOK', LinkHeld, LossEnds, LinkStep
  PROVE  [OneTime!Next]_(OneTime!vars) /\ LossEnds'
<1>0. /\ lost \in BOOLEAN /\ Unused = OneTime!Unused /\ "none" \notin Kinds
  BY DEF LinkTypeOK, Unused, OneTime!Unused, Kinds, MailKinds, PasskeyKinds
<1>1. ASSUME NEW l \in Links, link[l] \in Kinds, Spend({l}), UNCHANGED <<mail, uses, lost>>
      PROVE  [OneTime!Next]_(OneTime!vars) /\ LossEnds'
  <2>1. StagesSpent
    BY <1>0, <1>1, StageMoves
  <2>2. WillUse' = WillUse /\ Owes' = Owes
    BY <1>1 DEF WillUse, Owes, LinkHolders
  <2>3. OneTime!Spend
    BY <1>1, <2>1, <2>2 DEF OneTime!Spend, StagesSpent
  <2>4. QED  BY <1>1, <2>3 DEF OneTime!Next, LossEnds
<1>2. CASE /\ mail' = [p \in Procs |-> NoMail] /\ UNCHANGED link /\ NotUsed
           /\ "crash" \in Operations
           /\ lost' = (lost \/ \E p \in Procs : mail[p].step = "markReset")
  <2>1. WillUse' = {} /\ Owes' = {}
    BY <1>2 DEF WillUse, Owes, LinkHolders, NoMail
  <2>2. LinkStages' = LinkStages /\ ~NoLosses
    BY <1>2, StageMoves DEF NoLosses
  <2>3. CASE lost'
    <3>1. OneTime!Lose
      BY <1>0, <1>2, <2>1, <2>2, <2>3 DEF OneTime!Lose, NotUsed
    <3>2. QED  BY <1>2, <2>3, <3>1 DEF OneTime!Next, LossEnds, NotUsed
  <2>4. CASE ~lost'
    <3>1. Owes = {} /\ UNCHANGED <<uses, lost>>
      BY <1>0, <1>2, <2>4 DEF Owes, LinkHolders, NotUsed
    <3>2. OneTime!Release
      BY <2>1, <2>2, <3>1 DEF OneTime!Release
    <3>3. QED  BY <2>4, <3>2 DEF OneTime!Next, LossEnds
  <2>5. QED  BY <2>3, <2>4
<1>3. CASE UNCHANGED linkVars
  <2>1. UNCHANGED <<LinkStages, WillUse, Owes, uses, lost>>
    BY <1>3 DEF linkVars, LinkStages, LinkStage, WillUse, Owes, LinkHolders
  <2>2. QED  BY <2>1 DEF OneTime!vars, LossEnds
<1>4. QED  BY <1>1, <1>2, <1>3, MailOneTime DEF LinkStep

\* Mailed links and passkey challenges are good once, however requests for them
\* and about them overlap (MarkTokenUsed, MarkPasskeyChallengeUsed, MarkResetUsed).
THEOREM LinksAreGoodOnce == Spec => LinksGoodOnce
<1>1. Init => OneTime!Init /\ LossEnds
  BY DEF Init, OneTime!Init, LossEnds, LinkStages, LinkStage, WillUse, Owes, LinkHolders,
         NoMail, Unused, OneTime!Unused, Kinds, MailKinds, PasskeyKinds
<1>2. IInv /\ IInv' /\ LossEnds /\ [Next]_vars => [OneTime!Next]_(OneTime!vars) /\ LossEnds'
  BY LinkSteps, LinksOneTime DEF IInv
<1>3. QED  BY Invariance, <1>1, <1>2, PTL DEF Spec, LinksGoodOnce, OneTime!Spec

=============================================================================
