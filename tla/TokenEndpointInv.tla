-------------------------- MODULE TokenEndpointInv --------------------------
(***************************************************************************)
(* The inductive invariants behind the safety properties of TokenEndpoint: *)
(* what a request that is between two statements may rely on, although     *)
(* other requests have run since it read the tables.                       *)
(***************************************************************************)
EXTENDS TokenEndpoint

\* Rows that were inserted belong to a user, and to a login of that same user.
RowsAgree ==
  /\ \A c \in Codes : code[c].st # "free" =>
       /\ code[c].user \in Users
       /\ code[c].login # None => Owner[code[c].login] = code[c].user
  /\ \A g \in Grants : session[g].st # "free" =>
       /\ session[g].user \in Users
       /\ session[g].login # None => Owner[session[g].login] = session[g].user
       /\ token[g].st # "free"

\* So does what a request has loaded; it keeps the code or the session it
\* started from, whatever state that row is in by now.
RequestAgrees(p) ==
  LET r == req[p]
  IN  /\ pc[p] # "ready" => r.user \in Users
      /\ r.login # None => r.user \in Users /\ Owner[r.login] = r.user
      /\ pc[p] \in {"replayCode", "markUsed"} => r.code # None
      /\ r.code # None => code[r.code].st # "free" /\ r.parent = None
      /\ r.parent # None => /\ session[r.parent].st # "free"
                            /\ session[r.parent].user = r.user
      /\ pc[p] \in {"checkRevoked", "replayRefresh", "priorLogin", "touchPrior", "rotate"}
           => r.parent # None

RequestsAgree == \A p \in Procs : RequestAgrees(p)

\* A request about to insert a sessions row is the only one with that grant;
\* its tokens row is there, its sessions row is not.
GrantReserved(p) ==
  pc[p] = "insertSession" =>
    /\ req[p].grant # None
    /\ token[req[p].grant].st # "free"
    /\ session[req[p].grant].st = "free"

GrantsReserved ==
  /\ \A p \in Procs : GrantReserved(p)
  /\ \A p, q \in Procs : /\ pc[p] = "insertSession" /\ pc[q] = "insertSession"
                         /\ req[p].grant = req[q].grant
                         => p = q

\* Between the two statements of a password reset the only sessions of the
\* user that live are those inserted in between, unless the first one failed.
ResetDrains ==
  \A g \in Grants :
    Live(g) /\ <<session[g].user, "dropLogins">> \in pending
      => g \in late \/ session[g].user \in missed

\* A request that has passed the single-use statement of its grant has spent
\* what it presented.
Spent(p) ==
  LET r == req[p]
  IN  /\ pc[p] \in {"loadUser", "insertToken"} /\ r.code # None
           => code[r.code].st \in {"used", "deleted"}
      /\ pc[p] = "insertToken" /\ r.parent # None
           => token[r.parent].st \in {"revoked", "deleted"}

SpendsFirst == \A p \in Procs : Spent(p)

\* The inductive invariant: TypeOK and the parts above carry the four safety
\* properties through every interleaving.
IInv ==
  /\ TypeOK
  /\ RowsAgree
  /\ RequestsAgree
  /\ GrantsReserved
  /\ SpendsFirst
  /\ RotatedParentRetired
  /\ RedeemedCodeSpent
  /\ ResetDrains
  /\ CascadeComplete
  /\ DeactivationComplete

-----------------------------------------------------------------------------
\* What a request will write into its sessions row: the login of its code, or of
\* the session it refreshes, as far as that could still be looked up.
Carried(p) ==
  LET r == req[p]
  IN  IF r.code # None THEN r.login = code[r.code].login
      ELSE IF r.parent = None THEN r.login = None
      ELSE \/ r.login = session[r.parent].login
           \/ /\ r.login = None
              /\ session[r.parent].st = "deleted" \/ "dbFail" \in Operations

Carries(p) ==
  LET r == req[p]
  IN  /\ pc[p] \in {"markUsed", "loadUser"} /\ r.code # None
           => r.login = code[r.code].login
      /\ pc[p] = "loadUser" => r.code # None \/ r.parent # None
      /\ pc[p] \in {"checkRevoked", "loadUser", "priorLogin"} /\ r.parent # None
           => r.login = None
      /\ pc[p] \in {"touchPrior", "rotate", "insertToken", "insertSession"} => Carried(p)
      /\ pc[p] = "insertSession"
           => origin[r.grant] = [code |-> r.code, parent |-> r.parent]

\* A refreshed grant comes from a session that was inserted.
ParentsInserted ==
  \A g \in Grants : origin[g].parent # None => session[origin[g].parent].st # "free"

LinkInv == (\A p \in Procs : Carries(p)) /\ ParentsInserted /\ LinkInherited

-----------------------------------------------------------------------------
\* Requests that have found a code or a refresh token good and may still insert
\* a grant for it, and the grants that were.
CodeHolders(c) ==
  {p \in Procs : pc[p] \in {"markUsed", "loadUser", "insertToken"} /\ req[p].code = c}

CodeGrants(c) == {g \in Grants : origin[g].code = c}

ParentHolders(h) ==
  {p \in Procs : /\ pc[p] \in {"loadUser", "priorLogin", "touchPrior", "rotate", "insertToken"}
                 /\ req[p].parent = h}

ParentGrants(h) == {g \in Grants : origin[g].parent = h}

\* Together they are no more than the requests at a time.
Within(grants, holders) ==
  IsFiniteSet(grants) /\ Cardinality(grants) + Cardinality(holders) <= Cardinality(Procs)

\* A tokens row is purged only when its refresh token has expired, and not under
\* a request that is about to look at it.
PurgedExpired ==
  /\ \A g \in Grants : token[g].st = "deleted" => g \in expired
  /\ \A p \in Procs : pc[p] = "checkRevoked" => token[req[p].parent].st # "deleted"

RedeemInv ==
  /\ PurgedExpired
  /\ \A c \in Codes : Within(CodeGrants(c), CodeHolders(c))
  /\ "dbFail" \in Operations \/ \A h \in Grants : Within(ParentGrants(h), ParentHolders(h))

-----------------------------------------------------------------------------
\* The two rows of a grant have the same user.
SubjectsAgree ==
  /\ \A g \in Grants : session[g].st # "free" => token[g].user = session[g].user
  /\ \A p \in Procs : pc[p] = "insertSession" => token[req[p].grant].user = req[p].user
-----------------------------------------------------------------------------
\* The subject comes along: a grant belongs to the user of its code and of the
\* grant it was refreshed from, and its two rows to one user, whatever requests
\* and revocations ran between the statements that read the one and wrote the other.
SubjectInherited ==
  \A g \in Grants :
    /\ session[g].st # "free" => session[g].user = token[g].user
    /\ origin[g].code # None => code[origin[g].code].user = token[g].user
    /\ origin[g].parent # None => token[origin[g].parent].user = token[g].user

\* What a request has loaded from a code is the subject of that code, and a grant
\* that was not inserted comes from nowhere.
SubjectInv ==
  /\ SubjectsAgree /\ SubjectInherited
  /\ \A p \in Procs : req[p].code # None => code[req[p].code].user = req[p].user
  /\ \A g \in Grants : token[g].st = "free" => origin[g] = [code |-> None, parent |-> None]

-----------------------------------------------------------------------------
\* Refinement: an authorization code is good once.  A request that has found it
\* unused holds it until it inserts the grant or gives up; the grants are its uses.
CodeStage(c) ==
  IF code[c].st = "free" THEN "none" ELSE IF code[c].st = "unused" THEN "good" ELSE "spent"

CodeStages == [c \in Codes |-> CodeStage(c)]

CodeRedeemers == {h \in Procs \X Codes : h[1] \in CodeHolders(h[2])}

CodeUses == [c \in Codes |-> Cardinality(CodeGrants(c))]

OneTime == INSTANCE OneTimeToken WITH
  Tokens <- Codes, Reliable <- TRUE, stage <- CodeStages, found <- CodeRedeemers,
  owed <- {}, uses <- CodeUses, lost <- FALSE

\* A code yields grants only for requests that have read it before it was marked
\* (UserByAuthorizationCode).
CodesGoodOnce == OneTime!Spec
=============================================================================
