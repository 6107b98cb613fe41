------------------------------ MODULE Accounts ------------------------------
(***************************************************************************)
(* Accounts that come and go: signing up, passkey registration, federated  *)
(* identities, addresses, deletion.  All of them want the same name, so    *)
(* that at most one is there at a time; its rows in other tables refer to  *)
(* it.                                                                     *)
(***************************************************************************)
EXTENDS Integers, FiniteSets

CONSTANTS
  Procs,        \* request goroutines
  Ids,          \* users.id; a deleted one comes back only when nobody holds it
  Subjects,     \* subjects of a federation provider
  Addresses,    \* addresses an account may have
  None,
  Operations    \* optional behaviour of the instance

ASSUME ProcsAssumption == IsFiniteSet(Procs) /\ Procs # {}
ASSUME NoneAssumption == None \notin Ids \cup Subjects \cup Addresses

VARIABLES
  acct,        \* the users table: how an account was made
  rows,        \* rows[u]: tables with a row of the account
  requests,    \* requests[u]: its deletion_requests rows
  identity,    \* the federated_identities table: the account of a subject
  address,     \* users.email
  verified,    \* users.is_email_verified
  sent,        \* the address the link of users.email_verification_token was mailed to
  req,         \* req[p]: what a request holds in local variables
  late,        \* history: requests whose deletion another one has inserted into
  strange,     \* history: a deletion was blocked for no such reason
  undone,      \* history: a registration deleted an account registered before it
  unlinked,    \* history: accounts whose identity was removed or never stored
  proven,      \* history: addresses whose link was opened, or an administrator vouched for
  mistaken     \* history: addresses that got the flag by a link mailed elsewhere, or kept
               \* it as an update compared with an address that was no longer in the row

email == <<address, verified, sent, proven, mistaken>>
tables == <<acct, rows, requests, identity, address, verified, sent>>
accountHistory == <<late, strange, undone, unlinked>>
history == <<accountHistory, proven, mistaken>>
vars == <<tables, req, history>>

\* "begun": a passkey registration that has not come to its end.
Kinds == {"begun", "passkey", "password", "federated"}

\* "grant": logins, challenges, codes, sessions and tokens; "link": links sent by
\* mail and device codes; the others go with the account (ON DELETE CASCADE):
\* challenges to register a passkey, and passkeys.
Tables == {"grant", "link", "challenge", "credential"}

Steps == {"idle", "credentials", "requests", "grants", "identities", "user", "create",
          "challenge", "owner", "finish", "register", "used", "login", "code", "mail", "email",
          "createFederated", "lookup", "link", "disconnect", "ask", "verification", "verify",
          "addPasskey", "update", "write"}

\* users.email may be NULL.
MaybeAddress == Addresses \cup {None}

\* What an update does to is_email_verified; a request that leaves it out keeps it.
Flags == {"keep", "set", "clear"}

\* again: the deleted account is created anew; done: it was read as registered;
\* knew, a history: the account that was in use when a registration began; address:
\* what a link was mailed to, or an update writes, together with flag; seen: what the
\* middleware has read.
Request == [step : Steps, id : Ids \cup {None}, subject : Subjects \cup {None},
            again : BOOLEAN, done : BOOLEAN, knew : Ids \cup {None},
            address : MaybeAddress, seen : MaybeAddress, flag : Flags]

Idle == [step |-> "idle", id |-> None, subject |-> None, again |-> FALSE, done |-> FALSE,
         knew |-> None, address |-> None, seen |-> None, flag |-> "keep"]

Init ==
  /\ acct = [u \in Ids |-> "none"] /\ rows = [u \in Ids |-> {}]
  /\ requests = [u \in Ids |-> 0] /\ identity = [x \in Subjects |-> None]
  /\ address = [u \in Ids |-> None] /\ verified = {} /\ sent = [u \in Ids |-> None]
  /\ proven = [u \in Ids |-> {}] /\ mistaken = [u \in Ids |-> {}]
  /\ req = [p \in Procs |-> Idle]
  /\ late = {} /\ strange = FALSE /\ undone = FALSE
  /\ unlinked = {}

-----------------------------------------------------------------------------
At(p, step) == req[p].step = step
GoTo(p, step) == req' = [req EXCEPT ![p].step = step]
Ends(p) == req' = [req EXCEPT ![p] = Idle]
Begins(p, step, u) == req' = [req EXCEPT ![p] = [Idle EXCEPT !.step = step, !.id = u]]

Failing == "dbFail" \in Operations

Live(u) == acct[u] # "none"
Registered(u) == acct[u] \in Kinds \ {"begun"}
NameFree == \A u \in Ids : ~Live(u)
Fresh(u) == ~Live(u) /\ \A p \in Procs : u \notin {req[p].id, req[p].knew}

HasPasskey(u) == "credential" \in rows[u]
Identities(u) == {x \in Subjects : identity[x] = u}

\* An account in use, or one whose registration has not come to its end.
SignedIn(u) == Registered(u) \/ rows[u] \cap {"grant", "credential"} # {}

\* A row of the users table as it is INSERTed.
CreateUser(u, kind, a) ==
  /\ acct' = [acct EXCEPT ![u] = kind] /\ address' = [address EXCEPT ![u] = a]
  /\ UNCHANGED <<verified, sent, proven, mistaken>>

\* foreign_keys = ON: a row of an account needs the account.
HasParent(u) == Live(u)

Deleting(p, u) == req[p].id = u /\ req[p].step \in {"requests", "grants", "identities", "user"}

\* Somebody is deleting the account that gets the row.
Inserted(u) == late' = late \cup {p \in Procs : Deleting(p, u)}

InsertRow(u, table) ==
  IF HasParent(u) THEN rows' = [rows EXCEPT ![u] = @ \cup {table}] /\ Inserted(u)
                  ELSE UNCHANGED <<rows, late>>

DeleteRow(u, table) == rows' = [rows EXCEPT ![u] = @ \ {table}]

-----------------------------------------------------------------------------
(* HardDeleteUser: statements of their own, the first error ends it.       *)

\* Who deletes: the owner, an administrator, a registration.
DeleteAccount(p, u) ==
  /\ At(p, "idle") /\ Live(u)
  /\ Begins(p, "requests", u)
  /\ UNCHANGED <<tables, history>>

\* HandleRegisterBegin's ignores the error and creates the account anew.
AfterDelete(p) == IF req[p].again THEN GoTo(p, "create") ELSE Ends(p)

\* Mutant: a table is missing in the list.
RequestsForgotten(p) ==
  /\ At(p, "requests") /\ GoTo(p, "grants")
  /\ UNCHANGED <<tables, history>>

DeleteRequests(p) ==
  /\ At(p, "requests")
  /\ requests' = [requests EXCEPT ![req[p].id] = 0]
  /\ GoTo(p, "grants")
  /\ UNCHANGED <<acct, rows, identity, email, accountHistory>>

DeleteGrants(p) ==
  /\ At(p, "grants")
  /\ DeleteRow(req[p].id, "grant")
  /\ GoTo(p, "identities")
  /\ UNCHANGED <<acct, requests, identity, email, accountHistory>>

DeleteIdentities(p) ==
  LET u == req[p].id
  IN  /\ At(p, "identities")
      /\ identity' = [x \in Subjects |-> IF identity[x] = u THEN None ELSE identity[x]]
      /\ unlinked' = IF Live(u) THEN unlinked \cup {u} ELSE unlinked
      /\ GoTo(p, "user")
      /\ UNCHANGED <<acct, rows, requests, late, strange, undone, email>>

\* What refers to the account without ON DELETE CASCADE.
Blocked(u) == rows[u] \cap {"grant", "link"} # {} \/ requests[u] > 0 \/ Identities(u) # {}

DeleteUser(p) ==
  LET u == req[p].id
  IN  /\ At(p, "user")
      /\ IF Blocked(u)
         THEN /\ strange' = (strange \/ ("link" \notin rows[u] /\ p \notin late))
              /\ UNCHANGED <<acct, rows, unlinked, undone, email>>
         ELSE /\ acct' = [acct EXCEPT ![u] = "none"]
              /\ rows' = [rows EXCEPT ![u] = {}]
              /\ unlinked' = unlinked \ {u}
              /\ address' = [address EXCEPT ![u] = None]
              /\ verified' = verified \ {u} /\ sent' = [sent EXCEPT ![u] = None]
              /\ proven' = [proven EXCEPT ![u] = {}]
              /\ mistaken' = [mistaken EXCEPT ![u] = {}]
              /\ undone' = (undone \/ (req[p].knew = u))
              /\ UNCHANGED strange
      /\ AfterDelete(p)
      /\ late' = late \ {p}
      /\ UNCHANGED <<requests, identity>>

DeleteFails(p) ==
  /\ Failing /\ req[p].step \in {"requests", "grants", "identities", "user"}
  /\ AfterDelete(p)
  /\ late' = late \ {p}
  /\ UNCHANGED <<tables, strange, undone, unlinked, email>>

-----------------------------------------------------------------------------
(* Deletion requests.                                                      *)

\* Without self-service the account must wait for an administrator.
RequestDeletion(p, u) ==
  /\ At(p, "idle") /\ Registered(u) /\ requests[u] = 0
  /\ Begins(p, "ask", u)
  /\ UNCHANGED <<tables, history>>

CreateDeletionRequest(p) ==
  LET u == req[p].id
  IN  /\ At(p, "ask")
      /\ IF HasParent(u) THEN requests' = [requests EXCEPT ![u] = @ + 1] /\ Inserted(u)
                         ELSE UNCHANGED <<requests, late>>
      /\ Ends(p)
      /\ UNCHANGED <<acct, rows, identity, strange, undone, unlinked, email>>

\* Mutant: a row is deleted without a look whether it is there.
CancelNothing(u) ==
  /\ requests' = [requests EXCEPT ![u] = @ - 1]
  /\ UNCHANGED <<acct, rows, identity, req, email, accountHistory>>

\* By the user or by an administrator; one request at a time.
CancelDeletionRequest(u) ==
  /\ requests[u] > 0
  /\ requests' = [requests EXCEPT ![u] = @ - 1]
  /\ UNCHANGED <<acct, rows, identity, req, email, accountHistory>>

-----------------------------------------------------------------------------
(* Passkey registration.                                                   *)

Registers(p, step, u) ==
  \E w \in IF NameFree THEN {None} ELSE {v \in Ids : Live(v)} :
    req' = [req EXCEPT ![p] = [Idle EXCEPT !.step = step, !.id = u,
                                           !.knew = IF w # None /\ Registered(w) THEN w ELSE None]]

\* A name that is taken by an account in use is refused.
RegisterBegin(p) ==
  /\ At(p, "idle")
  /\ \/ NameFree /\ Registers(p, "create", None)
     \/ \E u \in Ids : acct[u] = "begun" /\ Registers(p, "credentials", u)
  /\ UNCHANGED <<tables, history>>

\* An error counts as no credentials.
CheckCredentials(p) ==
  /\ At(p, "credentials")
  /\ \/ HasPasskey(req[p].id) /\ Ends(p)
     \/ /\ ~HasPasskey(req[p].id) \/ Failing
        /\ req' = [req EXCEPT ![p].step = "requests", ![p].again = TRUE]
  /\ UNCHANGED <<tables, history>>

CreatePasskeyUser(p, u) ==
  /\ At(p, "create") /\ NameFree /\ Fresh(u)
  /\ \E a \in MaybeAddress : CreateUser(u, "begun", a)
  /\ Begins(p, "challenge", u)
  /\ UNCHANGED <<rows, requests, identity, accountHistory>>

CreateChallenge(p) ==
  /\ At(p, "challenge")
  /\ InsertRow(req[p].id, "challenge")
  /\ Ends(p)
  /\ UNCHANGED <<acct, requests, identity, strange, undone, unlinked, email>>

\* The challenge is neither used nor expired.
RegisterFinish(p, u) ==
  /\ At(p, "idle") /\ "challenge" \in rows[u]
  /\ Registers(p, "owner", u)
  /\ UNCHANGED <<tables, history>>

ReadOwner(p) ==
  LET u == req[p].id
  IN  /\ At(p, "owner") /\ Live(u)
      /\ req' = [req EXCEPT ![p].step = "finish", ![p].done = Registered(u)]
      /\ UNCHANGED <<tables, history>>

\* Mutant: also an account that is in use.
DeleteAnyway(p) == GoTo(p, "requests")

\* By what was read of the account before.
DeleteIfUnregistered(p) == IF req[p].done THEN Ends(p) ELSE GoTo(p, "requests")

\* The answer of the authenticator is wrong, or its credential cannot be stored.
FinishFails(p) ==
  /\ At(p, "finish")
  /\ DeleteIfUnregistered(p)
  /\ UNCHANGED <<tables, history>>

CreateCredential(p) ==
  LET u == req[p].id
  IN  /\ At(p, "finish") /\ HasParent(u) /\ "credential" \notin rows[u]
      /\ InsertRow(u, "credential")
      /\ GoTo(p, "register")
      /\ UNCHANGED <<acct, requests, identity, strange, undone, unlinked, email>>

SetRegisteredAt(p) ==
  LET u == req[p].id
  IN  /\ At(p, "register")
      /\ acct' = IF acct[u] = "begun" THEN [acct EXCEPT ![u] = "passkey"] ELSE acct
      /\ GoTo(p, "used")
      /\ UNCHANGED <<rows, requests, identity, email, accountHistory>>

\* Its error is ignored.
MarkChallengeUsed(p) ==
  /\ At(p, "used")
  /\ \/ DeleteRow(req[p].id, "challenge")
     \/ Failing /\ UNCHANGED rows
  /\ GoTo(p, "login")
  /\ UNCHANGED <<acct, requests, identity, email, accountHistory>>

-----------------------------------------------------------------------------
(* Signing in with a passkey, and one more passkey.                        *)

\* Whoever has a passkey, even if the registration has not come to its end.  The
\* challenge answered is of no other use, and is left out.
PasskeyLogin(p, u) ==
  /\ At(p, "idle") /\ HasPasskey(u)
  /\ Begins(p, "login", u)
  /\ UNCHANGED <<tables, history>>

\* By the owner of the account, with the answer to a challenge of his own.
AddPasskey(p, u) ==
  /\ At(p, "idle") /\ Registered(u)
  /\ Begins(p, "addPasskey", u)
  /\ UNCHANGED <<tables, history>>

StorePasskey(p) ==
  /\ At(p, "addPasskey")
  /\ InsertRow(req[p].id, "credential")
  /\ Ends(p)
  /\ UNCHANGED <<acct, requests, identity, strange, undone, unlinked, email>>

-----------------------------------------------------------------------------
(* Signing in and signing up.                                              *)

\* FinalizeLogin, whose error is ignored, and the authorization code.
InsertGrant(p, next) ==
  /\ InsertRow(req[p].id, "grant")
  /\ req' = [req EXCEPT ![p] = IF next = "idle" THEN Idle ELSE [@ EXCEPT !.step = next]]
  /\ UNCHANGED <<acct, requests, identity, strange, undone, unlinked, email>>

FinalizeLogin(p) == At(p, "login") /\ InsertGrant(p, "code")
CreateAuthCode(p) == At(p, "code") /\ InsertGrant(p, "idle")

SignUp(p, u) ==
  /\ At(p, "idle") /\ NameFree /\ Fresh(u)
  /\ \E a \in MaybeAddress : CreateUser(u, "password", a)
  /\ Begins(p, "login", u)
  /\ UNCHANGED <<rows, requests, identity, accountHistory>>

SignIn(p, u) ==
  /\ At(p, "idle") /\ Registered(u)
  /\ Begins(p, "login", u)
  /\ UNCHANGED <<tables, history>>

\* A magic link or a reset link, to a verified address; a device code, which needs
\* none.
RequestLink(p, u) ==
  /\ At(p, "idle")
  /\ (u \in verified /\ address[u] # None) \/ SignedIn(u)
  /\ Begins(p, "mail", u)
  /\ UNCHANGED <<tables, history>>

CreateLink(p) ==
  /\ At(p, "mail")
  /\ InsertRow(req[p].id, "link")
  /\ Ends(p)
  /\ UNCHANGED <<acct, requests, identity, strange, undone, unlinked, email>>

-----------------------------------------------------------------------------
(* The address of an account.                                              *)

\* Signing up, or signing in where an address must be verified, or resending.
AskVerification(p, u) ==
  /\ At(p, "idle") /\ Live(u) /\ u \notin verified /\ address[u] # None
  /\ req' = [req EXCEPT ![p] = [Idle EXCEPT !.step = "verification", !.id = u,
                                           !.address = address[u]]]
  /\ UNCHANGED <<tables, history>>

\* The link replaces the one before; it is mailed to the address read earlier.
SetVerificationToken(p) ==
  LET u == req[p].id
  IN  /\ At(p, "verification")
      /\ sent' = IF Live(u) THEN [sent EXCEPT ![u] = req[p].address] ELSE sent
      /\ Ends(p)
      /\ UNCHANGED <<acct, rows, requests, identity, address, verified, history>>

VerifyEmail(p, u) ==
  /\ At(p, "idle") /\ sent[u] # None
  /\ req' = [req EXCEPT ![p] = [Idle EXCEPT !.step = "verify", !.id = u, !.address = sent[u]]]
  /\ UNCHANGED <<tables, history>>

\* Whatever the address is by now; the user is signed in.
MarkEmailVerified(p) ==
  LET u == req[p].id
      a == req[p].address
  IN  /\ At(p, "verify")
      /\ IF Live(u)
         THEN /\ verified' = verified \cup {u} /\ sent' = [sent EXCEPT ![u] = None]
              /\ proven' = [proven EXCEPT ![u] = @ \cup {a}]
              /\ mistaken' = [mistaken EXCEPT ![u] = @ \cup ({address[u]} \ {a})]
         ELSE UNCHANGED <<verified, sent, proven, mistaken>>
      /\ GoTo(p, "login")
      /\ UNCHANGED <<acct, rows, requests, identity, address, accountHistory>>

ExpireVerification(u) ==
  /\ sent[u] # None
  /\ sent' = [sent EXCEPT ![u] = None]
  /\ UNCHANGED <<acct, rows, requests, identity, address, verified, req, history>>

\* HandleUpdateProfile, by the row the middleware has read; with no address also a
\* new password.
UpdateProfile(p, u, to) ==
  /\ At(p, "idle") /\ SignedIn(u)
  /\ req' = [req EXCEPT ![p] = [Idle EXCEPT !.step = "update", !.id = u, !.address = to,
                                           !.seen = address[u]]]
  /\ UNCHANGED <<tables, history>>

\* Mutant: a new address keeps the flag.
AskToKeep(to, seen) == "keep"

\* A new address is not verified (emailChanging).
FlagAsked(to, seen) == IF to \in {None, seen} THEN "keep" ELSE "clear"

\* UpdateUser reads the row anew, and will write all of it.
ReadUser(p, u, to, flag) ==
  req' = [req EXCEPT ![p] =
           [Idle EXCEPT !.step = "write", !.id = u,
                        !.address = IF to = None THEN address[u] ELSE to,
                        !.flag = IF flag # "keep" THEN flag
                                 ELSE IF u \in verified THEN "set" ELSE "clear"]]

\* The owner's: what he asks for may be the address no longer in the row.
UpdateByOwner(p) ==
  LET u == req[p].id
      to == req[p].address
  IN  /\ At(p, "update") /\ Live(u)
      /\ ReadUser(p, u, to, FlagAsked(to, req[p].seen))
      /\ mistaken' = IF to = req[p].seen /\ to \notin {None, address[u]} /\ u \in verified
                     THEN [mistaken EXCEPT ![u] = @ \cup {to}] ELSE mistaken
      /\ UNCHANGED <<tables, accountHistory, proven>>

\* HandleUpdateUser, by an administrator: the address and the flag as he likes.
UpdateByAdmin(p, u, to, flag) ==
  /\ At(p, "idle") /\ Live(u)
  /\ ReadUser(p, u, to, flag)
  /\ proven' = IF (to # None \/ flag = "set") /\ req'[p].flag = "set"
               THEN [proven EXCEPT ![u] = @ \cup {req'[p].address}] ELSE proven
  /\ UNCHANGED <<tables, accountHistory, mistaken>>

\* Whatever the row is by now.
UpdateUser(p) ==
  LET u == req[p].id
  IN  /\ At(p, "write")
      /\ IF Live(u)
         THEN /\ address' = [address EXCEPT ![u] = req[p].address]
              /\ verified' = IF req[p].flag = "set" THEN verified \cup {u} ELSE verified \ {u}
         ELSE UNCHANGED <<address, verified>>
      /\ Ends(p)
      /\ UNCHANGED <<acct, rows, requests, identity, sent, history>>

-----------------------------------------------------------------------------
(* Federated identities.                                                   *)

\* An error counts as an identity that is not known yet.
Callback(p, x) ==
  /\ At(p, "idle")
  /\ \/ identity[x] # None /\ Begins(p, "login", identity[x])
     \/ /\ identity[x] = None \/ Failing
        /\ req' = [req EXCEPT ![p] = [Idle EXCEPT !.step = "email", !.subject = x]]
  /\ UNCHANGED <<tables, history>>

\* An account whose verified address is the subject's, too.
MatchEmail(p) ==
  /\ At(p, "email")
  /\ \/ \E u \in verified : address[u] # None /\ req' = [req EXCEPT ![p].step = "link", ![p].id = u]
     \/ GoTo(p, "createFederated")
  /\ UNCHANGED <<tables, history>>

CreateFederatedUser(p, u) ==
  /\ At(p, "createFederated") /\ NameFree /\ Fresh(u)
  /\ \E a \in MaybeAddress : CreateUser(u, "federated", a)
  /\ GoTo(p, "lookup")
  /\ UNCHANGED <<rows, requests, identity, accountHistory>>

\* Mutant: only an account found by its address is linked.
LinkFoundOnly(p) ==
  /\ At(p, "lookup")
  /\ \E u \in Ids : Live(u) /\ req' = [req EXCEPT ![p].step = "login", ![p].id = u]
  /\ UNCHANGED <<tables, history>>

\* The account is looked up by the name it was given.
LookUpCreated(p) ==
  /\ At(p, "lookup")
  /\ \/ \E u \in Ids : Live(u) /\ req' = [req EXCEPT ![p].step = "link", ![p].id = u]
     \/ NameFree /\ Ends(p)
  /\ UNCHANGED <<tables, history>>

\* Its error is ignored.
CreateFederatedIdentity(p) ==
  LET u == req[p].id
      x == req[p].subject
  IN  /\ At(p, "link")
      /\ \/ /\ HasParent(u) /\ identity[x] = None
            /\ identity' = [identity EXCEPT ![x] = u] /\ Inserted(u)
            /\ UNCHANGED unlinked
         \/ /\ ~HasParent(u) \/ identity[x] # None \/ Failing
            /\ unlinked' = IF Live(u) /\ identity[x] # u THEN unlinked \cup {u} ELSE unlinked
            /\ UNCHANGED <<identity, late>>
      /\ GoTo(p, "login")
      /\ UNCHANGED <<acct, rows, requests, strange, undone, email>>

\* The last identity stays unless there is a password.
Disconnect(p, x) ==
  LET u == identity[x]
  IN  /\ At(p, "idle") /\ u # None
      /\ acct[u] # "passkey" \/ Cardinality(Identities(u)) > 1
      /\ req' = [req EXCEPT ![p] = [Idle EXCEPT !.step = "disconnect", !.id = u, !.subject = x]]
      /\ UNCHANGED <<tables, history>>

DeleteFederatedIdentity(p) ==
  LET u == req[p].id
      x == req[p].subject
  IN  /\ At(p, "disconnect")
      /\ IF identity[x] = u THEN /\ identity' = [identity EXCEPT ![x] = None]
                                 /\ unlinked' = unlinked \cup {u}
                            ELSE UNCHANGED <<identity, unlinked>>
      /\ Ends(p)
      /\ UNCHANGED <<acct, rows, requests, late, strange, undone, email>>

-----------------------------------------------------------------------------
\* A statement fails, or a look-up finds nothing, and the request ends.
StatementFails(p) ==
  /\ \/ Failing /\ req[p].step \in {"credentials", "create", "challenge", "owner", "register",
                                     "code", "mail", "createFederated", "disconnect", "ask", "verification",
                                     "verify", "addPasskey", "update", "write"}
     \/ req[p].step \in {"owner", "update"} /\ ~Live(req[p].id)
     \/ req[p].step \in {"create", "createFederated"} /\ ~NameFree
  /\ Ends(p)
  /\ UNCHANGED <<tables, history>>

\* Cleanup of expired rows; the owner removes a passkey, even the last one.
Purge(u, table) ==
  /\ table \in rows[u]
  /\ DeleteRow(u, table)
  /\ UNCHANGED <<acct, requests, identity, req, email, accountHistory>>

\* The server stops and starts again.
Crash ==
  /\ "crash" \in Operations /\ \E p \in Procs : ~At(p, "idle")
  /\ req' = [p \in Procs |-> Idle] /\ late' = {}
  /\ unlinked' = unlinked \cup {u \in Ids : acct[u] = "federated" /\ Identities(u) = {}}
  /\ UNCHANGED <<tables, strange, undone, email>>

-----------------------------------------------------------------------------
Step(p) ==
  \/ DeleteRequests(p) \/ DeleteGrants(p) \/ DeleteIdentities(p) \/ DeleteUser(p) \/ DeleteFails(p)
  \/ CreateDeletionRequest(p) \/ RegisterBegin(p) \/ CheckCredentials(p) \/ CreateChallenge(p)
  \/ ReadOwner(p) \/ FinishFails(p) \/ CreateCredential(p) \/ SetRegisteredAt(p)
  \/ MarkChallengeUsed(p) \/ StorePasskey(p)
  \/ FinalizeLogin(p) \/ CreateAuthCode(p) \/ CreateLink(p)
  \/ MatchEmail(p) \/ LookUpCreated(p) \/ CreateFederatedIdentity(p)
  \/ DeleteFederatedIdentity(p) \/ SetVerificationToken(p) \/ MarkEmailVerified(p)
  \/ UpdateByOwner(p) \/ UpdateUser(p)
  \/ StatementFails(p)
  \/ \E u \in Ids :
       \/ DeleteAccount(p, u) \/ RequestDeletion(p, u) \/ RegisterFinish(p, u)
       \/ CreatePasskeyUser(p, u) \/ CreateFederatedUser(p, u)
       \/ PasskeyLogin(p, u) \/ AddPasskey(p, u)
       \/ SignUp(p, u) \/ SignIn(p, u) \/ RequestLink(p, u)
       \/ AskVerification(p, u) \/ VerifyEmail(p, u)
       \/ \E to \in MaybeAddress : UpdateProfile(p, u, to) \/ \E flag \in Flags : UpdateByAdmin(p, u, to, flag)
  \/ \E x \in Subjects : Callback(p, x) \/ Disconnect(p, x)

Next ==
  \/ \E p \in Procs : Step(p)
  \/ \E u \in Ids, table \in Tables : Purge(u, table)
  \/ \E u \in Ids : CancelDeletionRequest(u) \/ ExpireVerification(u)
  \/ Crash

Spec == Init /\ [][Next]_vars

-----------------------------------------------------------------------------
\* Rows, requests and histories have the shape the code gives them.
TypeOK ==
  /\ acct \in [Ids -> Kinds \cup {"none"}]
  /\ rows \in [Ids -> SUBSET Tables] /\ requests \in [Ids -> Nat]
  /\ identity \in [Subjects -> Ids \cup {None}]
  /\ req \in [Procs -> Request]
  /\ late \subseteq Procs /\ strange \in BOOLEAN /\ undone \in BOOLEAN
  /\ unlinked \subseteq Ids
  /\ address \in [Ids -> MaybeAddress] /\ verified \subseteq Ids /\ sent \in [Ids -> MaybeAddress]
  /\ proven \in [Ids -> SUBSET MaybeAddress] /\ mistaken \in [Ids -> SUBSET MaybeAddress]

\* The deletion of an account is stopped half-way only by a link or device code
\* of the account, or by a row that another request inserts meanwhile.
DeletionBlocked == ~strange

\* A registration deletes no account that was in use when it began, although it
\* goes by what it has read of the account before (deleteIfUnregistered).
RegistrationKept == ~undone

\* A verified address was proven by a link mailed to it or by an administrator; or
\* the link opened was mailed to the address before (an update keeps the token), or
\* the owner's update compared with an address that another update replaced.  A
\* verified account has had such a link opened, or an administrator vouched for it,
\* in any case (HandleVerifyEmail, HandleUpdateProfile, HandleUpdateUser, UpdateUser).
VerifiedProven ==
  \A u \in verified : proven[u] # {} /\ address[u] \in proven[u] \cup mistaken[u]

\* An account that was made for a federated identity has it, as long as nobody
\* removed it and the statement that links it did not fail.
FederatedUserLinked ==
  \A u \in Ids \ unlinked : acct[u] = "federated" =>
    \/ Identities(u) # {}
    \/ \E p \in Procs : At(p, "lookup") \/ (At(p, "link") /\ req[p].id = u)
=============================================================================
