---------------------------- MODULE Certificates ----------------------------
(***************************************************************************)
(* The certificate authority: the certificates table, which the server's   *)
(* handlers and the commands `autentico ca ...` read, sign from and write  *)
(* in separate statements, with the generation of an RSA key in between.   *)
(***************************************************************************)
EXTENDS Integers, FiniteSets

CONSTANTS
  Procs,      \* requests to the server and runs of the command
  MaxCerts,   \* bound: certificates ever inserted
  MaxRoots    \* bound: root certificates ever inserted

ASSUME ProcsAssumption == IsFiniteSet(Procs) /\ Procs # {}
ASSUME BoundsAssumption == MaxCerts \in Nat /\ MaxRoots \in Nat

\* Ids count up, so that the newest row is the one with the highest id.
Ids == 1..MaxCerts
None == 0

VARIABLES
  cert,      \* the certificates table
  last,      \* the id inserted last
  user,      \* the account the user certificates are for exists
  req,       \* req[p]: what a request or command holds in local variables
  retired,   \* history: rows that were revoked or deleted
  late       \* history: what each key was used for after its row was retired

vars == <<cert, last, user, req, retired, late>>

Intermediaries == {"client-int", "server-int"}
Leaves == {"user", "server"}

\* Not inserted yet; not revoked, with a year to live or less; revoked, which
\* erases the key; deleted.
Valid == {"fresh", "short"}
States == {"none", "revoked", "gone"} \cup Valid

\* `issuer` is whose key signed; for leaves it is intermediary_id as well.
Row == [st : States, type : {"ca"} \cup Intermediaries \cup Leaves,
        issuer : Ids \cup {None}]

NoRow == [st |-> "none", type |-> "ca", issuer |-> None]

\* About to insert the certificate of a user or a server.
Signing == {"userCert", "serverCert", "csrCert", "bundleCert"}

Steps == Signing \cup {"idle", "init", "lookClient", "lookServer", "refresh",
                       "download", "bundle", "bundleNew"}

\* `key` is the certificate whose private key the request has read, `issuer` its
\* intermediary; `needs` and `old` are the intermediaries to make and the rows
\* they replace.
Request == [step : Steps, key : Ids \cup {None}, issuer : Ids \cup {None},
            needs : SUBSET Intermediaries, old : [Intermediaries -> Ids \cup {None}]]

Idle == [step |-> "idle", key |-> None, issuer |-> None,
         needs |-> {}, old |-> [a \in Intermediaries |-> None]]

Init ==
  /\ cert = [c \in Ids |-> NoRow] /\ last = 0
  /\ user = TRUE
  /\ req = [p \in Procs |-> Idle]
  /\ retired = {} /\ late = [c \in Ids |-> 0]

-----------------------------------------------------------------------------
At(p, step) == req[p].step = step
GoTo(p, step) == req' = [req EXCEPT ![p].step = step]
Ends(p) == req' = [req EXCEPT ![p] = Idle]

Exists(c) == cert[c].st \in Valid \cup {"revoked"}

Active(type) == {c \in Ids : cert[c].st \in Valid /\ cert[c].type = type}

\* ORDER BY created_at DESC LIMIT 1: one row, or no row.
Newest(cs) == {c \in cs : \A d \in cs : d <= c}

GetActiveRootCA == Newest(Active("ca"))
GetActiveIntermediaryCA(type) == Newest(Active(type))
GetUserCertificate == Newest(Active("user"))

\* GenerateID never returns an id twice.
InsertCertificate(type, issuer) ==
  /\ last < MaxCerts /\ last' = last + 1
  /\ cert' = [cert EXCEPT ![last + 1] =
                [st |-> "fresh", type |-> type, issuer |-> issuer]]

\* Mutant: authorities are left alone.
RevokeLeaf(c) == cert' = IF cert[c].type \in Leaves
                         THEN [cert EXCEPT ![c].st = "revoked"] ELSE cert

RevokeCertificate(c) == cert' = [cert EXCEPT ![c].st = "revoked"]

Delete(cs) ==
  /\ cert' = [c \in Ids |-> IF c \in cs THEN [NoRow EXCEPT !.st = "gone", !.type = cert[c].type]
                                        ELSE cert[c]]
  /\ retired' = retired \cup cs

Uses(c) == late' = IF c \in retired THEN [late EXCEPT ![c] = @ + 1] ELSE late

-----------------------------------------------------------------------------
(* Handlers of the server.                                                 *)

\* An authority of the right type, not revoked, with a year to live, whose key
\* can be decrypted.
Issues(c, type) == cert[c].st = "fresh" /\ cert[c].type = type

ReadsIssuer(p, c, step) ==
  /\ req' = [req EXCEPT ![p] = [Idle EXCEPT !.step = step, !.key = c]]
  /\ UNCHANGED <<cert, last, user, retired, late>>

HandleGenerateUserCert(p, c) ==
  At(p, "idle") /\ user /\ Issues(c, "client-int") /\ ReadsIssuer(p, c, "userCert")

HandleGenerateServerCert(p, c) ==
  At(p, "idle") /\ Issues(c, "server-int") /\ ReadsIssuer(p, c, "serverCert")

\* The newest server intermediary.
HandleGenerateServerCertFromCSR(p) ==
  /\ At(p, "idle")
  /\ \E c \in GetActiveIntermediaryCA("server-int") :
       Issues(c, "server-int") /\ ReadsIssuer(p, c, "csrCert")

\* A key was generated and the certificate signed meanwhile.
InsertLeaf(p, step, leaf) ==
  /\ At(p, step)
  /\ InsertCertificate(leaf, req[p].key)
  /\ Uses(req[p].key) /\ Ends(p)
  /\ UNCHANGED <<user, retired>>

\* The foreign key refuses the row of a user who is gone.
InsertUserCert(p) == user /\ InsertLeaf(p, "userCert", "user")
InsertServerCert(p) == InsertLeaf(p, "serverCert", "server")

\* The private key is the requester's; nobody reads that of a server.
InsertServerCertFromCSR(p) == InsertLeaf(p, "csrCert", "server")

HandleRevokeCertificate(c) ==
  /\ Exists(c)
  /\ RevokeCertificate(c) /\ retired' = retired \cup {c}
  /\ UNCHANGED <<last, user, req, late>>

HoldsCertificate(p, c, step) ==
  /\ At(p, "idle")
  /\ req' = [req EXCEPT ![p] = [Idle EXCEPT !.step = step, !.key = c, !.issuer = cert[c].issuer]]
  /\ UNCHANGED <<cert, last, user, retired, late>>

HandleDownloadUserCert(p, c) == c \in Active("user") /\ HoldsCertificate(p, c, "download")

\* The second read is of the intermediary, revoked or not.
Bundles(p) ==
  /\ Exists(req[p].issuer)
  /\ Uses(req[p].key) /\ Ends(p)
  /\ UNCHANGED <<cert, last, user, retired>>

EncodeBundle(p) == At(p, "download") /\ Bundles(p)

-----------------------------------------------------------------------------
(* The command.                                                            *)

Roots == {c \in Ids : cert[c].st # "none" /\ cert[c].type = "ca"}

\* There may be a root already: it is not looked for.
RunCaInit(p) ==
  /\ At(p, "idle") /\ Cardinality(Roots) < MaxRoots
  /\ InsertCertificate("ca", None)
  /\ req' = [req EXCEPT ![p] = [Idle EXCEPT !.step = "init", !.key = last + 1,
                                            !.needs = Intermediaries]]
  /\ UNCHANGED <<user, retired, late>>

First(needs) == IF "client-int" \in needs THEN "client-int" ELSE "server-int"

\* Signed with the root's key, which was read before.
SignIntermediary(p, a) ==
  LET left == req[p].needs \ {a}
  IN  /\ req[p].needs # {} /\ a = First(req[p].needs) /\ req[p].old[a] = None
      /\ InsertCertificate(a, req[p].key)
      /\ Uses(req[p].key)
      /\ req' = [req EXCEPT ![p] = IF left = {} THEN Idle ELSE [@ EXCEPT !.needs = left]]
      /\ UNCHANGED <<user, retired>>

InitClientIntermediary(p) == At(p, "init") /\ SignIntermediary(p, "client-int")
InitServerIntermediary(p) == At(p, "init") /\ SignIntermediary(p, "server-int")

RunCaRefresh(p) ==
  /\ At(p, "idle")
  /\ \E c \in GetActiveRootCA :
       req' = [req EXCEPT ![p] = [Idle EXCEPT !.step = "lookClient", !.key = c]]
  /\ UNCHANGED <<cert, last, user, retired, late>>

\* An intermediary is replaced that is missing or has less than a year to live.
Looks(p, a, next) ==
  LET newest == GetActiveIntermediaryCA(a)
      good == \E c \in newest : cert[c].st = "fresh"
      needs == req[p].needs \cup (IF good THEN {} ELSE {a})
      old == IF good \/ newest = {} THEN None ELSE CHOOSE c \in newest : TRUE
  IN  /\ req' = [req EXCEPT ![p] =
                   IF next = "refresh" /\ needs = {} THEN Idle
                   ELSE [@ EXCEPT !.step = next, !.needs = needs,
                              !.old = [req[p].old EXCEPT ![a] = old]]]
      /\ UNCHANGED <<cert, last, user, retired, late>>

LookAtClient(p) == At(p, "lookClient") /\ Looks(p, "client-int", "lookServer")
LookAtServer(p) == At(p, "lookServer") /\ Looks(p, "server-int", "refresh")

\* The old row is revoked before the new key is generated.
RevokeOld(p) ==
  LET a == First(req[p].needs)
      c == req[p].old[a]
  IN  /\ At(p, "refresh") /\ req[p].needs # {} /\ c # None
      /\ IF Exists(c) THEN RevokeCertificate(c) /\ retired' = retired \cup {c}
                      ELSE UNCHANGED <<cert, retired>>
      /\ req' = [req EXCEPT ![p].old = [req[p].old EXCEPT ![a] = None]]
      /\ UNCHANGED <<last, user, late>>

RefreshClientIntermediary(p) == At(p, "refresh") /\ SignIntermediary(p, "client-int")
RefreshServerIntermediary(p) == At(p, "refresh") /\ SignIntermediary(p, "server-int")

\* Mutant: the certificates the authorities have signed stay.
DeleteAuthorities == {c \in Ids : Exists(c) /\ cert[c].type \notin Leaves}

AllCertificates == {c \in Ids : Exists(c)}

RunCaDelete ==
  /\ AllCertificates # {}
  /\ Delete(AllCertificates)
  /\ UNCHANGED <<last, user, req, late>>

\* A certificate of the user that is not revoked is bundled again, however old.
RunCaMtlsBundle(p) ==
  /\ user
  /\ \/ \E c \in GetUserCertificate : HoldsCertificate(p, c, "bundle")
     \/ /\ At(p, "idle") /\ GetUserCertificate = {} /\ GoTo(p, "bundleNew")
        /\ UNCHANGED <<cert, last, user, retired, late>>

BundleExisting(p) == At(p, "bundle") /\ Bundles(p)

\* The newest client intermediary, however little it has left to live.
BundleNew(p) ==
  /\ At(p, "bundleNew")
  /\ \E c \in GetActiveIntermediaryCA("client-int") : ReadsIssuer(p, c, "bundleCert")

InsertBundleCert(p) == user /\ InsertLeaf(p, "bundleCert", "user")

-----------------------------------------------------------------------------
(* The surroundings.                                                       *)

\* A row is missing, a statement fails, the server or the command is stopped:
\* what was left to do is not done.
Stops(p) ==
  /\ ~At(p, "idle") /\ Ends(p)
  /\ UNCHANGED <<cert, last, user, retired, late>>

\* HardDeleteUser: the user's certificates go with the row of the user.
DeleteUser ==
  /\ user /\ user' = FALSE
  /\ Delete({c \in Ids : Exists(c) /\ cert[c].type = "user"})
  /\ UNCHANGED <<last, req, late>>

Age(c) ==
  /\ cert[c].st = "fresh" /\ cert[c].type \in Intermediaries
  /\ cert' = [cert EXCEPT ![c].st = "short"]
  /\ UNCHANGED <<last, user, req, retired, late>>

-----------------------------------------------------------------------------
ServerStep(p) ==
  \/ \E c \in Ids : \/ HandleGenerateUserCert(p, c) \/ HandleGenerateServerCert(p, c)
                    \/ HandleDownloadUserCert(p, c)
  \/ HandleGenerateServerCertFromCSR(p) \/ EncodeBundle(p)
  \/ InsertUserCert(p) \/ InsertServerCert(p) \/ InsertServerCertFromCSR(p)

CommandStep(p) ==
  \/ RunCaInit(p) \/ InitClientIntermediary(p) \/ InitServerIntermediary(p)
  \/ RunCaRefresh(p) \/ LookAtClient(p) \/ LookAtServer(p) \/ RevokeOld(p)
  \/ RefreshClientIntermediary(p) \/ RefreshServerIntermediary(p)
  \/ RunCaMtlsBundle(p) \/ BundleExisting(p) \/ BundleNew(p) \/ InsertBundleCert(p)

Next ==
  \/ \E p \in Procs : ServerStep(p) \/ CommandStep(p) \/ Stops(p)
  \/ \E c \in Ids : HandleRevokeCertificate(c) \/ Age(c)
  \/ RunCaDelete \/ DeleteUser

Spec == Init /\ [][Next]_vars

-----------------------------------------------------------------------------
\* Rows, requests and histories have the shape the code gives them.
TypeOK ==
  /\ cert \in [Ids -> Row] /\ last \in 0..MaxCerts /\ user \in BOOLEAN
  /\ req \in [Procs -> Request]
  /\ retired \subseteq Ids /\ late \in [Ids -> Nat]

\* The key of a certificate that was revoked or deleted is used only by requests
\* that had read it before, each of them once, or twice to sign the two
\* intermediaries: whoever comes later finds no active row to read.
LateUses ==
  \A c \in Ids : late[c] <= (IF cert[c].type = "ca" THEN 2 ELSE 1) * Cardinality(Procs)

\* Certificates whose intermediary is not there any more, which can neither be
\* bundled again nor be replaced by a new one, are left only by requests that
\* were signing while everything was deleted.
Orphans == {c \in Ids : /\ Exists(c) /\ cert[c].type \in Leaves
                        /\ cert[cert[c].issuer].st = "gone"}

OrphansBounded == Cardinality(Orphans) <= Cardinality(Procs)
=============================================================================
