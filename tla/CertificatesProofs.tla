------------------------- MODULE CertificatesProofs -------------------------
(***************************************************************************)
(* What a retired key is still good for, and which certificates lose their *)
(* issuer, for every number of requests, certificates and roots.           *)
(***************************************************************************)
EXTENDS Certificates, FiniteSetTheorems, TLAPS

USE ProcsAssumption, BoundsAssumption

P == Cardinality(Procs)

LookSteps == {"lookClient", "lookServer"}
RootSteps == LookSteps \cup {"init", "refresh"}

\* Ids are used up in order.
RowsOrdered == \A c \in Ids : cert[c].st = "none" <=> c > last

\* A leaf was signed by an intermediary that once had a row.
IssuersKnown ==
  \A c \in Ids : Exists(c) /\ cert[c].type \in Leaves =>
    /\ cert[c].issuer \in Ids
    /\ cert[cert[c].issuer].type \in Intermediaries /\ cert[cert[c].issuer].st # "none"

\* The histories agree with the table.
RetiredMarked ==
  /\ \A c \in Ids : c \in retired <=> cert[c].st \in {"revoked", "gone"}
  /\ \A c \in Ids : late[c] > 0 => c \in retired

\* Whose key a request holds goes with its step.
KeyRead(r) ==
  /\ r.step \in {"idle", "bundleNew"} <=> r.key = None
  /\ r.key # None => cert[r.key].st # "none"
  /\ r.step \in RootSteps => cert[r.key].type = "ca"
  /\ r.step \in Signing => cert[r.key].type \in Intermediaries
  /\ r.step \in {"download", "bundle"} => cert[r.key].type = "user"

KeysRead == \A p \in Procs : KeyRead(req[p])

\* Who may still use a key, and who may use it twice.
SeesTwice(r) == r.step \in LookSteps \/ r.needs = Intermediaries
Holders(c) == {p \in Procs : req[p].key = c}
Twice(c) == {p \in Holders(c) : SeesTwice(req[p])}

\* What a key was used for late and what it may still be used for.
UsesLeft ==
  \A c \in Ids :
    /\ late[c] + Cardinality(Holders(c)) + Cardinality(Twice(c)) <= 2 * P
    /\ cert[c].type # "ca" => late[c] + Cardinality(Holders(c)) <= P

\* The orphans there are and those that are under way.
Orphaning == {p \in Procs : req[p].step \in Signing /\ cert[req[p].key].st = "gone"}
OrphansLeft == Cardinality(Orphans) + Cardinality(Orphaning) <= P

Shape == TypeOK /\ RowsOrdered /\ IssuersKnown /\ RetiredMarked /\ KeysRead
IInv == Shape /\ UsesLeft /\ OrphansLeft

-----------------------------------------------------------------------------
(* Types.                                                                  *)

LEMMA IdTypes == None \notin Ids /\ IsFiniteSet(Ids) /\ Ids \subseteq Nat
<1>1. IsFiniteSet(1..MaxCerts)
  BY FS_Interval
<1>2. QED  BY <1>1 DEF Ids, None

\* What a request sets in its local variables keeps their shape.
LEMMA RequestUpdates ==
  ASSUME NEW r \in Request, NEW step \in Steps, NEW c \in Ids \cup {None},
         NEW i \in Ids \cup {None}, NEW needs \in SUBSET Intermediaries,
         NEW old \in [Intermediaries -> Ids \cup {None}]
  PROVE  /\ [r EXCEPT !.step = step] \in Request
         /\ [r EXCEPT !.needs = needs] \in Request
         /\ [r EXCEPT !.old = old] \in Request
         /\ [r EXCEPT !.step = step, !.needs = needs, !.old = old] \in Request
         /\ [r EXCEPT !.step = step, !.key = c] \in Request
         /\ [r EXCEPT !.step = step, !.key = c, !.issuer = i] \in Request
         /\ [r EXCEPT !.step = step, !.key = c, !.needs = needs] \in Request
  BY DEF Request

LEMMA RequestTypes ==
  ASSUME NEW step \in Steps, NEW c \in Ids \cup {None},
         NEW i \in Ids \cup {None}, NEW needs \in SUBSET Intermediaries
  PROVE  /\ Idle \in Request
         /\ [Idle EXCEPT !.step = step, !.key = c] \in Request
         /\ [Idle EXCEPT !.step = step, !.key = c, !.issuer = i] \in Request
         /\ [Idle EXCEPT !.step = step, !.key = c, !.needs = needs] \in Request
<1>1. Idle \in Request
  BY DEF Idle, Request, Steps, None
<1>2. [a \in Intermediaries |-> None] \in [Intermediaries -> Ids \cup {None}]
  OBVIOUS
<1>3. QED  BY <1>1, <1>2, RequestUpdates

\* A row that is inserted, revoked, deleted or gets old is a row.
LEMMA RowTypes ==
  ASSUME cert \in [Ids -> Row], last \in 0..MaxCerts
  PROVE  /\ \A type \in {"ca"} \cup Intermediaries \cup Leaves, i \in Ids \cup {None} :
              InsertCertificate(type, i) => cert' \in [Ids -> Row] /\ last' \in 0..MaxCerts
         /\ \A c : RevokeCertificate(c) => cert' \in [Ids -> Row]
         /\ \A cs : Delete(cs) => cert' \in [Ids -> Row]
         /\ \A c : Age(c) => cert' \in [Ids -> Row]
<1>1. ASSUME NEW type \in {"ca"} \cup Intermediaries \cup Leaves, NEW i \in Ids \cup {None},
             InsertCertificate(type, i)
      PROVE  cert' \in [Ids -> Row] /\ last' \in 0..MaxCerts
  <2>1. [st |-> "fresh", type |-> type, issuer |-> i] \in Row
    BY DEF Row, States, Valid
  <2>2. last' \in 0..MaxCerts
    BY <1>1 DEF InsertCertificate
  <2>3. QED  BY <1>1, <2>1, <2>2 DEF InsertCertificate
<1>2. ASSUME NEW c \in Ids, NEW st \in States PROVE [cert[c] EXCEPT !.st = st] \in Row
  <2>1. cert[c] \in Row
    OBVIOUS
  <2>2. QED  BY <2>1 DEF Row
<1>3. ASSUME NEW c, RevokeCertificate(c) PROVE cert' \in [Ids -> Row]
  BY <1>2, <1>3 DEF RevokeCertificate, States
<1>4. ASSUME NEW cs, Delete(cs) PROVE cert' \in [Ids -> Row]
  <2>1. \A c \in Ids : [NoRow EXCEPT !.st = "gone", !.type = cert[c].type] \in Row
    BY DEF NoRow, Row, States, None
  <2>2. QED  BY <1>4, <2>1 DEF Delete
<1>5. ASSUME NEW c, Age(c) PROVE cert' \in [Ids -> Row]
  BY <1>2, <1>5 DEF Age, States, Valid
<1>6. QED  BY <1>1, <1>3, <1>4, <1>5

\* A key that is used is counted.
LEMMA UseTypes ==
  ASSUME TypeOK, NEW c, Uses(c)
  PROVE  /\ late' \in [Ids -> Nat]
         /\ \A d \in Ids : late'[d] = IF d = c /\ c \in retired THEN late[d] + 1 ELSE late[d]
  BY DEF TypeOK, Uses

LEMMA TypeStep == Shape /\ [Next]_vars => TypeOK'
<1> SUFFICES ASSUME Shape, [Next]_vars PROVE TypeOK'
  OBVIOUS
<1>0. /\ TypeOK /\ cert \in [Ids -> Row] /\ last \in 0..MaxCerts /\ user \in BOOLEAN
      /\ req \in [Procs -> Request] /\ retired \subseteq Ids /\ late \in [Ids -> Nat]
  BY DEF Shape, TypeOK
<1>r. \A p \in Procs : /\ req[p].key \in Ids \cup {None} /\ req[p].issuer \in Ids \cup {None}
                       /\ req[p].needs \subseteq Intermediaries
  BY <1>0 DEF Request
<1>i. \A c \in Ids : cert[c].issuer \in Ids \cup {None}
  BY <1>0 DEF Row
<1>n. \A cs : Newest(cs) \subseteq cs
  BY DEF Newest
<1>a. /\ \A type : Active(type) \subseteq Ids
      /\ GetActiveRootCA \subseteq Ids /\ GetUserCertificate \subseteq Ids
      /\ \A a : GetActiveIntermediaryCA(a) \subseteq Ids
  BY <1>n DEF Active, GetActiveRootCA, GetUserCertificate, GetActiveIntermediaryCA
<1>1. ASSUME NEW p \in Procs, NEW c \in Ids, NEW step \in Steps, ReadsIssuer(p, c, step)
      PROVE  TypeOK'
  BY <1>0, <1>1, RequestTypes DEF ReadsIssuer, TypeOK
<1>2. ASSUME NEW p \in Procs, NEW c \in Ids, NEW step \in Steps, HoldsCertificate(p, c, step)
      PROVE  TypeOK'
  BY <1>0, <1>i, <1>2, RequestTypes DEF HoldsCertificate, TypeOK
<1>3. ASSUME NEW p \in Procs, NEW step, NEW leaf \in Leaves, InsertLeaf(p, step, leaf)
      PROVE  TypeOK'
  <2>1. cert' \in [Ids -> Row] /\ last' \in 0..MaxCerts
    BY <1>0, <1>r, <1>3, RowTypes DEF InsertLeaf
  <2>2. req' \in [Procs -> Request]
    <3>1. Idle \in Request
      BY DEF Idle, Request, Steps, None
    <3>2. QED  BY <1>0, <1>3, <3>1 DEF InsertLeaf, Ends
  <2>3. late' \in [Ids -> Nat]
    BY <1>0, <1>3, UseTypes DEF InsertLeaf
  <2>4. QED  BY <1>0, <1>3, <2>1, <2>2, <2>3 DEF InsertLeaf, TypeOK
<1>4. ASSUME NEW p \in Procs, Bundles(p) PROVE TypeOK'
  <2>1. Idle \in Request
    BY DEF Idle, Request, Steps, None
  <2>2. late' \in [Ids -> Nat]
    BY <1>0, <1>4, UseTypes DEF Bundles
  <2>3. QED  BY <1>0, <1>4, <2>1, <2>2 DEF Bundles, Ends, TypeOK
<1>5. ASSUME NEW p \in Procs, NEW a \in Intermediaries, SignIntermediary(p, a) PROVE TypeOK'
  <2>1. cert' \in [Ids -> Row] /\ last' \in 0..MaxCerts
    BY <1>0, <1>r, <1>5, RowTypes DEF SignIntermediary
  <2>2. req' \in [Procs -> Request]
    <3>1. Idle \in Request
      BY DEF Idle, Request, Steps, None
    <3>2. [req[p] EXCEPT !.needs = req[p].needs \ {a}] \in Request
      BY <1>0, <1>r DEF Request
    <3>3. QED  BY <1>0, <1>5, <3>1, <3>2 DEF SignIntermediary
  <2>3. late' \in [Ids -> Nat]
    BY <1>0, <1>5, UseTypes DEF SignIntermediary
  <2>4. QED  BY <1>0, <1>5, <2>1, <2>2, <2>3 DEF SignIntermediary, TypeOK
<1>6. ASSUME NEW p \in Procs, RunCaInit(p) PROVE TypeOK'
  <2>1. None \in Ids \cup {None} /\ "ca" \in {"ca"} \cup Intermediaries \cup Leaves
    OBVIOUS
  <2>2. cert' \in [Ids -> Row] /\ last' \in 0..MaxCerts
    BY <1>0, <1>6, <2>1, RowTypes DEF RunCaInit
  <2>3. last + 1 \in Ids /\ "init" \in Steps
    BY <1>0, <1>6 DEF RunCaInit, InsertCertificate, Ids, Steps
  <2>4. [Idle EXCEPT !.step = "init", !.key = last + 1, !.needs = Intermediaries] \in Request
    BY <2>3 DEF Idle, Request, Steps, None
  <2>5. QED  BY <1>0, <1>6, <2>2, <2>4 DEF RunCaInit, TypeOK
<1>7. ASSUME NEW p \in Procs, RunCaRefresh(p) PROVE TypeOK'
  <2>1. \A c \in Ids : [Idle EXCEPT !.step = "lookClient", !.key = c] \in Request
    BY DEF Idle, Request, Steps, None
  <2>2. QED  BY <1>0, <1>a, <1>7, <2>1 DEF RunCaRefresh, TypeOK
<1>8. ASSUME NEW p \in Procs, NEW a \in Intermediaries, NEW next \in Steps, Looks(p, a, next)
      PROVE  TypeOK'
  <2> DEFINE newest == GetActiveIntermediaryCA(a)
             good == \E c \in newest : cert[c].st = "fresh"
             needs == req[p].needs \cup (IF good THEN {} ELSE {a})
             old == IF good \/ newest = {} THEN None ELSE CHOOSE c \in newest : TRUE
  <2>1. old \in Ids \cup {None}
    BY <1>a
  <2>2. needs \subseteq Intermediaries
    BY <1>r
  <2>3. [req[p] EXCEPT !.step = next, !.needs = needs, !.old[a] = old] \in Request
    <3>1. req[p] \in Request
      BY <1>0
    <3> HIDE DEF needs, old
    <3>2. QED  BY <2>1, <2>2, <3>1 DEF Request
  <2>4. Idle \in Request
    BY DEF Idle, Request, Steps, None
  <2>5. req' \in [Procs -> Request]
    BY <1>0, <1>8, <2>3, <2>4 DEF Looks
  <2>6. QED  BY <1>0, <1>8, <2>5 DEF Looks, TypeOK
<1>9. ASSUME NEW p \in Procs, RevokeOld(p) PROVE TypeOK'
  <2> DEFINE a == First(req[p].needs)
  <2>1. a \in Intermediaries /\ req[p].old[a] \in Ids \cup {None}
    BY <1>0 DEF First, Intermediaries, Request
  <2>2. [req[p] EXCEPT !.old[a] = None] \in Request
    <3>1. req[p] \in Request
      BY <1>0
    <3>2. QED  BY <3>1, <2>1 DEF Request
  <2>3. req' \in [Procs -> Request]
    BY <1>0, <1>9, <2>2 DEF RevokeOld
  <2>4. cert' \in [Ids -> Row]
    BY <1>0, <1>9, RowTypes DEF RevokeOld
  <2>5. retired' \subseteq Ids
    BY <1>0, <1>9, <2>1 DEF RevokeOld
  <2>6. QED  BY <1>0, <1>9, <2>3, <2>4, <2>5 DEF RevokeOld, TypeOK
<1>10. ASSUME NEW p \in Procs, RunCaMtlsBundle(p) PROVE TypeOK'
  <2>1. CASE \E c \in GetUserCertificate : HoldsCertificate(p, c, "bundle")
    BY <1>a, <1>2, <2>1 DEF Steps
  <2>2. CASE GoTo(p, "bundleNew") /\ UNCHANGED <<cert, last, user, retired, late>>
    <3>1. [req[p] EXCEPT !.step = "bundleNew"] \in Request
      BY <1>0 DEF Request, Steps
    <3>2. QED  BY <1>0, <2>2, <3>1 DEF GoTo, TypeOK
  <2>3. QED  BY <1>10, <2>1, <2>2 DEF RunCaMtlsBundle
<1>11. ASSUME NEW p \in Procs, Stops(p) PROVE TypeOK'
  <2>1. Idle \in Request
    BY DEF Idle, Request, Steps, None
  <2>2. QED  BY <1>0, <1>11, <2>1 DEF Stops, Ends, TypeOK
<1>12. ASSUME NEW c \in Ids, HandleRevokeCertificate(c) \/ Age(c) PROVE TypeOK'
  <2>1. cert' \in [Ids -> Row]
    BY <1>0, <1>12, RowTypes DEF HandleRevokeCertificate
  <2>2. QED  BY <1>0, <1>12, <2>1 DEF HandleRevokeCertificate, Age, TypeOK
<1>13. CASE RunCaDelete
  <2>1. cert' \in [Ids -> Row]
    BY <1>0, <1>13, RowTypes DEF RunCaDelete
  <2>2. QED  BY <1>0, <1>13, <2>1 DEF RunCaDelete, Delete, AllCertificates, TypeOK
<1>14. CASE DeleteUser
  <2>1. cert' \in [Ids -> Row]
    BY <1>0, <1>14, RowTypes DEF DeleteUser
  <2>2. QED  BY <1>0, <1>14, <2>1 DEF DeleteUser, Delete, TypeOK
<1>15. CASE UNCHANGED vars
  BY <1>0, <1>15 DEF vars, TypeOK
<1>16. ASSUME NEW p \in Procs, ServerStep(p) PROVE TypeOK'
  <2>1. "userCert" \in Steps /\ "serverCert" \in Steps /\ "csrCert" \in Steps /\ "download" \in Steps
    BY DEF Steps, Signing
  <2>2. "user" \in Leaves /\ "server" \in Leaves
    BY DEF Leaves
  <2>3. QED
    BY <1>16, <1>a, <1>1, <1>2, <1>3, <1>4, <2>1, <2>2
    DEF ServerStep, HandleGenerateUserCert, HandleGenerateServerCert, HandleDownloadUserCert,
        HandleGenerateServerCertFromCSR, EncodeBundle, InsertUserCert, InsertServerCert,
        InsertServerCertFromCSR
<1>17. ASSUME NEW p \in Procs, CommandStep(p) PROVE TypeOK'
  <2>1. "bundleCert" \in Steps /\ "lookServer" \in Steps /\ "refresh" \in Steps
    BY DEF Steps, Signing
  <2>2. "user" \in Leaves /\ "client-int" \in Intermediaries /\ "server-int" \in Intermediaries
    BY DEF Leaves, Intermediaries
  <2>3. QED
    BY <1>17, <1>a, <1>1, <1>3, <1>4, <1>5, <1>6, <1>7, <1>8, <1>9, <1>10, <2>1, <2>2
    DEF CommandStep, InitClientIntermediary, InitServerIntermediary, LookAtClient, LookAtServer,
        RefreshClientIntermediary, RefreshServerIntermediary, BundleExisting, BundleNew,
        InsertBundleCert
<1>18. QED
  BY <1>11, <1>12, <1>13, <1>14, <1>15, <1>16, <1>17 DEF Next

-----------------------------------------------------------------------------
(* What becomes of the table.                                              *)

\* Nothing, or one of the five statements.
TableStep ==
  \/ UNCHANGED <<cert, last, retired>>
  \/ \E type \in {"ca"} \cup Intermediaries \cup Leaves, i \in Ids \cup {None} :
       /\ InsertCertificate(type, i) /\ UNCHANGED retired
       /\ type \in Leaves =>
            i \in Ids /\ cert[i].type \in Intermediaries /\ cert[i].st # "none"
  \/ \E c \in Ids : /\ Exists(c) /\ RevokeCertificate(c)
                    /\ retired' = retired \cup {c} /\ UNCHANGED last
  \/ \E cs \in SUBSET Ids : (\A c \in cs : Exists(c)) /\ Delete(cs) /\ UNCHANGED last
  \/ \E c \in Ids : Age(c)

\* Rows are never renamed and never come back.
Frame ==
  \A c \in Ids :
    /\ cert[c].st # "none" => cert'[c].st # "none" /\ cert'[c].type = cert[c].type
    /\ cert[c].st = "gone" => cert'[c].st = "gone"
    /\ c \in retired => c \in retired'

LEMMA TableSteps == Shape /\ [Next]_vars => TableStep
<1> SUFFICES ASSUME Shape, [Next]_vars PROVE TableStep
  OBVIOUS
<1>0. /\ TypeOK /\ cert \in [Ids -> Row] /\ last \in 0..MaxCerts
      /\ req \in [Procs -> Request]
  BY DEF Shape, TypeOK
<1>r. \A p \in Procs : req[p].key \in Ids \cup {None} /\ KeyRead(req[p])
  BY <1>0 DEF Request, Shape, KeysRead
<1>1. ASSUME NEW p \in Procs, NEW step \in Signing, NEW leaf \in Leaves, InsertLeaf(p, step, leaf)
      PROVE  TableStep
  <2>1. /\ req[p].step \in Signing /\ req[p].key \in Ids
        /\ cert[req[p].key].type \in Intermediaries /\ cert[req[p].key].st # "none"
    BY <1>r, <1>1 DEF InsertLeaf, At, KeyRead, Signing
  <2>2. InsertCertificate(leaf, req[p].key) /\ UNCHANGED retired
    BY <1>1 DEF InsertLeaf
  <2>3. QED  BY <2>1, <2>2 DEF TableStep
<1>2. ASSUME NEW p \in Procs, NEW a \in Intermediaries, SignIntermediary(p, a) PROVE TableStep
  <2>1. InsertCertificate(a, req[p].key) /\ UNCHANGED retired
    BY <1>2 DEF SignIntermediary
  <2>2. a \notin Leaves
    BY DEF Intermediaries, Leaves
  <2>3. QED  BY <1>r, <2>1, <2>2 DEF TableStep
<1>3. ASSUME NEW p \in Procs, RunCaInit(p) PROVE TableStep
  <2>1. InsertCertificate("ca", None) /\ UNCHANGED retired
    BY <1>3 DEF RunCaInit
  <2>2. "ca" \notin Leaves
    BY DEF Leaves
  <2>3. QED  BY <2>1, <2>2 DEF TableStep
<1>4. ASSUME NEW p \in Procs, RevokeOld(p) PROVE TableStep
  <2> DEFINE c == req[p].old[First(req[p].needs)]
  <2>1. c \in Ids \/ c = None
    <3>1. First(req[p].needs) \in Intermediaries
      BY DEF First, Intermediaries
    <3>2. QED  BY <1>0, <3>1 DEF Request
  <2>2. CASE Exists(c)
    BY <1>4, <2>1, <2>2 DEF RevokeOld, TableStep
  <2>3. CASE ~Exists(c)
    BY <1>4, <2>3 DEF RevokeOld, TableStep
  <2>4. QED  BY <2>2, <2>3
<1>5. ASSUME NEW c \in Ids, HandleRevokeCertificate(c) \/ Age(c) PROVE TableStep
  BY <1>5 DEF HandleRevokeCertificate, TableStep
<1>6. CASE RunCaDelete
  BY <1>6 DEF RunCaDelete, AllCertificates, TableStep
<1>7. CASE DeleteUser
  <2>1. \A c \in {d \in Ids : Exists(d) /\ cert[d].type = "user"} : Exists(c)
    OBVIOUS
  <2>2. QED  BY <1>7, <2>1 DEF DeleteUser, TableStep
<1>8. CASE UNCHANGED vars
  BY <1>8 DEF vars, TableStep
<1>9. ASSUME NEW p \in Procs, ServerStep(p) PROVE TableStep
  <2>1. /\ "userCert" \in Signing /\ "serverCert" \in Signing /\ "csrCert" \in Signing
        /\ "user" \in Leaves /\ "server" \in Leaves
    BY DEF Signing, Leaves
  <2>2. CASE InsertUserCert(p) \/ InsertServerCert(p) \/ InsertServerCertFromCSR(p)
    BY <1>1, <2>1, <2>2 DEF InsertUserCert, InsertServerCert, InsertServerCertFromCSR
  <2>3. QED
    BY <1>9, <2>2 DEF ServerStep, HandleGenerateUserCert, HandleGenerateServerCert,
       HandleDownloadUserCert, HandleGenerateServerCertFromCSR, EncodeBundle, ReadsIssuer,
       HoldsCertificate, Bundles, TableStep
<1>10. ASSUME NEW p \in Procs, CommandStep(p) PROVE TableStep
  <2>1. /\ "bundleCert" \in Signing /\ "user" \in Leaves
        /\ "client-int" \in Intermediaries /\ "server-int" \in Intermediaries
    BY DEF Signing, Leaves, Intermediaries
  <2>2. CASE \/ InitClientIntermediary(p) \/ InitServerIntermediary(p)
             \/ RefreshClientIntermediary(p) \/ RefreshServerIntermediary(p)
             \/ InsertBundleCert(p)
    BY <1>1, <1>2, <2>1, <2>2 DEF InitClientIntermediary, InitServerIntermediary,
       RefreshClientIntermediary, RefreshServerIntermediary, InsertBundleCert
  <2>3. QED
    BY <1>10, <1>3, <1>4, <2>2 DEF CommandStep, RunCaRefresh, LookAtClient, LookAtServer, Looks,
       RunCaMtlsBundle, BundleExisting, BundleNew, ReadsIssuer, HoldsCertificate, Bundles, TableStep
<1>11. ASSUME NEW p \in Procs, Stops(p) PROVE TableStep
  BY <1>11 DEF Stops, TableStep
<1>12. QED
  BY <1>5, <1>6, <1>7, <1>8, <1>9, <1>10, <1>11 DEF Next

\* The statements keep the ids in order, the issuers in the table and the
\* histories true.
LEMMA TableKept ==
  ASSUME Shape, TableStep, TypeOK'
  PROVE  /\ Frame /\ RowsOrdered' /\ IssuersKnown'
         /\ \A c \in Ids : c \in retired' <=> cert'[c].st \in {"revoked", "gone"}
<1>0. /\ cert \in [Ids -> Row] /\ last \in 0..MaxCerts /\ Ids \subseteq Nat /\ None \notin Ids
      /\ RowsOrdered /\ IssuersKnown
      /\ \A c \in Ids : c \in retired <=> cert[c].st \in {"revoked", "gone"}
  BY IdTypes DEF Shape, TypeOK, RetiredMarked
<1>k. ASSUME Frame,
             \A c \in Ids : Exists(c)' /\ cert'[c].type \in Leaves =>
               \/ Exists(c) /\ cert[c].type = cert'[c].type /\ cert'[c].issuer = cert[c].issuer
               \/ /\ cert'[c].issuer \in Ids /\ cert[cert'[c].issuer].st # "none"
                  /\ cert[cert'[c].issuer].type \in Intermediaries
      PROVE  IssuersKnown'
  <2> SUFFICES ASSUME NEW c \in Ids, Exists(c)', cert'[c].type \in Leaves
               PROVE  /\ cert'[c].issuer \in Ids
                      /\ cert'[cert'[c].issuer].type \in Intermediaries
                      /\ cert'[cert'[c].issuer].st # "none"
    BY DEF IssuersKnown
  <2> DEFINE i == cert'[c].issuer
  <2>1. i \in Ids /\ cert[i].type \in Intermediaries /\ cert[i].st # "none"
    BY <1>0, <1>k DEF IssuersKnown
  <2>2. QED  BY <1>k, <2>1 DEF Frame
<1>1. CASE UNCHANGED <<cert, last, retired>>
  BY <1>0, <1>1 DEF Frame, RowsOrdered, IssuersKnown, Exists
<1>2. ASSUME NEW type \in {"ca"} \cup Intermediaries \cup Leaves, NEW i \in Ids \cup {None},
             InsertCertificate(type, i), UNCHANGED retired,
             type \in Leaves =>
               i \in Ids /\ cert[i].type \in Intermediaries /\ cert[i].st # "none"
      PROVE  /\ Frame /\ RowsOrdered' /\ IssuersKnown'
             /\ \A c \in Ids : c \in retired' <=> cert'[c].st \in {"revoked", "gone"}
  <2>1. /\ last + 1 \in Ids /\ last' = last + 1 /\ cert[last + 1].st = "none"
        /\ cert'[last + 1] = [st |-> "fresh", type |-> type, issuer |-> i]
        /\ \A c \in Ids : c # last + 1 => cert'[c] = cert[c]
    BY <1>0, <1>2 DEF InsertCertificate, RowsOrdered, Ids
  <2>2. Frame
    BY <1>0, <1>2, <2>1 DEF Frame
  <2>3. RowsOrdered'
    <3> SUFFICES ASSUME NEW c \in Ids PROVE cert'[c].st = "none" <=> c > last'
      BY DEF RowsOrdered
    <3>1. c \in Nat /\ last \in Nat /\ (cert[c].st = "none" <=> c > last)
      BY <1>0 DEF RowsOrdered
    <3>2. CASE c = last + 1
      BY <2>1, <3>1, <3>2
    <3>3. CASE c # last + 1
      BY <2>1, <3>1, <3>3
    <3>4. QED  BY <3>2, <3>3
  <2>4. IssuersKnown'
    <3> SUFFICES ASSUME NEW c \in Ids, Exists(c)', cert'[c].type \in Leaves
                 PROVE  \/ /\ Exists(c) /\ cert[c].type = cert'[c].type
                           /\ cert'[c].issuer = cert[c].issuer
                        \/ /\ cert'[c].issuer \in Ids /\ cert[cert'[c].issuer].st # "none"
                           /\ cert[cert'[c].issuer].type \in Intermediaries
      BY <1>k, <2>2
    <3>1. CASE c = last + 1
      <4>1. cert'[c].type = type /\ cert'[c].issuer = i
        BY <2>1, <3>1
      <4>2. QED  BY <1>2, <4>1
    <3>2. CASE c # last + 1
      BY <2>1, <3>2 DEF Exists
    <3>3. QED  BY <3>1, <3>2
  <2>5. QED  BY <1>0, <1>2, <2>1, <2>2, <2>3, <2>4
<1>3. ASSUME NEW n \in Ids, Exists(n), RevokeCertificate(n), retired' = retired \cup {n},
             UNCHANGED last
      PROVE  /\ Frame /\ RowsOrdered' /\ IssuersKnown'
             /\ \A c \in Ids : c \in retired' <=> cert'[c].st \in {"revoked", "gone"}
  <2>1. /\ cert[n].st \notin {"none", "gone"}
        /\ cert'[n] = [cert[n] EXCEPT !.st = "revoked"] /\ cert[n] \in Row
        /\ \A c \in Ids : c # n => cert'[c] = cert[c]
    BY <1>0, <1>3 DEF RevokeCertificate, Exists, Valid
  <2>2. cert'[n].st = "revoked" /\ cert'[n].type = cert[n].type /\ cert'[n].issuer = cert[n].issuer
    BY <2>1 DEF Row
  <2>3. Frame /\ RowsOrdered'
    BY <1>0, <1>3, <2>1, <2>2 DEF Frame, RowsOrdered
  <2>4. IssuersKnown'
    BY <1>0, <1>3, <1>k, <2>1, <2>2, <2>3 DEF Exists
  <2>5. QED  BY <1>0, <1>3, <2>1, <2>2, <2>3, <2>4
<1>4. ASSUME NEW cs \in SUBSET Ids, \A c \in cs : Exists(c), Delete(cs), UNCHANGED last
      PROVE  /\ Frame /\ RowsOrdered' /\ IssuersKnown'
             /\ \A c \in Ids : c \in retired' <=> cert'[c].st \in {"revoked", "gone"}
  <2>1. /\ \A c \in cs : cert[c].st \notin {"none", "gone"}
        /\ \A c \in cs : cert'[c].st = "gone" /\ cert'[c].type = cert[c].type
        /\ \A c \in Ids \ cs : cert'[c] = cert[c]
        /\ retired' = retired \cup cs
    BY <1>0, <1>4 DEF Delete, Exists, Valid, NoRow
  <2>2. Frame /\ RowsOrdered'
    BY <1>0, <1>4, <2>1 DEF Frame, RowsOrdered
  <2>3. IssuersKnown'
    BY <1>0, <1>4, <1>k, <2>1, <2>2 DEF Exists, Valid
  <2>4. QED  BY <1>0, <1>4, <2>1, <2>2, <2>3
<1>5. ASSUME NEW n \in Ids, Age(n)
      PROVE  /\ Frame /\ RowsOrdered' /\ IssuersKnown'
             /\ \A c \in Ids : c \in retired' <=> cert'[c].st \in {"revoked", "gone"}
  <2>1. /\ cert[n].st = "fresh" /\ UNCHANGED <<last, retired>>
        /\ cert'[n] = [cert[n] EXCEPT !.st = "short"] /\ cert[n] \in Row
        /\ \A c \in Ids : c # n => cert'[c] = cert[c]
    BY <1>0, <1>5 DEF Age
  <2>2. cert'[n].st = "short" /\ cert'[n].type = cert[n].type /\ cert'[n].issuer = cert[n].issuer
    BY <2>1 DEF Row
  <2>3. Frame /\ RowsOrdered'
    BY <1>0, <2>1, <2>2 DEF Frame, RowsOrdered
  <2>4. IssuersKnown'
    BY <1>0, <1>k, <2>1, <2>2, <2>3 DEF Exists, Valid
  <2>5. QED  BY <1>0, <2>1, <2>2, <2>3, <2>4
<1>6. QED
  BY <1>1, <1>2, <1>3, <1>4, <1>5 DEF TableStep

-----------------------------------------------------------------------------
(* What becomes of a request.                                              *)

\* It keeps a key whose row is retired, or drops it; when it uses the key it
\* drops it, or has used up one of two uses.
RequestStep(p) ==
  \E r \in Request :
    /\ req' = [req EXCEPT ![p] = r]
    /\ KeyRead(r)'
    /\ r.key \in retired => r.key = req[p].key /\ (SeesTwice(r) => SeesTwice(req[p]))
    /\ r.step \in Signing => r.key \notin retired'
    /\ \/ UNCHANGED late
       \/ /\ Uses(req[p].key)
          /\ \/ r.key = None
             \/ /\ r.key = req[p].key /\ cert[r.key].type = "ca"
                /\ SeesTwice(req[p]) /\ ~SeesTwice(r)

\* A request that ends holds nothing.
LEMMA EndsStep ==
  ASSUME Shape, NEW p \in Procs, Ends(p), UNCHANGED late \/ Uses(req[p].key)
  PROVE  RequestStep(p)
<1>1. Idle \in Request
  BY DEF Idle, Request, Steps, None
<1>2. Idle.key = None /\ Idle.step = "idle"
  BY DEF Idle
<1>3. KeyRead(Idle)'
  BY <1>2 DEF KeyRead, RootSteps, LookSteps, Signing
<1>4. Idle.key \notin retired /\ Idle.step \notin Signing
  BY <1>2, IdTypes DEF Shape, TypeOK, Signing
<1>5. QED  BY <1>1, <1>2, <1>3, <1>4 DEF Ends, RequestStep

\* A request that begins has read the key of a row that is not retired.
LEMMA BeginsStep ==
  ASSUME Shape, NEW p \in Procs, NEW c \in Ids, c \notin retired', retired \subseteq retired',
         NEW step \in Steps \ {"idle", "bundleNew"}, NEW i \in Ids \cup {None},
         NEW needs \in SUBSET Intermediaries,
         \/ req' = [req EXCEPT ![p] = [Idle EXCEPT !.step = step, !.key = c]]
         \/ req' = [req EXCEPT ![p] = [Idle EXCEPT !.step = step, !.key = c, !.issuer = i]]
         \/ req' = [req EXCEPT ![p] = [Idle EXCEPT !.step = step, !.key = c, !.needs = needs]],
         cert'[c].st # "none",
         step \in RootSteps => cert'[c].type = "ca",
         step \in Signing => cert'[c].type \in Intermediaries,
         step \in {"download", "bundle"} => cert'[c].type = "user",
         UNCHANGED late
  PROVE  RequestStep(p)
<1>1. PICK r \in Request : req' = [req EXCEPT ![p] = r] /\ r.step = step /\ r.key = c
  <2>1. CASE req' = [req EXCEPT ![p] = [Idle EXCEPT !.step = step, !.key = c]]
    <3>1. [Idle EXCEPT !.step = step, !.key = c] \in Request
      BY RequestTypes
    <3>2. QED  BY <2>1, <3>1 DEF Idle
  <2>2. CASE req' = [req EXCEPT ![p] = [Idle EXCEPT !.step = step, !.key = c, !.issuer = i]]
    <3>1. [Idle EXCEPT !.step = step, !.key = c, !.issuer = i] \in Request
      BY RequestTypes
    <3>2. QED  BY <2>2, <3>1 DEF Idle
  <2>3. CASE req' = [req EXCEPT ![p] = [Idle EXCEPT !.step = step, !.key = c, !.needs = needs]]
    <3>1. [Idle EXCEPT !.step = step, !.key = c, !.needs = needs] \in Request
      BY RequestTypes
    <3>2. QED  BY <2>3, <3>1 DEF Idle
  <2>4. QED  BY <2>1, <2>2, <2>3
<1>2. KeyRead(r)'
  BY <1>1, IdTypes DEF KeyRead
<1>3. QED  BY <1>1, <1>2 DEF RequestStep

\* A request that goes on keeps its key.
LEMMA GoesOnStep ==
  ASSUME Shape, Frame, NEW p \in Procs, NEW r \in Request, req' = [req EXCEPT ![p] = r],
         r.key = req[p].key, req[p].step \in RootSteps, r.step \in RootSteps,
         \/ SeesTwice(r) /\ SeesTwice(req[p]) /\ UNCHANGED late
         \/ ~SeesTwice(r) /\ UNCHANGED late
         \/ ~SeesTwice(r) /\ SeesTwice(req[p]) /\ Uses(req[p].key)
  PROVE  RequestStep(p)
<1>1. /\ KeyRead(req[p]) /\ req[p].key \in Ids
  BY DEF Shape, TypeOK, KeysRead, KeyRead, Request, RootSteps, LookSteps
<1>2. r.step \notin Signing \cup {"idle", "bundleNew", "download", "bundle"}
  BY DEF RootSteps, LookSteps, Signing
<1>3. /\ cert[r.key].type = "ca" /\ cert[r.key].st # "none" /\ r.key \in Ids /\ r.key # None
  BY <1>1, IdTypes DEF KeyRead
<1>4. KeyRead(r)'
  BY <1>2, <1>3 DEF KeyRead, Frame
<1>5. QED  BY <1>2, <1>3, <1>4 DEF RequestStep

LEMMA RequestSteps ==
  ASSUME Shape, [Next]_vars, Frame
  PROVE  UNCHANGED <<req, late>> \/ \E p \in Procs : RequestStep(p)
<1>0. /\ cert \in [Ids -> Row] /\ last \in 0..MaxCerts /\ req \in [Procs -> Request]
      /\ RowsOrdered /\ \A c \in Ids : c \in retired <=> cert[c].st \in {"revoked", "gone"}
      /\ \A c \in Ids : cert[c].issuer \in Ids \cup {None}
  BY DEF Shape, TypeOK, RetiredMarked, Row
<1>v. \A c \in Ids : cert[c].st \in Valid => c \notin retired /\ cert[c].st # "none"
  BY <1>0 DEF Valid
<1>n. \A cs : Newest(cs) \subseteq cs
  BY DEF Newest
<1>a. \A type : \A c \in Newest(Active(type)) :
        c \in Ids /\ cert[c].st \in Valid /\ cert[c].type = type
  BY <1>n DEF Active
<1>1. ASSUME NEW p \in Procs, NEW c \in Ids, cert[c].st \in Valid, NEW step \in Signing,
             cert[c].type \in Intermediaries, ReadsIssuer(p, c, step)
      PROVE  RequestStep(p)
  <2>1. step \in Steps \ {"idle", "bundleNew"} /\ step \notin RootSteps \cup {"download", "bundle"}
    BY DEF Steps, Signing, RootSteps, LookSteps
  <2>2. QED  BY <1>v, <1>1, <2>1, BeginsStep DEF ReadsIssuer
<1>2. ASSUME NEW p \in Procs, NEW c \in Ids, cert[c].st \in Valid, cert[c].type = "user",
             NEW step \in {"download", "bundle"}, HoldsCertificate(p, c, step)
      PROVE  RequestStep(p)
  <2>1. step \in Steps \ {"idle", "bundleNew"} /\ step \notin RootSteps \cup Signing
    BY DEF Steps, Signing, RootSteps, LookSteps
  <2>2. QED  BY <1>0, <1>v, <1>2, <2>1, BeginsStep DEF HoldsCertificate
<1>3. ASSUME NEW p \in Procs, NEW step, NEW leaf, InsertLeaf(p, step, leaf)
      PROVE  RequestStep(p)
  BY <1>3, EndsStep DEF InsertLeaf
<1>4. ASSUME NEW p \in Procs, Bundles(p) PROVE RequestStep(p)
  BY <1>4, EndsStep DEF Bundles
<1>5. ASSUME NEW p \in Procs, NEW a \in Intermediaries, SignIntermediary(p, a),
             req[p].step \in {"init", "refresh"}
      PROVE  RequestStep(p)
  <2> DEFINE left == req[p].needs \ {a}
             r == [req[p] EXCEPT !.needs = left]
  <2>1. CASE left = {}
    BY <1>5, <2>1, EndsStep DEF SignIntermediary, Ends
  <2>2. CASE left # {}
    <3>1. req[p] \in Request /\ req[p].needs \subseteq Intermediaries /\ a \in req[p].needs
      BY <1>0, <1>5, <2>2 DEF Request, SignIntermediary, First, Intermediaries
    <3>2. r \in Request /\ r.key = req[p].key /\ r.step = req[p].step /\ r.needs = left
      BY <3>1 DEF Request
    <3>3. req[p].needs = Intermediaries /\ left # Intermediaries
      BY <3>1, <2>2 DEF Intermediaries
    <3>4. req' = [req EXCEPT ![p] = r] /\ Uses(req[p].key)
      BY <1>5, <2>2 DEF SignIntermediary
    <3>5. /\ req[p].step \in RootSteps /\ r.step \in RootSteps
          /\ SeesTwice(req[p]) /\ ~SeesTwice(r)
      BY <1>5, <3>2, <3>3 DEF RootSteps, SeesTwice, LookSteps
    <3> HIDE DEF r
    <3>6. QED  BY <3>2, <3>4, <3>5, GoesOnStep
  <2>3. QED  BY <2>1, <2>2
<1>6. ASSUME NEW p \in Procs, RunCaInit(p) PROVE RequestStep(p)
  <2>1. /\ last + 1 \in Ids /\ cert[last + 1].st = "none" /\ last + 1 \notin retired
        /\ cert' = [cert EXCEPT ![last + 1] = [st |-> "fresh", type |-> "ca", issuer |-> None]]
        /\ req' = [req EXCEPT ![p] = [Idle EXCEPT !.step = "init", !.key = last + 1,
                                                  !.needs = Intermediaries]]
        /\ UNCHANGED <<retired, late>>
    BY <1>0, <1>6 DEF RunCaInit, InsertCertificate, RowsOrdered, Ids
  <2>2. cert'[last + 1].st # "none" /\ cert'[last + 1].type = "ca"
    BY <1>0, <2>1
  <2>3. "init" \in Steps \ {"idle", "bundleNew"} /\ "init" \notin Signing \cup {"download", "bundle"}
    BY DEF Steps, Signing
  <2>4. QED  BY <2>1, <2>2, <2>3, BeginsStep
<1>7. ASSUME NEW p \in Procs, RunCaRefresh(p) PROVE RequestStep(p)
  <2>1. PICK c \in GetActiveRootCA :
          req' = [req EXCEPT ![p] = [Idle EXCEPT !.step = "lookClient", !.key = c]]
    BY <1>7 DEF RunCaRefresh
  <2>2. c \in Ids /\ cert[c].st \in Valid /\ cert[c].type = "ca"
    BY <1>a DEF GetActiveRootCA
  <2>3. /\ "lookClient" \in Steps \ {"idle", "bundleNew"}
        /\ "lookClient" \notin Signing \cup {"download", "bundle"}
    BY DEF Steps, Signing
  <2>4. UNCHANGED <<cert, retired, late>>
    BY <1>7 DEF RunCaRefresh
  <2>5. QED  BY <1>v, <2>1, <2>2, <2>3, <2>4, BeginsStep
<1>8. ASSUME NEW p \in Procs, NEW a \in Intermediaries, NEW next \in {"lookServer", "refresh"},
             req[p].step \in LookSteps, Looks(p, a, next)
      PROVE  RequestStep(p)
  <2> DEFINE newest == GetActiveIntermediaryCA(a)
             good == \E c \in newest : cert[c].st = "fresh"
             needs == req[p].needs \cup (IF good THEN {} ELSE {a})
             old == IF good \/ newest = {} THEN None ELSE CHOOSE c \in newest : TRUE
             r == [req[p] EXCEPT !.step = next, !.needs = needs,
                                 !.old = [req[p].old EXCEPT ![a] = old]]
  <2>1. CASE req' = [req EXCEPT ![p] = Idle]
    BY <1>8, <2>1, EndsStep DEF Looks, Ends
  <2>2. CASE req' = [req EXCEPT ![p] = r]
    <3>1. req[p] \in Request /\ req[p].old \in [Intermediaries -> Ids \cup {None}]
          /\ req[p].needs \subseteq Intermediaries
      BY <1>0 DEF Request
    <3>2. old \in Ids \cup {None}
      BY <1>a DEF GetActiveIntermediaryCA
    <3>3. next \in Steps /\ needs \in SUBSET Intermediaries
      BY <3>1 DEF Steps
    <3> HIDE DEF old, needs
    <3>4. [req[p].old EXCEPT ![a] = old] \in [Intermediaries -> Ids \cup {None}]
      BY <3>1, <3>2
    <3>5. r \in Request
      BY <3>1, <3>3, <3>4, RequestUpdates
    <3>6. r.key = req[p].key /\ r.step = next
      BY <3>1 DEF Request
    <3>7. req[p].step \in RootSteps /\ r.step \in RootSteps /\ SeesTwice(req[p])
      BY <1>8, <3>6 DEF RootSteps, LookSteps, SeesTwice
    <3>8. UNCHANGED late
      BY <1>8 DEF Looks
    <3> HIDE DEF r
    <3>9. QED  BY <2>2, <3>5, <3>6, <3>7, <3>8, GoesOnStep
  <2>3. QED  BY <1>8, <2>1, <2>2 DEF Looks
<1>9. ASSUME NEW p \in Procs, RevokeOld(p) PROVE RequestStep(p)
  <2> DEFINE a == First(req[p].needs)
             r == [req[p] EXCEPT !.old = [req[p].old EXCEPT ![a] = None]]
  <2>1. req[p] \in Request /\ req[p].old \in [Intermediaries -> Ids \cup {None}]
    BY <1>0 DEF Request
  <2>2. [req[p].old EXCEPT ![a] = None] \in [Intermediaries -> Ids \cup {None}]
    BY <2>1
  <2>3. r \in Request
    <3>1. "refresh" \in Steps /\ None \in Ids \cup {None} /\ {} \in SUBSET Intermediaries
      BY DEF Steps
    <3>2. QED  BY <2>1, <2>2, <3>1, RequestUpdates
  <2>4. r.key = req[p].key /\ r.step = req[p].step /\ r.needs = req[p].needs
    BY <2>1 DEF Request
  <2>5. req[p].step \in RootSteps /\ r.step \in RootSteps /\ (SeesTwice(r) <=> SeesTwice(req[p]))
    BY <1>9, <2>4 DEF RevokeOld, At, RootSteps, SeesTwice
  <2>6. req' = [req EXCEPT ![p] = r] /\ UNCHANGED late
    <3>1. req'[p] = r /\ \A q \in Procs \ {p} : req'[q] = req[q]
      BY <1>0, <1>9, <2>1 DEF RevokeOld
    <3>2. QED  BY <1>0, <1>9, <3>1 DEF RevokeOld
  <2> HIDE DEF r
  <2>7. QED  BY <2>3, <2>4, <2>5, <2>6, GoesOnStep
<1>10. ASSUME NEW p \in Procs, RunCaMtlsBundle(p) PROVE RequestStep(p)
  <2>1. CASE \E c \in GetUserCertificate : HoldsCertificate(p, c, "bundle")
    BY <1>a, <1>2, <2>1 DEF GetUserCertificate
  <2>2. CASE At(p, "idle") /\ GoTo(p, "bundleNew") /\ UNCHANGED <<cert, last, user, retired, late>>
    <3>1. req[p] \in Request
      BY <1>0
    <3>2. req[p].key = None
      <4>1. KeyRead(req[p])
        BY DEF Shape, KeysRead
      <4>2. QED  BY <2>2, <4>1 DEF KeyRead, At
    <3>3. [req[p] EXCEPT !.step = "bundleNew"] \in Request
      BY <3>1 DEF Request, Steps
    <3>r. PICK r \in Request : /\ req' = [req EXCEPT ![p] = r]
                               /\ r.key = None /\ r.step = "bundleNew"
      BY <2>2, <3>1, <3>2, <3>3 DEF GoTo, Request
    <3>4. KeyRead(r)'
      BY <3>r DEF KeyRead, RootSteps, LookSteps, Signing
    <3>5. r.key \notin retired /\ r.step \notin Signing
      BY <3>r, IdTypes DEF Shape, TypeOK, Signing
    <3>6. QED  BY <2>2, <3>r, <3>4, <3>5 DEF RequestStep
  <2>3. QED  BY <1>10, <2>1, <2>2 DEF RunCaMtlsBundle
<1>11. ASSUME NEW p \in Procs, ServerStep(p) PROVE RequestStep(p)
  <2>1. /\ "userCert" \in Signing /\ "serverCert" \in Signing /\ "csrCert" \in Signing
        /\ "client-int" \in Intermediaries /\ "server-int" \in Intermediaries
    BY DEF Signing, Intermediaries
  <2>2. \A c \in Ids : \A type : Issues(c, type) => cert[c].st \in Valid /\ cert[c].type = type
    BY DEF Issues, Valid
  <2>3. CASE \E c \in Ids : \/ HandleGenerateUserCert(p, c) \/ HandleGenerateServerCert(p, c)
    BY <1>1, <2>1, <2>2, <2>3 DEF HandleGenerateUserCert, HandleGenerateServerCert
  <2>4. CASE \E c \in Ids : HandleDownloadUserCert(p, c)
    BY <1>2, <2>4 DEF HandleDownloadUserCert, Active
  <2>5. CASE HandleGenerateServerCertFromCSR(p)
    BY <1>a, <1>1, <2>1, <2>2, <2>5 DEF HandleGenerateServerCertFromCSR, GetActiveIntermediaryCA
  <2>6. CASE EncodeBundle(p) \/ InsertUserCert(p) \/ InsertServerCert(p) \/ InsertServerCertFromCSR(p)
    BY <1>3, <1>4, <2>6
    DEF EncodeBundle, InsertUserCert, InsertServerCert, InsertServerCertFromCSR
  <2>7. QED  BY <1>11, <2>3, <2>4, <2>5, <2>6 DEF ServerStep
<1>12. ASSUME NEW p \in Procs, CommandStep(p) PROVE RequestStep(p)
  <2>1. /\ "bundleCert" \in Signing
        /\ "client-int" \in Intermediaries /\ "server-int" \in Intermediaries
    BY DEF Signing, Intermediaries
  <2>2. CASE \/ InitClientIntermediary(p) \/ InitServerIntermediary(p)
             \/ RefreshClientIntermediary(p) \/ RefreshServerIntermediary(p)
    BY <1>5, <2>1, <2>2 DEF InitClientIntermediary, InitServerIntermediary,
       RefreshClientIntermediary, RefreshServerIntermediary, At
  <2>3. CASE LookAtClient(p) \/ LookAtServer(p)
    BY <1>8, <2>1, <2>3 DEF LookAtClient, LookAtServer, At, LookSteps
  <2>4. CASE BundleNew(p)
    BY <1>a, <1>1, <2>1, <2>4 DEF BundleNew, GetActiveIntermediaryCA
  <2>5. CASE BundleExisting(p) \/ InsertBundleCert(p)
    BY <1>3, <1>4, <2>5 DEF BundleExisting, InsertBundleCert
  <2>6. QED
    BY <1>6, <1>7, <1>9, <1>10, <1>12, <2>2, <2>3, <2>4, <2>5 DEF CommandStep
<1>13. ASSUME NEW p \in Procs, Stops(p) PROVE RequestStep(p)
  BY <1>13, EndsStep DEF Stops
<1>14. CASE \/ \E c \in Ids : HandleRevokeCertificate(c) \/ Age(c)
            \/ RunCaDelete \/ DeleteUser \/ UNCHANGED vars
  BY <1>14 DEF HandleRevokeCertificate, Age, RunCaDelete, DeleteUser, vars
<1>15. QED
  BY <1>11, <1>12, <1>13, <1>14 DEF Next

\* The requests keep holding what their steps say, and what is counted is of
\* retired rows.
LEMMA ShapeStep == Shape /\ [Next]_vars => Shape' /\ Frame
<1> SUFFICES ASSUME Shape, [Next]_vars PROVE Shape' /\ Frame
  OBVIOUS
<1>1. TypeOK'
  BY TypeStep
<1>2. /\ Frame /\ RowsOrdered' /\ IssuersKnown'
      /\ \A c \in Ids : c \in retired' <=> cert'[c].st \in {"revoked", "gone"}
  BY <1>1, TableSteps, TableKept
<1>3. UNCHANGED <<req, late>> \/ \E p \in Procs : RequestStep(p)
  BY <1>2, RequestSteps
<1>0. /\ late \in [Ids -> Nat] /\ req \in [Procs -> Request] /\ KeysRead
      /\ \A c \in Ids : late[c] > 0 => c \in retired
  BY DEF Shape, TypeOK, RetiredMarked
<1>4. \A r \in Request : KeyRead(r) => KeyRead(r)'
  <2> SUFFICES ASSUME NEW r \in Request, KeyRead(r) PROVE KeyRead(r)'
    OBVIOUS
  <2>1. r.key \in Ids \cup {None}
    BY DEF Request
  <2>2. QED  BY <1>2, <2>1 DEF KeyRead, Frame, RootSteps, LookSteps, Signing
<1>5. KeysRead'
  <2>1. CASE UNCHANGED req
    <3> SUFFICES ASSUME NEW p \in Procs PROVE KeyRead(req[p])'
      BY DEF KeysRead
    <3>1. PICK r \in Request : r = req[p]
      BY <1>0
    <3>2. KeyRead(r)'
      BY <1>0, <1>4, <3>1 DEF KeysRead
    <3>3. req'[p] = r
      BY <2>1, <3>1
    <3>4. QED  BY <3>2, <3>3 DEF KeyRead
  <2>2. ASSUME NEW q \in Procs, RequestStep(q) PROVE KeysRead'
    <3> SUFFICES ASSUME NEW p \in Procs PROVE KeyRead(req[p])'
      BY DEF KeysRead
    <3>1. PICK s \in Request : req' = [req EXCEPT ![q] = s] /\ KeyRead(s)'
      BY <2>2 DEF RequestStep
    <3>2. PICK r \in Request : r = req'[p] /\ KeyRead(r)'
      <4>1. CASE p = q
        BY <1>0, <3>1, <4>1
      <4>2. CASE p # q
        <5>1. PICK t \in Request : t = req[p]
          BY <1>0
        <5>2. QED  BY <1>0, <1>4, <3>1, <4>2, <5>1 DEF KeysRead
      <4>3. QED  BY <4>1, <4>2
    <3>3. QED  BY <3>2 DEF KeyRead
  <2>3. QED  BY <1>3, <2>1, <2>2
<1>6. \A c \in Ids : late'[c] > 0 => c \in retired'
  <2> SUFFICES ASSUME NEW c \in Ids, late'[c] > 0 PROVE c \in retired'
    OBVIOUS
  <2>1. c \in retired
    <3>1. CASE UNCHANGED late
      BY <1>0, <3>1
    <3>2. CASE ~UNCHANGED late
      <4>1. PICK p \in Procs : Uses(req[p].key)
        BY <1>3, <3>2 DEF RequestStep
      <4>2. QED  BY <1>0, <4>1 DEF Uses
    <3>3. QED  BY <3>1, <3>2
  <2>2. QED  BY <1>2, <2>1 DEF Frame
<1>7. QED  BY <1>1, <1>2, <1>5, <1>6 DEF Shape, RetiredMarked

-----------------------------------------------------------------------------
(* Uses of retired keys.                                                   *)

LEMMA HoldersFinite ==
  /\ P \in Nat /\ \A c : /\ IsFiniteSet(Holders(c)) /\ Cardinality(Holders(c)) \in Nat
                         /\ Cardinality(Holders(c)) <= P
                         /\ IsFiniteSet(Twice(c)) /\ Cardinality(Twice(c)) \in Nat
                         /\ Cardinality(Twice(c)) <= P
<1>1. \A c : Holders(c) \subseteq Procs /\ Twice(c) \subseteq Procs
  BY DEF Holders, Twice
<1>2. QED  BY <1>1, FS_Subset, FS_CardinalityType DEF P

\* Nobody becomes a holder of a retired key, and who uses it has one use less.
LEMMA UsesStep ==
  ASSUME Shape, [Next]_vars, NEW c \in Ids
  PROVE  \/ late'[c] = 0
         \/ /\ c \in retired
            /\ Holders(c)' \subseteq Holders(c) /\ Twice(c)' \subseteq Twice(c)
            /\ \/ late'[c] = late[c]
               \/ /\ late'[c] = late[c] + 1
                  /\ \/ \E p \in Holders(c) : p \notin Holders(c)'
                     \/ /\ cert[c].type = "ca"
                        /\ \E p \in Twice(c) : p \notin Twice(c)'
<1>0. /\ late \in [Ids -> Nat] /\ req \in [Procs -> Request] /\ retired \subseteq Ids
      /\ \A d \in Ids : late[d] > 0 => d \in retired
      /\ TypeOK /\ late' \in [Ids -> Nat]
  BY TypeStep DEF Shape, TypeOK, RetiredMarked
<1>1. UNCHANGED <<req, late>> \/ \E p \in Procs : RequestStep(p)
  BY ShapeStep, RequestSteps
<1>2. CASE UNCHANGED <<req, late>>
  BY <1>0, <1>2 DEF Holders, Twice
<1>3. ASSUME NEW p \in Procs, RequestStep(p), late'[c] # 0
      PROVE  /\ c \in retired
             /\ Holders(c)' \subseteq Holders(c) /\ Twice(c)' \subseteq Twice(c)
             /\ \/ late'[c] = late[c]
                \/ /\ late'[c] = late[c] + 1
                   /\ \/ \E q \in Holders(c) : q \notin Holders(c)'
                      \/ /\ cert[c].type = "ca"
                         /\ \E q \in Twice(c) : q \notin Twice(c)'
  <2>1. PICK r \in Request :
          /\ req' = [req EXCEPT ![p] = r]
          /\ r.key \in retired => r.key = req[p].key /\ (SeesTwice(r) => SeesTwice(req[p]))
          /\ \/ UNCHANGED late
             \/ /\ Uses(req[p].key)
                /\ \/ r.key = None
                   \/ /\ r.key = req[p].key /\ cert[r.key].type = "ca"
                      /\ SeesTwice(req[p]) /\ ~SeesTwice(r)
    BY <1>3 DEF RequestStep
  <2>2. req'[p] = r /\ \A q \in Procs : q # p => req'[q] = req[q]
    BY <1>0, <2>1
  <2>3. c \in retired
    <3>1. CASE UNCHANGED late
      BY <1>0, <1>3, <3>1
    <3>2. CASE Uses(req[p].key)
      BY <1>0, <1>3, <3>2 DEF Uses
    <3>3. QED  BY <2>1, <3>1, <3>2
  <2>4. Holders(c)' \subseteq Holders(c)
    BY <2>1, <2>2, <2>3 DEF Holders
  <2>5. Twice(c)' \subseteq Twice(c)
    BY <2>1, <2>2, <2>3, <2>4 DEF Holders, Twice, SeesTwice
  <2>6. CASE late'[c] = late[c]
    BY <2>3, <2>4, <2>5, <2>6
  <2>7. CASE late'[c] # late[c]
    <3>1. Uses(req[p].key) /\ req[p].key = c /\ late'[c] = late[c] + 1
      BY <1>0, <2>1, <2>7, UseTypes
    <3>2. p \in Holders(c)
      BY <3>1 DEF Holders
    <3>3. CASE r.key = None
      <4>1. p \notin Holders(c)'
        BY <2>2, <3>3, IdTypes DEF Holders
      <4>2. QED  BY <2>3, <2>4, <2>5, <3>1, <3>2, <4>1
    <3>4. CASE r.key = req[p].key /\ cert[r.key].type = "ca" /\ SeesTwice(req[p]) /\ ~SeesTwice(r)
      <4>1. p \in Twice(c) /\ p \notin Twice(c)'
        BY <2>2, <3>2, <3>4 DEF Twice, SeesTwice
      <4>2. QED  BY <2>3, <2>4, <2>5, <3>1, <3>4, <4>1
    <3>5. QED  BY <2>1, <2>7, <3>3, <3>4
  <2>8. QED  BY <2>6, <2>7
<1>4. QED  BY <1>1, <1>2, <1>3

\* A finite set that loses an element gets smaller.
LEMMA Loses ==
  ASSUME NEW S, NEW T, IsFiniteSet(S), T \subseteq S, NEW x \in S, x \notin T
  PROVE  Cardinality(T) + 1 <= Cardinality(S)
<1>1. T \subseteq S \ {x}
  OBVIOUS
<1>2. IsFiniteSet(S \ {x}) /\ Cardinality(S \ {x}) = Cardinality(S) - 1
  BY FS_RemoveElement
<1>3. Cardinality(T) <= Cardinality(S \ {x}) /\ IsFiniteSet(T)
  BY <1>1, <1>2, FS_Subset
<1>4. Cardinality(S) \in Nat /\ Cardinality(T) \in Nat
  BY <1>3, FS_CardinalityType
<1>5. QED  BY <1>2, <1>3, <1>4

LEMMA UsesLeftStep == Shape /\ UsesLeft /\ [Next]_vars => UsesLeft'
<1> SUFFICES ASSUME Shape, UsesLeft, [Next]_vars, NEW c \in Ids
             PROVE  /\ late'[c] + Cardinality(Holders(c)') + Cardinality(Twice(c)') <= 2 * P
                    /\ cert'[c].type # "ca" => late'[c] + Cardinality(Holders(c)') <= P
  BY DEF UsesLeft, P
<1> DEFINE H == Cardinality(Holders(c))
           T == Cardinality(Twice(c))
<1>1. /\ P \in Nat /\ H \in Nat /\ T \in Nat /\ H <= P /\ T <= P
      /\ IsFiniteSet(Holders(c)) /\ IsFiniteSet(Twice(c))
  BY HoldersFinite
<1>2. /\ H' \in Nat /\ T' \in Nat /\ H' <= P /\ T' <= P
  <2>1. Holders(c)' \subseteq Procs /\ Twice(c)' \subseteq Procs
    BY DEF Holders, Twice
  <2>2. QED  BY <2>1, FS_Subset, FS_CardinalityType DEF P
<1>3. late[c] \in Nat /\ late'[c] \in Nat
  BY TypeStep DEF Shape, TypeOK
<1>4. CASE late'[c] = 0
  BY <1>1, <1>2, <1>4
<1>5. CASE /\ c \in retired
           /\ Holders(c)' \subseteq Holders(c) /\ Twice(c)' \subseteq Twice(c)
           /\ \/ late'[c] = late[c]
              \/ /\ late'[c] = late[c] + 1
                 /\ \/ \E p \in Holders(c) : p \notin Holders(c)'
                    \/ /\ cert[c].type = "ca"
                       /\ \E p \in Twice(c) : p \notin Twice(c)'
  <2>1. cert'[c].type = cert[c].type
    BY <1>5, ShapeStep DEF Frame, Shape, RetiredMarked
  <2>2. H' <= H /\ T' <= T
    BY <1>1, <1>5, FS_Subset
  <2>3. late[c] + H + T <= 2 * P /\ (cert[c].type # "ca" => late[c] + H <= P)
    BY DEF UsesLeft
  <2> HIDE DEF H, T
  <2>4. CASE late'[c] = late[c]
    BY <1>1, <1>2, <1>3, <2>1, <2>2, <2>3, <2>4 DEF H, T
  <2>5. CASE late'[c] = late[c] + 1 /\ \E p \in Holders(c) : p \notin Holders(c)'
    <3>1. H' + 1 <= H
      BY <1>1, <1>5, <2>5, Loses DEF H
    <3>2. QED  BY <1>1, <1>2, <1>3, <2>1, <2>2, <2>3, <2>5, <3>1 DEF H, T
  <2>6. CASE /\ late'[c] = late[c] + 1 /\ cert[c].type = "ca"
             /\ \E p \in Twice(c) : p \notin Twice(c)'
    <3>1. T' + 1 <= T
      BY <1>1, <1>5, <2>6, Loses DEF T
    <3>2. QED  BY <1>1, <1>2, <1>3, <2>1, <2>2, <2>3, <2>6, <3>1 DEF H, T
  <2>7. QED  BY <1>5, <2>4, <2>5, <2>6
<1>6. QED  BY <1>4, <1>5, UsesStep

-----------------------------------------------------------------------------
(* Orphans.                                                                *)

LEMMA OrphansFinite ==
  /\ IsFiniteSet(Orphans) /\ Cardinality(Orphans) \in Nat
  /\ IsFiniteSet(Orphaning) /\ Cardinality(Orphaning) \in Nat /\ Cardinality(Orphaning) <= P
<1>1. Orphans \subseteq Ids /\ Orphaning \subseteq Procs
  BY DEF Orphans, Orphaning
<1>2. QED  BY <1>1, IdTypes, FS_Subset, FS_CardinalityType DEF P

\* Nobody begins to sign with a deleted intermediary.
LEMMA OrphaningStep ==
  ASSUME Shape, [Next]_vars, \A c \in Ids : cert'[c].st = "gone" /\ cert[c].type \in Intermediaries
                                              => cert[c].st = "gone"
  PROVE  Orphaning' \subseteq Orphaning
<1>0. /\ req \in [Procs -> Request] /\ KeysRead /\ Frame /\ retired \subseteq Ids
      /\ \A c \in Ids : c \in retired' <=> cert'[c].st \in {"revoked", "gone"}
      /\ \A p \in Procs : req[p].key \in Ids \cup {None}
  BY ShapeStep DEF Shape, TypeOK, RetiredMarked, Request
<1>1. \A p \in Procs : req[p].step \in Signing =>
        req[p].key \in Ids /\ cert[req[p].key].type \in Intermediaries
  BY <1>0 DEF KeysRead, KeyRead, Signing
<1>2. CASE UNCHANGED req
  BY <1>0, <1>1, <1>2 DEF Orphaning
<1>3. ASSUME NEW p \in Procs, RequestStep(p) PROVE Orphaning' \subseteq Orphaning
  <2>1. PICK r \in Request : /\ req' = [req EXCEPT ![p] = r] /\ KeyRead(r)'
                             /\ r.step \in Signing => r.key \notin retired'
    BY <1>3 DEF RequestStep
  <2>2. p \notin Orphaning'
    <3> SUFFICES ASSUME r.step \in Signing, cert'[r.key].st = "gone" PROVE FALSE
      BY <1>0, <2>1 DEF Orphaning
    <3>1. r.key \in Ids
      BY <2>1 DEF KeyRead, Signing, Request
    <3>2. QED  BY <1>0, <2>1, <3>1
  <2>3. \A q \in Procs \ {p} : req'[q] = req[q]
    BY <1>0, <2>1
  <2>4. QED  BY <1>1, <2>2, <2>3 DEF Orphaning
<1>4. QED  BY <1>0, <1>2, <1>3, RequestSteps

\* An orphan has not been inserted under somebody else meanwhile.
LEMMA OrphansStep ==
  ASSUME Shape, [Next]_vars,
         \A c \in Ids : Exists(c)' => Exists(c) /\ cert'[c].issuer = cert[c].issuer,
         \A c \in Ids : cert'[c].st = "gone" /\ cert[c].type \in Intermediaries
                          => cert[c].st = "gone"
  PROVE  Orphans' \subseteq Orphans
<1> SUFFICES ASSUME NEW c \in Ids, Exists(c)', cert'[c].type \in Leaves,
                    cert'[cert'[c].issuer].st = "gone"
             PROVE  c \in Orphans
  BY DEF Orphans, Exists
<1>1. Exists(c) /\ cert'[c].issuer = cert[c].issuer /\ cert'[c].type = cert[c].type
  BY ShapeStep DEF Frame, Exists, Valid
<1>2. cert[c].issuer \in Ids /\ cert[cert[c].issuer].type \in Intermediaries
  BY <1>1 DEF Shape, IssuersKnown
<1>3. QED  BY <1>1, <1>2 DEF Orphans

\* A certificate is signed by an intermediary that is deleted: one orphan more,
\* one request less that can make one.
LEMMA InsertLeafOrphans ==
  ASSUME Shape, OrphansLeft, [Next]_vars, NEW p \in Procs, NEW step \in Signing,
         NEW leaf \in Leaves, InsertLeaf(p, step, leaf)
  PROVE  OrphansLeft'
<1> DEFINE n == last + 1
<1>0. /\ cert \in [Ids -> Row] /\ last \in 0..MaxCerts /\ req \in [Procs -> Request]
      /\ RowsOrdered /\ KeysRead /\ IssuersKnown
  BY DEF Shape, TypeOK
<1>1. /\ n \in Ids /\ cert[n].st = "none"
      /\ cert'[n] = [st |-> "fresh", type |-> leaf, issuer |-> req[p].key]
      /\ \A c \in Ids : c # n => cert'[c] = cert[c]
      /\ req' = [req EXCEPT ![p] = Idle] /\ req[p].step = step
  BY <1>0 DEF InsertLeaf, InsertCertificate, RowsOrdered, Ids, Ends, At
<1>2. /\ cert'[n].st = "fresh" /\ cert'[n].issuer = req[p].key
  BY <1>1
<1>3. req[p].key \in Ids /\ req[p].key # n /\ cert[req[p].key].type \in Intermediaries
  <2>1. KeyRead(req[p]) /\ req[p].key \in Ids \cup {None}
    BY <1>0 DEF KeysRead, Request
  <2>2. QED  BY <1>1, <2>1 DEF KeyRead, Signing
<1>4. Orphaning' \subseteq Orphaning
  BY <1>1, <1>2, OrphaningStep
<1>5. p \notin Orphaning'
  BY <1>0, <1>1 DEF Orphaning, Idle, Signing
<1>6. \A c \in Orphans' : c # n => c \in Orphans
  <2> SUFFICES ASSUME NEW c \in Ids, c # n, Exists(c)', cert'[c].type \in Leaves,
                      cert'[cert'[c].issuer].st = "gone"
               PROVE  c \in Orphans
    BY DEF Orphans, Exists
  <2>1. cert'[c] = cert[c] /\ Exists(c)
    BY <1>1 DEF Exists
  <2>2. cert[c].issuer \in Ids
    BY <1>0, <2>1 DEF IssuersKnown
  <2>3. QED  BY <1>1, <1>2, <2>1, <2>2 DEF Orphans
<1>7. CASE cert[req[p].key].st = "gone"
  <2>1. p \in Orphaning
    BY <1>1, <1>7 DEF Orphaning
  <2>2. Cardinality(Orphaning') + 1 <= Cardinality(Orphaning)
    BY <1>4, <1>5, <2>1, OrphansFinite, Loses
  <2>3. Orphans' \subseteq Orphans \cup {n}
    BY <1>6
  <2>4. /\ IsFiniteSet(Orphans \cup {n})
        /\ Cardinality(Orphans \cup {n}) <= Cardinality(Orphans) + 1
    <3>1. IsFiniteSet(Orphans) /\ Cardinality(Orphans) \in Nat
      BY OrphansFinite
    <3>2. /\ IsFiniteSet(Orphans \cup {n})
          /\ Cardinality(Orphans \cup {n}) =
               IF n \in Orphans THEN Cardinality(Orphans) ELSE Cardinality(Orphans) + 1
      BY <3>1, FS_AddElement
    <3>3. QED  BY <3>1, <3>2
  <2>5. Cardinality(Orphans') <= Cardinality(Orphans \cup {n}) /\ IsFiniteSet(Orphans')
    BY <2>3, <2>4, FS_Subset
  <2>6. /\ Cardinality(Orphans') \in Nat /\ Cardinality(Orphans \cup {n}) \in Nat
        /\ Cardinality(Orphaning') \in Nat
    <3>1. IsFiniteSet(Orphaning')
      BY <1>4, OrphansFinite, FS_Subset
    <3>2. QED  BY <2>4, <2>5, <3>1, FS_CardinalityType
  <2>7. QED  BY <2>2, <2>4, <2>5, <2>6, OrphansFinite, HoldersFinite DEF OrphansLeft, P
<1>8. CASE cert[req[p].key].st # "gone"
  <2>1. n \notin Orphans'
    BY <1>1, <1>2, <1>3, <1>8 DEF Orphans
  <2>2. Orphans' \subseteq Orphans
    BY <1>6, <2>1
  <2>3. /\ Cardinality(Orphans') <= Cardinality(Orphans)
        /\ Cardinality(Orphaning') <= Cardinality(Orphaning)
        /\ Cardinality(Orphans') \in Nat /\ Cardinality(Orphaning') \in Nat
    BY <1>4, <2>2, OrphansFinite, FS_Subset, FS_CardinalityType
  <2>4. QED  BY <2>3, OrphansFinite, HoldersFinite DEF OrphansLeft, P
<1>9. QED  BY <1>7, <1>8

LEMMA OrphansLeftStep == Shape /\ OrphansLeft /\ [Next]_vars => OrphansLeft'
<1> SUFFICES ASSUME Shape, OrphansLeft, [Next]_vars PROVE OrphansLeft'
  OBVIOUS
<1>0. cert \in [Ids -> Row] /\ IssuersKnown
  BY DEF Shape, TypeOK
\* Certificates and intermediaries of before.
<1>k. ASSUME \A c \in Ids : Exists(c)' => Exists(c) /\ cert'[c].issuer = cert[c].issuer,
             \A c \in Ids : cert'[c].st = "gone" /\ cert[c].type \in Intermediaries
                              => cert[c].st = "gone"
      PROVE  OrphansLeft'
  <2>1. Orphans' \subseteq Orphans /\ Orphaning' \subseteq Orphaning
    BY <1>k, OrphansStep, OrphaningStep
  <2>2. /\ Cardinality(Orphans') <= Cardinality(Orphans)
        /\ Cardinality(Orphaning') <= Cardinality(Orphaning)
        /\ Cardinality(Orphans') \in Nat /\ Cardinality(Orphaning') \in Nat
    BY <2>1, OrphansFinite, FS_Subset, FS_CardinalityType
  <2>3. QED  BY <2>2, OrphansFinite, HoldersFinite DEF OrphansLeft, P
<1>u. CASE UNCHANGED cert
  BY <1>k, <1>u DEF Exists
<1>1. ASSUME NEW type \in {"ca"} \cup Intermediaries, NEW i, InsertCertificate(type, i)
      PROVE  OrphansLeft'
  <2> DEFINE n == last + 1
  <2>1. /\ n \in Ids /\ cert[n].st = "none"
        /\ cert'[n] = [st |-> "fresh", type |-> type, issuer |-> i]
        /\ \A c \in Ids : c # n => cert'[c] = cert[c]
    BY <1>0, <1>1 DEF Shape, TypeOK, InsertCertificate, RowsOrdered, Ids
  <2>2. cert'[n].st = "fresh" /\ cert'[n].type \notin Leaves
    BY <2>1 DEF Intermediaries, Leaves
  <2>3. Orphaning' \subseteq Orphaning
    BY <2>1, <2>2, OrphaningStep
  <2>4. Orphans' \subseteq Orphans
    <3> SUFFICES ASSUME NEW c \in Ids, Exists(c)', cert'[c].type \in Leaves,
                        cert'[cert'[c].issuer].st = "gone"
                 PROVE  c \in Orphans
      BY DEF Orphans, Exists
    <3>1. cert'[c] = cert[c] /\ Exists(c)
      BY <2>1, <2>2 DEF Exists
    <3>2. cert[c].issuer \in Ids
      BY <1>0, <3>1 DEF IssuersKnown
    <3>3. QED  BY <2>1, <2>2, <3>1, <3>2 DEF Orphans
  <2>5. /\ Cardinality(Orphans') <= Cardinality(Orphans)
        /\ Cardinality(Orphaning') <= Cardinality(Orphaning)
        /\ Cardinality(Orphans') \in Nat /\ Cardinality(Orphaning') \in Nat
    BY <2>3, <2>4, OrphansFinite, FS_Subset, FS_CardinalityType
  <2>6. QED  BY <2>5, OrphansFinite, HoldersFinite DEF OrphansLeft, P
<1>2. ASSUME NEW c \in Ids, Exists(c), RevokeCertificate(c) PROVE OrphansLeft'
  <2>1. /\ cert'[c] = [cert[c] EXCEPT !.st = "revoked"] /\ cert[c] \in Row
        /\ \A d \in Ids : d # c => cert'[d] = cert[d]
    BY <1>0, <1>2 DEF RevokeCertificate
  <2>2. cert'[c].st = "revoked" /\ cert'[c].issuer = cert[c].issuer
    BY <2>1 DEF Row
  <2>3. QED  BY <1>2, <1>k, <2>1, <2>2 DEF Exists
<1>3. ASSUME NEW c \in Ids, Age(c) PROVE OrphansLeft'
  <2>1. /\ cert'[c] = [cert[c] EXCEPT !.st = "short"] /\ cert[c] \in Row /\ cert[c].st = "fresh"
        /\ \A d \in Ids : d # c => cert'[d] = cert[d]
    BY <1>0, <1>3 DEF Age
  <2>2. cert'[c].st = "short" /\ cert'[c].issuer = cert[c].issuer
    BY <2>1 DEF Row
  <2>3. QED  BY <1>k, <2>1, <2>2 DEF Exists, Valid
<1>4. CASE RunCaDelete
  <2>1. Orphans' = {}
    BY <1>0, <1>4 DEF RunCaDelete, Delete, AllCertificates, Orphans, Exists, Valid, NoRow
  <2>2. Cardinality(Orphans') = 0
    BY <2>1, FS_EmptySet
  <2>3. Cardinality(Orphaning') \in Nat /\ Cardinality(Orphaning') <= P
    <3>1. Orphaning' \subseteq Procs
      BY DEF Orphaning
    <3>2. QED  BY <3>1, FS_Subset, FS_CardinalityType DEF P
  <2>4. QED  BY <2>2, <2>3 DEF OrphansLeft, P
<1>5. CASE DeleteUser
  <2> DEFINE cs == {c \in Ids : Exists(c) /\ cert[c].type = "user"}
  <2>1. /\ \A c \in cs : cert'[c].st = "gone"
        /\ \A c \in Ids \ cs : cert'[c] = cert[c]
    BY <1>0, <1>5 DEF DeleteUser, Delete, NoRow
  <2>2. \A c \in Ids : Exists(c)' => Exists(c) /\ cert'[c].issuer = cert[c].issuer
    BY <2>1 DEF Exists, Valid
  <2>3. \A c \in Ids : cert'[c].st = "gone" /\ cert[c].type \in Intermediaries
                         => cert[c].st = "gone"
    BY <2>1 DEF Intermediaries
  <2>4. QED  BY <1>k, <2>2, <2>3
<1>6. ASSUME NEW p \in Procs, ServerStep(p) PROVE OrphansLeft'
  <2>1. /\ "userCert" \in Signing /\ "serverCert" \in Signing /\ "csrCert" \in Signing
        /\ "user" \in Leaves /\ "server" \in Leaves
    BY DEF Signing, Leaves
  <2>2. CASE InsertUserCert(p) \/ InsertServerCert(p) \/ InsertServerCertFromCSR(p)
    BY <2>1, <2>2, InsertLeafOrphans DEF InsertUserCert, InsertServerCert, InsertServerCertFromCSR
  <2>3. CASE ~(InsertUserCert(p) \/ InsertServerCert(p) \/ InsertServerCertFromCSR(p))
    BY <1>6, <1>u, <2>3 DEF ServerStep, HandleGenerateUserCert, HandleGenerateServerCert,
       HandleDownloadUserCert, HandleGenerateServerCertFromCSR, EncodeBundle, ReadsIssuer,
       HoldsCertificate, Bundles
  <2>4. QED  BY <2>2, <2>3
<1>7. ASSUME NEW p \in Procs, CommandStep(p) PROVE OrphansLeft'
  <2>1. /\ "bundleCert" \in Signing /\ "user" \in Leaves
        /\ "client-int" \in Intermediaries /\ "server-int" \in Intermediaries
    BY DEF Signing, Leaves, Intermediaries
  <2>2. CASE InsertBundleCert(p)
    BY <2>1, <2>2, InsertLeafOrphans DEF InsertBundleCert
  <2>3. CASE \/ InitClientIntermediary(p) \/ InitServerIntermediary(p)
             \/ RefreshClientIntermediary(p) \/ RefreshServerIntermediary(p)
    BY <1>1, <2>1, <2>3 DEF InitClientIntermediary, InitServerIntermediary,
       RefreshClientIntermediary, RefreshServerIntermediary, SignIntermediary
  <2>4. CASE RunCaInit(p)
    BY <1>1, <2>4 DEF RunCaInit
  <2>5. CASE RevokeOld(p)
    <3> DEFINE c == req[p].old[First(req[p].needs)]
    <3>1. c \in Ids \/ c = None
      <4>1. First(req[p].needs) \in Intermediaries /\ req[p] \in Request
        BY DEF First, Intermediaries, Shape, TypeOK
      <4>2. QED  BY <4>1 DEF Request
    <3>2. CASE Exists(c)
      BY <1>2, <2>5, <3>1, <3>2 DEF RevokeOld
    <3>3. CASE ~Exists(c)
      BY <1>u, <2>5, <3>3 DEF RevokeOld
    <3>4. QED  BY <3>2, <3>3
  <2>6. QED
    BY <1>7, <1>u, <2>2, <2>3, <2>4, <2>5 DEF CommandStep, RunCaRefresh, LookAtClient, LookAtServer,
       Looks, RunCaMtlsBundle, BundleExisting, BundleNew, ReadsIssuer, HoldsCertificate, Bundles
<1>8. QED
  BY <1>2, <1>3, <1>4, <1>5, <1>6, <1>7, <1>u
  DEF Next, HandleRevokeCertificate, Stops, vars

-----------------------------------------------------------------------------
LEMMA Start == Init => IInv
<1> SUFFICES ASSUME Init PROVE IInv
  OBVIOUS
<1>1. Idle \in Request /\ Idle.step = "idle" /\ Idle.key = None /\ Idle.needs = {}
  BY DEF Idle, Request, Steps, None
<1>2. NoRow \in Row /\ NoRow.st = "none" /\ NoRow.type = "ca"
  BY DEF NoRow, Row, States, None
<1>3. TypeOK
  BY <1>1, <1>2 DEF Init, TypeOK
<1>4. RowsOrdered /\ IssuersKnown /\ RetiredMarked
  <2>1. \A c \in Ids : cert[c] = NoRow /\ late[c] = 0 /\ c \in Nat /\ c > 0
    BY DEF Init, Ids
  <2>2. retired = {} /\ last = 0
    BY DEF Init
  <2>3. QED  BY <1>2, <2>1, <2>2 DEF RowsOrdered, IssuersKnown, RetiredMarked, Exists, Valid
<1>5. KeysRead
  BY <1>1 DEF Init, KeysRead, KeyRead, RootSteps, LookSteps, Signing
<1>6. UsesLeft
  BY HoldersFinite DEF Init, UsesLeft
<1>7. OrphansLeft
  <2>1. Orphans = {} /\ Orphaning = {}
    BY <1>1, <1>2 DEF Init, Orphans, Orphaning, Exists, Valid, Signing
  <2>2. QED  BY <2>1, FS_EmptySet, HoldersFinite DEF OrphansLeft
<1>8. QED  BY <1>3, <1>4, <1>5, <1>6, <1>7 DEF IInv, Shape

LEMMA Invariance == Spec => []IInv
<1>1. IInv /\ [Next]_vars => IInv'
  BY ShapeStep, UsesLeftStep, OrphansLeftStep DEF IInv
<1>2. QED  BY <1>1, Start, PTL DEF Spec

\* Rows, requests and histories have the shape the code gives them.
THEOREM TypesKept == Spec => []TypeOK
<1>1. IInv => TypeOK
  BY DEF IInv, Shape
<1>2. QED  BY <1>1, Invariance, PTL

\* A retired key is used only by requests that had read it before, each once, or
\* twice to sign the two intermediaries, whatever is revoked and deleted when.
THEOREM LateUsesBounded == Spec => []LateUses
<1>1. IInv => LateUses
  <2> SUFFICES ASSUME IInv, NEW c \in Ids
               PROVE  late[c] <= (IF cert[c].type = "ca" THEN 2 ELSE 1) * Cardinality(Procs)
    BY DEF LateUses
  <2>1. /\ late[c] \in Nat
        /\ late[c] + Cardinality(Holders(c)) + Cardinality(Twice(c)) <= 2 * P
        /\ cert[c].type # "ca" => late[c] + Cardinality(Holders(c)) <= P
    BY DEF IInv, Shape, TypeOK, UsesLeft
  <2>2. CASE cert[c].type = "ca"
    BY <2>1, <2>2, HoldersFinite DEF P
  <2>3. CASE cert[c].type # "ca"
    BY <2>1, <2>3, HoldersFinite DEF P
  <2>4. QED  BY <2>2, <2>3
<1>2. QED  BY <1>1, Invariance, PTL

\* Deleting everything leaves at most one certificate without its issuer per
\* request that was signing, however often it is done.
THEOREM OrphansFew == Spec => []OrphansBounded
<1>1. IInv => OrphansBounded
  BY OrphansFinite, HoldersFinite DEF IInv, OrphansLeft, OrphansBounded, P
<1>2. QED  BY <1>1, Invariance, PTL
=============================================================================
