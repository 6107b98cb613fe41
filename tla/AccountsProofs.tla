--------------------------- MODULE AccountsProofs ---------------------------
(***************************************************************************)
(* What stops a deletion, what a registration deletes, what a verified     *)
(* address was proven by and when a federated account has its identity,    *)
(* for any accounts, subjects and requests.                                *)
(***************************************************************************)
EXTENDS Accounts, TLAPS

USE NoneAssumption

\* All accounts want the same name.
Alone == \A u, v \in Ids : Live(u) /\ Live(v) => u = v

\* A request knows the account and the subject that its next statement is about.
Federating == {"email", "createFederated", "lookup", "link"}

Held(p) ==
  /\ req[p].step \notin {"idle", "create", "email", "createFederated", "lookup"} => req[p].id \in Ids
  /\ req[p].step \in Federating \cup {"disconnect"} => req[p].subject \in Subjects
  /\ req[p].step \in Federating => req[p].knew = None

\* A registration that began when its account was in use does not delete it.
Known(p) ==
  req[p].knew # None /\ req[p].knew = req[p].id =>
    \/ At(p, "owner") /\ (Live(req[p].id) => Registered(req[p].id))
    \/ At(p, "finish") /\ req[p].done
    \/ req[p].step \in {"register", "used", "login", "code"}

\* What a deletion has deleted is gone, unless somebody has inserted since.
Drained(p) ==
  LET u == req[p].id
  IN  p \notin late =>
        /\ req[p].step \in {"grants", "identities", "user"} => requests[u] = 0
        /\ req[p].step \in {"identities", "user"} => "grant" \notin rows[u]
        /\ At(p, "user") => \A x \in Subjects : identity[x] # u

RequestsOK == \A p \in Procs : Held(p) /\ Known(p) /\ Drained(p)

Promises == DeletionBlocked /\ RegistrationKept

IInv == TypeOK /\ Alone /\ RequestsOK /\ Promises /\ FederatedUserLinked

-----------------------------------------------------------------------------
(* What a step of a request does, seen from the other requests.            *)

\* It moves itself only.
Moves(p) == req' \in [Procs -> Request] /\ \A q \in Procs \ {p} : req'[q] = req[q]

AddressesTyped ==
  /\ address \in [Ids -> MaybeAddress] /\ verified \subseteq Ids /\ sent \in [Ids -> MaybeAddress]
  /\ proven \in [Ids -> SUBSET MaybeAddress] /\ mistaken \in [Ids -> SUBSET MaybeAddress]

Typed ==
  /\ acct \in [Ids -> Kinds \cup {"none"}]
  /\ rows \in [Ids -> SUBSET Tables] /\ requests \in [Ids -> Nat]
  /\ identity \in [Subjects -> Ids \cup {None}]
  /\ late \subseteq Procs /\ strange \in BOOLEAN /\ undone \in BOOLEAN
  /\ unlinked \subseteq Ids /\ AddressesTyped

\* A new account is one that no request holds, when the name was free; an account
\* in use stays so until it is deleted.
AccountsKept(p) ==
  \A u \in Ids :
    /\ Live(u)' => Live(u) \/ (Fresh(u) /\ \A v \in Ids \ {u} : ~Live(v)')
    /\ Registered(u) /\ Live(u)' => Registered(u)'
    /\ acct'[u] = "federated" => acct[u] = "federated" \/ req'[p].step = "lookup"

\* Whoever inserts a row marks those who are deleting its account.
Inserts(p) ==
  /\ late \ {p} \subseteq late'
  /\ \A u \in Ids, q \in Procs \ {p} : Deleting(q, u) /\ q \notin late' =>
       /\ requests[u] = 0 => requests'[u] = 0
       /\ "grant" \in rows'[u] => "grant" \in rows[u]
       /\ \A x \in Subjects : identity'[x] = u => identity[x] = u

\* An account loses its identity only together with a mark; it is not forgotten
\* between its creation and the statement that links it.
Linked(p) ==
  /\ \A u \in Ids : acct'[u] = "federated" /\ u \in unlinked =>
       u \in unlinked' \/ req'[p].step = "lookup"
  /\ \A x \in Subjects, u \in Ids : identity[x] = u /\ Live(u)' /\ u \notin unlinked' =>
       identity'[x] = u
  /\ At(p, "lookup") => \/ \A u \in Ids : ~Live(u)'
                        \/ req'[p].step = "link" /\ req'[p].id \in Ids /\ acct'[req'[p].id] # "none"
  /\ At(p, "link") => LET u == req[p].id
                      IN  \/ acct'[u] = "none" \/ u \in unlinked'
                          \/ \E x \in Subjects : identity'[x] = u

Effect(p) ==
  /\ Moves(p) /\ Typed' /\ AccountsKept(p) /\ Inserts(p) /\ Linked(p)
  /\ Held(p)' /\ Known(p)' /\ Drained(p)' /\ Promises'

LEMMA RequestFields ==
  ASSUME TypeOK, NEW p \in Procs
  PROVE  /\ req[p].step \in Steps /\ req[p].id \in Ids \cup {None}
         /\ req[p].subject \in Subjects \cup {None} /\ req[p].knew \in Ids \cup {None}
         /\ req[p].again \in BOOLEAN /\ req[p].done \in BOOLEAN
BY DEF TypeOK, Request

\* No request is taken for another.
LEMMA OthersKept ==
  ASSUME IInv, NEW p \in Procs, Effect(p), NEW q \in Procs \ {p}
  PROVE  Held(q)' /\ Known(q)' /\ Drained(q)'
<1>1. req'[q] = req[q] /\ TypeOK /\ Held(q) /\ Known(q) /\ Drained(q)
  BY DEF Effect, Moves, IInv, RequestsOK
<1>2. Held(q)'
  BY <1>1 DEF Held
<1>3. req[q].id \in Ids \cup {None}
  BY <1>1, RequestFields
<1>4. Known(q)'
  <2> SUFFICES ASSUME NEW u \in Ids, req[q].id = u, req[q].knew = u
               PROVE  \/ req[q].step = "owner" /\ (Live(u)' => Registered(u)')
                      \/ req[q].step = "finish" /\ req[q].done
                      \/ req[q].step \in {"register", "used", "login", "code"}
    BY <1>1, <1>3 DEF Known, At, Live, Registered
  <2>1. ~Fresh(u)
    BY DEF Fresh
  <2>2. Live(u)' => Live(u)
    BY <2>1 DEF Effect, AccountsKept
  <2>3. Registered(u) /\ Live(u)' => Registered(u)'
    BY DEF Effect, AccountsKept
  <2>4. \/ req[q].step = "owner" /\ (Live(u) => Registered(u))
        \/ req[q].step = "finish" /\ req[q].done
        \/ req[q].step \in {"register", "used", "login", "code"}
    BY <1>1 DEF Known, At
  <2>5. QED  BY <2>2, <2>3, <2>4
<1>5. Drained(q)'
  <2> SUFFICES ASSUME q \notin late', req[q].step \in {"grants", "identities", "user"},
                      NEW u \in Ids, u = req[q].id
               PROVE  /\ req[q].step \in {"grants", "identities", "user"} => requests'[u] = 0
                      /\ req[q].step \in {"identities", "user"} => "grant" \notin rows'[u]
                      /\ req[q].step = "user" => \A x \in Subjects : identity'[x] # u
    BY <1>1 DEF Drained, At, Held
  <2>1. Deleting(q, u)
    BY DEF Deleting
  <2>2. q \notin late
    BY DEF Effect, Inserts
  <2>3. /\ requests[u] = 0 => requests'[u] = 0
        /\ "grant" \in rows'[u] => "grant" \in rows[u]
        /\ \A x \in Subjects : identity'[x] = u => identity[x] = u
    BY <2>1 DEF Effect, Inserts
  <2>4. QED  BY <1>1, <2>2, <2>3 DEF Drained, At
<1>6. QED  BY <1>2, <1>4, <1>5

LEMMA LinksKept ==
  ASSUME IInv, NEW p \in Procs, Effect(p), Alone'
  PROVE  FederatedUserLinked'
<1> SUFFICES ASSUME NEW u \in Ids, u \notin unlinked', acct'[u] = "federated"
             PROVE  \/ \E x \in Subjects : identity'[x] = u
                    \/ \E q \in Procs : \/ req'[q].step = "lookup"
                                        \/ req'[q].step = "link" /\ req'[q].id = u
  BY DEF FederatedUserLinked, Identities, At
<1>1. Live(u)'
  BY DEF Live
<1>2. CASE req'[p].step = "lookup"
  BY <1>2
<1>3. CASE req'[p].step # "lookup"
  <2>1. acct[u] = "federated" /\ u \notin unlinked
    BY <1>3 DEF Effect, AccountsKept, Linked
  <2>2. \/ Identities(u) # {}
        \/ \E q \in Procs : At(q, "lookup") \/ (At(q, "link") /\ req[q].id = u)
    BY <2>1 DEF IInv, FederatedUserLinked
  <2>3. CASE Identities(u) # {}
    <3>1. PICK x \in Subjects : identity[x] = u
      BY <2>3 DEF Identities
    <3>2. identity'[x] = u
      BY <1>1, <3>1 DEF Effect, Linked
    <3>3. QED  BY <3>2
  <2>4. ASSUME NEW q \in Procs, At(q, "lookup") \/ (At(q, "link") /\ req[q].id = u)
        PROVE  \/ \E x \in Subjects : identity'[x] = u
               \/ \E o \in Procs : \/ req'[o].step = "lookup"
                                   \/ req'[o].step = "link" /\ req'[o].id = u
    <3>1. CASE q # p
      <4>1. req'[q] = req[q]
        BY <3>1 DEF Effect, Moves
      <4>2. QED  BY <2>4, <4>1 DEF At
    <3>2. CASE q = p /\ At(p, "lookup")
      <4>1. req'[p].step = "link" /\ req'[p].id \in Ids /\ acct'[req'[p].id] # "none"
        BY <1>1, <3>2 DEF Effect, Linked
      <4>2. req'[p].id = u
        BY <1>1, <4>1 DEF Alone, Live
      <4>3. QED  BY <4>1, <4>2
    <3>3. CASE q = p /\ At(p, "link") /\ req[p].id = u
      BY <1>1, <3>3 DEF Effect, Linked, Live
    <3>4. QED  BY <2>4, <3>1, <3>2, <3>3
  <2>5. QED  BY <2>2, <2>3, <2>4
<1>4. QED  BY <1>2, <1>3

LEMMA EffectKeeps ==
  ASSUME IInv, NEW p \in Procs, Effect(p)
  PROVE  IInv'
<1>1. TypeOK'
  BY DEF Effect, Moves, Typed, AddressesTyped, TypeOK
<1>2. Alone'
  <2> SUFFICES ASSUME NEW u \in Ids, NEW v \in Ids, Live(u)', Live(v)'
               PROVE  u = v
    BY DEF Alone, Live
  <2>1. Live(u) /\ Live(v) => u = v
    BY DEF IInv, Alone
  <2>2. QED  BY <2>1 DEF Effect, AccountsKept
<1>3. RequestsOK'
  <2>1. \A q \in Procs : Held(q)' /\ Known(q)' /\ Drained(q)'
    BY OthersKept DEF Effect
  <2>2. QED  BY <2>1 DEF RequestsOK
<1>4. FederatedUserLinked'
  BY <1>2, LinksKept
<1>5. QED  BY <1>1, <1>2, <1>3, <1>4 DEF Effect, IInv

-----------------------------------------------------------------------------
(* How a request goes on.                                                  *)

Continues(p, step) ==
  /\ Moves(p) /\ req'[p].step = step /\ req'[p].id = req[p].id
  /\ req'[p].subject = req[p].subject /\ req'[p].knew = req[p].knew
  /\ req'[p].done = req[p].done

Arrives(p, step, u) ==
  /\ Moves(p) /\ req'[p].step = step /\ req'[p].id = u /\ req'[p].knew = None

LEMMA IdleFields ==
  Idle \in Request /\ Idle.step = "idle" /\ Idle.id = None /\ Idle.knew = None
BY DEF Idle, Request, Steps, MaybeAddress, Flags

LEMMA HowItGoes ==
  ASSUME TypeOK, NEW p \in Procs
  PROVE  /\ \A step \in Steps : GoTo(p, step) => Continues(p, step)
         /\ Ends(p) => Arrives(p, "idle", None)
         /\ \A step \in Steps, u \in Ids : Begins(p, step, u) => Arrives(p, step, u)
<1>1. Idle \in Request /\ Idle.step = "idle" /\ Idle.id = None /\ Idle.knew = None
  BY IdleFields
<1>2. req \in [Procs -> Request] /\ req[p] \in Request
  BY DEF TypeOK
<1>3. ASSUME NEW step \in Steps, GoTo(p, step)
      PROVE  Continues(p, step)
  <2> DEFINE r == [req[p] EXCEPT !.step = step]
  <2>1. /\ r \in Request /\ r.step = step /\ r.id = req[p].id /\ r.subject = req[p].subject
        /\ r.knew = req[p].knew /\ r.done = req[p].done
    BY <1>2 DEF Request
  <2>2. req' = [req EXCEPT ![p] = r]
    BY <1>2, <1>3 DEF GoTo
  <2> HIDE DEF r
  <2>3. QED  BY <1>2, <2>1, <2>2 DEF Continues, Moves
<1>4. ASSUME Ends(p) PROVE Arrives(p, "idle", None)
  BY <1>1, <1>2, <1>4 DEF Ends, Arrives, Moves
<1>5. ASSUME NEW step \in Steps, NEW u \in Ids, Begins(p, step, u)
      PROVE  Arrives(p, step, u)
  <2> DEFINE r == [Idle EXCEPT !.step = step, !.id = u]
  <2>1. r \in Request /\ r.step = step /\ r.id = u /\ r.knew = None
    BY <1>1 DEF Request
  <2>2. req' = [req EXCEPT ![p] = r]
    BY <1>5 DEF Begins
  <2> HIDE DEF r
  <2>3. QED  BY <1>2, <2>1, <2>2 DEF Arrives, Moves
<1>6. QED  BY <1>3, <1>4, <1>5

\* The steps before which nothing has been deleted, and no subject is known.
Plain == Steps \ (Federating \cup {"disconnect", "grants", "identities", "user"})

LEMMA Arrival ==
  ASSUME NEW p \in Procs, NEW step \in Plain, NEW u \in Ids \cup {None}, Arrives(p, step, u),
         step \notin {"idle", "create"} => u \in Ids
  PROVE  Held(p)' /\ Known(p)' /\ Drained(p)'
<1>1. step \notin Federating \cup {"disconnect", "grants", "identities", "user"}
  BY DEF Plain
<1>2. Held(p)'
  BY <1>1 DEF Arrives, Held, Federating
<1>3. Known(p)'
  BY DEF Arrives, Known
<1>4. Drained(p)'
  BY <1>1 DEF Arrives, Drained, At
<1>5. QED  BY <1>2, <1>3, <1>4

\* A request that knew nothing of a registration, or is past the places where an
\* account is deleted.
LEMMA Continuation ==
  ASSUME IInv, NEW p \in Procs, NEW step \in Plain, Continues(p, step),
         step # "idle" => req[p].id \in Ids,
         \/ req[p].step \in {"finish", "register", "used", "login"} /\ step \in {"register", "used", "login", "code"}
         \/ req[p].knew = None \/ req[p].knew # req[p].id
  PROVE  Held(p)' /\ Known(p)' /\ Drained(p)'
<1>1. step \notin Federating \cup {"disconnect", "grants", "identities", "user"}
  BY DEF Plain
<1>2. Held(p)'
  BY <1>1 DEF Continues, Held, Federating
<1>3. Known(p)'
  BY DEF Continues, Known, At
<1>4. Drained(p)'
  BY <1>1 DEF Continues, Drained, At
<1>5. QED  BY <1>2, <1>3, <1>4

\* What is left alone.
LEMMA SameAccounts ==
  ASSUME NEW p \in Procs, UNCHANGED acct
  PROVE  AccountsKept(p)
BY DEF AccountsKept, Live, Registered

LEMMA SameLinks ==
  ASSUME NEW p \in Procs, UNCHANGED <<acct, identity, unlinked>>, ~At(p, "lookup"), ~At(p, "link")
  PROVE  Linked(p)
BY DEF Linked, Live

LEMMA SamePromises ==
  ASSUME Promises, UNCHANGED <<strange, undone>>
  PROVE  Promises'
BY DEF Promises, DeletionBlocked, RegistrationKept

LEMMA SameRows ==
  ASSUME NEW p \in Procs, UNCHANGED <<rows, requests, identity, late>>
  PROVE  Inserts(p)
BY DEF Inserts

LEMMA Quiet ==
  ASSUME IInv, NEW p \in Procs, UNCHANGED <<tables, history>>, Moves(p),
         Held(p)', Known(p)', Drained(p)', ~At(p, "link"),
         At(p, "lookup") => NameFree \/ (req'[p].step = "link" /\ req'[p].id \in Ids
                                         /\ acct[req'[p].id] # "none")
  PROVE  Effect(p)
<1>1. UNCHANGED <<acct, rows, requests, identity, address, verified, sent, proven, mistaken,
                  late, strange, undone, unlinked>>
  BY DEF tables, history, accountHistory
<1>2. Typed'
  BY <1>1 DEF IInv, TypeOK, Typed, AddressesTyped
<1>3. AccountsKept(p) /\ Inserts(p) /\ Promises'
  BY <1>1, SameAccounts, SameRows, SamePromises DEF IInv
<1>4. Linked(p)
  BY <1>1 DEF Linked, NameFree, Live
<1>5. QED  BY <1>2, <1>3, <1>4 DEF Effect

-----------------------------------------------------------------------------
(* Steps that only read.                                                   *)

\* A request that begins with an account.
LEMMA Beginning ==
  ASSUME IInv, NEW p \in Procs, At(p, "idle"), NEW step \in Plain, NEW u \in Ids,
         Arrives(p, step, u), UNCHANGED <<tables, history>>
  PROVE  Effect(p)
<1>1. Held(p)' /\ Known(p)' /\ Drained(p)'
  BY Arrival
<1>2. Moves(p) /\ ~At(p, "link") /\ ~At(p, "lookup")
  BY DEF Arrives, At
<1>3. QED  BY <1>1, <1>2, Quiet

LEMMA Begin ==
  ASSUME IInv, NEW p \in Procs, At(p, "idle"), NEW step \in Plain, NEW u \in Ids,
         Begins(p, step, u), UNCHANGED <<tables, history>>
  PROVE  Effect(p)
<1>1. TypeOK /\ step \in Steps
  BY DEF IInv, Plain
<1>2. Arrives(p, step, u)
  BY <1>1, HowItGoes
<1>3. QED  BY <1>2, Beginning

LEMMA End ==
  ASSUME IInv, NEW p \in Procs, Ends(p), UNCHANGED <<tables, history>>, ~At(p, "link"),
         At(p, "lookup") => NameFree
  PROVE  Effect(p)
<1>1. TypeOK /\ "idle" \in Plain
  BY DEF IInv, Plain, Steps, Federating
<1>2. Arrives(p, "idle", None)
  BY <1>1, HowItGoes
<1>3. Held(p)' /\ Known(p)' /\ Drained(p)'
  BY <1>1, <1>2, Arrival
<1>4. Moves(p)
  BY <1>2 DEF Arrives
<1>5. QED  BY <1>3, <1>4, Quiet

LEMMA Beginnings ==
  ASSUME IInv, NEW p \in Procs, NEW u \in Ids,
         \/ DeleteAccount(p, u) \/ RequestDeletion(p, u)
         \/ PasskeyLogin(p, u) \/ AddPasskey(p, u) \/ SignIn(p, u) \/ RequestLink(p, u)
  PROVE  Effect(p)
<1>1. {"requests", "ask", "login", "addPasskey", "mail"} \subseteq Plain
  BY DEF Plain, Steps, Federating
<1>2. PICK step \in {"requests", "ask", "login", "addPasskey", "mail"} :
        At(p, "idle") /\ Begins(p, step, u) /\ UNCHANGED <<tables, history>>
  BY DEF DeleteAccount, RequestDeletion, PasskeyLogin, AddPasskey, SignIn, RequestLink
<1>3. QED  BY <1>1, <1>2, Begin

\* A request about the address of an account.
LEMMA HeldRequest ==
  ASSUME TypeOK, NEW p \in Procs, NEW r \in Request, r.knew = None,
         req' = [req EXCEPT ![p] = r]
  PROVE  Arrives(p, r.step, r.id) /\ req'[p] = r
BY DEF TypeOK, Arrives, Moves

LEMMA AddressRead ==
  ASSUME IInv, NEW p \in Procs, NEW u \in Ids,
         \/ AskVerification(p, u) \/ VerifyEmail(p, u)
         \/ \E to \in MaybeAddress : UpdateProfile(p, u, to)
  PROVE  Effect(p)
<1>1. {"verification", "verify", "update"} \subseteq Plain
  BY DEF Plain, Steps, Federating
<1>2. TypeOK /\ address[u] \in MaybeAddress /\ sent[u] \in MaybeAddress
  BY DEF IInv, TypeOK
<1>3. At(p, "idle") /\ UNCHANGED <<tables, history>>
  BY DEF AskVerification, VerifyEmail, UpdateProfile
<1>4. ASSUME NEW step \in {"verification", "verify"}, NEW a \in MaybeAddress,
             req' = [req EXCEPT ![p] = [Idle EXCEPT !.step = step, !.id = u, !.address = a]]
      PROVE  Effect(p)
  <2> DEFINE r == [Idle EXCEPT !.step = step, !.id = u, !.address = a]
  <2>1. step \in Plain /\ step \in Steps
    BY <1>1 DEF Plain
  <2>2. r \in Request /\ r.step = step /\ r.id = u /\ r.knew = None
    BY <2>1, IdleFields DEF Request
  <2>3. req' = [req EXCEPT ![p] = r]
    BY <1>4
  <2> HIDE DEF r
  <2>4. Arrives(p, r.step, r.id)
    BY <1>2, <2>2, <2>3, HeldRequest
  <2>5. Arrives(p, step, u)
    BY <2>2, <2>4
  <2>6. QED  BY <1>3, <2>1, <2>5, Beginning
<1>5. ASSUME NEW to \in MaybeAddress, UpdateProfile(p, u, to)
      PROVE  Effect(p)
  <2> DEFINE seen == address[u]
             r == [Idle EXCEPT !.step = "update", !.id = u, !.address = to, !.seen = seen]
  <2>1. "update" \in Plain /\ "update" \in Steps /\ seen \in MaybeAddress
    BY <1>1, <1>2 DEF Plain
  <2>2. req' = [req EXCEPT ![p] = r]
    BY <1>5 DEF UpdateProfile
  <2> HIDE DEF seen
  <2>3. r \in Request /\ r.step = "update" /\ r.id = u /\ r.knew = None
    BY <2>1, IdleFields DEF Request
  <2> HIDE DEF r
  <2>4. Arrives(p, r.step, r.id)
    BY <1>2, <2>2, <2>3, HeldRequest
  <2>5. Arrives(p, "update", u)
    BY <2>3, <2>4
  <2>6. QED  BY <1>3, <2>1, <2>5, Beginning
<1>6. CASE AskVerification(p, u)
  BY <1>2, <1>4, <1>6 DEF AskVerification
<1>7. CASE VerifyEmail(p, u)
  BY <1>2, <1>4, <1>7 DEF VerifyEmail
<1>8. QED  BY <1>5, <1>6, <1>7

\* A registration begins with what it knows of the account in use.
LEMMA Registering ==
  ASSUME TypeOK, NEW p \in Procs, NEW step \in Steps, NEW u \in Ids \cup {None},
         Registers(p, step, u)
  PROVE  /\ Moves(p) /\ req'[p].step = step /\ req'[p].id = u
         /\ req'[p].knew \in Ids => Registered(req'[p].knew)
<1>1. PICK w \in Ids \cup {None} :
        req' = [req EXCEPT ![p] = [Idle EXCEPT !.step = step, !.id = u,
                                               !.knew = IF w # None /\ Registered(w) THEN w ELSE None]]
  BY DEF Registers
<1> DEFINE k == IF w # None /\ Registered(w) THEN w ELSE None
           r == [Idle EXCEPT !.step = step, !.id = u, !.knew = k]
<1>2. k \in Ids \cup {None} /\ (k \in Ids => Registered(k))
  OBVIOUS
<1> HIDE DEF k
<1>3. r \in Request /\ r.step = step /\ r.id = u /\ r.knew = k
  BY <1>2 DEF Idle, Request, MaybeAddress, Flags
<1>4. req' = [req EXCEPT ![p] = r]
  BY <1>1 DEF k
<1> HIDE DEF r
<1>5. req'[p] = r /\ Moves(p)
  BY <1>3, <1>4 DEF TypeOK, Moves
<1>6. QED  BY <1>2, <1>3, <1>5

LEMMA RegisterReads ==
  ASSUME IInv, NEW p \in Procs, RegisterBegin(p) \/ \E u \in Ids : RegisterFinish(p, u)
  PROVE  Effect(p)
<1>1. /\ TypeOK /\ At(p, "idle") /\ UNCHANGED <<tables, history>> /\ None \in Ids \cup {None}
      /\ {"create", "credentials", "owner"} \subseteq Steps
  BY DEF IInv, RegisterBegin, RegisterFinish, Steps
<1>2. \/ NameFree /\ Registers(p, "create", None)
      \/ \E u \in Ids : acct[u] = "begun" /\ Registers(p, "credentials", u)
      \/ \E u \in Ids : Registers(p, "owner", u)
  BY DEF RegisterBegin, RegisterFinish
<1>3. CASE Registers(p, "create", None)
  <2>1. Moves(p) /\ req'[p].step = "create" /\ req'[p].id = None
    BY <1>1, <1>3, Registering
  <2>2. Held(p)' /\ Known(p)' /\ Drained(p)'
    BY <2>1 DEF Held, Known, Drained, At, Federating
  <2>3. QED  BY <1>1, <2>1, <2>2, Quiet DEF At
<1>4. ASSUME NEW u \in Ids, acct[u] = "begun", Registers(p, "credentials", u)
      PROVE  Effect(p)
  <2>1. /\ Moves(p) /\ req'[p].step = "credentials" /\ req'[p].id = u
        /\ req'[p].knew \in Ids => Registered(req'[p].knew)
    BY <1>1, <1>4, Registering
  <2>2. req'[p].knew # u
    BY <1>4, <2>1 DEF Registered, Kinds
  <2>3. Held(p)' /\ Known(p)' /\ Drained(p)'
    BY <1>4, <2>1, <2>2 DEF Held, Known, Drained, At, Federating
  <2>4. QED  BY <1>1, <2>1, <2>3, Quiet DEF At
<1>5. ASSUME NEW u \in Ids, Registers(p, "owner", u)
      PROVE  Effect(p)
  <2>1. /\ Moves(p) /\ req'[p].step = "owner" /\ req'[p].id = u
        /\ req'[p].knew \in Ids => Registered(req'[p].knew)
    BY <1>1, <1>5, Registering
  <2>2. acct' = acct
    BY <1>1 DEF tables
  <2>3. Known(p)'
    <3>1. req'[p].knew = u => acct'[u] \in Kinds \ {"begun"}
      BY <2>1, <2>2 DEF Registered
    <3>2. QED  BY <2>1, <3>1 DEF Known, At, Live, Registered
  <2>4. Held(p)' /\ Drained(p)'
    BY <1>5, <2>1 DEF Held, Drained, At, Federating
  <2>5. QED  BY <1>1, <2>1, <2>3, <2>4, Quiet DEF At
<1>6. QED  BY <1>2, <1>3, <1>4, <1>5

LEMMA CredentialsRead ==
  ASSUME IInv, NEW p \in Procs, CheckCredentials(p)
  PROVE  Effect(p)
<1>1. TypeOK /\ At(p, "credentials") /\ UNCHANGED <<tables, history>> /\ Held(p) /\ Known(p)
  BY DEF IInv, RequestsOK, CheckCredentials
<1>2. CASE Ends(p)
  BY <1>1, <1>2, End DEF At
<1>3. CASE req' = [req EXCEPT ![p].step = "requests", ![p].again = TRUE]
  <2>1. Continues(p, "requests")
    <3> DEFINE r == [req[p] EXCEPT !.step = "requests", !.again = TRUE]
    <3>0. req[p] \in Request
      BY <1>1 DEF TypeOK
    <3>1. /\ r \in Request /\ r.step = "requests" /\ r.id = req[p].id
          /\ r.subject = req[p].subject /\ r.knew = req[p].knew /\ r.done = req[p].done
      BY <3>0 DEF Request, Steps
    <3>2. req' = [req EXCEPT ![p] = r]
      BY <1>1, <1>3 DEF TypeOK
    <3> HIDE DEF r
    <3>3. QED  BY <1>1, <3>1, <3>2 DEF Continues, Moves, TypeOK
  <2>2. "requests" \in Plain
    BY DEF Plain, Steps, Federating
  <2>3. req[p].id \in Ids /\ (req[p].knew = None \/ req[p].knew # req[p].id)
    BY <1>1 DEF Held, Known, At
  <2>4. Held(p)' /\ Known(p)' /\ Drained(p)'
    BY <2>1, <2>2, <2>3, Continuation
  <2>5. QED  BY <1>1, <2>1, <2>4, Quiet DEF At, Continues
<1>4. QED  BY <1>2, <1>3 DEF CheckCredentials

LEMMA OwnerRead ==
  ASSUME IInv, NEW p \in Procs, ReadOwner(p)
  PROVE  Effect(p)
<1>1. TypeOK /\ At(p, "owner") /\ UNCHANGED <<tables, history>> /\ Held(p) /\ Known(p)
  BY DEF IInv, RequestsOK, ReadOwner
<1>2. /\ Live(req[p].id) /\ Registered(req[p].id) \in BOOLEAN
      /\ req' = [req EXCEPT ![p].step = "finish", ![p].done = Registered(req[p].id)]
  BY DEF ReadOwner, Registered
<1> DEFINE done == Registered(req[p].id)
           r == [req[p] EXCEPT !.step = "finish", !.done = done]
<1>3. done \in BOOLEAN
  BY <1>2
<1>4. req' = [req EXCEPT ![p] = r]
  BY <1>1, <1>2 DEF TypeOK
<1> HIDE DEF done
<1>5. /\ r \in Request /\ r.step = "finish" /\ r.id = req[p].id /\ r.knew = req[p].knew
      /\ r.done = done
  <2>1. req[p] \in Request
    BY <1>1 DEF TypeOK
  <2>2. QED  BY <1>3, <2>1 DEF Request, Steps
<1> HIDE DEF r
<1>6. Moves(p) /\ req'[p] = r
  BY <1>1, <1>4, <1>5 DEF Moves, TypeOK
<1>7. r.knew # None /\ r.knew = r.id => done
  BY <1>1, <1>2, <1>5, Zenon DEF Known, At, done
<1>8. Held(p)' /\ Known(p)' /\ Drained(p)'
  BY <1>1, <1>5, <1>6, <1>7 DEF Held, Known, Drained, At, Federating
<1>9. QED  BY <1>1, <1>6, <1>8, Quiet DEF At

LEMMA FinishRefused ==
  ASSUME IInv, NEW p \in Procs, FinishFails(p)
  PROVE  Effect(p)
<1>1. TypeOK /\ At(p, "finish") /\ UNCHANGED <<tables, history>> /\ Held(p) /\ Known(p)
  BY DEF IInv, RequestsOK, FinishFails
<1>2. CASE req[p].done
  <2>1. Ends(p)
    BY <1>2 DEF FinishFails, DeleteIfUnregistered
  <2>2. QED  BY <1>1, <2>1, End DEF At
<1>3. CASE ~req[p].done
  <2>1. "requests" \in Plain /\ "requests" \in Steps
    BY DEF Plain, Steps, Federating
  <2>2. Continues(p, "requests")
    BY <1>1, <1>3, <2>1, HowItGoes DEF FinishFails, DeleteIfUnregistered
  <2>3. req[p].id \in Ids /\ (req[p].knew = None \/ req[p].knew # req[p].id)
    BY <1>1, <1>3 DEF Held, Known, At
  <2>4. Held(p)' /\ Known(p)' /\ Drained(p)'
    BY <2>1, <2>2, <2>3, Continuation
  <2>5. QED  BY <1>1, <2>2, <2>4, Quiet DEF At, Continues
<1>4. QED  BY <1>2, <1>3

\* A statement fails, or a look-up finds nothing.
LEMMA FailureRead ==
  ASSUME IInv, NEW p \in Procs, StatementFails(p)
  PROVE  Effect(p)
<1>1. Ends(p) /\ UNCHANGED <<tables, history>> /\ ~At(p, "link") /\ ~At(p, "lookup")
  BY DEF StatementFails, At
<1>2. QED  BY <1>1, End

\* A request about a subject that has no account yet.
Federates(p, step) ==
  /\ Moves(p) /\ req'[p].step = step /\ req'[p].subject \in Subjects /\ req'[p].knew = None

LEMMA Federation ==
  ASSUME NEW p \in Procs, NEW step \in Federating, Federates(p, step),
         step = "link" => req'[p].id \in Ids
  PROVE  Held(p)' /\ Known(p)' /\ Drained(p)'
<1>1. step \in {"email", "createFederated", "lookup", "link"}
  BY DEF Federating
<1>2. Held(p)'
  BY <1>1 DEF Federates, Held, Federating
<1>3. Known(p)'
  BY DEF Federates, Known
<1>4. Drained(p)'
  BY <1>1 DEF Federates, Drained, At
<1>5. QED  BY <1>2, <1>3, <1>4

LEMMA CallbackRead ==
  ASSUME IInv, NEW p \in Procs, NEW x \in Subjects, Callback(p, x)
  PROVE  Effect(p)
<1>1. TypeOK /\ At(p, "idle") /\ UNCHANGED <<tables, history>>
  BY DEF IInv, Callback
<1>2. CASE identity[x] # None /\ Begins(p, "login", identity[x])
  <2>1. identity[x] \in Ids /\ "login" \in Plain
    BY <1>1, <1>2 DEF TypeOK, Plain, Steps, Federating
  <2>2. QED  BY <1>1, <1>2, <2>1, Begin
<1>3. CASE req' = [req EXCEPT ![p] = [Idle EXCEPT !.step = "email", !.subject = x]]
  <2> DEFINE r == [Idle EXCEPT !.step = "email", !.subject = x]
  <2>1. /\ r \in Request /\ r.step = "email" /\ r.subject = x /\ r.knew = None
        /\ "email" \in Federating
    BY DEF Idle, Request, Steps, MaybeAddress, Flags, Federating
  <2>2. req' = [req EXCEPT ![p] = r]
    BY <1>3
  <2> HIDE DEF r
  <2>3. Federates(p, "email")
    BY <1>1, <2>1, <2>2 DEF Federates, Moves, TypeOK
  <2>4. Held(p)' /\ Known(p)' /\ Drained(p)'
    BY <2>1, <2>3, Federation
  <2>5. QED  BY <1>1, <2>3, <2>4, Quiet DEF At, Federates
<1>4. QED  BY <1>2, <1>3 DEF Callback

\* The account that a subject is to be linked to.
LEMMA Linking ==
  ASSUME TypeOK, NEW p \in Procs, req[p].step \in Federating, Held(p), NEW u \in Ids,
         req' = [req EXCEPT ![p].step = "link", ![p].id = u]
  PROVE  Federates(p, "link") /\ req'[p].id = u /\ Held(p)' /\ Known(p)' /\ Drained(p)'
<1> DEFINE r == [req[p] EXCEPT !.step = "link", !.id = u]
<1>1. req[p].subject \in Subjects /\ req[p].knew = None /\ "link" \in Federating
  BY DEF Held, Federating
<1>2. req \in [Procs -> Request] /\ req[p] \in Request
  BY DEF TypeOK
<1>3. /\ r \in Request /\ r.step = "link" /\ r.id = u /\ r.subject = req[p].subject
      /\ r.knew = req[p].knew
  BY <1>2 DEF Request, Steps
<1>4. req' = [req EXCEPT ![p] = r]
  OBVIOUS
<1> HIDE DEF r
<1>5. Federates(p, "link") /\ req'[p].id = u
  BY <1>1, <1>2, <1>3, <1>4 DEF Federates, Moves
<1>6. Held(p)' /\ Known(p)' /\ Drained(p)'
  BY <1>1, <1>5, Federation
<1>7. QED  BY <1>5, <1>6

LEMMA EmailMatched ==
  ASSUME IInv, NEW p \in Procs, MatchEmail(p)
  PROVE  Effect(p)
<1>1. /\ TypeOK /\ At(p, "email") /\ UNCHANGED <<tables, history>> /\ Held(p)
      /\ req[p].step \in Federating
  BY DEF IInv, RequestsOK, MatchEmail, At, Federating
<1>2. ASSUME NEW u \in verified, req' = [req EXCEPT ![p].step = "link", ![p].id = u]
      PROVE  Effect(p)
  <2>1. u \in Ids
    BY <1>1 DEF TypeOK
  <2>2. Moves(p) /\ Held(p)' /\ Known(p)' /\ Drained(p)'
    BY <1>1, <1>2, <2>1, Linking DEF Federates
  <2>3. QED  BY <1>1, <2>2, Quiet DEF At
<1>3. CASE GoTo(p, "createFederated")
  <2>1. "createFederated" \in Steps /\ "createFederated" \in Federating
    BY DEF Steps, Federating
  <2>2. Continues(p, "createFederated")
    BY <1>1, <1>3, <2>1, HowItGoes
  <2>3. Federates(p, "createFederated")
    BY <1>1, <2>2 DEF Continues, Federates, Held
  <2>4. Held(p)' /\ Known(p)' /\ Drained(p)'
    BY <2>1, <2>3, Federation
  <2>5. QED  BY <1>1, <2>3, <2>4, Quiet DEF At, Federates
<1>4. QED  BY <1>2, <1>3 DEF MatchEmail

LEMMA CreatedFound ==
  ASSUME IInv, NEW p \in Procs, LookUpCreated(p)
  PROVE  Effect(p)
<1>1. /\ TypeOK /\ At(p, "lookup") /\ UNCHANGED <<tables, history>> /\ Held(p)
      /\ req[p].step \in Federating
  BY DEF IInv, RequestsOK, LookUpCreated, At, Federating
<1>2. ASSUME NEW u \in Ids, Live(u), req' = [req EXCEPT ![p].step = "link", ![p].id = u]
      PROVE  Effect(p)
  <2>1. /\ Moves(p) /\ req'[p].step = "link" /\ req'[p].id = u
        /\ Held(p)' /\ Known(p)' /\ Drained(p)'
    BY <1>1, <1>2, Linking DEF Federates
  <2>2. acct[u] # "none"
    BY <1>2 DEF Live
  <2>3. QED  BY <1>1, <2>1, <2>2, Quiet DEF At
<1>3. CASE NameFree /\ Ends(p)
  BY <1>1, <1>3, End DEF At
<1>4. QED  BY <1>2, <1>3 DEF LookUpCreated

LEMMA IdentityFound ==
  ASSUME IInv, NEW p \in Procs, NEW x \in Subjects, Disconnect(p, x)
  PROVE  Effect(p)
<1>1. /\ TypeOK /\ At(p, "idle") /\ UNCHANGED <<tables, history>> /\ identity[x] # None
      /\ req' = [req EXCEPT ![p] = [Idle EXCEPT !.step = "disconnect", !.id = identity[x],
                                                !.subject = x]]
  BY DEF IInv, Disconnect
<1>2. PICK u \in Ids : u = identity[x]
  BY <1>1 DEF TypeOK
<1> DEFINE r == [Idle EXCEPT !.step = "disconnect", !.id = u, !.subject = x]
<1>3. /\ r \in Request /\ r.step = "disconnect" /\ r.id = u /\ r.subject = x /\ r.knew = None
  BY DEF Idle, Request, Steps, MaybeAddress, Flags
<1>4. req' = [req EXCEPT ![p] = r]
  BY <1>1, <1>2
<1> HIDE DEF r
<1>5. Moves(p) /\ req'[p] = r
  BY <1>1, <1>3, <1>4 DEF Moves, TypeOK
<1>6. Held(p)' /\ Known(p)' /\ Drained(p)'
  BY <1>3, <1>5 DEF Held, Known, Drained, At, Federating
<1>7. QED  BY <1>1, <1>5, <1>6, Quiet DEF At

-----------------------------------------------------------------------------
(* Steps that insert a row.                                                *)

LEMMA RowInserted ==
  ASSUME IInv, NEW p \in Procs, NEW table \in Tables, req[p].id \in Ids, Moves(p),
         InsertRow(req[p].id, table), ~At(p, "link"), ~At(p, "lookup"),
         UNCHANGED <<acct, requests, identity, strange, undone, unlinked, email>>,
         Held(p)', Known(p)', Drained(p)'
  PROVE  Effect(p)
<1>1. TypeOK /\ Promises /\ UNCHANGED <<address, verified, sent, proven, mistaken>>
  BY DEF IInv, email
<1>2. PICK u \in Ids : u = req[p].id
  OBVIOUS
<1>3. \/ /\ rows' = [rows EXCEPT ![u] = rows[u] \cup {table}]
         /\ late' = late \cup {q \in Procs : Deleting(q, u)}
      \/ UNCHANGED <<rows, late>>
  BY <1>1, <1>2 DEF InsertRow, Inserted, TypeOK
<1>4. rows' \in [Ids -> SUBSET Tables] /\ late' \subseteq Procs
  BY <1>1, <1>3 DEF TypeOK
<1>5. Typed'
  BY <1>1, <1>4 DEF Typed, AddressesTyped, TypeOK
<1>6. Inserts(p)
  <2>1. CASE UNCHANGED <<rows, late>>
    BY <2>1 DEF Inserts
  <2>2. CASE /\ rows' = [rows EXCEPT ![u] = rows[u] \cup {table}]
             /\ late' = late \cup {q \in Procs : Deleting(q, u)}
    <3>1. ASSUME NEW v \in Ids, NEW q \in Procs \ {p}, Deleting(q, v), q \notin late'
          PROVE  rows'[v] = rows[v]
      BY <1>1, <2>2, <3>1 DEF TypeOK
    <3>2. QED  BY <2>2, <3>1 DEF Inserts
  <2>3. QED  BY <1>3, <2>1, <2>2
<1>7. AccountsKept(p) /\ Linked(p) /\ Promises'
  BY <1>1, SameAccounts, SameLinks, SamePromises
<1>8. QED  BY <1>5, <1>6, <1>7 DEF Effect

LEMMA Insertions ==
  ASSUME IInv, NEW p \in Procs,
         \/ CreateChallenge(p) \/ CreateCredential(p) \/ StorePasskey(p)
         \/ FinalizeLogin(p) \/ CreateAuthCode(p) \/ CreateLink(p)
  PROVE  Effect(p)
<1>1. TypeOK /\ Held(p) /\ Known(p)
  BY DEF IInv, RequestsOK
<1>2. {"idle", "register", "code"} \subseteq Plain /\ {"register", "code"} \subseteq Steps
  BY DEF Plain, Steps, Federating
<1>3. req[p].step \in {"challenge", "finish", "addPasskey", "login", "code", "mail"}
  BY DEF CreateChallenge, CreateCredential, StorePasskey, FinalizeLogin, CreateAuthCode,
         CreateLink, At
<1>4. req[p].id \in Ids /\ ~At(p, "link") /\ ~At(p, "lookup")
  BY <1>1, <1>3 DEF Held, At
<1>5. \E table \in Tables : InsertRow(req[p].id, table)
  BY DEF CreateChallenge, CreateCredential, StorePasskey, FinalizeLogin, CreateAuthCode,
         CreateLink, InsertGrant, Tables
<1>6. UNCHANGED <<acct, requests, identity, strange, undone, unlinked, email>>
  BY DEF CreateChallenge, CreateCredential, StorePasskey, FinalizeLogin, CreateAuthCode,
         CreateLink, InsertGrant
<1>7. CASE Ends(p)
  <2>1. Arrives(p, "idle", None)
    BY <1>1, <1>7, HowItGoes
  <2>2. Held(p)' /\ Known(p)' /\ Drained(p)'
    BY <1>2, <2>1, Arrival
  <2>3. QED  BY <1>4, <1>5, <1>6, <2>1, <2>2, RowInserted DEF Arrives
<1>8. ASSUME GoTo(p, "register"), At(p, "finish") PROVE Effect(p)
  <2>1. Continues(p, "register")
    BY <1>1, <1>2, <1>8, HowItGoes
  <2>2. Held(p)' /\ Known(p)' /\ Drained(p)'
    BY <1>2, <1>4, <1>8, <2>1, Continuation DEF At
  <2>3. QED  BY <1>4, <1>5, <1>6, <2>1, <2>2, RowInserted DEF Continues
<1>9. ASSUME GoTo(p, "code"), At(p, "login") PROVE Effect(p)
  <2>1. Continues(p, "code")
    BY <1>1, <1>2, <1>9, HowItGoes
  <2>2. Held(p)' /\ Known(p)' /\ Drained(p)'
    BY <1>2, <1>4, <1>9, <2>1, Continuation DEF At
  <2>3. QED  BY <1>4, <1>5, <1>6, <2>1, <2>2, RowInserted DEF Continues
<1>10. Ends(p) \/ (GoTo(p, "register") /\ At(p, "finish")) \/ (GoTo(p, "code") /\ At(p, "login"))
  <2>1. CASE CreateChallenge(p) \/ StorePasskey(p) \/ CreateLink(p)
    BY <2>1 DEF CreateChallenge, StorePasskey, CreateLink
  <2>2. CASE CreateCredential(p)
    BY <2>2 DEF CreateCredential
  <2>3. CASE FinalizeLogin(p)
    BY <1>1, <2>3 DEF FinalizeLogin, InsertGrant, GoTo, TypeOK
  <2>4. CASE CreateAuthCode(p)
    BY <2>4 DEF CreateAuthCode, InsertGrant, Ends
  <2>5. QED  BY <2>1, <2>2, <2>3, <2>4
<1>11. QED  BY <1>7, <1>8, <1>9, <1>10

-----------------------------------------------------------------------------
(* Deletions.                                                              *)

\* Whoever deletes an account does not know it as one that was in use.
LEMMA Deleter ==
  ASSUME IInv, NEW p \in Procs, req[p].step \in {"requests", "grants", "identities", "user"}
  PROVE  /\ TypeOK /\ Promises /\ req[p].id \in Ids /\ req[p].knew # req[p].id
         /\ ~At(p, "link") /\ ~At(p, "lookup") /\ Drained(p)
<1>1. TypeOK /\ Promises /\ Held(p) /\ Known(p) /\ Drained(p)
  BY DEF IInv, RequestsOK
<1>2. req[p].id \in Ids
  BY <1>1 DEF Held
<1>3. req[p].knew # req[p].id
  BY <1>1, <1>2 DEF Known, At
<1>4. QED  BY <1>1, <1>2, <1>3 DEF At

LEMMA DeletionGoesOn ==
  ASSUME IInv, NEW p \in Procs, req[p].step \in {"requests", "grants", "identities", "user"},
         NEW step \in {"grants", "identities", "user"}, GoTo(p, step)
  PROVE  Continues(p, step) /\ Held(p)' /\ Known(p)'
<1>1. TypeOK /\ req[p].id \in Ids /\ req[p].knew # req[p].id /\ step \in Steps
  BY Deleter DEF Steps
<1>2. Continues(p, step)
  BY <1>1, HowItGoes
<1>3. Held(p)' /\ Known(p)'
  BY <1>1, <1>2 DEF Continues, Held, Known, Federating
<1>4. QED  BY <1>2, <1>3

LEMMA RequestsDeleted ==
  ASSUME IInv, NEW p \in Procs, DeleteRequests(p)
  PROVE  Effect(p)
<1>1. /\ At(p, "requests") /\ GoTo(p, "grants")
      /\ requests' = [requests EXCEPT ![req[p].id] = 0]
      /\ UNCHANGED <<acct, rows, identity, address, verified, sent, proven, mistaken,
                     late, strange, undone, unlinked>>
  BY DEF DeleteRequests, email, accountHistory
<1>2. TypeOK /\ Promises /\ req[p].id \in Ids /\ ~At(p, "link") /\ ~At(p, "lookup")
  BY <1>1, Deleter DEF At
<1>3. Continues(p, "grants") /\ Held(p)' /\ Known(p)'
  BY <1>1, DeletionGoesOn DEF At
<1>4. requests'[req[p].id] = 0 /\ requests' \in [Ids -> Nat]
  BY <1>1, <1>2 DEF TypeOK
<1>5. Typed'
  BY <1>1, <1>2, <1>4 DEF Typed, AddressesTyped, TypeOK
<1>6. Drained(p)'
  BY <1>3, <1>4 DEF Drained, Continues, At
<1>7. Inserts(p)
  BY <1>1, <1>2 DEF Inserts, TypeOK
<1>8. AccountsKept(p) /\ Linked(p) /\ Promises'
  BY <1>1, <1>2, SameAccounts, SameLinks, SamePromises
<1>9. QED  BY <1>3, <1>5, <1>6, <1>7, <1>8 DEF Effect, Continues

LEMMA GrantsDeleted ==
  ASSUME IInv, NEW p \in Procs, DeleteGrants(p)
  PROVE  Effect(p)
<1>1. /\ At(p, "grants") /\ GoTo(p, "identities") /\ DeleteRow(req[p].id, "grant")
      /\ UNCHANGED <<acct, requests, identity, address, verified, sent, proven, mistaken,
                     late, strange, undone, unlinked>>
  BY DEF DeleteGrants, email, accountHistory
<1>2. /\ TypeOK /\ Promises /\ req[p].id \in Ids /\ ~At(p, "link") /\ ~At(p, "lookup")
      /\ Drained(p)
  BY <1>1, Deleter DEF At
<1>3. Continues(p, "identities") /\ Held(p)' /\ Known(p)'
  BY <1>1, DeletionGoesOn DEF At
<1>4. /\ "grant" \notin rows'[req[p].id] /\ rows' \in [Ids -> SUBSET Tables]
      /\ \A u \in Ids : rows'[u] \subseteq rows[u]
  BY <1>1, <1>2 DEF TypeOK, DeleteRow
<1>5. Typed'
  BY <1>1, <1>2, <1>4 DEF Typed, AddressesTyped, TypeOK
<1>6. Drained(p)'
  BY <1>1, <1>2, <1>3, <1>4 DEF Drained, Continues, At
<1>7. Inserts(p)
  BY <1>1, <1>4 DEF Inserts
<1>8. AccountsKept(p) /\ Linked(p) /\ Promises'
  BY <1>1, <1>2, SameAccounts, SameLinks, SamePromises
<1>9. QED  BY <1>3, <1>5, <1>6, <1>7, <1>8 DEF Effect, Continues

LEMMA IdentitiesDeleted ==
  ASSUME IInv, NEW p \in Procs, DeleteIdentities(p)
  PROVE  Effect(p)
<1>1. /\ At(p, "identities") /\ GoTo(p, "user")
      /\ identity' = [x \in Subjects |-> IF identity[x] = req[p].id THEN None ELSE identity[x]]
      /\ unlinked' = IF Live(req[p].id) THEN unlinked \cup {req[p].id} ELSE unlinked
      /\ UNCHANGED <<acct, rows, requests, address, verified, sent, proven, mistaken, late, strange, undone>>
  BY DEF DeleteIdentities, email
<1>2. /\ TypeOK /\ Promises /\ req[p].id \in Ids /\ ~At(p, "link") /\ ~At(p, "lookup")
      /\ Drained(p)
  BY <1>1, Deleter DEF At
<1>3. Continues(p, "user") /\ Held(p)' /\ Known(p)'
  BY <1>1, DeletionGoesOn DEF At
<1>4. /\ identity' \in [Subjects -> Ids \cup {None}] /\ unlinked' \subseteq Ids
      /\ unlinked \subseteq unlinked'
      /\ \A x \in Subjects : identity'[x] # req[p].id
      /\ \A x \in Subjects, u \in Ids : identity'[x] = u => identity[x] = u
  BY <1>1, <1>2 DEF TypeOK
<1>5. Typed'
  BY <1>1, <1>2, <1>4 DEF Typed, AddressesTyped, TypeOK
<1>6. Drained(p)'
  BY <1>1, <1>2, <1>3, <1>4 DEF Drained, Continues, At
<1>7. Inserts(p)
  BY <1>1, <1>4 DEF Inserts
<1>8. AccountsKept(p) /\ Promises'
  BY <1>1, <1>2, SameAccounts, SamePromises
<1>9. Linked(p)
  <2>1. \A x \in Subjects, u \in Ids : identity[x] = u /\ acct'[u] # "none" /\ u \notin unlinked' =>
          identity'[x] = u
    BY <1>1 DEF Live
  <2>2. QED  BY <1>2, <1>4, <2>1 DEF Linked, Live
<1>10. QED  BY <1>3, <1>5, <1>6, <1>7, <1>8, <1>9 DEF Effect, Continues

\* The deletion is over; the account may be created anew.
LEMMA DeletionEnds ==
  ASSUME IInv, NEW p \in Procs, req[p].step \in {"requests", "grants", "identities", "user"},
         AfterDelete(p)
  PROVE  Moves(p) /\ Held(p)' /\ Known(p)' /\ Drained(p)'
<1>1. TypeOK /\ req[p].id \in Ids /\ req[p].knew # req[p].id
  BY Deleter
<1>2. {"create", "idle"} \subseteq Plain /\ "create" \in Steps
  BY DEF Plain, Steps, Federating
<1>3. CASE GoTo(p, "create")
  <2>1. Continues(p, "create")
    BY <1>1, <1>2, <1>3, HowItGoes
  <2>2. QED  BY <1>1, <1>2, <2>1, Continuation DEF Continues
<1>4. CASE Ends(p)
  <2>1. Arrives(p, "idle", None)
    BY <1>1, <1>4, HowItGoes
  <2>2. QED  BY <1>2, <2>1, Arrival DEF Arrives
<1>5. QED  BY <1>3, <1>4 DEF AfterDelete

LEMMA UserDeleted ==
  ASSUME IInv, NEW p \in Procs, DeleteUser(p)
  PROVE  Effect(p)
<1>1. /\ At(p, "user") /\ AfterDelete(p) /\ late' = late \ {p}
      /\ UNCHANGED <<requests, identity>>
  BY DEF DeleteUser
<1>2. PICK u \in Ids : u = req[p].id
  BY <1>1, Deleter DEF At
<1>3. /\ TypeOK /\ Promises /\ ~At(p, "link") /\ ~At(p, "lookup") /\ Drained(p)
      /\ req[p].knew # u
  BY <1>1, <1>2, Deleter DEF At
<1>4. Moves(p) /\ Held(p)' /\ Known(p)' /\ Drained(p)'
  BY <1>1, DeletionEnds DEF At
<1>5. CASE Blocked(u)
  <2>1. /\ strange' = (strange \/ ("link" \notin rows[u] /\ p \notin late))
        /\ UNCHANGED <<acct, rows, unlinked, undone, address, verified, sent, proven, mistaken>>
    BY <1>2, <1>5 DEF DeleteUser, email
  <2>2. "link" \notin rows[u] => p \in late
    <3>1. rows[u] \cap {"grant", "link"} # {} \/ requests[u] > 0 \/ Identities(u) # {}
      BY <1>5 DEF Blocked
    <3>2. p \notin late => requests[u] = 0 /\ "grant" \notin rows[u] /\ Identities(u) = {}
      BY <1>1, <1>2, <1>3 DEF Drained, At, Identities
    <3>3. QED  BY <3>1, <3>2
  <2>3. strange' = strange
    BY <1>3, <2>1, <2>2 DEF TypeOK
  <2>4. Typed'
    BY <1>1, <1>3, <2>1, <2>3 DEF Typed, AddressesTyped, TypeOK
  <2>5. AccountsKept(p) /\ Linked(p) /\ Promises'
    BY <1>1, <1>3, <2>1, <2>3, SameAccounts, SameLinks, SamePromises
  <2>6. Inserts(p)
    BY <1>1, <2>1 DEF Inserts
  <2>7. QED  BY <1>4, <2>4, <2>5, <2>6 DEF Effect
<1>6. CASE ~Blocked(u)
  <2>1. /\ acct' = [acct EXCEPT ![u] = "none"] /\ rows' = [rows EXCEPT ![u] = {}]
        /\ unlinked' = unlinked \ {u}
        /\ address' = [address EXCEPT ![u] = None]
        /\ verified' = verified \ {u} /\ sent' = [sent EXCEPT ![u] = None]
        /\ proven' = [proven EXCEPT ![u] = {}] /\ mistaken' = [mistaken EXCEPT ![u] = {}]
        /\ undone' = (undone \/ (req[p].knew = u)) /\ UNCHANGED strange
    BY <1>2, <1>6 DEF DeleteUser
  <2>2. undone' = undone
    BY <1>3, <2>1 DEF TypeOK
  <2>3. /\ acct' \in [Ids -> Kinds \cup {"none"}] /\ acct'[u] = "none"
        /\ \A v \in Ids \ {u} : acct'[v] = acct[v]
        /\ rows' \in [Ids -> SUBSET Tables] /\ \A v \in Ids : rows'[v] \subseteq rows[v]
    BY <1>3, <2>1 DEF TypeOK
  <2>4. Typed'
    <3>1. AddressesTyped'
      BY <1>3, <2>1 DEF AddressesTyped, TypeOK, MaybeAddress
    <3>2. QED  BY <1>1, <1>3, <2>1, <2>2, <2>3, <3>1 DEF Typed, TypeOK
  <2>5. AccountsKept(p)
    BY <2>3 DEF AccountsKept, Live, Registered
  <2>6. Linked(p)
    BY <1>1, <1>3, <2>1, <2>3 DEF Linked, Live
  <2>7. Promises'
    BY <1>3, <2>1, <2>2 DEF Promises, DeletionBlocked, RegistrationKept
  <2>8. Inserts(p)
    BY <1>1, <2>3 DEF Inserts
  <2>9. QED  BY <1>4, <2>4, <2>5, <2>6, <2>7, <2>8 DEF Effect
<1>7. QED  BY <1>5, <1>6

LEMMA DeletionStopped ==
  ASSUME IInv, NEW p \in Procs, DeleteFails(p)
  PROVE  Effect(p)
<1>1. /\ req[p].step \in {"requests", "grants", "identities", "user"} /\ AfterDelete(p)
      /\ late' = late \ {p}
      /\ UNCHANGED <<acct, rows, requests, identity, address, verified, sent, proven, mistaken,
                     strange, undone, unlinked>>
  BY DEF DeleteFails, tables, email
<1>2. TypeOK /\ Promises /\ ~At(p, "link") /\ ~At(p, "lookup")
  BY <1>1, Deleter
<1>3. Moves(p) /\ Held(p)' /\ Known(p)' /\ Drained(p)'
  BY <1>1, DeletionEnds
<1>4. Typed'
  BY <1>1, <1>2 DEF Typed, AddressesTyped, TypeOK
<1>5. AccountsKept(p) /\ Linked(p) /\ Promises'
  BY <1>1, <1>2, SameAccounts, SameLinks, SamePromises
<1>6. Inserts(p)
  BY <1>1 DEF Inserts
<1>7. QED  BY <1>3, <1>4, <1>5, <1>6 DEF Effect

LEMMA DeletionAsked ==
  ASSUME IInv, NEW p \in Procs, CreateDeletionRequest(p)
  PROVE  Effect(p)
<1>1. /\ At(p, "ask") /\ Ends(p)
      /\ UNCHANGED <<acct, rows, identity, strange, undone, unlinked, address, verified, sent, proven, mistaken>>
  BY DEF CreateDeletionRequest, email
<1>2. TypeOK /\ Promises /\ ~At(p, "link") /\ ~At(p, "lookup") /\ "idle" \in Plain
  BY <1>1 DEF IInv, At, Plain, Steps, Federating
<1>3. PICK u \in Ids : u = req[p].id
  BY <1>1 DEF IInv, RequestsOK, Held, At, Federating
<1>4. Arrives(p, "idle", None)
  BY <1>1, <1>2, HowItGoes
<1>5. Held(p)' /\ Known(p)' /\ Drained(p)'
  BY <1>2, <1>4, Arrival
<1>6. \/ /\ requests' = [requests EXCEPT ![u] = requests[u] + 1]
         /\ late' = late \cup {q \in Procs : Deleting(q, u)}
      \/ UNCHANGED <<requests, late>>
  BY <1>2, <1>3 DEF CreateDeletionRequest, Inserted, TypeOK
<1>7. requests' \in [Ids -> Nat] /\ late' \subseteq Procs
  BY <1>2, <1>6 DEF TypeOK
<1>8. Typed'
  BY <1>1, <1>2, <1>7 DEF Typed, AddressesTyped, TypeOK
<1>9. Inserts(p)
  <2>1. CASE UNCHANGED <<requests, late>>
    BY <1>1, <2>1 DEF Inserts
  <2>2. CASE /\ requests' = [requests EXCEPT ![u] = requests[u] + 1]
             /\ late' = late \cup {q \in Procs : Deleting(q, u)}
    <3>1. ASSUME NEW v \in Ids, NEW q \in Procs \ {p}, Deleting(q, v), q \notin late'
          PROVE  requests'[v] = requests[v]
      BY <1>2, <2>2, <3>1 DEF TypeOK
    <3>2. QED  BY <1>1, <2>2, <3>1 DEF Inserts
  <2>3. QED  BY <1>6, <2>1, <2>2
<1>10. AccountsKept(p) /\ Linked(p) /\ Promises'
  BY <1>1, <1>2, SameAccounts, SameLinks, SamePromises
<1>11. QED  BY <1>4, <1>5, <1>8, <1>9, <1>10 DEF Effect, Arrives

-----------------------------------------------------------------------------
(* Accounts that are made.                                                 *)

LEMMA AccountMade ==
  ASSUME IInv, NEW p \in Procs, NEW u \in Ids, NEW kind \in Kinds, NameFree, Fresh(u),
         \E a \in MaybeAddress : CreateUser(u, kind, a),
         UNCHANGED <<rows, requests, identity, accountHistory>>,
         kind = "federated" => req'[p].step = "lookup",
         ~At(p, "link"), ~At(p, "lookup"),
         Moves(p), Held(p)', Known(p)', Drained(p)'
  PROVE  Effect(p)
<1>1. /\ TypeOK /\ Promises /\ acct' = [acct EXCEPT ![u] = kind]
      /\ \E a \in MaybeAddress : address' = [address EXCEPT ![u] = a]
      /\ UNCHANGED <<rows, requests, identity, verified, sent, proven, mistaken,
                     late, strange, undone, unlinked>>
  BY DEF IInv, CreateUser, accountHistory
<1>2. /\ acct' \in [Ids -> Kinds \cup {"none"}] /\ acct'[u] = kind
      /\ \A v \in Ids \ {u} : acct'[v] = acct[v]
      /\ \A v \in Ids : acct[v] = "none"
  BY <1>1 DEF TypeOK, NameFree, Live
<1>3. Typed'
  BY <1>1, <1>2 DEF Typed, AddressesTyped, TypeOK
<1>4. AccountsKept(p)
  BY <1>2 DEF AccountsKept, Live, Registered, Kinds
<1>5. Linked(p)
  BY <1>1, <1>2 DEF Linked
<1>6. Inserts(p) /\ Promises'
  BY <1>1, SameRows, SamePromises
<1>7. QED  BY <1>3, <1>4, <1>5, <1>6 DEF Effect

LEMMA AccountsMade ==
  ASSUME IInv, NEW p \in Procs, NEW u \in Ids,
         CreatePasskeyUser(p, u) \/ SignUp(p, u) \/ CreateFederatedUser(p, u)
  PROVE  Effect(p)
<1>1. TypeOK /\ Held(p)
  BY DEF IInv, RequestsOK
<1>2. /\ {"challenge", "login"} \subseteq Plain /\ {"challenge", "login", "lookup"} \subseteq Steps
      /\ {"createFederated", "lookup"} \subseteq Federating
      /\ {"begun", "password", "federated"} \subseteq Kinds
  BY DEF Plain, Steps, Federating, Kinds
<1>3. ASSUME CreatePasskeyUser(p, u) PROVE Effect(p)
  <2>1. /\ At(p, "create") /\ NameFree /\ Fresh(u)
        /\ \E a \in MaybeAddress : CreateUser(u, "begun", a)
        /\ Begins(p, "challenge", u)
        /\ UNCHANGED <<rows, requests, identity, accountHistory>>
    BY <1>3 DEF CreatePasskeyUser
  <2>2. Arrives(p, "challenge", u)
    BY <1>1, <1>2, <2>1, HowItGoes
  <2>3. Moves(p) /\ Held(p)' /\ Known(p)' /\ Drained(p)'
    BY <1>2, <2>2, Arrival DEF Arrives
  <2>4. ~At(p, "link") /\ ~At(p, "lookup")
    BY <2>1 DEF At
  <2>5. QED  BY <1>2, <2>1, <2>3, <2>4, AccountMade
<1>4. ASSUME SignUp(p, u) PROVE Effect(p)
  <2>1. /\ At(p, "idle") /\ NameFree /\ Fresh(u)
        /\ \E a \in MaybeAddress : CreateUser(u, "password", a)
        /\ Begins(p, "login", u)
        /\ UNCHANGED <<rows, requests, identity, accountHistory>>
    BY <1>4 DEF SignUp
  <2>2. Arrives(p, "login", u)
    BY <1>1, <1>2, <2>1, HowItGoes
  <2>3. Moves(p) /\ Held(p)' /\ Known(p)' /\ Drained(p)'
    BY <1>2, <2>2, Arrival DEF Arrives
  <2>4. ~At(p, "link") /\ ~At(p, "lookup")
    BY <2>1 DEF At
  <2>5. QED  BY <1>2, <2>1, <2>3, <2>4, AccountMade
<1>5. ASSUME CreateFederatedUser(p, u) PROVE Effect(p)
  <2>1. /\ At(p, "createFederated") /\ NameFree /\ Fresh(u)
        /\ \E a \in MaybeAddress : CreateUser(u, "federated", a)
        /\ GoTo(p, "lookup")
        /\ UNCHANGED <<rows, requests, identity, accountHistory>>
    BY <1>5 DEF CreateFederatedUser
  <2>2. Continues(p, "lookup")
    BY <1>1, <1>2, <2>1, HowItGoes
  <2>3. Federates(p, "lookup")
    BY <1>1, <1>2, <2>1, <2>2 DEF Continues, Federates, Held, At
  <2>4. Moves(p) /\ req'[p].step = "lookup" /\ Held(p)' /\ Known(p)' /\ Drained(p)'
    BY <1>2, <2>3, Federation DEF Federates
  <2>5. ~At(p, "link") /\ ~At(p, "lookup")
    BY <2>1 DEF At
  <2>6. QED  BY <1>2, <2>1, <2>4, <2>5, AccountMade
<1>6. QED  BY <1>3, <1>4, <1>5

-----------------------------------------------------------------------------
(* The end of a registration, and the address.                             *)

LEMMA RegisteredAtSet ==
  ASSUME IInv, NEW p \in Procs, SetRegisteredAt(p)
  PROVE  Effect(p)
<1>1. /\ At(p, "register") /\ GoTo(p, "used")
      /\ UNCHANGED <<rows, requests, identity, address, verified, sent, proven, mistaken,
                     late, strange, undone, unlinked>>
  BY DEF SetRegisteredAt, email, accountHistory
<1>2. /\ TypeOK /\ Promises /\ ~At(p, "link") /\ ~At(p, "lookup")
      /\ "used" \in Plain /\ "used" \in Steps
  BY <1>1 DEF IInv, At, Plain, Steps, Federating
<1>3. PICK u \in Ids : u = req[p].id
  BY <1>1 DEF IInv, RequestsOK, Held, At, Federating
<1>4. Continues(p, "used")
  BY <1>1, <1>2, HowItGoes
<1>5. Held(p)' /\ Known(p)' /\ Drained(p)'
  BY <1>1, <1>2, <1>3, <1>4, Continuation DEF At
<1>6. acct' = IF acct[u] = "begun" THEN [acct EXCEPT ![u] = "passkey"] ELSE acct
  BY <1>3 DEF SetRegisteredAt
<1>7. /\ acct' \in [Ids -> Kinds \cup {"none"}]
      /\ \A v \in Ids : acct'[v] = acct[v] \/ (acct[v] = "begun" /\ acct'[v] = "passkey")
  BY <1>2, <1>6 DEF TypeOK, Kinds
<1>8. Typed'
  BY <1>1, <1>2, <1>7 DEF Typed, AddressesTyped, TypeOK
<1>9. AccountsKept(p)
  BY <1>7 DEF AccountsKept, Live, Registered, Kinds
<1>10. Linked(p)
  BY <1>1, <1>2, <1>7 DEF Linked, Live
<1>11. Inserts(p) /\ Promises'
  BY <1>1, <1>2, SameRows, SamePromises
<1>12. QED  BY <1>4, <1>5, <1>8, <1>9, <1>10, <1>11 DEF Effect, Continues

LEMMA ChallengeMarked ==
  ASSUME IInv, NEW p \in Procs, MarkChallengeUsed(p)
  PROVE  Effect(p)
<1>1. /\ At(p, "used") /\ GoTo(p, "login")
      /\ DeleteRow(req[p].id, "challenge") \/ UNCHANGED rows
      /\ UNCHANGED <<acct, requests, identity, address, verified, sent, proven, mistaken,
                     late, strange, undone, unlinked>>
  BY DEF MarkChallengeUsed, email, accountHistory
<1>2. /\ TypeOK /\ Promises /\ ~At(p, "link") /\ ~At(p, "lookup")
      /\ "login" \in Plain /\ "login" \in Steps
  BY <1>1 DEF IInv, At, Plain, Steps, Federating
<1>3. PICK u \in Ids : u = req[p].id
  BY <1>1 DEF IInv, RequestsOK, Held, At, Federating
<1>4. Continues(p, "login")
  BY <1>1, <1>2, HowItGoes
<1>5. Held(p)' /\ Known(p)' /\ Drained(p)'
  BY <1>1, <1>2, <1>3, <1>4, Continuation DEF At
<1>6. rows' \in [Ids -> SUBSET Tables] /\ \A v \in Ids : rows'[v] \subseteq rows[v]
  BY <1>1, <1>2, <1>3 DEF TypeOK, DeleteRow
<1>7. Typed'
  BY <1>1, <1>2, <1>6 DEF Typed, AddressesTyped, TypeOK
<1>8. Inserts(p)
  BY <1>1, <1>6 DEF Inserts
<1>9. AccountsKept(p) /\ Linked(p) /\ Promises'
  BY <1>1, <1>2, SameAccounts, SameLinks, SamePromises
<1>10. QED  BY <1>4, <1>5, <1>7, <1>8, <1>9 DEF Effect, Continues

\* Steps about the address change nothing else.
LEMMA AddressStep ==
  ASSUME IInv, NEW p \in Procs, UNCHANGED <<acct, rows, requests, identity, accountHistory>>,
         AddressesTyped', Moves(p), Held(p)', Known(p)', Drained(p)', ~At(p, "link"),
         ~At(p, "lookup")
  PROVE  Effect(p)
<1>1. TypeOK /\ Promises /\ UNCHANGED <<acct, rows, requests, identity, late, strange, undone, unlinked>>
  BY DEF IInv, accountHistory
<1>2. Typed'
  BY <1>1 DEF Typed, TypeOK
<1>3. AccountsKept(p) /\ Linked(p) /\ Inserts(p) /\ Promises'
  BY <1>1, SameAccounts, SameLinks, SameRows, SamePromises
<1>4. QED  BY <1>2, <1>3 DEF Effect

LEMMA AddressStored ==
  ASSUME IInv, NEW p \in Procs, SetVerificationToken(p) \/ UpdateUser(p)
  PROVE  Effect(p)
<1>1. /\ At(p, "verification") \/ At(p, "write")
      /\ Ends(p) /\ UNCHANGED <<acct, rows, requests, identity, accountHistory>>
  BY DEF SetVerificationToken, UpdateUser, history
<1>2. TypeOK /\ ~At(p, "link") /\ ~At(p, "lookup") /\ "idle" \in Plain
  BY <1>1 DEF IInv, At, Plain, Steps, Federating
<1>3. req[p].id \in Ids /\ req[p].address \in MaybeAddress
  BY <1>1, <1>2 DEF IInv, RequestsOK, Held, At, TypeOK, Request
<1>4. Arrives(p, "idle", None)
  BY <1>1, <1>2, HowItGoes
<1>5. Held(p)' /\ Known(p)' /\ Drained(p)'
  BY <1>2, <1>4, Arrival
<1>6. AddressesTyped'
  <2>1. CASE SetVerificationToken(p)
    BY <1>2, <1>3, <2>1 DEF SetVerificationToken, history, AddressesTyped, TypeOK
  <2>2. CASE UpdateUser(p)
    BY <1>2, <1>3, <2>2 DEF UpdateUser, history, AddressesTyped, TypeOK
  <2>3. QED  BY <2>1, <2>2
<1>7. QED  BY <1>1, <1>2, <1>4, <1>5, <1>6, AddressStep DEF Arrives

LEMMA EmailVerified ==
  ASSUME IInv, NEW p \in Procs, MarkEmailVerified(p)
  PROVE  Effect(p)
<1>1. /\ At(p, "verify") /\ GoTo(p, "login")
      /\ UNCHANGED <<acct, rows, requests, identity, address, accountHistory>>
  BY DEF MarkEmailVerified
<1>2. /\ TypeOK /\ ~At(p, "link") /\ ~At(p, "lookup")
      /\ "login" \in Plain /\ "login" \in Steps /\ Held(p) /\ Known(p)
  BY <1>1 DEF IInv, RequestsOK, At, Plain, Steps, Federating
<1>3. req[p].id \in Ids /\ req[p].address \in MaybeAddress
  BY <1>1, <1>2 DEF Held, At, TypeOK, Request
<1>4. Continues(p, "login")
  BY <1>1, <1>2, HowItGoes
<1>5. req[p].knew = None \/ req[p].knew # req[p].id
  BY <1>1, <1>2 DEF Known, At
<1>6. Held(p)' /\ Known(p)' /\ Drained(p)'
  BY <1>2, <1>3, <1>4, <1>5, Continuation
<1>7. AddressesTyped'
  BY <1>1, <1>2, <1>3 DEF MarkEmailVerified, AddressesTyped, TypeOK, MaybeAddress
<1>8. QED  BY <1>1, <1>2, <1>4, <1>6, <1>7, AddressStep DEF Continues

\* An update of the users row: what it read, and what it will write.
LEMMA UserRead ==
  ASSUME TypeOK, NEW p \in Procs, NEW u \in Ids, NEW to \in MaybeAddress, NEW flag \in Flags,
         ReadUser(p, u, to, flag)
  PROVE  /\ Arrives(p, "write", u) /\ Held(p)' /\ Known(p)' /\ Drained(p)'
         /\ req'[p].address = (IF to = None THEN address[u] ELSE to)
         /\ req'[p].flag = "set" <=> flag = "set" \/ (flag = "keep" /\ u \in verified)
         /\ req'[p].address \in MaybeAddress
<1>1. "write" \in Plain /\ "write" \in Steps /\ None \in MaybeAddress /\ {"set", "clear"} \subseteq Flags
  BY DEF Plain, Steps, Federating, MaybeAddress, Flags
<1> DEFINE a == IF to = None THEN address[u] ELSE to
           f == IF flag # "keep" THEN flag ELSE IF u \in verified THEN "set" ELSE "clear"
<1>2. a \in MaybeAddress /\ f \in Flags
  BY <1>1 DEF TypeOK
<1>3. f = "set" <=> flag = "set" \/ (flag = "keep" /\ u \in verified)
  BY DEF Flags
<1> DEFINE r == [Idle EXCEPT !.step = "write", !.id = u, !.address = a, !.flag = f]
<1>4. req' = [req EXCEPT ![p] = r]
  BY DEF ReadUser
<1> HIDE DEF f, a
<1>5. /\ r \in Request /\ r.step = "write" /\ r.id = u /\ r.knew = None
      /\ r.address = a /\ r.flag = f
  BY <1>1, <1>2, IdleFields DEF Request
<1> HIDE DEF r
<1>6. Arrives(p, "write", u) /\ req'[p].address = a /\ req'[p].flag = f
  <2>1. Arrives(p, r.step, r.id) /\ req'[p] = r
    BY <1>4, <1>5, HeldRequest
  <2>2. QED  BY <1>5, <2>1
<1>7. Held(p)' /\ Known(p)' /\ Drained(p)'
  BY <1>1, <1>6, Arrival
<1>8. QED  BY <1>2, <1>3, <1>6, <1>7 DEF a

LEMMA Updating ==
  ASSUME IInv, NEW p \in Procs,
         \/ UpdateByOwner(p)
         \/ \E u \in Ids, to \in MaybeAddress, flag \in Flags : UpdateByAdmin(p, u, to, flag)
  PROVE  Effect(p)
<1>1. TypeOK
  BY DEF IInv
<1>2. /\ ~At(p, "link") /\ ~At(p, "lookup") /\ UNCHANGED <<tables, accountHistory>>
  BY DEF UpdateByOwner, UpdateByAdmin, At
<1>3. CASE UpdateByOwner(p)
  <2>1. PICK u \in Ids, to \in MaybeAddress : u = req[p].id /\ to = req[p].address
    BY <1>1, <1>3 DEF UpdateByOwner, IInv, RequestsOK, Held, At, TypeOK, Request
  <2>2. FlagAsked(to, req[p].seen) \in Flags
    BY DEF FlagAsked, Flags
  <2>3. ReadUser(p, u, to, FlagAsked(to, req[p].seen))
    BY <1>3, <2>1 DEF UpdateByOwner
  <2>4. Moves(p) /\ Held(p)' /\ Known(p)' /\ Drained(p)'
    BY <1>1, <2>2, <2>3, UserRead DEF Arrives
  <2>5. AddressesTyped'
    BY <1>1, <1>2, <1>3, <2>1 DEF UpdateByOwner, tables, AddressesTyped, TypeOK
  <2>6. QED  BY <1>2, <2>4, <2>5, AddressStep DEF tables
<1>4. ASSUME NEW u \in Ids, NEW to \in MaybeAddress, NEW flag \in Flags,
             UpdateByAdmin(p, u, to, flag)
      PROVE  Effect(p)
  <2>1. /\ Moves(p) /\ Held(p)' /\ Known(p)' /\ Drained(p)'
        /\ req'[p].address \in MaybeAddress
    BY <1>1, <1>4, UserRead DEF UpdateByAdmin, Arrives
  <2>2. AddressesTyped'
    BY <1>1, <1>2, <1>4, <2>1 DEF UpdateByAdmin, tables, AddressesTyped, TypeOK
  <2>3. QED  BY <1>2, <2>1, <2>2, AddressStep DEF tables
<1>5. QED  BY <1>3, <1>4

-----------------------------------------------------------------------------
(* Identities.                                                             *)

LEMMA IdentityCreated ==
  ASSUME IInv, NEW p \in Procs, CreateFederatedIdentity(p)
  PROVE  Effect(p)
<1>1. /\ At(p, "link") /\ GoTo(p, "login")
      /\ UNCHANGED <<acct, rows, requests, address, verified, sent, proven, mistaken, strange, undone>>
  BY DEF CreateFederatedIdentity, email
<1>2. /\ TypeOK /\ Promises /\ ~At(p, "lookup") /\ "login" \in Plain /\ "login" \in Steps
      /\ Held(p)
  BY <1>1 DEF IInv, RequestsOK, At, Plain, Steps, Federating
<1>3. PICK u \in Ids, x \in Subjects : u = req[p].id /\ x = req[p].subject
  BY <1>1, <1>2 DEF Held, At, Federating
<1>4. Continues(p, "login")
  BY <1>1, <1>2, HowItGoes
<1>5. req[p].knew = None
  BY <1>1, <1>2 DEF Held, At, Federating
<1>6. Held(p)' /\ Known(p)' /\ Drained(p)'
  BY <1>2, <1>3, <1>4, <1>5, Continuation
<1>7. AccountsKept(p) /\ Promises'
  BY <1>1, <1>2, SameAccounts, SamePromises
<1>8. CASE /\ identity[x] = None /\ identity' = [identity EXCEPT ![x] = u]
           /\ late' = late \cup {q \in Procs : Deleting(q, u)} /\ UNCHANGED unlinked
  <2>1. /\ identity' \in [Subjects -> Ids \cup {None}] /\ late' \subseteq Procs
        /\ identity'[x] = u /\ \A y \in Subjects \ {x} : identity'[y] = identity[y]
    BY <1>2, <1>8 DEF TypeOK
  <2>2. Typed'
    BY <1>1, <1>2, <1>8, <2>1 DEF Typed, AddressesTyped, TypeOK
  <2>3. Inserts(p)
    <3>1. ASSUME NEW v \in Ids, NEW q \in Procs \ {p}, Deleting(q, v), q \notin late'
          PROVE  v # u
      BY <1>8, <3>1
    <3>2. QED  BY <1>1, <1>8, <2>1, <3>1 DEF Inserts
  <2>4. Linked(p)
    BY <1>1, <1>2, <1>3, <1>8, <2>1 DEF Linked
  <2>5. QED  BY <1>4, <1>6, <1>7, <2>2, <2>3, <2>4 DEF Effect, Continues
<1>9. CASE /\ unlinked' = IF Live(u) /\ identity[x] # u THEN unlinked \cup {u} ELSE unlinked
           /\ UNCHANGED <<identity, late>>
  <2>1. Typed'
    BY <1>1, <1>2, <1>9 DEF Typed, AddressesTyped, TypeOK
  <2>2. Inserts(p)
    BY <1>1, <1>9, SameRows
  <2>3. Linked(p)
    BY <1>1, <1>2, <1>3, <1>9 DEF Linked, Live
  <2>4. QED  BY <1>4, <1>6, <1>7, <2>1, <2>2, <2>3 DEF Effect, Continues
<1>10. QED  BY <1>3, <1>8, <1>9 DEF CreateFederatedIdentity, Inserted

LEMMA IdentityDeleted ==
  ASSUME IInv, NEW p \in Procs, DeleteFederatedIdentity(p)
  PROVE  Effect(p)
<1>1. /\ At(p, "disconnect") /\ Ends(p)
      /\ UNCHANGED <<acct, rows, requests, late, strange, undone, address, verified, sent, proven, mistaken>>
  BY DEF DeleteFederatedIdentity, email
<1>2. /\ TypeOK /\ Promises /\ ~At(p, "link") /\ ~At(p, "lookup") /\ "idle" \in Plain
      /\ Held(p)
  BY <1>1 DEF IInv, RequestsOK, At, Plain, Steps, Federating
<1>3. PICK u \in Ids, x \in Subjects : u = req[p].id /\ x = req[p].subject
  BY <1>1, <1>2 DEF Held, At, Federating
<1>4. Arrives(p, "idle", None)
  BY <1>1, <1>2, HowItGoes
<1>5. Held(p)' /\ Known(p)' /\ Drained(p)'
  BY <1>2, <1>4, Arrival
<1>6. \/ /\ identity[x] = u /\ identity' = [identity EXCEPT ![x] = None]
         /\ unlinked' = unlinked \cup {u}
      \/ UNCHANGED <<identity, unlinked>>
  BY <1>3 DEF DeleteFederatedIdentity
<1>7. /\ identity' \in [Subjects -> Ids \cup {None}] /\ unlinked' \subseteq Ids
      /\ unlinked \subseteq unlinked'
      /\ \A y \in Subjects, v \in Ids : identity'[y] = v => identity[y] = v
      /\ \A y \in Subjects, v \in Ids : identity[y] = v /\ v \notin unlinked' => identity'[y] = v
  BY <1>2, <1>6 DEF TypeOK
<1>8. Typed'
  BY <1>1, <1>2, <1>7 DEF Typed, AddressesTyped, TypeOK
<1>9. Inserts(p)
  BY <1>1, <1>7 DEF Inserts
<1>10. AccountsKept(p) /\ Promises'
  BY <1>1, <1>2, SameAccounts, SamePromises
<1>11. Linked(p)
  BY <1>1, <1>2, <1>7 DEF Linked
<1>12. QED  BY <1>4, <1>5, <1>8, <1>9, <1>10, <1>11 DEF Effect, Arrives

-----------------------------------------------------------------------------
(* Steps of no request.                                                    *)

\* Rows expire, the owner cancels or changes something.
LEMMA Aside ==
  ASSUME IInv, UNCHANGED <<acct, identity, req, late, strange, undone, unlinked>>,
         rows' \in [Ids -> SUBSET Tables], \A u \in Ids : rows'[u] \subseteq rows[u],
         requests' \in [Ids -> Nat], \A u \in Ids : requests'[u] <= requests[u],
         AddressesTyped'
  PROVE  IInv'
<1>1. TypeOK /\ Alone /\ RequestsOK /\ Promises /\ FederatedUserLinked
  BY DEF IInv
<1>2. TypeOK'
  BY <1>1 DEF TypeOK, AddressesTyped
<1>3. Alone'
  BY <1>1 DEF Alone, Live
<1>4. ASSUME NEW p \in Procs
      PROVE  Held(p)' /\ Known(p)' /\ Drained(p)'
  <2>1. Held(p) /\ Known(p) /\ Drained(p)
    BY <1>1 DEF RequestsOK
  <2>2. Held(p)' /\ Known(p)'
    BY <2>1 DEF Held, Known, At, Live, Registered
  <2>3. Drained(p)'
    <3> SUFFICES ASSUME p \notin late, req[p].step \in {"grants", "identities", "user"},
                        NEW u \in Ids, u = req[p].id
                 PROVE  /\ requests[u] = 0 => requests'[u] = 0
                        /\ "grant" \in rows'[u] => "grant" \in rows[u]
      BY <2>1 DEF Drained, Held, At, Federating
    <3>1. requests[u] \in Nat /\ requests'[u] \in Nat /\ requests'[u] <= requests[u]
      BY <1>1 DEF TypeOK
    <3>2. QED  BY <3>1
  <2>4. QED  BY <2>2, <2>3
<1>5. RequestsOK'
  BY <1>4 DEF RequestsOK
<1>6. Promises'
  BY <1>1 DEF Promises, DeletionBlocked, RegistrationKept
<1>7. FederatedUserLinked'
  BY <1>1 DEF FederatedUserLinked, Identities, At
<1>8. QED  BY <1>2, <1>3, <1>5, <1>6, <1>7 DEF IInv

LEMMA PurgeKept ==
  ASSUME IInv, NEW u \in Ids, NEW table \in Tables, Purge(u, table)
  PROVE  IInv'
<1>1. /\ TypeOK
      /\ rows' = [rows EXCEPT ![u] = rows[u] \ {table}]
      /\ UNCHANGED <<acct, requests, identity, req, late, strange, undone, unlinked,
                     address, verified, sent, proven, mistaken>>
  BY DEF IInv, Purge, DeleteRow, email, accountHistory, TypeOK
<1>2. rows' \in [Ids -> SUBSET Tables] /\ \A v \in Ids : rows'[v] \subseteq rows[v]
  BY <1>1 DEF TypeOK
<1>3. /\ requests' \in [Ids -> Nat] /\ \A v \in Ids : requests'[v] <= requests[v]
      /\ AddressesTyped'
  BY <1>1 DEF TypeOK, AddressesTyped
<1>4. QED  BY <1>1, <1>2, <1>3, Aside

LEMMA CancelKept ==
  ASSUME IInv, NEW u \in Ids, CancelDeletionRequest(u)
  PROVE  IInv'
<1>1. /\ TypeOK /\ requests[u] > 0
      /\ requests' = [requests EXCEPT ![u] = requests[u] - 1]
      /\ UNCHANGED <<acct, rows, identity, req, late, strange, undone, unlinked,
                     address, verified, sent, proven, mistaken>>
  BY DEF IInv, CancelDeletionRequest, email, accountHistory, TypeOK
<1>2. requests' \in [Ids -> Nat] /\ \A v \in Ids : requests'[v] <= requests[v]
  BY <1>1 DEF TypeOK
<1>3. /\ rows' \in [Ids -> SUBSET Tables] /\ \A v \in Ids : rows'[v] \subseteq rows[v]
      /\ AddressesTyped'
  BY <1>1 DEF TypeOK, AddressesTyped
<1>4. QED  BY <1>1, <1>2, <1>3, Aside

LEMMA ExpiryKept ==
  ASSUME IInv, NEW u \in Ids, ExpireVerification(u)
  PROVE  IInv'
<1>1. /\ TypeOK /\ sent' = [sent EXCEPT ![u] = None]
      /\ UNCHANGED <<acct, rows, requests, identity, req, late, strange, undone, unlinked,
                     address, verified, proven, mistaken>>
  BY DEF IInv, ExpireVerification, history, accountHistory
<1>2. /\ rows' \in [Ids -> SUBSET Tables] /\ \A v \in Ids : rows'[v] \subseteq rows[v]
      /\ requests' \in [Ids -> Nat] /\ \A v \in Ids : requests'[v] <= requests[v]
      /\ AddressesTyped'
  BY <1>1 DEF TypeOK, AddressesTyped, MaybeAddress
<1>3. QED  BY <1>1, <1>2, Aside

LEMMA CrashKept ==
  ASSUME IInv, Crash
  PROVE  IInv'
<1>1. /\ req' = [p \in Procs |-> Idle] /\ late' = {}
      /\ unlinked' = unlinked \cup {u \in Ids : acct[u] = "federated" /\ Identities(u) = {}}
      /\ UNCHANGED <<acct, rows, requests, identity, strange, undone, address, verified, sent, proven, mistaken>>
  BY DEF Crash, tables, email
<1>2. TypeOK /\ Alone /\ Promises
  BY DEF IInv
<1>3. Idle \in Request /\ Idle.step = "idle" /\ Idle.knew = None
  BY IdleFields
<1>4. req' \in [Procs -> Request]
      /\ \A p \in Procs : req'[p].step = "idle" /\ req'[p].knew = None
  BY <1>1, <1>3
<1>5. TypeOK'
  BY <1>1, <1>2, <1>4 DEF TypeOK
<1>6. Alone'
  BY <1>1, <1>2 DEF Alone, Live
<1>7. RequestsOK'
  BY <1>4 DEF RequestsOK, Held, Known, Drained, At, Federating
<1>8. Promises'
  BY <1>1, <1>2, SamePromises
<1>9. FederatedUserLinked'
  BY <1>1 DEF FederatedUserLinked, Identities
<1>10. QED  BY <1>5, <1>6, <1>7, <1>8, <1>9 DEF IInv

-----------------------------------------------------------------------------
LEMMA Start ==
  ASSUME Init
  PROVE  IInv
<1>1. Idle \in Request /\ Idle.step = "idle" /\ Idle.knew = None
  BY IdleFields
<1>2. \A p \in Procs : req[p] = Idle
  BY DEF Init
<1>3. TypeOK
  BY <1>1 DEF Init, TypeOK, MaybeAddress
<1>4. Alone
  BY DEF Init, Alone, Live
<1>5. RequestsOK
  BY <1>1, <1>2 DEF RequestsOK, Held, Known, Drained, At, Federating
<1>6. Promises
  BY DEF Init, Promises, DeletionBlocked, RegistrationKept, VerifiedProven
<1>7. FederatedUserLinked
  BY DEF Init, FederatedUserLinked
<1>8. QED  BY <1>3, <1>4, <1>5, <1>6, <1>7 DEF IInv

LEMMA StepEffect ==
  ASSUME IInv, NEW p \in Procs, Step(p)
  PROVE  Effect(p)
  BY Beginnings, RegisterReads, CredentialsRead, OwnerRead, FinishRefused, FailureRead,
     CallbackRead, EmailMatched, CreatedFound, IdentityFound, Insertions,
     AddressRead, RequestsDeleted, GrantsDeleted, IdentitiesDeleted, UserDeleted, DeletionStopped,
     DeletionAsked, AccountsMade, RegisteredAtSet, ChallengeMarked, AddressStored,
     EmailVerified, Updating, IdentityCreated, IdentityDeleted DEF Step

LEMMA StepKept ==
  ASSUME IInv, NEW p \in Procs, Step(p)
  PROVE  IInv'
BY StepEffect, EffectKeeps

LEMMA Invariance == Spec => []IInv
<1>1. Init => IInv
  BY Start
<1>2. ASSUME IInv, [Next]_vars PROVE IInv'
  <2>1. CASE UNCHANGED vars
    <3>1. UNCHANGED <<acct, rows, requests, identity, address, verified, sent, req, late,
                      strange, undone, unlinked, proven, mistaken>>
      BY <2>1 DEF vars, tables, history, accountHistory
    <3>2. TypeOK
      BY <1>2 DEF IInv
    <3>3. /\ rows' \in [Ids -> SUBSET Tables] /\ \A u \in Ids : rows'[u] \subseteq rows[u]
          /\ requests' \in [Ids -> Nat] /\ \A u \in Ids : requests'[u] <= requests[u]
          /\ AddressesTyped'
      BY <3>1, <3>2 DEF TypeOK, AddressesTyped
    <3>4. QED  BY <1>2, <3>1, <3>3, Aside
  <2>2. CASE Next
    BY <1>2, <2>2, StepKept, PurgeKept, CancelKept, ExpiryKept, CrashKept DEF Next
  <2>3. QED  BY <1>2, <2>1, <2>2
<1>3. QED  BY <1>1, <1>2, PTL DEF Spec

-----------------------------------------------------------------------------
(* Addresses: a second invariant, on top of the first.  A verified address *)
(* and one that an update is about to write together with the flag both    *)
(* have somebody to answer for them.                                       *)

Trusted(u, a) == proven[u] # {} /\ a \in proven[u] \cup mistaken[u]

Verified == \A u \in verified : Live(u) /\ Trusted(u, address[u])

Writes(p) ==
  At(p, "write") /\ req[p].flag = "set" /\ Live(req[p].id) => Trusted(req[p].id, req[p].address)

AddressInv == Verified /\ \A p \in Procs : Writes(p)

\* Steps that concern no address.
Elsewhere ==
  /\ UNCHANGED <<address, verified, proven, mistaken>>
  /\ \A u \in Ids : Live(u)' <=> Live(u)
  /\ \A p \in Procs : req'[p] = req[p] \/ req'[p].step # "write"

LEMMA ElsewhereKept ==
  ASSUME IInv, AddressInv, Elsewhere
  PROVE  AddressInv'
<1>1. TypeOK
  BY DEF IInv
<1>2. Verified'
  BY <1>1 DEF AddressInv, Verified, Trusted, Elsewhere, TypeOK
<1>3. ASSUME NEW p \in Procs PROVE Writes(p)'
  <2>1. CASE req'[p].step # "write"
    BY <2>1 DEF Writes, At
  <2>2. CASE req'[p] = req[p] /\ At(p, "write")
    <3>1. req[p].id \in Ids
      BY <2>2 DEF IInv, RequestsOK, Held, At, Federating
    <3>2. Writes(p)
      BY DEF AddressInv
    <3>3. QED  BY <2>2, <3>1, <3>2 DEF Writes, At, Trusted, Elsewhere
  <2>3. QED  BY <2>1, <2>2 DEF Elsewhere, At
<1>4. QED  BY <1>2, <1>3 DEF AddressInv

LEMMA StepTaken ==
  ASSUME TypeOK, NEW p \in Procs
  PROVE  /\ Ends(p) => req'[p].step = "idle"
         /\ \A step : GoTo(p, step) => req'[p].step = step
         /\ \A step, u : Begins(p, step, u) => req'[p].step = step
         /\ \A step, u : Registers(p, step, u) => req'[p].step = step
         /\ \A r : req' = [req EXCEPT ![p] = r] => req'[p] = r
<1>1. \A r : req' = [req EXCEPT ![p] = r] => req'[p] = r
  BY DEF TypeOK
<1>2. Ends(p) => req'[p].step = "idle"
  BY <1>1, IdleFields DEF Ends
<1>3. ASSUME NEW step, GoTo(p, step) PROVE req'[p].step = step
  BY <1>3 DEF GoTo, TypeOK, Request
<1>4. ASSUME NEW step, NEW u, Begins(p, step, u) PROVE req'[p].step = step
  BY <1>1, <1>4 DEF Begins, Idle
<1>5. ASSUME NEW step, NEW u, Registers(p, step, u) PROVE req'[p].step = step
  <2>1. PICK k : req' = [req EXCEPT ![p] = [Idle EXCEPT !.step = step, !.id = u, !.knew = k]]
    BY <1>5 DEF Registers
  <2>2. QED  BY <1>1, <2>1 DEF Idle
<1>6. QED  BY <1>1, <1>2, <1>3, <1>4, <1>5

\* A request moves itself only.
LEMMA MovesElsewhere ==
  ASSUME NEW p \in Procs, Effect(p), UNCHANGED <<address, verified, proven, mistaken>>,
         UNCHANGED acct \/ \A u \in Ids : Live(u)' <=> Live(u), req'[p].step # "write"
  PROVE  Elsewhere
BY DEF Effect, Moves, Elsewhere, Live

LEMMA ReadsElsewhere ==
  ASSUME IInv, NEW p \in Procs, Effect(p), NEW u \in Ids,
         \/ DeleteAccount(p, u) \/ RequestDeletion(p, u) \/ RegisterFinish(p, u)
         \/ PasskeyLogin(p, u) \/ AddPasskey(p, u) \/ SignIn(p, u) \/ RequestLink(p, u)
         \/ AskVerification(p, u) \/ VerifyEmail(p, u)
         \/ \E to \in MaybeAddress : UpdateProfile(p, u, to)
  PROVE  Elsewhere
<1>1. TypeOK
  BY DEF IInv
<1>2. UNCHANGED <<tables, history>>
  BY DEF DeleteAccount, RequestDeletion, RegisterFinish, PasskeyLogin, AddPasskey, SignIn,
         RequestLink, AskVerification, VerifyEmail, UpdateProfile
<1>3. req'[p].step # "write"
  <2>1. CASE RegisterFinish(p, u)
    BY <1>1, <2>1, StepTaken DEF RegisterFinish
  <2>2. CASE \/ DeleteAccount(p, u) \/ RequestDeletion(p, u) \/ PasskeyLogin(p, u)
             \/ AddPasskey(p, u) \/ SignIn(p, u) \/ RequestLink(p, u)
    BY <1>1, <2>2, StepTaken DEF DeleteAccount, RequestDeletion, PasskeyLogin, AddPasskey,
       SignIn, RequestLink
  <2>3. CASE AskVerification(p, u) \/ VerifyEmail(p, u)
    BY <1>1, <2>3, StepTaken DEF AskVerification, VerifyEmail, Idle
  <2>4. CASE \E to \in MaybeAddress : UpdateProfile(p, u, to)
    BY <1>1, <2>4, StepTaken DEF UpdateProfile, Idle
  <2>5. QED  BY <2>1, <2>2, <2>3, <2>4
<1>4. QED  BY <1>2, <1>3, MovesElsewhere DEF tables, history

LEMMA LookUpsElsewhere ==
  ASSUME IInv, NEW p \in Procs, Effect(p),
         \/ RegisterBegin(p) \/ CheckCredentials(p) \/ ReadOwner(p) \/ FinishFails(p)
         \/ MatchEmail(p) \/ LookUpCreated(p) \/ StatementFails(p)
         \/ \E x \in Subjects : Callback(p, x) \/ Disconnect(p, x)
  PROVE  Elsewhere
<1>1. TypeOK
  BY DEF IInv
<1>2. UNCHANGED <<tables, history>>
  BY DEF RegisterBegin, CheckCredentials, ReadOwner, FinishFails, MatchEmail, LookUpCreated,
         StatementFails, Callback, Disconnect
<1>3. req'[p].step # "write"
  <2>1. CASE RegisterBegin(p) \/ FinishFails(p) \/ StatementFails(p)
    <3>1. CASE RegisterBegin(p)
      BY <1>1, <3>1, StepTaken DEF RegisterBegin
    <3>2. CASE FinishFails(p) \/ StatementFails(p)
      BY <1>1, <3>2, StepTaken DEF FinishFails, DeleteIfUnregistered, StatementFails
    <3>3. QED  BY <2>1, <3>1, <3>2
  <2>2. CASE CheckCredentials(p) \/ ReadOwner(p)
    BY <1>1, <2>2, StepTaken DEF CheckCredentials, ReadOwner, TypeOK, Request
  <2>3. CASE MatchEmail(p) \/ LookUpCreated(p)
    BY <1>1, <2>3, StepTaken DEF MatchEmail, LookUpCreated, TypeOK, Request
  <2>4. CASE \E x \in Subjects : Callback(p, x) \/ Disconnect(p, x)
    <3>1. ASSUME NEW x \in Subjects, Callback(p, x)
          PROVE  req'[p].step # "write"
      <4>1. CASE Begins(p, "login", identity[x])
        BY <1>1, <4>1, StepTaken
      <4>2. CASE req' = [req EXCEPT ![p] = [Idle EXCEPT !.step = "email", !.subject = x]]
        <5> DEFINE r == [Idle EXCEPT !.step = "email", !.subject = x]
        <5>1. r.step = "email"
          BY DEF Idle
        <5>2. req' = [req EXCEPT ![p] = r]
          BY <4>2
        <5> HIDE DEF r
        <5>3. req'[p] = r
          BY <1>1, <5>2, StepTaken
        <5>4. QED  BY <5>1, <5>3
      <4>3. QED  BY <3>1, <4>1, <4>2 DEF Callback
    <3>2. ASSUME NEW x \in Subjects, Disconnect(p, x)
          PROVE  req'[p].step # "write"
      <4> DEFINE u == identity[x]
                 r == [Idle EXCEPT !.step = "disconnect", !.id = u, !.subject = x]
      <4>1. r.step = "disconnect"
        BY DEF Idle
      <4>2. req' = [req EXCEPT ![p] = r]
        BY <3>2 DEF Disconnect
      <4> HIDE DEF r
      <4>3. req'[p] = r
        BY <1>1, <4>2, StepTaken
      <4>4. QED  BY <4>1, <4>3
    <3>3. QED  BY <2>4, <3>1, <3>2
  <2>5. QED  BY <2>1, <2>2, <2>3, <2>4
<1>4. QED  BY <1>2, <1>3, MovesElsewhere DEF tables, history

LEMMA RowsElsewhere ==
  ASSUME IInv, NEW p \in Procs, Effect(p),
         \/ DeleteRequests(p) \/ DeleteGrants(p) \/ DeleteIdentities(p) \/ DeleteFails(p)
         \/ CreateDeletionRequest(p) \/ CreateChallenge(p) \/ CreateCredential(p)
         \/ MarkChallengeUsed(p) \/ StorePasskey(p) \/ FinalizeLogin(p) \/ CreateAuthCode(p)
         \/ CreateLink(p) \/ CreateFederatedIdentity(p) \/ DeleteFederatedIdentity(p)
         \/ SetVerificationToken(p)
  PROVE  Elsewhere
<1>1. TypeOK
  BY DEF IInv
<1>2. UNCHANGED <<acct, address, verified, proven, mistaken>>
  BY DEF DeleteRequests, DeleteGrants, DeleteIdentities, DeleteFails, CreateDeletionRequest,
         CreateChallenge, CreateCredential, MarkChallengeUsed, StorePasskey, FinalizeLogin,
         CreateAuthCode, InsertGrant, CreateLink, CreateFederatedIdentity,
         DeleteFederatedIdentity, SetVerificationToken, email, tables, history
<1>3. req'[p].step # "write"
  <2>1. CASE FinalizeLogin(p) \/ CreateAuthCode(p)
    BY <1>1, <2>1 DEF FinalizeLogin, CreateAuthCode, InsertGrant, TypeOK, Request, Idle
  <2>2. CASE ~(FinalizeLogin(p) \/ CreateAuthCode(p))
    BY <1>1, <2>2, StepTaken DEF DeleteRequests, DeleteGrants, DeleteIdentities, DeleteFails,
       AfterDelete, CreateDeletionRequest, CreateChallenge, CreateCredential, MarkChallengeUsed,
       StorePasskey, CreateLink, CreateFederatedIdentity, DeleteFederatedIdentity,
       SetVerificationToken
  <2>3. QED  BY <2>1, <2>2
<1>4. QED  BY <1>2, <1>3, MovesElsewhere

LEMMA RegistrationElsewhere ==
  ASSUME IInv, NEW p \in Procs, Effect(p), SetRegisteredAt(p)
  PROVE  Elsewhere
<1>1. TypeOK /\ UNCHANGED <<address, verified, proven, mistaken>>
  BY DEF IInv, SetRegisteredAt, email
<1>2. req'[p].step # "write"
  BY <1>1, StepTaken DEF SetRegisteredAt
<1>3. \A u \in Ids : Live(u)' <=> Live(u)
  BY <1>1 DEF SetRegisteredAt, Live, TypeOK
<1>4. QED  BY <1>1, <1>2, <1>3, MovesElsewhere

\* No request holds a new account, and it is not verified.
LEMMA CreationTrusted ==
  ASSUME IInv, AddressInv, NEW p \in Procs, Effect(p), NEW u \in Ids,
         CreatePasskeyUser(p, u) \/ SignUp(p, u) \/ CreateFederatedUser(p, u)
  PROVE  AddressInv'
<1>1. TypeOK
  BY DEF IInv
<1>2. PICK kind \in Kinds, a \in MaybeAddress : Fresh(u) /\ CreateUser(u, kind, a)
  BY DEF CreatePasskeyUser, SignUp, CreateFederatedUser, Kinds
<1>3. /\ \A v \in Ids \ {u} : address'[v] = address[v] /\ acct'[v] = acct[v]
      /\ UNCHANGED <<verified, proven, mistaken>>
  BY <1>1, <1>2 DEF CreateUser, TypeOK
<1>4. ~Live(u) /\ \A q \in Procs : req[q].id # u
  BY <1>2 DEF Fresh
<1>5. Verified'
  BY <1>1, <1>3, <1>4 DEF AddressInv, Verified, Trusted, Live, TypeOK
<1>6. req'[p].step # "write"
  BY <1>1, StepTaken DEF CreatePasskeyUser, SignUp, CreateFederatedUser
<1>7. ASSUME NEW q \in Procs, At(q, "write")' PROVE Writes(q)'
  <2>1. req'[q] = req[q] /\ At(q, "write")
    BY <1>6, <1>7 DEF At, Effect, Moves
  <2>2. req[q].id \in Ids \ {u}
    BY <1>4, <2>1 DEF IInv, RequestsOK, Held, At, Federating
  <2>3. Writes(q)
    BY DEF AddressInv
  <2>4. QED  BY <1>3, <2>1, <2>2, <2>3 DEF Writes, At, Live, Trusted
<1>8. QED  BY <1>5, <1>7 DEF AddressInv, Writes

LEMMA DeletionTrusted ==
  ASSUME IInv, AddressInv, NEW p \in Procs, Effect(p), DeleteUser(p)
  PROVE  AddressInv'
<1>1. TypeOK /\ AfterDelete(p) /\ At(p, "user")
  BY DEF IInv, DeleteUser
<1>2. PICK u \in Ids : u = req[p].id
  BY <1>1, Deleter DEF At
<1>3. req'[p].step # "write"
  BY <1>1, StepTaken DEF AfterDelete
<1>4. CASE Blocked(u)
  <2>1. UNCHANGED <<acct, address, verified, proven, mistaken>>
    BY <1>2, <1>4 DEF DeleteUser, email
  <2>2. QED  BY <1>3, <2>1, MovesElsewhere, ElsewhereKept
<1>5. CASE ~Blocked(u)
  <2>1. /\ acct' = [acct EXCEPT ![u] = "none"] /\ address' = [address EXCEPT ![u] = None]
        /\ verified' = verified \ {u}
        /\ proven' = [proven EXCEPT ![u] = {}] /\ mistaken' = [mistaken EXCEPT ![u] = {}]
    BY <1>2, <1>5 DEF DeleteUser
  <2>2. /\ acct'[u] = "none" /\ u \notin verified'
        /\ \A v \in Ids \ {u} : /\ acct'[v] = acct[v] /\ address'[v] = address[v]
                                /\ proven'[v] = proven[v] /\ mistaken'[v] = mistaken[v]
    BY <1>1, <2>1 DEF TypeOK
  <2>3. Verified'
    BY <1>1, <2>1, <2>2 DEF AddressInv, Verified, Trusted, Live, TypeOK
  <2>4. ASSUME NEW q \in Procs, At(q, "write")' PROVE Writes(q)'
    <3>1. req'[q] = req[q] /\ At(q, "write")
      BY <1>3, <2>4 DEF At, Effect, Moves
    <3>2. req[q].id \in Ids /\ Writes(q)
      BY <3>1 DEF AddressInv, IInv, RequestsOK, Held, At, Federating
    <3>3. QED  BY <2>2, <3>1, <3>2 DEF Writes, At, Live, Trusted
  <2>5. QED  BY <2>3, <2>4 DEF AddressInv, Writes
<1>6. QED  BY <1>4, <1>5

\* What is proven or mistaken stays so as long as the account is there.
LEMMA TrustGrows ==
  ASSUME IInv, AddressInv, NEW p \in Procs, Effect(p), UNCHANGED acct,
         \A u \in Ids : proven[u] \subseteq proven'[u] /\ mistaken[u] \subseteq mistaken'[u],
         Writes(p)', Verified'
  PROVE  AddressInv'
<1>1. ASSUME NEW q \in Procs \ {p}, At(q, "write")' PROVE Writes(q)'
  <2>1. req'[q] = req[q] /\ At(q, "write")
    BY <1>1 DEF At, Effect, Moves
  <2>2. req[q].id \in Ids /\ Writes(q)
    BY <2>1 DEF AddressInv, IInv, RequestsOK, Held, At, Federating
  <2>3. QED  BY <2>1, <2>2 DEF Writes, At, Live, Trusted
<1>2. QED  BY <1>1 DEF AddressInv, Writes

LEMMA LinkTrusted ==
  ASSUME IInv, AddressInv, NEW p \in Procs, Effect(p), MarkEmailVerified(p)
  PROVE  AddressInv'
<1>1. TypeOK /\ At(p, "verify") /\ UNCHANGED <<acct, address>>
  BY DEF IInv, MarkEmailVerified
<1>2. PICK u \in Ids, a \in MaybeAddress : u = req[p].id /\ a = req[p].address
  BY <1>1 DEF IInv, RequestsOK, Held, At, Federating, TypeOK, Request
<1>3. Writes(p)'
  BY <1>1, StepTaken DEF MarkEmailVerified, Writes, At
<1>4. CASE Live(u)
  <2>1. /\ verified' = verified \cup {u} /\ proven' = [proven EXCEPT ![u] = proven[u] \cup {a}]
        /\ mistaken' = [mistaken EXCEPT ![u] = mistaken[u] \cup ({address[u]} \ {a})]
    BY <1>1, <1>2, <1>4 DEF MarkEmailVerified, TypeOK
  <2>2. /\ \A v \in Ids : proven[v] \subseteq proven'[v] /\ mistaken[v] \subseteq mistaken'[v]
        /\ proven'[u] # {} /\ address[u] \in proven'[u] \cup mistaken'[u]
    BY <1>1, <2>1 DEF TypeOK
  <2>3. Verified'
    BY <1>1, <1>4, <2>1, <2>2 DEF AddressInv, Verified, Trusted, Live, TypeOK
  <2>4. QED  BY <1>1, <1>3, <2>2, <2>3, TrustGrows
<1>5. CASE ~Live(u)
  <2>1. UNCHANGED <<acct, address, verified, proven, mistaken>>
    BY <1>1, <1>2, <1>5 DEF MarkEmailVerified
  <2>2. req'[p].step # "write"
    BY <1>1, StepTaken DEF MarkEmailVerified
  <2>3. QED  BY <2>1, <2>2, MovesElsewhere, ElsewhereKept
<1>6. QED  BY <1>4, <1>5

\* The flag goes with an address that somebody answers for, or with the one in the
\* row, or with one that was in the row when the request began.
LEMMA OwnerTrusted ==
  ASSUME IInv, AddressInv, NEW p \in Procs, Effect(p), UpdateByOwner(p)
  PROVE  AddressInv'
<1>1. TypeOK /\ At(p, "update") /\ UNCHANGED <<acct, address, verified, proven>>
  BY DEF IInv, UpdateByOwner, tables
<1>2. PICK u \in Ids, to \in MaybeAddress : u = req[p].id /\ to = req[p].address
  BY <1>1 DEF IInv, RequestsOK, Held, At, Federating, TypeOK, Request
<1> DEFINE seen == req[p].seen
           flag == FlagAsked(to, seen)
<1>3. flag \in Flags /\ (flag = "set" \/ flag = "keep" => to \in {None, seen})
  BY DEF FlagAsked, Flags
<1>4. /\ ReadUser(p, u, to, flag)
      /\ mistaken' = IF to = seen /\ to \notin {None, address[u]} /\ u \in verified
                     THEN [mistaken EXCEPT ![u] = mistaken[u] \cup {to}] ELSE mistaken
  BY <1>1, <1>2 DEF UpdateByOwner, TypeOK
<1>5. flag # "set"
  BY DEF FlagAsked
<1> HIDE DEF flag
<1>6. PICK a \in MaybeAddress : a = req'[p].address
  BY <1>1, <1>3, <1>4, UserRead
<1>7. /\ req'[p].id = u /\ a = (IF to = None THEN address[u] ELSE to)
      /\ req'[p].flag = "set" => to \in {None, seen} /\ u \in verified
  BY <1>1, <1>3, <1>4, <1>5, <1>6, UserRead DEF Arrives
<1> HIDE DEF seen
<1>8. \A v \in Ids : mistaken[v] \subseteq mistaken'[v]
  BY <1>1, <1>4 DEF TypeOK
<1>9. ASSUME req'[p].flag = "set" PROVE Trusted(u, a)'
  <2>1. u \in verified /\ Trusted(u, address[u])
    BY <1>7, <1>9 DEF AddressInv, Verified
  <2>2. CASE to \in {None, address[u]}
    BY <1>1, <1>7, <1>8, <2>1, <2>2 DEF Trusted
  <2>3. CASE to \notin {None, address[u]}
    <3>1. to \in mistaken'[u]
      BY <1>1, <1>4, <1>7, <1>9, <2>1, <2>3 DEF TypeOK
    <3>2. QED  BY <1>1, <1>7, <2>1, <2>3, <3>1 DEF Trusted
  <2>4. QED  BY <2>2, <2>3
<1>10. Writes(p)'
  BY <1>6, <1>7, <1>9 DEF Writes, Trusted
<1>11. Verified'
  BY <1>1, <1>8 DEF AddressInv, Verified, Trusted, Live, TypeOK
<1>12. QED  BY <1>1, <1>8, <1>10, <1>11, TrustGrows

LEMMA AdminTrusted ==
  ASSUME IInv, AddressInv, NEW p \in Procs, Effect(p), NEW u \in Ids, NEW to \in MaybeAddress,
         NEW flag \in Flags, UpdateByAdmin(p, u, to, flag)
  PROVE  AddressInv'
<1>1. /\ TypeOK /\ UNCHANGED <<acct, address, verified, mistaken>> /\ ReadUser(p, u, to, flag)
  BY DEF IInv, UpdateByAdmin, tables
<1>2. PICK a \in MaybeAddress : a = req'[p].address
  BY <1>1, UserRead
<1>3. /\ req'[p].id = u /\ a = (IF to = None THEN address[u] ELSE to)
      /\ req'[p].flag = "set" <=> flag = "set" \/ (flag = "keep" /\ u \in verified)
  BY <1>1, <1>2, UserRead DEF Arrives
<1>4. proven' = IF (to # None \/ flag = "set") /\ req'[p].flag = "set"
                THEN [proven EXCEPT ![u] = proven[u] \cup {a}] ELSE proven
  BY <1>1, <1>2 DEF UpdateByAdmin, TypeOK
<1>5. \A v \in Ids : proven[v] \subseteq proven'[v]
  BY <1>1, <1>4 DEF TypeOK
<1>6. ASSUME req'[p].flag = "set" PROVE Trusted(u, a)'
  <2>1. CASE to # None \/ flag = "set"
    <3>1. a \in proven'[u]
      BY <1>1, <1>4, <1>6, <2>1 DEF TypeOK
    <3>2. QED  BY <1>2, <3>1 DEF Trusted
  <2>2. CASE to = None /\ flag # "set"
    <3>1. Trusted(u, address[u]) /\ a = address[u]
      BY <1>3, <1>6, <2>2 DEF AddressInv, Verified
    <3>2. QED  BY <1>1, <1>2, <1>5, <3>1 DEF Trusted
  <2>3. QED  BY <2>1, <2>2
<1>7. Writes(p)'
  BY <1>2, <1>3, <1>6 DEF Writes, Trusted
<1>8. Verified'
  BY <1>1, <1>5 DEF AddressInv, Verified, Trusted, Live, TypeOK
<1>9. QED  BY <1>1, <1>5, <1>7, <1>8, TrustGrows

LEMMA WriteTrusted ==
  ASSUME IInv, AddressInv, NEW p \in Procs, Effect(p), UpdateUser(p)
  PROVE  AddressInv'
<1>1. TypeOK /\ At(p, "write") /\ UNCHANGED <<acct, proven, mistaken>> /\ Writes(p)
  BY DEF IInv, UpdateUser, history, AddressInv
<1>2. PICK u \in Ids, a \in MaybeAddress : u = req[p].id /\ a = req[p].address
  BY <1>1 DEF IInv, RequestsOK, Held, At, Federating, TypeOK, Request
<1>3. Writes(p)'
  BY <1>1, StepTaken DEF UpdateUser, Writes, At
<1>4. \/ /\ Live(u) /\ address' = [address EXCEPT ![u] = a]
         /\ verified' = IF req[p].flag = "set" THEN verified \cup {u} ELSE verified \ {u}
      \/ UNCHANGED <<address, verified>>
  BY <1>2 DEF UpdateUser
<1>5. Live(u) /\ req[p].flag = "set" => Trusted(u, a)
  BY <1>1, <1>2 DEF Writes
<1>6. Verified'
  BY <1>1, <1>4, <1>5 DEF AddressInv, Verified, Trusted, Live, TypeOK
<1>7. QED  BY <1>1, <1>3, <1>6, TrustGrows

LEMMA AsideElsewhere ==
  ASSUME IInv,
         \/ \E u \in Ids, table \in Tables : Purge(u, table)
         \/ \E u \in Ids : CancelDeletionRequest(u) \/ ExpireVerification(u)
         \/ Crash \/ UNCHANGED vars
  PROVE  Elsewhere
<1>1. UNCHANGED <<acct, address, verified, proven, mistaken>>
  BY DEF Purge, CancelDeletionRequest, ExpireVerification, Crash, vars, tables, history, email
<1>2. UNCHANGED req \/ req' = [p \in Procs |-> Idle]
  BY DEF Purge, CancelDeletionRequest, ExpireVerification, Crash, vars
<1>3. QED  BY <1>1, <1>2, IdleFields DEF Elsewhere, Live

LEMMA StepTrusted ==
  ASSUME IInv, AddressInv, NEW p \in Procs, Step(p)
  PROVE  AddressInv'
<1>1. Effect(p)
  BY StepEffect
<1>2. Elsewhere => AddressInv'
  BY ElsewhereKept
<1>3. QED
  BY <1>1, <1>2, ReadsElsewhere, LookUpsElsewhere, RowsElsewhere, RegistrationElsewhere,
     CreationTrusted, DeletionTrusted, LinkTrusted, OwnerTrusted, AdminTrusted, WriteTrusted
     DEF Step

LEMMA AddressInvariance == Spec => []AddressInv
<1>1. Init => AddressInv
  <2>1. ASSUME Init, NEW p \in Procs PROVE Writes(p)
    BY <2>1, IdleFields DEF Init, Writes, At
  <2>2. Init => Verified
    BY DEF Init, Verified
  <2>3. QED  BY <2>1, <2>2 DEF AddressInv
<1>2. ASSUME IInv, AddressInv, [Next]_vars PROVE AddressInv'
  <2>1. CASE \E p \in Procs : Step(p)
    BY <1>2, <2>1, StepTrusted
  <2>2. CASE ~\E p \in Procs : Step(p)
    BY <1>2, <2>2, AsideElsewhere, ElsewhereKept DEF Next
  <2>3. QED  BY <2>1, <2>2
<1>3. QED  BY <1>1, <1>2, Invariance, PTL DEF Spec

-----------------------------------------------------------------------------
\* Whatever requests do and whenever the server stops, accounts, their rows and
\* what a request holds keep their shape.
THEOREM TypesKept == Spec => []TypeOK
<1>1. IInv => TypeOK
  BY DEF IInv
<1>2. QED  BY <1>1, Invariance, PTL

\* For any number of accounts and requests, a deletion is stopped half-way only
\* by a link of the account or by a row that was inserted while it ran.
THEOREM DeletionsBlockedForReason == Spec => []DeletionBlocked
<1>1. IInv => DeletionBlocked
  BY DEF IInv, Promises
<1>2. QED  BY <1>1, Invariance, PTL

\* No registration, however late it comes to its end, deletes an account that was
\* in use when it began.
THEOREM RegistrationsKept == Spec => []RegistrationKept
<1>1. IInv => RegistrationKept
  BY DEF IInv, Promises
<1>2. QED  BY <1>1, Invariance, PTL

\* Whoever has a verified address has opened a link mailed to it, or an administrator
\* vouches for it; or it got the flag by a link that was mailed elsewhere, or kept it
\* by an update that compared with an address that was no longer in the row.
THEOREM AddressesProven == Spec => []VerifiedProven
<1>1. AddressInv => VerifiedProven
  BY DEF AddressInv, Verified, Trusted, VerifiedProven
<1>2. QED  BY <1>1, AddressInvariance, PTL

\* An account that was made for an identity has one, or is about to, until it is
\* removed or a statement fails.
THEOREM IdentitiesLinked == Spec => []FederatedUserLinked
<1>1. IInv => FederatedUserLinked
  BY DEF IInv
<1>2. QED  BY <1>1, Invariance, PTL
=============================================================================
