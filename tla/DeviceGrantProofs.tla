------------------------- MODULE DeviceGrantProofs -------------------------
(***************************************************************************)
(* The device grant, composed with the token endpoint, is an               *)
(* implementation of the token endpoint: every property proved there holds *)
(* of the composition, and the approval of a user is what is redeemed.     *)
(***************************************************************************)
EXTENDS DeviceGrant, TokenEndpointProofs

USE IntervalAssumption, DeviceAssumption

(***************************************************************************)
(* Updates of one request or one row keep their shape.                     *)
(***************************************************************************)
\* Going on to the next statement, and ending a request, keep its shape.
LEMMA PollUpdate ==
  ASSUME poll \in [Procs -> Poll], NEW p \in Procs
  PROVE  /\ \A step \in PollSteps : PollTo(p, step) => poll' \in [Procs -> Poll]
         /\ PollEnds(p) => poll' \in [Procs -> Poll]
  BY DEF PollTo, PollEnds, Poll, PollSteps, NoPoll

\* Ending one request, or going on with it, leaves the others alone.
LEMMA OtherPolls ==
  ASSUME poll \in [Procs -> Poll], NEW p \in Procs, NEW q \in Procs, q # p
  PROVE  /\ \A step : PollTo(p, step) => poll'[q] = poll[q]
         /\ PollEnds(p) => poll'[q] = poll[q]
         /\ \A r : StartPoll(p, r) => poll'[q] = poll[q]
  BY DEF PollTo, PollEnds, StartPoll

\* The conditional UPDATEs change one row, and only while it is in the state
\* their WHERE clause asks for.
LEMMA StatusUpdate ==
  ASSUME device \in [Devices -> DeviceRow], NEW d \in Devices, NEW from, NEW row \in DeviceRow,
         SetStatus(d, from, row)
  PROVE  /\ device' \in [Devices -> DeviceRow]
         /\ \A e \in Devices : \/ device'[e] = device[e]
                               \/ e = d /\ device[d].st = from /\ device'[d] = row
  BY DEF SetStatus

(***************************************************************************)
(* What a step does to the rows of device_codes.                           *)
(***************************************************************************)
RowMoved(d) ==
  /\ device[d].st # "free" => device'[d].st # "free"
  /\ device[d].st \notin {"free", "pending"} => device'[d].user = device[d].user
  /\ device[d].st = "authorized" => device'[d].st \in {"authorized", "consumed", "deleted"}
  /\ device[d].st = "denied" => device'[d].st \in {"denied", "deleted"}
  /\ device[d].st = "consumed" => device'[d].st \in {"consumed", "deleted"}
  /\ device[d].st = "deleted" => device'[d].st = "deleted"
  /\ device'[d].st \in {"authorized", "consumed"} => device'[d].user # None

Undeleted(d) == device'[d].st # "deleted" \/ device[d].st = "deleted"

\* An approved row is a row, of the user who approved it.
LEMMA RowApproved ==
  ASSUME NEW r \in DeviceRow, NEW u \in Users
  PROVE  LET row == [r EXCEPT !.st = "authorized", !.user = u]
         IN  row \in DeviceRow /\ row.user = u /\ row.st = "authorized"
  BY DEF DeviceRow

\* A poll and an account request move a row along its life cycle: pending,
\* then one answer, then consumed; none of them deletes it.
LEMMA RequestRows ==
  ASSUME DeviceTypeOK, PollsAgree, RowsApproved, NEW p \in Procs, PollStep(p) \/ AccountStepOf(p)
  PROVE  /\ device' \in [Devices -> DeviceRow]
         /\ \A d \in Devices : RowMoved(d) /\ Undeleted(d)
<1> USE DEF DeviceTypeOK, RowMoved, Undeleted, RowsApproved
<1>1. CASE UNCHANGED device
  BY <1>1
<1>2. CASE SlowDown(p)
  <2> DEFINE d == poll[p].device
  <2>1. CASE device' = [device EXCEPT ![d].interval = @ + 1]
    <3>1. ASSUME NEW e \in Devices
          PROVE  /\ device'[e].st = device[e].st /\ device'[e].user = device[e].user
                 /\ device'[e] \in DeviceRow
      BY <2>1 DEF DeviceRow
    <3>2. device' \in [Devices -> DeviceRow]
      BY <2>1, <3>1
    <3>3. QED  BY <3>1, <3>2
  <2>2. QED  BY <1>1, <1>2, <2>1 DEF SlowDown
<1>3. CASE ConsumeDeviceCode(p)
  <2> DEFINE d == poll[p].device
             row == [device[d] EXCEPT !.st = "consumed"]
  <2>1. d \in Devices
    BY <1>3 DEF ConsumeDeviceCode, Polling, PollsAgree, PollAgrees, Poll
  <2>2. row \in DeviceRow /\ row.user = device[d].user /\ row.st = "consumed"
    BY <2>1 DEF DeviceRow
  <2>3. device' = device \/ SetStatus(d, "authorized", row)
    BY <1>3 DEF ConsumeDeviceCode
  <2> HIDE DEF row
  <2>4. QED  BY <1>1, <2>1, <2>2, <2>3, StatusUpdate
<1>4. CASE AuthorizeDeviceCode(p)
  <2> DEFINE d == poll[p].device
             row == [device[d] EXCEPT !.st = "authorized", !.user = poll[p].user]
  <2>1. d \in Devices /\ poll[p].user \in Users
    <3>1. poll[p].step = "approve" /\ PollAgrees(p)
      BY <1>4 DEF AuthorizeDeviceCode, Polling, PollsAgree
    <3>2. d # None /\ poll[p].user # None
      BY <3>1 DEF PollAgrees
    <3>3. poll[p] \in Poll
      OBVIOUS
    <3>4. QED  BY <3>2, <3>3 DEF Poll
  <2>2. row \in DeviceRow /\ row.user = poll[p].user /\ row.st = "authorized"
    <3>1. device[d] \in DeviceRow
      BY <2>1
    <3>2. QED  BY <2>1, <3>1, RowApproved
  <2>3. SetStatus(d, "pending", row)
    BY <1>4 DEF AuthorizeDeviceCode
  <2> HIDE DEF row
  <2>4. /\ device' \in [Devices -> DeviceRow]
        /\ \A e \in Devices : \/ device'[e] = device[e]
                              \/ /\ device[e].st = "pending" /\ device'[e].st = "authorized"
                                 /\ device'[e].user = poll[p].user
    BY <2>1, <2>2, <2>3, StatusUpdate
  <2>5. poll[p].user # None
    BY <2>1, NoneAssumption
  <2>6. QED  BY <2>4, <2>5
<1>5. CASE DenyDeviceCode(p)
  <2> DEFINE d == poll[p].device
             row == [device[d] EXCEPT !.st = "denied"]
  <2>1. d \in Devices
    BY <1>5 DEF DenyDeviceCode, Polling, PollsAgree, PollAgrees, Poll
  <2>2. row \in DeviceRow /\ row.st = "denied"
    BY <2>1 DEF DeviceRow
  <2>3. SetStatus(d, "pending", row)
    BY <1>5 DEF DenyDeviceCode
  <2> HIDE DEF row
  <2>4. /\ device' \in [Devices -> DeviceRow]
        /\ \A e \in Devices : \/ device'[e] = device[e]
                              \/ device[e].st = "pending" /\ device'[e].st = "denied"
    BY <2>1, <2>2, <2>3, StatusUpdate
  <2>5. QED  BY <2>4
<1>6. QED
  BY <1>1, <1>2, <1>3, <1>4, <1>5 DEF PollStep, AccountStepOf, PollStamp, LoadDeviceUser, Issue,
     AccountRead, AccountFails

\* Every step moves rows along their life cycle, and deletes none that a
\* request holds.
LEMMA DeviceRowsStep ==
  ASSUME DeviceTypeOK, PollsAgree, RowsApproved, [DeviceNext]_allVars
  PROVE  /\ device' \in [Devices -> DeviceRow]
         /\ \A d \in Devices : RowMoved(d)
         /\ \A d \in Devices : Undeleted(d) \/ \A p \in Procs : poll[p].device # d
<1> USE DEF DeviceTypeOK, RowMoved, Undeleted, RowsApproved
<1>1. CASE UNCHANGED device
  BY <1>1
<1>2. ASSUME NEW d \in Devices, CreateDeviceCode(d)
      PROVE  /\ device' \in [Devices -> DeviceRow]
             /\ \A e \in Devices : RowMoved(e) /\ Undeleted(e)
  <2>1. /\ device[d].st = "free" /\ \A e \in Devices : e # d => device'[e] = device[e]
        /\ device'[d] = [st |-> "pending", user |-> None, interval |-> BaseInterval]
    BY <1>2 DEF CreateDeviceCode
  <2>2. device' \in [Devices -> DeviceRow]
    BY <1>2 DEF CreateDeviceCode, DeviceRow
  <2>3. QED  BY <2>1, <2>2
<1>3. CASE SweepDeviceCodes
  BY <1>3 DEF SweepDeviceCodes, DeviceExists, DeviceRow
<1>4. QED
  BY <1>1, <1>2, <1>3, RequestRows DEF DeviceNext, allVars, deviceVars, PollRead, AccountRequest,
     DeviceTime, IntervalPasses, DeviceCodeExpires, DeviceCrash, ElsewhereStep

(***************************************************************************)
(* Every step of the composition is a step of the token endpoint or none.  *)
(***************************************************************************)
LEMMA Simulation ==
  ASSUME DeviceTypeOK, PollsAgree, [DeviceNext]_allVars
  PROVE  [Next]_vars
<1>1. CASE UNCHANGED vars
  BY <1>1
<1>2. ASSUME NEW p \in Procs, LoadDeviceUser(p)  PROVE [Next]_vars
  <2>1. poll[p].user \in Users
    BY <1>2 DEF LoadDeviceUser, Polling, PollsAgree, PollAgrees, DeviceTypeOK, Poll
  <2>2. CASE DirectGrant(p, poll[p].user)
    BY <2>1, <2>2 DEF Next, RequestStart
  <2>3. QED  BY <1>1, <1>2, <2>2 DEF LoadDeviceUser
<1>3. ASSUME NEW p \in Procs, Issue(p)  PROVE [Next]_vars
  <2>1. (\E g \in Grants : CreateToken(p, g)) \/ CreateSession(p) \/ FatalError(p)
    BY <1>3 DEF Issue
  <2>2. QED  BY <2>1 DEF Next, RequestStep
<1>4. CASE DeviceCrash
  BY <1>4 DEF DeviceCrash, Next
<1>5. CASE ElsewhereStep
  BY <1>5 DEF ElsewhereStep, Next
<1>6. QED
  BY <1>1, <1>2, <1>3, <1>4, <1>5 DEF DeviceNext, allVars, CreateDeviceCode, PollRead,
     AccountRequest, PollStep, PollStamp, SlowDown, ConsumeDeviceCode, AccountStepOf, AccountRead,
     AuthorizeDeviceCode, DenyDeviceCode, AccountFails, DeviceTime, IntervalPasses,
     DeviceCodeExpires, SweepDeviceCodes

(***************************************************************************)
(* Type correctness.                                                       *)
(***************************************************************************)
\* The polls keep their shape.
LEMMA PollTypes ==
  ASSUME DeviceTypeOK, RowsAgree, [DeviceNext]_allVars
  PROVE  poll' \in [Procs -> Poll]
<1> USE DEF DeviceTypeOK
<1>1. CASE UNCHANGED poll
  BY <1>1
<1>2. ASSUME NEW p \in Procs, NEW d \in Devices, PollRead(p, d)
      PROVE  poll' \in [Procs -> Poll]
  BY <1>2 DEF PollRead, StartPoll, DeviceExists, DeviceRow, Poll, PollSteps
<1>3. ASSUME NEW p \in Procs, NEW g \in Grants, NEW d \in Devices, AccountRequest(p, g, d)
      PROVE  poll' \in [Procs -> Poll]
  <2>1. session[g].user \in Users
    BY <1>3 DEF AccountRequest, Live, RowsAgree
  <2>2. PICK step \in {"readPending", "readToDeny"} :
          StartPoll(p, [NoPoll EXCEPT !.step = step, !.device = d, !.user = session[g].user])
    BY <1>3 DEF AccountRequest
  <2>3. [NoPoll EXCEPT !.step = step, !.device = d, !.user = session[g].user] \in Poll
    BY <2>1 DEF NoPoll, Poll, PollSteps
  <2>4. QED  BY <2>2, <2>3 DEF StartPoll
<1>4. ASSUME NEW p \in Procs, PollEnds(p) \/ \E step \in PollSteps : PollTo(p, step)
      PROVE  poll' \in [Procs -> Poll]
  BY <1>4, PollUpdate
<1>5. ASSUME NEW p \in Procs, PollStep(p) \/ AccountStepOf(p)
      PROVE  UNCHANGED poll \/ PollEnds(p) \/ \E step \in PollSteps : PollTo(p, step)
  BY <1>5 DEF PollStep, PollStamp, SlowDown, LoadDeviceUser, ConsumeDeviceCode, Issue,
     AccountStepOf, AccountRead, AuthorizeDeviceCode, DenyDeviceCode, AccountFails, PollSteps
<1>6. CASE DeviceCrash
  BY <1>6 DEF DeviceCrash, NoPoll, Poll, PollSteps
<1>7. QED
  BY <1>1, <1>2, <1>3, <1>4, <1>5, <1>6 DEF DeviceNext, allVars, deviceVars, CreateDeviceCode,
     DeviceTime, IntervalPasses, DeviceCodeExpires, SweepDeviceCodes, ElsewhereStep

\* So do the other variables of the module.
LEMMA DeviceTypeStep ==
  ASSUME DeviceTypeOK, RowsAgree, PollsAgree, RowsApproved, [DeviceNext]_allVars
  PROVE  DeviceTypeOK'
<1> USE DEF DeviceTypeOK
<1>1. ASSUME NEW p \in Procs, poll[p].step # "idle"  PROVE poll[p].device \in Devices
  BY <1>1 DEF PollsAgree, PollAgrees, Poll
<1>2. recent' \subseteq Devices /\ overdue' \subseteq Devices /\ unspent' \subseteq Devices
  BY <1>1 DEF DeviceNext, allVars, deviceVars, deviceHistory, CreateDeviceCode, PollRead,
     AccountRequest, PollStep, PollStamp, SlowDown, LoadDeviceUser, ConsumeDeviceCode, Issue,
     AccountStepOf, AccountRead, AuthorizeDeviceCode, DenyDeviceCode, AccountFails, DeviceTime,
     IntervalPasses, DeviceCodeExpires, SweepDeviceCodes, DeviceCrash, ElsewhereStep, Polling
<1>3. issuedTo' \in [Grants -> Devices \cup {None}] /\ slowDowns' \in [Devices -> Nat]
  <2>1. ASSUME NEW p \in Procs, Issue(p)
        PROVE  issuedTo' \in [Grants -> Devices \cup {None}] /\ slowDowns' = slowDowns
    BY <1>1, <2>1 DEF Issue, Polling
  <2>2. ASSUME NEW p \in Procs, SlowDown(p)
        PROVE  slowDowns' \in [Devices -> Nat] /\ issuedTo' = issuedTo
    BY <2>2 DEF SlowDown
  <2>3. QED
    BY <2>1, <2>2 DEF DeviceNext, allVars, deviceVars, deviceHistory, CreateDeviceCode, PollRead,
       AccountRequest, PollStep, PollStamp, LoadDeviceUser, ConsumeDeviceCode, AccountStepOf,
       AccountRead, AuthorizeDeviceCode, DenyDeviceCode, AccountFails, DeviceTime, IntervalPasses,
       DeviceCodeExpires, SweepDeviceCodes, DeviceCrash, ElsewhereStep
<1>4. QED  BY <1>2, <1>3, DeviceRowsStep, PollTypes

(***************************************************************************)
(* What a device request relies on between two of its statements.          *)
(***************************************************************************)
\* Only its own statements and a restart change what a request holds.
LEMMA PollChange ==
  ASSUME DeviceTypeOK, [DeviceNext]_allVars, NEW p \in Procs
  PROVE  \/ poll'[p] = poll[p] \/ poll'[p] = NoPoll
         \/ \E d \in Devices : PollRead(p, d)
         \/ \E g \in Grants, d \in Devices : AccountRequest(p, g, d)
         \/ PollStamp(p) \/ LoadDeviceUser(p) \/ ConsumeDeviceCode(p) \/ AccountRead(p)
<1> USE DEF DeviceTypeOK
<1>1. CASE UNCHANGED poll
  BY <1>1
<1>2. ASSUME NEW q \in Procs, NEW d \in Devices, PollRead(q, d), q # p  PROVE poll'[p] = poll[p]
  BY <1>2, OtherPolls DEF PollRead
<1>3. ASSUME NEW q \in Procs, NEW g \in Grants, NEW d \in Devices, AccountRequest(q, g, d), q # p
      PROVE  poll'[p] = poll[p]
  BY <1>3, OtherPolls DEF AccountRequest
<1>4. ASSUME NEW q \in Procs, PollStep(q) \/ AccountStepOf(q), q # p  PROVE poll'[p] = poll[p]
  BY <1>4, OtherPolls DEF PollStep, PollStamp, SlowDown, LoadDeviceUser, ConsumeDeviceCode, Issue,
     AccountStepOf, AccountRead, AuthorizeDeviceCode, DenyDeviceCode, AccountFails
<1>5. ASSUME PollStep(p) \/ AccountStepOf(p)
      PROVE  \/ poll'[p] = poll[p] \/ poll'[p] = NoPoll
             \/ PollStamp(p) \/ LoadDeviceUser(p) \/ ConsumeDeviceCode(p) \/ AccountRead(p)
  BY <1>5 DEF PollStep, SlowDown, Issue, AccountStepOf, AuthorizeDeviceCode, DenyDeviceCode,
     AccountFails, PollEnds
<1>6. CASE DeviceCrash
  BY <1>6 DEF DeviceCrash
<1>7. QED
  BY <1>1, <1>2, <1>3, <1>4, <1>5, <1>6 DEF DeviceNext, allVars, deviceVars, CreateDeviceCode,
     DeviceTime, IntervalPasses, DeviceCodeExpires, SweepDeviceCodes, ElsewhereStep

\* While a poll has a grant to issue, its request keeps the user it loaded.
LEMMA RequestHeld ==
  ASSUME IInv, DeviceTypeOK, [DeviceNext]_allVars, NEW p \in Procs,
         poll[p].step \in {"consume", "issue"}
  PROVE  req'[p].user = req[p].user \/ poll'[p] = NoPoll
<1> USE DEF DeviceTypeOK
<1>1. CASE UNCHANGED vars
  BY <1>1 DEF vars, requests
<1>2. ASSUME NEW q \in Procs, LoadDeviceUser(q), ~UNCHANGED vars  PROVE req'[p] = req[p]
  <2>1. q # p /\ DirectGrant(q, poll[q].user)
    BY <1>2 DEF LoadDeviceUser, Polling
  <2>2. QED  BY <2>1 DEF DirectGrant, Start, IInv, TypeOK
<1>3. ASSUME NEW q \in Procs, Issue(q)  PROVE req'[p].user = req[p].user \/ poll'[p] = NoPoll
  <2>1. ASSUME NEW g \in Grants, CreateToken(q, g)  PROVE req'[p].user = req[p].user
    BY <2>1 DEF CreateToken, IInv, TypeOK, Request
  <2>2. CASE (CreateSession(q) \/ FatalError(q)) /\ PollEnds(q)
    BY <2>2 DEF CreateSession, FatalError, Respond, PollEnds, IInv, TypeOK
  <2>3. QED  BY <1>3, <2>1, <2>2 DEF Issue
<1>4. CASE DeviceCrash
  BY <1>4 DEF DeviceCrash
<1>5. CASE ElsewhereStep
  <2>1. ASSUME NEW q \in Procs, Polling(q, "idle"), RequestStart(q) \/ RequestStep(q)
        PROVE  RequestKept(p)
    BY <2>1, OthersKept DEF Polling, IInv
  <2>2. ASSUME NEW u \in Users, AccountStart(u) \/ AccountStep(u)  PROVE UNCHANGED requests
    BY <2>2, AccountFrame DEF IInv
  <2>3. ASSUME Revocation \/ Clock \/ Sweep  PROVE UNCHANGED requests
    BY <2>3, RevocationFrame, ClockFrame, SweepFrame DEF IInv
  <2>4. QED  BY <1>5, <2>1, <2>2, <2>3 DEF ElsewhereStep, RequestKept, requests
<1>6. QED
  BY <1>1, <1>2, <1>3, <1>4, <1>5 DEF DeviceNext, allVars, CreateDeviceCode, PollRead,
     AccountRequest, PollStep, PollStamp, SlowDown, ConsumeDeviceCode, AccountStepOf, AccountRead,
     AuthorizeDeviceCode, DenyDeviceCode, AccountFails, DeviceTime, IntervalPasses,
     DeviceCodeExpires, SweepDeviceCodes

\* A failed ConsumeDeviceCode stays on record.
LEMMA UnspentGrows == [DeviceNext]_allVars => unspent \subseteq unspent'
  BY DEF DeviceNext, allVars, deviceVars, deviceHistory, CreateDeviceCode, PollRead, AccountRequest,
     PollStep, PollStamp, SlowDown, LoadDeviceUser, ConsumeDeviceCode, Issue, AccountStepOf,
     AccountRead, AuthorizeDeviceCode, DenyDeviceCode, AccountFails, DeviceTime, IntervalPasses,
     DeviceCodeExpires, SweepDeviceCodes, DeviceCrash, ElsewhereStep

\* What a request that changes nothing relies on stays true whatever the others do.
LEMMA HeldAgrees ==
  ASSUME IInv, DeviceInv, DeviceTypeOK', [DeviceNext]_allVars, NEW p \in Procs,
         poll'[p] = poll[p]
  PROVE  PollAgrees(p)'
<1> DEFINE q == poll[p]
<1>1. SUFFICES ASSUME q.step # "idle"  PROVE PollAgrees(p)'
  BY DEF PollAgrees
<1>2. PollAgrees(p) /\ q.device \in Devices
  BY <1>1 DEF DeviceInv, PollsAgree, PollAgrees, DeviceTypeOK, Poll
<1>3. RowMoved(q.device) /\ Undeleted(q.device)
  BY <1>2, DeviceRowsStep DEF DeviceInv
<1>4. unspent \subseteq unspent'
  BY UnspentGrows
<1>5. q.step \in {"consume", "issue"} => req'[p].user = req[p].user
  BY <1>1, RequestHeld DEF DeviceInv, NoPoll
<1>6. QED
  BY <1>1, <1>2, <1>3, <1>4, <1>5 DEF PollAgrees, RowMoved, Undeleted

\* What a request has just read is true of the row it read.
LEMMA PollsAgreeStep ==
  ASSUME IInv, DeviceInv, DeviceTypeOK', [DeviceNext]_allVars
  PROVE  PollsAgree'
<1>1. SUFFICES ASSUME NEW p \in Procs, poll'[p].step # "idle", poll'[p] # poll[p]
               PROVE  PollAgrees(p)'
  BY HeldAgrees DEF PollsAgree, PollAgrees
<1> DEFINE q == poll[p]
<1> USE DEF DeviceInv, DeviceTypeOK
<1>2. ASSUME NEW d \in Devices, PollRead(p, d)  PROVE PollAgrees(p)'
  <2>1. /\ poll'[p].device = d /\ poll'[p].step \in {"stampSlow", "stamp"}
        /\ poll'[p].st = device[d].st /\ poll'[p].user = device[d].user
        /\ UNCHANGED device
    BY <1>2 DEF PollRead, StartPoll
  <2>2. device[d].st # "free"
    BY <1>2 DEF PollRead, DeviceExists
  <2>3. QED
    BY <2>1, <2>2, DeviceAssumption DEF PollAgrees, RowsApproved
<1>3. ASSUME NEW g \in Grants, NEW d \in Devices, AccountRequest(p, g, d)
      PROVE  PollAgrees(p)'
  <2>1. session[g].user \in Users
    BY <1>3 DEF AccountRequest, Live, IInv, RowsAgree
  <2>2. /\ poll'[p].device = d /\ poll'[p].step \in {"readPending", "readToDeny"}
        /\ poll'[p].st = "free" /\ poll'[p].user = session[g].user
    BY <1>3 DEF AccountRequest, StartPoll, NoPoll
  <2>3. session[g].user # None
    BY <2>1, NoneAssumption
  <2>4. QED  BY <2>2, <2>3, DeviceAssumption DEF PollAgrees
<1>4. ASSUME NEW step \in PollSteps, PollTo(p, step)
      PROVE  /\ poll'[p].step = step /\ poll'[p].device = q.device
             /\ poll'[p].user = q.user /\ poll'[p].st = q.st
  BY <1>4 DEF PollTo, Poll
<1>5. PollAgrees(p)
  BY DEF PollsAgree
<1>6. CASE PollStamp(p)
  <2>1. /\ UNCHANGED device
        /\ \/ Polling(p, "stampSlow") /\ PollTo(p, "slow")
           \/ Polling(p, "stamp") /\ q.st = "authorized" /\ PollTo(p, "loadUser")
    BY <1>1, <1>6 DEF PollStamp, PollEnds, NoPoll
  <2>2. QED  BY <1>4, <1>5, <2>1 DEF PollAgrees, Polling, PollSteps
<1>7. CASE LoadDeviceUser(p)
  <2>1. /\ UNCHANGED device /\ Polling(p, "loadUser") /\ PollTo(p, "consume")
        /\ DirectGrant(p, q.user)
    BY <1>1, <1>7 DEF LoadDeviceUser, PollEnds, NoPoll
  <2>2. req'[p].user = q.user
    BY <2>1 DEF DirectGrant, Start, NoRequest, IInv, TypeOK
  <2>3. QED  BY <1>4, <1>5, <2>1, <2>2 DEF PollAgrees, Polling, PollSteps
<1>8. CASE ConsumeDeviceCode(p)
  <2> DEFINE d == q.device
  <2>1. /\ Polling(p, "consume") /\ PollTo(p, "issue") /\ UNCHANGED vars
        /\ \/ SetStatus(d, "authorized", [device[d] EXCEPT !.st = "consumed"])
           \/ d \in unspent' /\ UNCHANGED device
    BY <1>8 DEF ConsumeDeviceCode
  <2>2. d \in Devices /\ device[d].st \in {"authorized", "consumed"} /\ device[d].user = q.user
    BY <1>5, <2>1 DEF PollAgrees, Polling, Poll
  <2>3. /\ device'[d].st \in {"authorized", "consumed"} /\ device'[d].user = device[d].user
        /\ device'[d].st = "consumed" \/ d \in unspent'
    BY <2>1, <2>2 DEF SetStatus, DeviceRow
  <2>4. req' = req
    BY <2>1 DEF vars, requests
  <2>5. QED  BY <1>4, <1>5, <2>1, <2>2, <2>3, <2>4 DEF PollAgrees, Polling, PollSteps
<1>9. CASE AccountRead(p)
  <2>1. /\ UNCHANGED device
        /\ \/ Polling(p, "readPending") /\ PollTo(p, "approve")
           \/ Polling(p, "readToDeny") /\ PollTo(p, "deny")
    BY <1>1, <1>9 DEF AccountRead, PollEnds, NoPoll
  <2>2. QED  BY <1>4, <1>5, <2>1 DEF PollAgrees, Polling, PollSteps
<1>10. QED
  BY <1>1, <1>2, <1>3, <1>6, <1>7, <1>8, <1>9, PollChange DEF NoPoll

(***************************************************************************)
(* Grants issued to a device.                                              *)
(***************************************************************************)
Issues(p, g) ==
  /\ Polling(p, "issue") /\ CreateToken(p, g)
  /\ issuedTo'[g] = poll[p].device /\ UNCHANGED <<device, unspent>>

\* A grant is issued to a device by the INSERT of a poll that has consumed its code.
LEMMA IssuedChange ==
  ASSUME DeviceTypeOK, [DeviceNext]_allVars, NEW g \in Grants
  PROVE  issuedTo'[g] = issuedTo[g] \/ \E p \in Procs : Issues(p, g)
<1>1. ASSUME NEW p \in Procs, Issue(p)
      PROVE  issuedTo'[g] = issuedTo[g] \/ Issues(p, g)
  BY <1>1 DEF Issue, Issues, DeviceTypeOK
<1>2. QED
  BY <1>1 DEF DeviceNext, allVars, deviceVars, deviceHistory, CreateDeviceCode, PollRead,
     AccountRequest, PollStep, PollStamp, SlowDown, LoadDeviceUser, ConsumeDeviceCode,
     AccountStepOf, AccountRead, AuthorizeDeviceCode, DenyDeviceCode, AccountFails, DeviceTime,
     IntervalPasses, DeviceCodeExpires, SweepDeviceCodes, DeviceCrash, ElsewhereStep

\* A tokens row that was inserted keeps its user.
LEMMA TokenUserKept ==
  ASSUME TypeOK, [Next]_vars, NEW g \in Grants, token[g].st # "free"
  PROVE  token'[g].st # "free" /\ token'[g].user = token[g].user
<1>1. TokenKept(g) \/ \E p \in Procs : CreateToken(p, g)
  BY StepFrame DEF Frame, TokensFrame
<1>2. QED  BY <1>1 DEF TokenKept, CreateToken

\* The three facts about a grant issued to a device survive every step.
LEMMA IssuedStep ==
  ASSUME IInv, DeviceInv, DeviceTypeOK', [DeviceNext]_allVars
  PROVE  IssuedRows' /\ DeviceGrantApproved' /\ DeviceCodeSpent'
<1> USE DEF DeviceInv
<1>1. SUFFICES ASSUME NEW g \in Grants, issuedTo'[g] # None
               PROVE  LET d == issuedTo'[g]
                      IN  /\ token'[g].st # "free"
                          /\ device'[d].st \in {"authorized", "consumed", "deleted"}
                          /\ device'[d].user = token'[g].user
                          /\ device'[d].st \in {"consumed", "deleted"} \/ d \in unspent'
  BY DEF IssuedRows, DeviceGrantApproved, DeviceCodeSpent
<1>2. [Next]_vars /\ TypeOK
  BY Simulation DEF IInv
<1>3. CASE issuedTo'[g] = issuedTo[g]
  <2> DEFINE d == issuedTo[g]
  <2>1. d \in Devices
    BY <1>1, <1>3 DEF DeviceTypeOK
  <2>2. RowMoved(d)
    BY <2>1, DeviceRowsStep
  <2>3. token'[g].st # "free" /\ token'[g].user = token[g].user
    BY <1>1, <1>2, <1>3, TokenUserKept DEF IssuedRows
  <2>4. QED
    BY <1>1, <1>3, <2>2, <2>3, UnspentGrows
       DEF DeviceGrantApproved, DeviceCodeSpent, RowMoved
<1>4. ASSUME NEW p \in Procs, Issues(p, g)
      PROVE  LET d == issuedTo'[g]
             IN  /\ token'[g].st # "free"
                 /\ device'[d].st \in {"authorized", "consumed", "deleted"}
                 /\ device'[d].user = token'[g].user
                 /\ device'[d].st \in {"consumed", "deleted"} \/ d \in unspent'
  <2>1. token'[g].st = "valid" /\ token'[g].user = req[p].user
    BY <1>2, <1>4 DEF Issues, CreateToken, TypeOK, TablesType
  <2>2. PollAgrees(p)
    BY DEF PollsAgree
  <2>3. QED
    BY <1>4, <2>1, <2>2 DEF Issues, Polling, PollAgrees
<1>5. QED  BY <1>3, <1>4, IssuedChange

\* The count of slow_down answers and the interval go up together.
LEMMA SlowDownsStep ==
  ASSUME DeviceInv, [DeviceNext]_allVars
  PROVE  SlowDownsCounted' /\ FreshRows'
<1> USE DEF DeviceInv, DeviceTypeOK
<1> DEFINE Same(d) == /\ slowDowns'[d] = slowDowns[d]
                      /\ device'[d].interval = device[d].interval
                      /\ device[d].st = "free" <=> device'[d].st = "free"
<1>1. ASSUME \A d \in Devices : Same(d)
      PROVE  SlowDownsCounted' /\ FreshRows'
  BY <1>1 DEF SlowDownsCounted, FreshRows
<1>2. ASSUME NEW d \in Devices, NEW from, NEW row, SetStatus(d, from, row), from # "free",
             row.interval = device[d].interval, row.st # "free", UNCHANGED slowDowns
      PROVE  \A e \in Devices : Same(e)
  BY <1>2 DEF SetStatus
<1>3. ASSUME NEW p \in Procs, poll[p].step # "idle"
      PROVE  poll[p].device \in Devices /\ device[poll[p].device] \in DeviceRow
  BY <1>3 DEF PollsAgree, PollAgrees, Poll
<1>4. ASSUME NEW d \in Devices, CreateDeviceCode(d)  PROVE SlowDownsCounted' /\ FreshRows'
  <2>1. /\ device'[d].interval = BaseInterval /\ device'[d].st = "pending"
        /\ slowDowns[d] = 0 /\ UNCHANGED slowDowns
    BY <1>4 DEF CreateDeviceCode, deviceHistory, FreshRows
  <2>2. \A e \in Devices : e # d => device'[e] = device[e]
    BY <1>4 DEF CreateDeviceCode
  <2>3. QED  BY <2>1, <2>2 DEF SlowDownsCounted, FreshRows
<1>5. ASSUME NEW p \in Procs, SlowDown(p)  PROVE SlowDownsCounted' /\ FreshRows'
  <2> DEFINE d == poll[p].device
  <2>1. d \in Devices /\ device[d] \in DeviceRow
    BY <1>3, <1>5 DEF SlowDown, Polling
  <2>2. device[d].st # "free"
    BY <1>5 DEF SlowDown, Polling, PollsAgree, PollAgrees
  <2>3. CASE /\ device' = [device EXCEPT ![d].interval = @ + 1]
             /\ slowDowns' = [slowDowns EXCEPT ![d] = @ + 1]
    <3>1. /\ device'[d].interval = device[d].interval + 1 /\ device'[d].st = device[d].st
          /\ slowDowns'[d] = slowDowns[d] + 1
      BY <2>1, <2>3 DEF DeviceRow
    <3>2. device[d].interval = BaseInterval + slowDowns[d]
      BY <2>1, <2>2 DEF SlowDownsCounted
    <3>3. device'[d].interval = BaseInterval + slowDowns'[d]
      BY <2>1, <3>1, <3>2 DEF DeviceRow
    <3>4. \A e \in Devices : e # d => Same(e)
      BY <2>3
    <3>5. QED  BY <2>2, <3>1, <3>3, <3>4 DEF SlowDownsCounted, FreshRows
  <2>4. CASE UNCHANGED <<device, slowDowns>>
    BY <1>1, <2>4
  <2>5. QED  BY <1>5, <2>3, <2>4 DEF SlowDown
<1>6. ASSUME NEW p \in Procs, ConsumeDeviceCode(p) \/ AuthorizeDeviceCode(p) \/ DenyDeviceCode(p)
      PROVE  \A e \in Devices : Same(e)
  <2> DEFINE d == poll[p].device
  <2>1. d \in Devices /\ device[d] \in DeviceRow /\ UNCHANGED slowDowns
    BY <1>3, <1>6 DEF ConsumeDeviceCode, AuthorizeDeviceCode, DenyDeviceCode, Polling, deviceHistory
  <2>2. CASE ConsumeDeviceCode(p)
    BY <1>2, <2>1, <2>2 DEF ConsumeDeviceCode, DeviceRow
  <2>3. CASE AuthorizeDeviceCode(p)
    <3> DEFINE row == [device[d] EXCEPT !.st = "authorized", !.user = poll[p].user]
    <3>1. row.interval = device[d].interval /\ row.st = "authorized"
      BY <2>1 DEF DeviceRow
    <3>2. SetStatus(d, "pending", row)
      BY <2>3 DEF AuthorizeDeviceCode
    <3> HIDE DEF row, d
    <3>3. QED  BY <1>2, <2>1, <3>1, <3>2
  <2>4. CASE DenyDeviceCode(p)
    BY <1>2, <2>1, <2>4 DEF DenyDeviceCode, DeviceRow
  <2>5. QED  BY <1>6, <2>2, <2>3, <2>4
<1>7. CASE SweepDeviceCodes
  <2>1. \A d \in Devices : Same(d)
    BY <1>7 DEF SweepDeviceCodes, deviceHistory, DeviceExists, DeviceRow
  <2>2. QED  BY <1>1, <2>1
<1>8. CASE UNCHANGED <<device, slowDowns>>
  BY <1>1, <1>8
<1>9. QED
  BY <1>1, <1>4, <1>5, <1>6, <1>7, <1>8 DEF DeviceNext, allVars, deviceVars, deviceHistory, PollRead,
     AccountRequest, PollStep, PollStamp, LoadDeviceUser, Issue, AccountStepOf, AccountRead,
     AccountFails, DeviceTime, IntervalPasses, DeviceCodeExpires, DeviceCrash, ElsewhereStep

\* An approved row keeps the user who approved it.
LEMMA RowsApprovedStep ==
  ASSUME DeviceInv, DeviceTypeOK', [DeviceNext]_allVars
  PROVE  RowsApproved'
<1>1. SUFFICES ASSUME NEW d \in Devices, device'[d].st \in {"authorized", "consumed"}
               PROVE  device'[d].user # None
  BY DEF RowsApproved
<1>2. RowMoved(d)
  BY DeviceRowsStep DEF DeviceInv
<1>3. QED  BY <1>1, <1>2 DEF DeviceInv, RowsApproved, RowMoved

(***************************************************************************)
(* The theorems.                                                           *)
(***************************************************************************)
\* With empty tables and no request under way the invariants hold.
LEMMA DeviceInitInv == DeviceInit => IInv /\ DeviceInv
<1> SUFFICES ASSUME DeviceInit  PROVE IInv /\ DeviceInv
  OBVIOUS
<1>1. DeviceTypeOK
  BY DEF DeviceInit, DeviceTypeOK, DeviceRow, NoPoll, Poll, PollSteps
<1>2. RowsApproved /\ PollsAgree /\ IssuedRows /\ FreshRows
  BY DEF DeviceInit, NoPoll, RowsApproved, PollsAgree, PollAgrees, IssuedRows, FreshRows
<1>3. DeviceGrantApproved /\ DeviceCodeSpent /\ SlowDownsCounted
  BY DEF DeviceInit, DeviceGrantApproved, DeviceCodeSpent, SlowDownsCounted
<1>4. QED  BY <1>1, <1>2, <1>3, InitInv DEF DeviceInit, DeviceInv

\* Both invariants survive every step of the composition.
LEMMA DeviceInvStep ==
  ASSUME IInv, DeviceInv, [DeviceNext]_allVars
  PROVE  IInv' /\ DeviceInv'
<1>1. IInv'
  BY Simulation, InvStep DEF DeviceInv
<1>2. DeviceTypeOK'
  BY DeviceTypeStep DEF DeviceInv, IInv
<1>3. QED
  BY <1>1, <1>2, RowsApprovedStep, PollsAgreeStep, IssuedStep, SlowDownsStep DEF DeviceInv

\* Every reachable state of the composition satisfies both invariants.
THEOREM DeviceInvariant == DeviceSpec => [](IInv /\ DeviceInv)
<1>1. IInv /\ DeviceInv /\ [DeviceNext]_allVars => (IInv /\ DeviceInv)'
  BY DeviceInvStep
<1>2. QED  BY DeviceInitInv, <1>1, PTL DEF DeviceSpec

\* The device grant implements the token endpoint: to its tables the redemption
\* of a device code is a grant to an active user, and every other step of a
\* poll or an approval is none of their business.
THEOREM DeviceImplements == DeviceSpec => TokenEndpointSpec
<1>1. DeviceInit => Init
  BY DEF DeviceInit
<1>2. DeviceInv /\ [DeviceNext]_allVars => [Next]_vars
  BY Simulation DEF DeviceInv
<1>3. QED  BY DeviceInvariant, <1>1, <1>2, PTL DEF DeviceSpec, TokenEndpointSpec, Spec

\* A logout, an idle sweep and an account operation reach the grants of devices
\* like any other grant.
THEOREM CascadeReachesDevices == DeviceSpec => []CascadeComplete
<1>1. QED  BY DeviceImplements, CascadeReachesAll, PTL DEF TokenEndpointSpec

\* Once the revocation of DeactivateUser has run, no earlier grant of the user
\* is live, issued to a device or not.
THEOREM DeactivationReachesDevices == DeviceSpec => []DeactivationComplete
<1>1. QED  BY DeviceImplements, DeactivationReachesAll, PTL DEF TokenEndpointSpec

\* Every row and request of the device grant keeps its shape.
THEOREM DeviceTypeCorrect == DeviceSpec => []DeviceTypeOK
<1>1. DeviceInv => DeviceTypeOK
  BY DEF DeviceInv
<1>2. QED  BY DeviceInvariant, <1>1, PTL

\* However polls, approvals and denials overlap, a device gets a grant only for
\* the user who approved it.
THEOREM OnlyApproved == DeviceSpec => []DeviceGrantApproved
<1>1. DeviceInv => DeviceGrantApproved
  BY DEF DeviceInv
<1>2. QED  BY DeviceInvariant, <1>1, PTL

\* A device code that yielded a grant is spent, unless its UPDATE failed.
THEOREM DeviceSpent == DeviceSpec => []DeviceCodeSpent
<1>1. DeviceInv => DeviceCodeSpent
  BY DEF DeviceInv
<1>2. QED  BY DeviceInvariant, <1>1, PTL

\* However polls overlap, every slow_down that was recorded has raised the
\* interval of its device by one step.
THEOREM EverySlowDownCounts == DeviceSpec => []SlowDownsCounted
<1>1. DeviceInv => SlowDownsCounted
  BY DEF DeviceInv
<1>2. QED  BY DeviceInvariant, <1>1, PTL

\* No approval or denial that was under way overturns the first answer.
THEOREM AnswerStands == DeviceSpec => FirstAnswerStands
<1> DEFINE Stands == \A d \in Devices :
             device[d].st \notin {"free", "pending"} =>
               /\ device'[d].user = device[d].user
               /\ device[d].st = "denied" => device'[d].st \in {"denied", "deleted"}
               /\ device[d].st = "consumed" => device'[d].st \in {"consumed", "deleted"}
<1>1. DeviceInv /\ [DeviceNext]_allVars => [Stands]_allVars
  BY DeviceRowsStep DEF DeviceInv, RowMoved
<1>2. QED  BY DeviceInvariant, <1>1, PTL DEF DeviceSpec, FirstAnswerStands
\* Nor does the device grant open another way into the registry of grants.
THEOREM DevicesInRegistry == DeviceSpec => RegistrySpec
<1>1. QED  BY DeviceImplements, RegistryImplemented, PTL DEF TokenEndpointSpec

(***************************************************************************)
(* An approval is good once.                                               *)
(***************************************************************************)
\* The goroutine of a poll that redeems runs no other statement meanwhile.
LEMMA PollKeepsPc ==
  ASSUME IInv, DeviceTypeOK, [DeviceNext]_allVars, NEW p \in Procs,
         poll[p].step \in {"consume", "issue"}
  PROVE  pc'[p] = pc[p] \/ poll'[p] = NoPoll \/ Issue(p)
<1> USE DEF DeviceTypeOK
<1>1. pc \in [Procs -> PcLabels]
  BY DEF IInv, TypeOK
<1>2. CASE UNCHANGED vars
  BY <1>2 DEF vars, requests
<1>3. ASSUME NEW q \in Procs, LoadDeviceUser(q), ~UNCHANGED vars  PROVE pc'[p] = pc[p]
  <2>1. q # p /\ DirectGrant(q, poll[q].user)
    BY <1>3 DEF LoadDeviceUser, Polling
  <2>2. QED  BY <1>1, <2>1 DEF DirectGrant, Start, Goto
<1>4. ASSUME NEW q \in Procs, Issue(q), q # p  PROVE pc'[p] = pc[p]
  BY <1>1, <1>4 DEF Issue, CreateToken, CreateSession, FatalError, Respond, Goto
<1>5. CASE DeviceCrash
  BY <1>5 DEF DeviceCrash
<1>6. CASE ElsewhereStep
  <2>1. ASSUME NEW q \in Procs, Polling(q, "idle"), RequestStart(q) \/ RequestStep(q)
        PROVE  RequestKept(p)
    BY <2>1, OthersKept DEF Polling, IInv
  <2>2. ASSUME NEW u \in Users, AccountStart(u) \/ AccountStep(u)  PROVE UNCHANGED requests
    BY <2>2, AccountFrame DEF IInv
  <2>3. ASSUME Revocation \/ Clock \/ Sweep  PROVE UNCHANGED requests
    BY <2>3, RevocationFrame, ClockFrame, SweepFrame DEF IInv
  <2>4. QED  BY <1>6, <2>1, <2>2, <2>3 DEF ElsewhereStep, RequestKept, requests
<1>7. QED
  BY <1>2, <1>3, <1>4, <1>5, <1>6 DEF DeviceNext, allVars, CreateDeviceCode, PollRead,
     AccountRequest, PollStep, PollStamp, SlowDown, ConsumeDeviceCode, AccountStepOf, AccountRead,
     AuthorizeDeviceCode, DenyDeviceCode, AccountFails, DeviceTime, IntervalPasses,
     DeviceCodeExpires, SweepDeviceCodes

\* Only a ConsumeDeviceCode that fails adds to the record of those.
LEMMA UnspentChange ==
  ASSUME [DeviceNext]_allVars
  PROVE  UNCHANGED unspent \/ "dbFail" \in Operations
  BY DEF DeviceNext, allVars, deviceVars, deviceHistory, CreateDeviceCode, PollRead, AccountRequest,
     PollStep, PollStamp, SlowDown, LoadDeviceUser, ConsumeDeviceCode, Issue, AccountStepOf,
     AccountRead, AuthorizeDeviceCode, DenyDeviceCode, AccountFails, DeviceTime, IntervalPasses,
     DeviceCodeExpires, SweepDeviceCodes, DeviceCrash, ElsewhereStep

\* A step issues one grant to one device, or none to any.
LEMMA OneIssued ==
  ASSUME IInv, DeviceInv, DeviceTypeOK', [DeviceNext]_allVars, NEW p \in Procs, NEW g \in Grants,
         Issues(p, g)
  PROVE  \A d \in Devices :
           IssuedTo(d)' = IF d = poll[p].device THEN IssuedTo(d) \cup {g} ELSE IssuedTo(d)
<1>1. token[g].st = "free" /\ issuedTo[g] = None /\ issuedTo'[g] = poll[p].device
  BY DEF Issues, CreateToken, DeviceInv, IssuedRows
<1>2. ASSUME NEW h \in Grants, h # g  PROVE issuedTo'[h] = issuedTo[h]
  <2>1. token'[h] = token[h]
    BY <1>2 DEF Issues, CreateToken, IInv, TypeOK, TablesType
  <2>2. ASSUME NEW q \in Procs, Issues(q, h)  PROVE FALSE
    <3>1. token[h].st = "free" /\ token'[h].st = "valid"
      BY <2>2, CreateTokenEffect DEF Issues
    <3>2. QED  BY <2>1, <3>1
  <2>3. QED  BY <2>2, IssuedChange DEF DeviceInv
<1>3. QED  BY <1>1, <1>2, DeviceAssumption DEF IssuedTo

\* Every step keeps what the refinement relies on.
LEMMA ApprovalInvStep ==
  ASSUME IInv, DeviceInv, DeviceInv', ApprovalInv, [DeviceNext]_allVars
  PROVE  ApprovalInv'
<1>1. DeviceTypeOK /\ DeviceTypeOK'
  BY DEF DeviceInv
<1>2. ASSUME NEW p \in Procs, poll'[p].step = "consume"  PROVE pc'[p] = "insertToken"
  <2>1. ASSUME NEW step \in PollSteps, PollTo(p, step)  PROVE poll'[p].step = step
    BY <1>1, <2>1 DEF PollTo, DeviceTypeOK, Poll
  <2>2. PollEnds(p) => poll'[p] = NoPoll
    BY <1>1 DEF PollEnds, DeviceTypeOK
  <2>3. poll'[p] # NoPoll
    BY <1>2 DEF NoPoll
  <2>4. CASE poll'[p] = poll[p]
    <3>1. pc[p] = "insertToken" /\ poll[p].step = "consume"
      BY <1>2, <2>4 DEF ApprovalInv
    <3>2. QED  BY <1>1, <2>3, <3>1, PollKeepsPc DEF Issue, Polling
  <2>5. CASE LoadDeviceUser(p)
    BY <2>2, <2>3, <2>5 DEF LoadDeviceUser, DirectGrant, Start, Goto, IInv, TypeOK
  <2>6. ASSUME NEW d \in Devices, PollRead(p, d)  PROVE FALSE
    BY <1>1, <1>2, <2>6 DEF PollRead, StartPoll, DeviceTypeOK
  <2>7. ASSUME NEW g \in Grants, NEW d \in Devices, AccountRequest(p, g, d)  PROVE FALSE
    BY <1>1, <1>2, <2>7 DEF AccountRequest, StartPoll, NoPoll, DeviceTypeOK
  <2>8. CASE PollStamp(p) \/ ConsumeDeviceCode(p) \/ AccountRead(p)
    BY <1>2, <2>1, <2>2, <2>3, <2>8 DEF PollStamp, ConsumeDeviceCode, AccountRead, PollSteps
  <2>9. QED  BY <1>1, <2>3, <2>4, <2>5, <2>6, <2>7, <2>8, PollChange
<1>3. unspent' # {} => "dbFail" \in Operations
  BY UnspentChange DEF ApprovalInv
<1>4. ASSUME NEW d \in Devices  PROVE IsFiniteSet(IssuedTo(d)')
  <2>1. IsFiniteSet(IssuedTo(d))
    BY DEF ApprovalInv
  <2>2. ASSUME NEW p \in Procs, NEW g \in Grants, Issues(p, g)  PROVE IsFiniteSet(IssuedTo(d)')
    <3>1. IsFiniteSet(IssuedTo(d) \cup {g})
      BY <2>1, FS_AddElement
    <3>2. QED  BY <1>1, <2>1, <2>2, <3>1, OneIssued
  <2>3. CASE \A p \in Procs, g \in Grants : ~Issues(p, g)
    BY <1>1, <2>1, <2>3, IssuedChange DEF IssuedTo
  <2>4. QED  BY <2>2, <2>3
<1>5. QED  BY <1>2, <1>3, <1>4 DEF ApprovalInv

\* Requests that end without a grant give the approval up; one that still owed the
\* UPDATE has lost it.
LEMMA ApprovalGivenUp ==
  ASSUME DeviceInv, ApprovalInv, UNCHANGED <<DeviceStages, issuedTo, unspent>>,
         ApprovalHolders' \subseteq ApprovalHolders, ApprovalsOwed' \subseteq ApprovalsOwed
  PROVE  OneApproval!Next
<1>1. DeviceUses' = DeviceUses
  BY DEF DeviceUses, IssuedTo
<1>2. CASE ApprovalsOwed' = ApprovalsOwed
  <2>1. OneApproval!Release
    BY <1>1, <1>2 DEF OneApproval!Release
  <2>2. QED  BY <2>1 DEF OneApproval!Next
<1>3. CASE ApprovalsOwed' # ApprovalsOwed
  <2>1. PICK h \in Procs \X Devices : h \in ApprovalsOwed
    BY <1>3 DEF ApprovalsOwed
  <2>2. unspent # {}
    BY <2>1 DEF ApprovalsOwed, Approved, OwesConsume, DeviceInv, PollsAgree, PollAgrees
  <2>3. DeviceUses' = OneApproval!Unused
    BY <1>1, <2>2 DEF DeviceUses, OneApproval!Unused
  <2>4. OneApproval!Lose
    BY <2>2, <2>3 DEF OneApproval!Lose, ApprovalInv
  <2>5. QED  BY <2>4 DEF OneApproval!Next
<1>4. QED  BY <1>2, <1>3

Inserts(p, g) ==
  /\ Polling(p, "issue") /\ CreateToken(p, g)
  /\ issuedTo' = [issuedTo EXCEPT ![g] = poll[p].device]
  /\ UNCHANGED <<poll, device, unspent>>

\* A grant that is inserted for a device is a use of its approval.
LEMMA ApprovalUsed ==
  ASSUME IInv, DeviceInv, DeviceInv', ApprovalInv, [DeviceNext]_allVars,
         NEW p \in Procs, NEW g \in Grants, Inserts(p, g)
  PROVE  OneApproval!Next
<1> USE DEF Inserts
<1>1. /\ DeviceTypeOK /\ DeviceTypeOK' /\ PollAgrees(p) /\ poll[p].step = "issue"
      /\ issuedTo \in [Grants -> Devices \cup {None}]
  BY DEF DeviceInv, PollsAgree, Polling, DeviceTypeOK
<1>2. PICK d \in Devices : /\ d = poll[p].device /\ Approved(p, d)
                           /\ device[d].st = "consumed" \/ d \in unspent
  <2>1. poll[p].device \in Devices /\ poll[p].st = "authorized"
    BY <1>1 DEF PollAgrees, DeviceTypeOK, Poll
  <2>2. device[poll[p].device].st = "consumed" \/ poll[p].device \in unspent
    BY <1>1 DEF PollAgrees
  <2>3. QED  BY <2>1, <2>2 DEF Approved
<1>3. /\ pc[p] = "insertToken" /\ pc'[p] = "insertSession"
      /\ \A q \in Procs : q # p => pc'[q] = pc[q]
  <2>1. CreateToken(p, g)
    OBVIOUS
  <2>2. /\ token[g].st = "free" /\ token'[g].st = "valid"
        /\ session[g].st = "free" /\ UNCHANGED session
        /\ req'[p].grant = g
        /\ pc[p] = "insertToken" /\ pc'[p] = "insertSession"
        /\ \A q \in Procs : q # p => pc'[q] = pc[q] /\ req'[q] = req[q]
        /\ origin'[g] = [code |-> req[p].code, parent |-> req[p].parent]
    BY <2>1, CreateTokenEffect
  <2>3. QED  BY <2>2
<1>4. /\ <<p, d>> \in ApprovalHolders
      /\ ApprovalHolders' = ApprovalHolders \ {<<p, d>>}
  BY <1>1, <1>2, <1>3 DEF ApprovalHolders, Approved, WillIssue
<1>5. ApprovalsOwed' = IF device[d].st = "authorized" THEN ApprovalsOwed \cup {<<p, d>>}
                       ELSE ApprovalsOwed
  BY <1>1, <1>2, <1>3 DEF ApprovalsOwed, Approved, OwesConsume
<1>6. DeviceStages' = DeviceStages
  BY DEF DeviceStages, DeviceStage
<1>7. DeviceUses' = IF unspent # {} THEN DeviceUses ELSE [DeviceUses EXCEPT ![d] = @ + 1]
  <2>1. CASE unspent # {}
    BY <2>1 DEF DeviceUses
  <2>2. CASE unspent = {}
    <3>1. Issues(p, g)
      BY <1>1 DEF Issues
    <3>2. \A e \in Devices : IssuedTo(e)' = IF e = d THEN IssuedTo(e) \cup {g} ELSE IssuedTo(e)
      BY <1>1, <1>2, <3>1, OneIssued
    <3>3. g \notin IssuedTo(d)
      BY DeviceAssumption DEF IssuedTo, CreateToken, DeviceInv, IssuedRows
    <3>4. Cardinality(IssuedTo(d) \cup {g}) = Cardinality(IssuedTo(d)) + 1
      BY <3>3, FS_AddElement DEF ApprovalInv
    <3>5. QED  BY <2>2, <3>2, <3>4 DEF DeviceUses
  <2>3. QED  BY <2>1, <2>2
<1>8. CASE device[d].st = "authorized"
  <2>1. OneApproval!Use(p, d)
    BY <1>4, <1>5, <1>6, <1>7, <1>8 DEF OneApproval!Use
  <2>2. QED  BY <2>1 DEF OneApproval!Next
<1>9. CASE device[d].st # "authorized"
  <2>1. device[d].st \in {"consumed"}
    BY <1>1, <1>2, <1>9 DEF PollAgrees, Approved
  <2>2. DeviceStages' = [DeviceStages EXCEPT ![d] = "spent"]
    BY <1>6, <2>1 DEF DeviceStages, DeviceStage
  <2>3. OneApproval!Use(p, d)
    BY <1>4, <1>5, <1>7, <1>9, <2>2 DEF OneApproval!Use
  <2>4. QED  BY <2>3 DEF OneApproval!Next
<1>10. QED  BY <1>8, <1>9
\* A request that neither reads the row nor inserts the grant holds and owes no more
\* than before.
LEMMA NothingTakenUp ==
  ASSUME IInv, DeviceInv, DeviceInv', ApprovalInv, [DeviceNext]_allVars, NEW p \in Procs,
         \A d \in Devices : ~PollRead(p, d),
         \A g \in Grants : ~Inserts(p, g),
         NEW d \in Devices, Approved(p, d)'
  PROVE  /\ WillIssue(p)' => Approved(p, d) /\ WillIssue(p)
         /\ OwesConsume(p)' => Approved(p, d) /\ OwesConsume(p)
<1>1. /\ DeviceTypeOK /\ DeviceTypeOK' /\ PollAgrees(p)
      /\ poll'[p].device = d /\ poll'[p].st = "authorized"
  BY DEF DeviceInv, PollsAgree, Approved
<1>2. poll'[p] # NoPoll
  BY <1>1 DEF NoPoll
<1>3. ASSUME NEW step \in PollSteps, PollTo(p, step)
      PROVE  poll'[p].step = step /\ Approved(p, d)
  BY <1>1, <1>3 DEF PollTo, DeviceTypeOK, Poll, Approved
<1>4. PollEnds(p) => poll'[p] = NoPoll
  BY <1>1 DEF PollEnds, DeviceTypeOK
<1>5. CASE poll'[p] = poll[p]
  <2>1. CASE poll[p].step # "issue"
    BY <1>1, <1>5, <2>1 DEF WillIssue, OwesConsume, Approved
  <2>2. CASE poll[p].step = "issue"
    <3>1. ~Issue(p)
      BY <1>2, <1>4, <1>5, <2>2 DEF Issue, Polling, Inserts
    <3>2. pc'[p] = pc[p]
      BY <1>1, <1>2, <2>2, <3>1, PollKeepsPc
    <3>3. device'[d].st = "authorized" => device[d].st = "authorized"
      <4>1. device[d].st \in {"authorized", "consumed"} /\ RowMoved(d)
        BY <1>1, <1>5, <2>2, DeviceRowsStep DEF PollAgrees, DeviceInv
      <4>2. QED  BY <4>1 DEF RowMoved
    <3>4. QED
      BY <1>1, <1>5, <2>2, <3>2, <3>3 DEF WillIssue, OwesConsume, Approved
  <2>3. QED  BY <2>1, <2>2
<1>6. ASSUME NEW g \in Grants, NEW e \in Devices, AccountRequest(p, g, e)  PROVE FALSE
  BY <1>1, <1>6 DEF AccountRequest, StartPoll, NoPoll, DeviceTypeOK
<1>7. CASE PollStamp(p)
  <2>1. \/ poll[p].step = "stampSlow" /\ PollTo(p, "slow")
        \/ poll[p].step = "stamp" /\ PollTo(p, "loadUser")
    BY <1>2, <1>4, <1>7 DEF PollStamp, Polling
  <2>2. QED  BY <1>3, <2>1 DEF PollSteps, WillIssue, OwesConsume
<1>8. CASE LoadDeviceUser(p)
  <2>1. poll[p].step = "loadUser" /\ PollTo(p, "consume")
    BY <1>2, <1>4, <1>8 DEF LoadDeviceUser, Polling
  <2>2. QED  BY <1>3, <2>1 DEF PollSteps, WillIssue, OwesConsume
<1>9. CASE ConsumeDeviceCode(p)
  <2>1. poll[p].step = "consume" /\ PollTo(p, "issue") /\ pc' = pc
    BY <1>9 DEF ConsumeDeviceCode, Polling, vars, requests
  <2>2. pc[p] = "insertToken"
    BY <2>1 DEF ApprovalInv
  <2>3. QED  BY <1>3, <2>1, <2>2 DEF PollSteps, WillIssue, OwesConsume
<1>10. CASE AccountRead(p)
  <2>1. PollTo(p, "approve") \/ PollTo(p, "deny")
    BY <1>2, <1>4, <1>10 DEF AccountRead
  <2>2. QED  BY <1>3, <2>1 DEF PollSteps, WillIssue, OwesConsume
<1>11. QED  BY <1>1, <1>2, <1>5, <1>6, <1>7, <1>8, <1>9, <1>10, PollChange

\* A poll that reads an approved row finds it good.
LEMMA ApprovalFound ==
  ASSUME DeviceInv, ApprovalInv, NEW p \in Procs, NEW d \in Devices, PollRead(p, d)
  PROVE  OneApproval!Next
<1>1. /\ poll \in [Procs -> Poll] /\ poll[p].step = "idle"
      /\ poll' = [poll EXCEPT ![p] = [step |-> IF d \in recent THEN "stampSlow" ELSE "stamp",
                                      device |-> d, user |-> device[d].user,
                                      st |-> device[d].st]]
      /\ UNCHANGED <<pc, device, issuedTo, unspent>>
  BY DEF DeviceInv, DeviceTypeOK, PollRead, StartPoll, Polling, vars, requests, deviceHistory
<1>2. /\ poll'[p].step \in {"stampSlow", "stamp"} /\ poll'[p].device = d
      /\ poll'[p].st = device[d].st /\ \A q \in Procs : q # p => poll'[q] = poll[q]
  BY <1>1
<1>3. ApprovalsOwed' = ApprovalsOwed
  BY <1>1, <1>2 DEF ApprovalsOwed, Approved, OwesConsume
<1>4. DeviceStages' = DeviceStages /\ DeviceUses' = DeviceUses
  BY <1>1 DEF DeviceStages, DeviceStage, DeviceUses, IssuedTo
<1>5. CASE device[d].st = "authorized" /\ poll'[p].step = "stamp"
  <2>1. ApprovalHolders' = ApprovalHolders \cup {<<p, d>>}
    BY <1>1, <1>2, <1>5 DEF ApprovalHolders, Approved, WillIssue
  <2>2. \A e \in Devices : <<p, e>> \notin ApprovalHolders \cup ApprovalsOwed
    BY <1>1 DEF ApprovalHolders, ApprovalsOwed, WillIssue, OwesConsume
  <2>3. OneApproval!Find(p, d)
    BY <1>1, <1>3, <1>4, <1>5, <2>1, <2>2 DEF OneApproval!Find, DeviceStages, DeviceStage
  <2>4. QED  BY <2>3 DEF OneApproval!Next
<1>6. CASE ~(device[d].st = "authorized" /\ poll'[p].step = "stamp")
  <2>1. ApprovalHolders' = ApprovalHolders
    BY <1>1, <1>2, <1>6 DEF ApprovalHolders, Approved, WillIssue
  <2>2. QED  BY <1>1, <1>3, <1>4, <2>1, ApprovalGivenUp
<1>7. QED  BY <1>5, <1>6

\* The statements that write the status of a row approve it, spend it, or fail to.
LEMMA ApprovalWritten ==
  ASSUME DeviceInv, DeviceInv', ApprovalInv, NEW p \in Procs,
         ConsumeDeviceCode(p) \/ AuthorizeDeviceCode(p) \/ DenyDeviceCode(p)
  PROVE  OneApproval!Next
<1> DEFINE d == poll[p].device
<1>1. /\ poll \in [Procs -> Poll] /\ device \in [Devices -> DeviceRow]
      /\ device' \in [Devices -> DeviceRow] /\ PollsAgree
      /\ poll[p].step \in {"consume", "approve", "deny"}
      /\ UNCHANGED <<pc, issuedTo>>
  BY DEF DeviceInv, DeviceTypeOK, ConsumeDeviceCode, AuthorizeDeviceCode, DenyDeviceCode, Polling,
     vars, requests, deviceHistory
<1>2. d \in Devices /\ device[d] \in DeviceRow
  BY <1>1 DEF PollsAgree, PollAgrees, Poll
<1>3. \A q \in Procs : q # p => poll'[q] = poll[q]
  BY <1>1 DEF ConsumeDeviceCode, AuthorizeDeviceCode, DenyDeviceCode, PollTo, PollEnds
<1>4. ApprovalHolders' = ApprovalHolders
  <2>1. CASE ConsumeDeviceCode(p)
    <3>1. /\ poll[p].step = "consume" /\ pc[p] = "insertToken" /\ poll'[p].step = "issue"
          /\ poll'[p].device = poll[p].device /\ poll'[p].st = poll[p].st
      BY <1>1, <2>1 DEF ConsumeDeviceCode, Polling, PollTo, Poll, ApprovalInv
    <3>2. QED  BY <1>1, <1>3, <3>1 DEF ApprovalHolders, Approved, WillIssue
  <2>2. CASE AuthorizeDeviceCode(p) \/ DenyDeviceCode(p)
    <3>1. poll[p].step \in {"approve", "deny"} /\ poll'[p].step = "idle"
      BY <1>1, <2>2 DEF AuthorizeDeviceCode, DenyDeviceCode, Polling, PollEnds, NoPoll
    <3>2. QED  BY <1>1, <1>3, <3>1 DEF ApprovalHolders, Approved, WillIssue
  <2>3. QED  BY <2>1, <2>2
<1>5. ~OwesConsume(p) /\ ~OwesConsume(p)'
  <2>1. CASE ConsumeDeviceCode(p)
    BY <1>1, <2>1 DEF ConsumeDeviceCode, Polling, PollTo, Poll, ApprovalInv, OwesConsume
  <2>2. CASE AuthorizeDeviceCode(p) \/ DenyDeviceCode(p)
    BY <1>1, <2>2 DEF AuthorizeDeviceCode, DenyDeviceCode, Polling, PollEnds, NoPoll, OwesConsume
  <2>3. QED  BY <2>1, <2>2
<1>6. CASE device' = device
  <2>1. ApprovalsOwed' = ApprovalsOwed
    BY <1>1, <1>3, <1>5, <1>6 DEF ApprovalsOwed, Approved, OwesConsume
  <2>2. DeviceStages' = DeviceStages
    BY <1>6 DEF DeviceStages, DeviceStage
  <2>3. CASE unspent' = unspent
    BY <1>1, <1>4, <2>1, <2>2, <2>3, ApprovalGivenUp
  <2>4. CASE "dbFail" \in Operations /\ unspent' = unspent \cup {d}
    <3>1. unspent' # {} /\ DeviceUses' = OneApproval!Unused
      BY <2>4 DEF DeviceUses, OneApproval!Unused
    <3>2. OneApproval!Lose
      BY <1>4, <2>1, <2>2, <2>4, <3>1 DEF OneApproval!Lose
    <3>3. QED  BY <3>2 DEF OneApproval!Next
  <2>5. QED
    BY <2>3, <2>4 DEF ConsumeDeviceCode, AuthorizeDeviceCode, DenyDeviceCode, deviceHistory
<1>7. ASSUME NEW from, NEW to, device[d].st = from, device'[d].st = to, unspent' = unspent,
             \A e \in Devices : e # d => device'[e] = device[e],
             \/ from = "pending" /\ to \in {"authorized", "denied"}
             \/ from = "authorized" /\ to = "consumed"
      PROVE  OneApproval!Next
  <2>1. \A e \in Devices : e # d => DeviceStage(e)' = DeviceStage(e)
    BY <1>7 DEF DeviceStage
  <2>2. DeviceUses' = DeviceUses
    BY <1>1, <1>7 DEF DeviceUses, IssuedTo
  <2>3. ASSUME NEW q \in Procs, Approved(q, d), poll[q].step = "issue"
        PROVE  device[d].st \in {"authorized", "consumed"}
    <3>1. PollAgrees(q)
      BY <1>1 DEF PollsAgree
    <3>2. poll[q].device = d /\ poll[q].st = "authorized"
      BY <2>3 DEF Approved
    <3> HIDE DEF d
    <3>3. QED  BY <2>3, <3>1, <3>2 DEF PollAgrees
  <2>4. \A h \in ApprovalsOwed' : h \in ApprovalsOwed
    BY <1>1, <1>3, <1>5, <1>7, <2>3 DEF ApprovalsOwed, Approved, OwesConsume
  <2>5. \A h \in ApprovalsOwed \ ApprovalsOwed' : h[2] = d /\ to = "consumed"
    BY <1>1, <1>3, <1>5, <1>7, <2>3 DEF ApprovalsOwed, Approved, OwesConsume
  <2>6. CASE to = "authorized"
    <3>1. DeviceStages[d] = "none" /\ DeviceStages' = [DeviceStages EXCEPT ![d] = "good"]
      BY <1>2, <1>7, <2>1, <2>6 DEF DeviceStages, DeviceStage
    <3>2. ApprovalsOwed' = ApprovalsOwed
      BY <2>4, <2>5, <2>6
    <3>3. OneApproval!Issue(d)
      BY <1>4, <1>7, <2>2, <3>1, <3>2 DEF OneApproval!Issue
    <3>4. QED  BY <1>2, <3>3 DEF OneApproval!Next
  <2>7. CASE to # "authorized"
    <3>1. DeviceStages' = [DeviceStages EXCEPT ![d] = "spent"]
      BY <1>2, <1>7, <2>1, <2>7 DEF DeviceStages, DeviceStage
    <3>2. DeviceStages \in [Devices -> {"none", "good", "spent"}]
      BY DEF DeviceStages, DeviceStage
    <3>3. /\ DeviceStages' \in [Devices -> {"none", "good", "spent"}]
          /\ \A e \in Devices : DeviceStages'[e] \in {DeviceStages[e], "spent"}
          /\ DeviceStages'[d] = "spent"
      BY <1>2, <3>1, <3>2
    <3>4. OneApproval!Spend
      BY <1>4, <1>7, <2>2, <2>4, <2>5, <3>3 DEF OneApproval!Spend
    <3>5. QED  BY <3>4 DEF OneApproval!Next
  <2>8. QED  BY <2>6, <2>7
<1>8. ASSUME NEW row \in DeviceRow, NEW from, SetStatus(d, from, row), unspent' = unspent,
             \/ from = "pending" /\ row.st \in {"authorized", "denied"}
             \/ from = "authorized" /\ row.st = "consumed"
      PROVE  OneApproval!Next
  <2>1. CASE device' = device
    BY <1>6, <2>1
  <2>2. CASE device' # device
    <3>1. /\ device[d].st = from /\ device'[d] = row
          /\ \A e \in Devices : e # d => device'[e] = device[e]
      BY <1>1, <1>2, <1>8, <2>2 DEF SetStatus
    <3>2. QED  BY <1>7, <1>8, <3>1
  <2>3. QED  BY <2>1, <2>2
<1>9. CASE ConsumeDeviceCode(p)
  <2> DEFINE row == [device[d] EXCEPT !.st = "consumed"]
  <2>1. row \in DeviceRow /\ row.st = "consumed"
    BY <1>2 DEF DeviceRow
  <2>2. \/ device' = device
        \/ SetStatus(d, "authorized", row) /\ unspent' = unspent
    BY <1>9 DEF ConsumeDeviceCode
  <2> HIDE DEF row, d
  <2>3. QED  BY <1>6, <1>8, <2>1, <2>2
<1>10. CASE AuthorizeDeviceCode(p)
  <2> DEFINE row == [device[d] EXCEPT !.st = "authorized", !.user = poll[p].user]
  <2>1. poll[p].user \in Users
    BY <1>1, <1>10 DEF AuthorizeDeviceCode, Polling, PollsAgree, PollAgrees, Poll
  <2>2. row \in DeviceRow /\ row.st = "authorized"
    BY <1>2, <2>1, RowApproved
  <2>3. SetStatus(d, "pending", row) /\ unspent' = unspent
    BY <1>10 DEF AuthorizeDeviceCode, deviceHistory
  <2> HIDE DEF row, d
  <2>4. QED  BY <1>8, <2>2, <2>3
<1>11. CASE DenyDeviceCode(p)
  <2> DEFINE row == [device[d] EXCEPT !.st = "denied"]
  <2>1. row \in DeviceRow /\ row.st = "denied"
    BY <1>2 DEF DeviceRow
  <2>2. SetStatus(d, "pending", row) /\ unspent' = unspent
    BY <1>11 DEF DenyDeviceCode, deviceHistory
  <2> HIDE DEF row, d
  <2>3. QED  BY <1>8, <2>1, <2>2
<1>12. QED  BY <1>9, <1>10, <1>11

\* Purging expired rows spends them.
LEMMA ApprovalSwept ==
  ASSUME DeviceInv, SweepDeviceCodes
  PROVE  OneApproval!Next
<1>1. PICK gone \in SUBSET {d \in overdue : DeviceExists(d) /\ \A p \in Procs : poll[p].device # d} :
        device' = [d \in Devices |-> IF d \in gone THEN [device[d] EXCEPT !.st = "deleted"]
                                     ELSE device[d]]
  BY DEF SweepDeviceCodes
<1>2. UNCHANGED <<pc, poll, issuedTo, unspent>> /\ device \in [Devices -> DeviceRow]
  BY DEF SweepDeviceCodes, vars, requests, deviceHistory, DeviceInv, DeviceTypeOK
<1>3. \A d \in Devices : device'[d].st = IF d \in gone THEN "deleted" ELSE device[d].st
  BY <1>1, <1>2 DEF DeviceRow
<1>4. /\ DeviceStages' \in [Devices -> {"none", "good", "spent"}]
      /\ \A d \in Devices : DeviceStages'[d] \in {DeviceStages[d], "spent"}
  BY <1>3 DEF DeviceStages, DeviceStage
<1>5. ApprovalHolders' = ApprovalHolders /\ ApprovalsOwed' = ApprovalsOwed
  BY <1>1, <1>2, <1>3 DEF ApprovalHolders, ApprovalsOwed, Approved, WillIssue, OwesConsume
<1>6. DeviceUses' = DeviceUses
  BY <1>2 DEF DeviceUses, IssuedTo
<1>7. OneApproval!Spend
  BY <1>2, <1>4, <1>5, <1>6 DEF OneApproval!Spend
<1>8. QED  BY <1>7 DEF OneApproval!Next

\* No other step changes the stage of a row, issues a grant or fails to consume.
LEMMA StagesChange ==
  ASSUME DeviceInv, [DeviceNext]_allVars,
         \A p \in Procs, g \in Grants : ~Inserts(p, g)
  PROVE  \/ UNCHANGED <<DeviceStages, issuedTo, unspent>>
         \/ \E p \in Procs : ConsumeDeviceCode(p) \/ AuthorizeDeviceCode(p) \/ DenyDeviceCode(p)
         \/ SweepDeviceCodes
<1>1. UNCHANGED device => UNCHANGED DeviceStages
  BY DEF DeviceStages, DeviceStage
<1>2. ASSUME NEW d \in Devices, CreateDeviceCode(d)
      PROVE  UNCHANGED <<DeviceStages, issuedTo, unspent>>
  <2>1. device[d].st = "free" /\ device'[d].st = "pending" /\ \A e \in Devices : e # d => device'[e] = device[e]
    BY <1>2 DEF CreateDeviceCode, DeviceInv, DeviceTypeOK
  <2>2. \A e \in Devices : DeviceStage(e)' = DeviceStage(e)
    BY <2>1 DEF DeviceStage
  <2>3. QED  BY <1>2, <2>2 DEF DeviceStages, CreateDeviceCode, deviceHistory
<1>3. ASSUME NEW p \in Procs, SlowDown(p)  PROVE UNCHANGED <<DeviceStages, issuedTo, unspent>>
  <2>1. \A e \in Devices : device'[e].st = device[e].st
    BY <1>3 DEF SlowDown, DeviceInv, DeviceTypeOK, DeviceRow
  <2>2. QED  BY <1>3, <2>1 DEF DeviceStages, DeviceStage, SlowDown
<1>4. ASSUME NEW p \in Procs, Issue(p)  PROVE UNCHANGED <<device, issuedTo, unspent>>
  BY <1>4 DEF Issue, Inserts
<1>5. QED
  BY <1>1, <1>2, <1>3, <1>4 DEF DeviceNext, allVars, deviceVars, deviceHistory, PollRead,
     AccountRequest, PollStep, PollStamp, LoadDeviceUser, AccountStepOf, AccountRead, AccountFails,
     DeviceTime, IntervalPasses, DeviceCodeExpires, DeviceCrash, ElsewhereStep

\* Every step approves a device, finds the approval good, uses, spends or gives it up.
LEMMA ApprovalStep ==
  ASSUME IInv, DeviceInv, DeviceInv', ApprovalInv, [DeviceNext]_allVars
  PROVE  OneApproval!Next
<1>1. ASSUME NEW p \in Procs, NEW g \in Grants, Inserts(p, g)  PROVE OneApproval!Next
  BY <1>1, ApprovalUsed
<1>2. CASE \A p \in Procs, g \in Grants : ~Inserts(p, g)
  <2>1. ASSUME NEW p \in Procs, NEW d \in Devices, PollRead(p, d)  PROVE OneApproval!Next
    BY <2>1, ApprovalFound
  <2>2. CASE \A p \in Procs, d \in Devices : ~PollRead(p, d)
    <3>1. ApprovalHolders' \subseteq ApprovalHolders /\ ApprovalsOwed' \subseteq ApprovalsOwed
      BY <1>2, <2>2, NothingTakenUp DEF ApprovalHolders, ApprovalsOwed
    <3>2. CASE UNCHANGED <<DeviceStages, issuedTo, unspent>>
      BY <3>1, <3>2, ApprovalGivenUp
    <3>3. CASE \E p \in Procs : ConsumeDeviceCode(p) \/ AuthorizeDeviceCode(p) \/ DenyDeviceCode(p)
      BY <3>3, ApprovalWritten
    <3>4. CASE SweepDeviceCodes
      BY <3>4, ApprovalSwept
    <3>5. QED  BY <1>2, <2>2, <3>2, <3>3, <3>4, StagesChange
  <2>3. QED  BY <2>1, <2>2
<1>3. QED  BY <1>1, <1>2

\* An approval is good once, however polls, approvals, denials and the cleanup overlap,
\* until a ConsumeDeviceCode fails: only a poll that has read it issues a grant for it,
\* once, and by then the device code is consumed.
THEOREM ApprovalsAreGoodOnce == DeviceSpec => ApprovalsGoodOnce
<1>1. DeviceInit => OneApproval!Init /\ ApprovalInv
  <2> SUFFICES ASSUME DeviceInit  PROVE OneApproval!Init /\ ApprovalInv
    OBVIOUS
  <2>1. ApprovalHolders = {} /\ ApprovalsOwed = {}
    BY DEF DeviceInit, NoPoll, ApprovalHolders, ApprovalsOwed, WillIssue, OwesConsume
  <2>2. \A d \in Devices : IssuedTo(d) = {}
    BY DeviceAssumption DEF DeviceInit, IssuedTo
  <2>3. DeviceUses = OneApproval!Unused
    BY <2>2, FS_EmptySet DEF DeviceInit, DeviceUses, OneApproval!Unused
  <2>4. DeviceStages = [d \in Devices |-> "none"]
    BY DEF DeviceInit, DeviceStages, DeviceStage
  <2>5. ApprovalInv
    BY <2>2, FS_EmptySet DEF DeviceInit, NoPoll, ApprovalInv
  <2>6. QED  BY <2>1, <2>3, <2>4, <2>5 DEF DeviceInit, OneApproval!Init
<1>2. /\ IInv /\ DeviceInv /\ ApprovalInv /\ (IInv /\ DeviceInv)' /\ [DeviceNext]_allVars
      => ApprovalInv' /\ OneApproval!Next
  BY ApprovalInvStep, ApprovalStep
<1>3. QED
  BY DeviceInvariant, <1>1, <1>2, PTL DEF DeviceSpec, ApprovalsGoodOnce, OneApproval!Spec
=============================================================================
