---------------------------- MODULE DeviceGrant ----------------------------
(***************************************************************************)
(* The device authorization grant: a device polls /token with its device   *)
(* code while its user approves or denies the user code from a signed-in   *)
(* browser, composed with the token endpoint, whose last statements insert *)
(* the grant.                                                              *)
(*                                                                         *)
(* A request goroutine is either in a step of this module or in a          *)
(* statement of TokenEndpoint.  Its hand-over is the look-up of the user:  *)
(* for the token endpoint that is a DirectGrant.                           *)
(***************************************************************************)
EXTENDS TokenEndpointInv

CONSTANTS
  Devices,       \* rows of device_codes
  BaseInterval,  \* config.DeviceCodePollingInterval, in units of 5 seconds
  MaxInterval    \* bound of the instance on interval_seconds

ASSUME IntervalAssumption == BaseInterval \in Nat /\ MaxInterval \in Nat
ASSUME DeviceAssumption == None \notin Devices
ASSUME DeviceOperations == "direct" \in Operations

VARIABLES
  device,     \* device[d]: device_codes row
  recent,     \* devices whose last_polled_at is less than the interval ago
  overdue,    \* devices past expires_at
  poll,       \* poll[p]: what the goroutine's device request has loaded, and its next statement
  issuedTo,   \* history: the device a grant was issued to
  slowDowns,  \* history: how often the interval of a device was raised
  unspent     \* history: devices of which ConsumeDeviceCode failed

deviceHistory == <<issuedTo, slowDowns, unspent>>
deviceVars == <<device, recent, overdue, poll, deviceHistory>>
allVars == <<vars, deviceVars>>

DeviceRow == [st : {"free", "pending", "authorized", "denied", "consumed", "deleted"},
              user : Users \cup {None}, interval : Nat]

PollSteps == {"idle", "stampSlow", "slow", "stamp", "loadUser", "consume", "issue",
              "readPending", "readToDeny", "approve", "deny"}

\* In an approval, user is the one signed in; in a poll, user and st are
\* columns of the row as it was read.
Poll == [step : PollSteps, device : Devices \cup {None}, user : Users \cup {None},
         st : {"free", "pending", "authorized", "denied", "consumed"}]

NoPoll == [step |-> "idle", device |-> None, user |-> None, st |-> "free"]

DeviceInit ==
  /\ Init
  /\ device = [d \in Devices |-> [st |-> "free", user |-> None, interval |-> 0]]
  /\ recent = {} /\ overdue = {}
  /\ poll = [p \in Procs |-> NoPoll]
  /\ issuedTo = [g \in Grants |-> None]
  /\ slowDowns = [d \in Devices |-> 0]
  /\ unspent = {}

-----------------------------------------------------------------------------
Polling(p, step) == poll[p].step = step
PollTo(p, step) == poll' = [poll EXCEPT ![p].step = step]
PollEnds(p) == poll' = [poll EXCEPT ![p] = NoPoll]
StartPoll(p, r) == pc[p] = "ready" /\ Polling(p, "idle") /\ poll' = [poll EXCEPT ![p] = r]

DeviceExists(d) == device[d].st \notin {"free", "deleted"}

\* UPDATE device_codes SET status ... WHERE code = ? AND status = from
SetStatus(d, from, row) ==
  device' = IF device[d].st = from THEN [device EXCEPT ![d] = row] ELSE device

-----------------------------------------------------------------------------
(* /device_authorization and the poll.                                     *)

\* Mutant: the row starts with the name of the error a poll gets.
CreateDeviceCodeMisnamed(d) ==
  /\ device[d].st = "free"
  /\ device' = [device EXCEPT ![d] = [st |-> "authorization_pending", user |-> None,
                                      interval |-> BaseInterval]]
  /\ UNCHANGED <<vars, recent, overdue, poll, deviceHistory>>

CreateDeviceCode(d) ==
  /\ device[d].st = "free"
  /\ device' = [device EXCEPT ![d] = [st |-> "pending", user |-> None,
                                      interval |-> BaseInterval]]
  /\ UNCHANGED <<vars, recent, overdue, poll, deviceHistory>>

\* DeviceCodeByCode, with the columns as they are now.
PollRead(p, d) ==
  /\ DeviceExists(d) /\ d \notin overdue
  /\ device[d].interval < MaxInterval
  /\ StartPoll(p, [step |-> IF d \in recent THEN "stampSlow" ELSE "stamp", device |-> d,
                   user |-> device[d].user, st |-> device[d].st])
  /\ UNCHANGED <<vars, device, recent, overdue, deviceHistory>>

\* UpdateLastPolledAt, whose errors are ignored like those of the next two
\* UPDATEs; then the status as it was read decides.
PollStamp(p) ==
  /\ \/ Polling(p, "stampSlow") /\ PollTo(p, "slow")
     \/ Polling(p, "stamp") /\ poll[p].st = "authorized" /\ PollTo(p, "loadUser")
     \/ Polling(p, "stamp") /\ poll[p].st # "authorized" /\ PollEnds(p)
  /\ \/ recent' = recent \cup {poll[p].device}
     \/ "dbFail" \in Operations /\ recent' = recent
  /\ UNCHANGED <<vars, device, overdue, deviceHistory>>

\* Mutant: the configured interval is raised instead of the stored one.
SlowDownFromConfig(p) ==
  /\ Polling(p, "slow")
  /\ LET d == poll[p].device
     IN  /\ device' = [device EXCEPT ![d].interval = BaseInterval + 1]
         /\ slowDowns' = [slowDowns EXCEPT ![d] = @ + 1]
  /\ PollEnds(p)
  /\ UNCHANGED <<vars, recent, overdue, issuedTo, unspent>>

\* IncrementInterval, one UPDATE; the longer interval may not have passed yet
\* although the shorter one had.
SlowDown(p) ==
  /\ Polling(p, "slow")
  /\ LET d == poll[p].device
     IN  \/ /\ device' = [device EXCEPT ![d].interval = @ + 1]
            /\ slowDowns' = [slowDowns EXCEPT ![d] = @ + 1]
            /\ recent' \in {recent, recent \cup {d}}
         \/ /\ "dbFail" \in Operations
            /\ UNCHANGED <<device, slowDowns, recent>>
  /\ PollEnds(p)
  /\ UNCHANGED <<vars, overdue, issuedTo, unspent>>

\* Mutant: the user is not looked up among the active ones.
LoadDeviceUserUnchecked(p) ==
  /\ Polling(p, "loadUser")
  /\ pc' = [pc EXCEPT ![p] = "insertToken"]
  /\ req' = [req EXCEPT ![p] = [NoRequest EXCEPT !.user = poll[p].user]]
  /\ PollTo(p, "consume")
  /\ UNCHANGED <<tables, pending, sweeper, clocks, history>>
  /\ UNCHANGED <<device, recent, overdue, deviceHistory>>

LoadDeviceUser(p) ==
  /\ Polling(p, "loadUser")
  /\ \/ DirectGrant(p, poll[p].user) /\ PollTo(p, "consume")
     \/ /\ user[poll[p].user] # "active" \/ "dbFail" \in Operations
        /\ PollEnds(p) /\ UNCHANGED vars
  /\ UNCHANGED <<device, recent, overdue, deviceHistory>>

\* Mutant: the statement is left out.
LeaveDeviceCode(p) ==
  /\ Polling(p, "consume")
  /\ PollTo(p, "issue")
  /\ UNCHANGED <<vars, device, recent, overdue, deviceHistory>>

\* The poll goes on whatever the UPDATE did.
ConsumeDeviceCode(p) ==
  /\ Polling(p, "consume")
  /\ LET d == poll[p].device
     IN  \/ /\ SetStatus(d, "authorized", [device[d] EXCEPT !.st = "consumed"])
            /\ UNCHANGED unspent
         \/ /\ "dbFail" \in Operations
            /\ unspent' = unspent \cup {d}
            /\ UNCHANGED device
  /\ PollTo(p, "issue")
  /\ UNCHANGED <<vars, recent, overdue, issuedTo, slowDowns>>

\* The statements of the token endpoint that insert the grant.
Issue(p) ==
  /\ Polling(p, "issue")
  /\ \/ \E g \in Grants : /\ CreateToken(p, g)
                          /\ issuedTo' = [issuedTo EXCEPT ![g] = poll[p].device]
                          /\ UNCHANGED poll
     \/ CreateSession(p) /\ PollEnds(p) /\ UNCHANGED issuedTo
     \/ FatalError(p) /\ PollEnds(p) /\ UNCHANGED issuedTo
  /\ UNCHANGED <<device, recent, overdue, slowDowns, unspent>>

-----------------------------------------------------------------------------
(* The account API: HandleDeviceAuthorize and HandleDeviceDeny.            *)

\* AccountAuthMiddleware accepts the bearer g of an active user.
AccountRequest(p, g, d) ==
  /\ Live(g) /\ user[session[g].user] = "active"
  /\ \E step \in {"readPending", "readToDeny"} :
       StartPoll(p, [NoPoll EXCEPT !.step = step, !.device = d, !.user = session[g].user])
  /\ UNCHANGED <<vars, device, recent, overdue, deviceHistory>>

\* DeviceCodeByUserCode; only an approval looks at expires_at.
AccountRead(p) ==
  /\ LET d == poll[p].device
         isPending == device[d].st = "pending"
     IN  \/ /\ Polling(p, "readPending")
            /\ IF isPending /\ d \notin overdue THEN PollTo(p, "approve") ELSE PollEnds(p)
         \/ /\ Polling(p, "readToDeny")
            /\ IF isPending THEN PollTo(p, "deny") ELSE PollEnds(p)
  /\ UNCHANGED <<vars, device, recent, overdue, deviceHistory>>

\* Mutant: AND status = 'pending' is dropped.
ApproveAnyStatus(p) ==
  /\ Polling(p, "approve")
  /\ device' = [device EXCEPT ![poll[p].device].st = "authorized",
                              ![poll[p].device].user = poll[p].user]
  /\ PollEnds(p)
  /\ UNCHANGED <<vars, recent, overdue, deviceHistory>>

AuthorizeDeviceCode(p) ==
  /\ Polling(p, "approve")
  /\ LET d == poll[p].device
     IN  SetStatus(d, "pending", [device[d] EXCEPT !.st = "authorized", !.user = poll[p].user])
  /\ PollEnds(p)
  /\ UNCHANGED <<vars, recent, overdue, deviceHistory>>

\* Mutant: the same here.
DenyAnyStatus(p) ==
  /\ Polling(p, "deny")
  /\ device' = [device EXCEPT ![poll[p].device].st = "denied"]
  /\ PollEnds(p)
  /\ UNCHANGED <<vars, recent, overdue, deviceHistory>>

DenyDeviceCode(p) ==
  /\ Polling(p, "deny")
  /\ LET d == poll[p].device
     IN  SetStatus(d, "pending", [device[d] EXCEPT !.st = "denied"])
  /\ PollEnds(p)
  /\ UNCHANGED <<vars, recent, overdue, deviceHistory>>

\* The look-up or the UPDATE of an account request, or the SELECT of the user
\* code, fails: the request ends.
AccountFails(p) ==
  /\ "dbFail" \in Operations
  /\ poll[p].step \in {"readPending", "readToDeny", "approve", "deny"}
  /\ PollEnds(p)
  /\ UNCHANGED <<vars, device, recent, overdue, deviceHistory>>

-----------------------------------------------------------------------------
(* Time, cleanup and restart.                                              *)

IntervalPasses(d) ==
  /\ recent' = recent \ {d}
  /\ UNCHANGED <<vars, device, overdue, poll, deviceHistory>>

DeviceCodeExpires(d) ==
  /\ DeviceExists(d)
  /\ overdue' = overdue \cup {d}
  /\ UNCHANGED <<vars, device, recent, poll, deviceHistory>>

\* A whole retention after the expiry no request still holds the row.
SweepDeviceCodes ==
  /\ \E gone \in SUBSET {d \in overdue : DeviceExists(d) /\ \A p \in Procs : poll[p].device # d} :
       device' = [d \in Devices |-> IF d \in gone THEN [device[d] EXCEPT !.st = "deleted"]
                                    ELSE device[d]]
  /\ UNCHANGED <<vars, recent, overdue, poll, deviceHistory>>

DeviceCrash ==
  /\ Crash
  /\ poll' = [p \in Procs |-> NoPoll]
  /\ UNCHANGED <<device, recent, overdue, deviceHistory>>

-----------------------------------------------------------------------------
PollStep(p) ==
  \/ PollStamp(p) \/ SlowDown(p) \/ LoadDeviceUser(p) \/ ConsumeDeviceCode(p) \/ Issue(p)

AccountStepOf(p) ==
  AccountRead(p) \/ AuthorizeDeviceCode(p) \/ DenyDeviceCode(p) \/ AccountFails(p)

DeviceTime ==
  (\E d \in Devices : IntervalPasses(d) \/ DeviceCodeExpires(d)) \/ SweepDeviceCodes

\* What the token endpoint does without a device.
ElsewhereStep ==
  /\ \/ \E p \in Procs : Polling(p, "idle") /\ (RequestStart(p) \/ RequestStep(p))
     \/ Revocation
     \/ \E u \in Users : AccountStart(u) \/ AccountStep(u)
     \/ Clock
     \/ Sweep
  /\ UNCHANGED deviceVars

DeviceNext ==
  \/ \E d \in Devices : CreateDeviceCode(d)
  \/ \E p \in Procs, d \in Devices : PollRead(p, d)
  \/ \E p \in Procs, g \in Grants, d \in Devices : AccountRequest(p, g, d)
  \/ \E p \in Procs : PollStep(p) \/ AccountStepOf(p)
  \/ DeviceTime
  \/ DeviceCrash
  \/ ElsewhereStep

DeviceSpec == DeviceInit /\ [][DeviceNext]_allVars

-----------------------------------------------------------------------------
(* Properties.                                                             *)

\* Type invariant of the device_codes table and the requests on it.
DeviceTypeOK ==
  /\ device \in [Devices -> DeviceRow]
  /\ recent \subseteq Devices /\ overdue \subseteq Devices /\ unspent \subseteq Devices
  /\ poll \in [Procs -> Poll]
  /\ issuedTo \in [Grants -> Devices \cup {None}]
  /\ slowDowns \in [Devices -> Nat]

\* A grant issued to a device is the one its user approved: the row has left
\* pending, was not denied, and names the user the grant was minted for,
\* however polls, approvals and denials overlap.
DeviceGrantApproved ==
  \A g \in Grants :
    LET d == issuedTo[g]
    IN  d # None => /\ device[d].st \in {"authorized", "consumed", "deleted"}
                    /\ device[d].user = token[g].user

\* A device code that yielded a grant cannot be redeemed by a poll that comes
\* from now on: it is consumed or purged, or the UPDATE failed and the poll
\* went on without it.
DeviceCodeSpent ==
  \A g \in Grants :
    LET d == issuedTo[g]
    IN  d # None => device[d].st \in {"consumed", "deleted"} \/ d \in unspent

\* The first answer stands: once a user code was approved or denied, no other
\* approval or denial that was under way changes the user or the verdict.
FirstAnswerStands ==
  [][\A d \in Devices :
       device[d].st \notin {"free", "pending"} =>
         /\ device'[d].user = device[d].user
         /\ device[d].st = "denied" => device'[d].st \in {"denied", "deleted"}
         /\ device[d].st = "consumed" => device'[d].st \in {"consumed", "deleted"}]_allVars

\* No slow_down is lost between overlapping polls: the interval of a device is
\* the base interval and one step for each that was recorded.
SlowDownsCounted ==
  \A d \in Devices :
    device[d].st # "free" => device[d].interval = BaseInterval + slowDowns[d]

\* Refinement: to the tables of the token endpoint a redeemed device code is a
\* grant to an active user, so that all of its safety properties carry over.
TokenEndpointSpec == Spec

-----------------------------------------------------------------------------
(* The inductive invariant.                                                *)

\* An approved row names the user who approved it.
RowsApproved ==
  \A d \in Devices : device[d].st \in {"authorized", "consumed"} => device[d].user # None

\* What a device request holds between two statements: the approval it read
\* still stands, and a poll that is about to issue has spent the code.
PollAgrees(p) ==
  LET q == poll[p]
  IN  q.step # "idle" =>
        /\ q.device # None
        /\ q.step \in {"readPending", "readToDeny", "approve", "deny"} => q.user # None
        /\ q.step \in {"stampSlow", "slow"} => device[q.device].st # "free"
        /\ q.step \in {"loadUser", "consume", "issue"} => q.st = "authorized"
        /\ q.st = "authorized" => /\ q.user # None
                                  /\ device[q.device].user = q.user
                                  /\ device[q.device].st \in {"authorized", "consumed"}
        /\ q.step \in {"consume", "issue"} => req[p].user = q.user
        /\ q.step = "issue" => device[q.device].st = "consumed" \/ q.device \in unspent

PollsAgree == \A p \in Procs : PollAgrees(p)

\* Only an inserted tokens row was issued to a device.
IssuedRows == \A g \in Grants : issuedTo[g] # None => token[g].st # "free"

\* A row that was not inserted yet has not been slowed down.
FreshRows == \A d \in Devices : device[d].st = "free" => slowDowns[d] = 0

DeviceInv ==
  /\ DeviceTypeOK
  /\ RowsApproved
  /\ PollsAgree
  /\ IssuedRows
  /\ FreshRows
  /\ DeviceGrantApproved
  /\ DeviceCodeSpent
  /\ SlowDownsCounted
-----------------------------------------------------------------------------
\* Refinement: an approval is good once.  A poll that has read it holds it until the
\* grant is inserted or the poll ends, the grants are its uses, and a poll that
\* went on after a failed ConsumeDeviceCode still owes that.
DeviceStage(d) ==
  IF device[d].st = "authorized" THEN "good"
  ELSE IF device[d].st \in {"free", "pending"} THEN "none" ELSE "spent"

DeviceStages == [d \in Devices |-> DeviceStage(d)]

Approved(p, d) == poll[p].device = d /\ poll[p].st = "authorized"

WillIssue(p) ==
  \/ poll[p].step \in {"stamp", "loadUser", "consume"}
  \/ poll[p].step = "issue" /\ pc[p] = "insertToken"

OwesConsume(p) ==
  /\ poll[p].step = "issue" /\ pc[p] # "insertToken"
  /\ device[poll[p].device].st = "authorized"

ApprovalHolders == {h \in Procs \X Devices : Approved(h[1], h[2]) /\ WillIssue(h[1])}

ApprovalsOwed == {h \in Procs \X Devices : Approved(h[1], h[2]) /\ OwesConsume(h[1])}

IssuedTo(d) == {g \in Grants : issuedTo[g] = d}

DeviceUses == [d \in Devices |-> IF unspent = {} THEN Cardinality(IssuedTo(d)) ELSE 0]

OneApproval == INSTANCE OneTimeToken WITH
  Tokens <- Devices, Reliable <- "dbFail" \notin Operations, stage <- DeviceStages,
  found <- ApprovalHolders, owed <- ApprovalsOwed,
  uses <- DeviceUses, lost <- unspent # {}

\* An approval yields grants only for polls that have read it before it was consumed
\* (handleDeviceCodeGrant).
ApprovalsGoodOnce == OneApproval!Spec

\* A poll about to consume the code is about to insert the grant after that; what
\* was lost was lost to a failure; the grants can be counted.
ApprovalInv ==
  /\ \A p \in Procs : poll[p].step = "consume" => pc[p] = "insertToken"
  /\ unspent # {} => "dbFail" \in Operations
  /\ \A d \in Devices : IsFiniteSet(IssuedTo(d))
=============================================================================
