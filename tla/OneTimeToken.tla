---------------------------- MODULE OneTimeToken ----------------------------
(***************************************************************************)
(* What the rows that are good once promise although they are read, used   *)
(* and spent in separate statements: a row never becomes good again, only  *)
(* a request that found it good uses it, once, and a use has spent the row *)
(* or leaves a request that owes it.  Authorization codes, device codes,   *)
(* mailed links, passkey challenges and the challenges of the second       *)
(* factor keep it.                                                         *)
(***************************************************************************)
EXTENDS Naturals

CONSTANTS Tokens, Procs,
  Reliable   \* no UPDATE that spends a row fails, and no restart forgets one

VARIABLES
  stage,   \* stage[t]: none, good or spent
  found,   \* <<p, t>>: request p found row t good and has not used it yet
  owed,    \* <<p, t>>: p used t and has not spent it yet
  uses,    \* uses[t]: how often t was used while nothing was lost
  lost     \* an UPDATE that was owed never happened

vars == <<stage, found, owed, uses, lost>>

Unused == [t \in Tokens |-> 0]

Init ==
  /\ stage = [t \in Tokens |-> "none"]
  /\ found = {} /\ owed = {}
  /\ uses = Unused /\ lost = FALSE

Issue(t) ==
  /\ stage[t] = "none"
  /\ stage' = [stage EXCEPT ![t] = "good"]
  /\ UNCHANGED <<found, owed, uses, lost>>

Find(p, t) ==
  /\ stage[t] = "good"
  /\ \A k \in Tokens : <<p, k>> \notin found \cup owed
  /\ found' = found \cup {<<p, t>>}
  /\ UNCHANGED <<stage, owed, uses, lost>>

Use(p, t) ==
  /\ <<p, t>> \in found
  /\ found' = found \ {<<p, t>>}
  /\ uses' = IF lost THEN uses ELSE [uses EXCEPT ![t] = @ + 1]
  /\ \/ stage' = [stage EXCEPT ![t] = "spent"] /\ UNCHANGED owed
     \/ owed' = owed \cup {<<p, t>>} /\ UNCHANGED stage
  /\ UNCHANGED lost

\* Rows are used up, refused, expire, are replaced or purged, and what is owed is paid.
Spend ==
  /\ stage' \in [Tokens -> {"none", "good", "spent"}]
  /\ \A t \in Tokens : stage'[t] \in {stage[t], "spent"}
  /\ owed' \in SUBSET owed /\ \A h \in owed \ owed' : stage'[h[2]] = "spent"
  /\ UNCHANGED <<found, uses, lost>>

\* Requests end without a use.
Release ==
  /\ found' \in SUBSET found
  /\ UNCHANGED <<stage, owed, uses, lost>>

Lose ==
  /\ ~Reliable
  /\ found' \in SUBSET found /\ owed' \in SUBSET owed
  /\ lost' = TRUE /\ uses' = Unused
  /\ UNCHANGED stage

Next ==
  \/ \E t \in Tokens : Issue(t)
  \/ \E p \in Procs, t \in Tokens : Find(p, t) \/ Use(p, t)
  \/ Spend \/ Release \/ Lose

Spec == Init /\ [][Next]_vars
=============================================================================
