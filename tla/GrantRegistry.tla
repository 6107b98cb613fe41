--------------------------- MODULE GrantRegistry ---------------------------
(***************************************************************************)
(* What the token endpoint promises about the grants it issues, whichever  *)
(* statements it takes: a grant is minted for one user, becomes usable at  *)
(* most once, ends for ever, and a refreshed grant is only minted for the  *)
(* same user and after the grant it replaces has ended.                    *)
(***************************************************************************)
CONSTANTS Grants, Users, None

VARIABLES
  stage,     \* stage[g]: absent, pending (not usable yet), live or ended
  subject,   \* subject[g]: the user g was minted for
  parent     \* parent[g]: the grant g replaces, None for a first grant

vars == <<stage, subject, parent>>

TypeOK ==
  /\ stage \in [Grants -> {"absent", "pending", "live", "ended"}]
  /\ subject \in [Grants -> Users \cup {None}]
  /\ parent \in [Grants -> Grants \cup {None}]

Init ==
  /\ stage = [g \in Grants |-> "absent"]
  /\ subject = [g \in Grants |-> None]
  /\ parent = [g \in Grants |-> None]

Mint(g, u, h) ==
  /\ stage[g] = "absent"
  /\ h # None => stage[h] = "ended" /\ subject[h] = u
  /\ stage' = [stage EXCEPT ![g] = "pending"]
  /\ subject' = [subject EXCEPT ![g] = u]
  /\ parent' = [parent EXCEPT ![g] = h]

Open(g) ==
  /\ stage[g] = "pending"
  /\ stage' = [stage EXCEPT ![g] = "live"]
  /\ UNCHANGED <<subject, parent>>

End(S) ==
  /\ \A g \in S : stage[g] \in {"pending", "live"}
  /\ stage' = [g \in Grants |-> IF g \in S THEN "ended" ELSE stage[g]]
  /\ UNCHANGED <<subject, parent>>

Next ==
  \/ \E g \in Grants, u \in Users, h \in Grants \cup {None} : Mint(g, u, h)
  \/ \E g \in Grants : Open(g)
  \/ \E S \in SUBSET Grants : End(S)

Spec == Init /\ [][Next]_vars
=============================================================================
