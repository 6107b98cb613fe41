------------------------ MODULE TokenEndpointClaims ------------------------
(***************************************************************************)
(* Statements of the documentation and of comments in the code about the   *)
(* token endpoint that its interleavings, or even single requests one      *)
(* after the other, do not keep.  A run shows the counterexample of        *)
(* RefreshLifetimeKept; the others stand here as the documentation has     *)
(* them, next to the properties of TokenEndpoint that say what holds.      *)
(***************************************************************************)
EXTENDS TokenEndpointMC

\* docs-web/docs/protocol/authorization-code.mdx:94: the code "is short-lived
\* (default 10 minutes) and single-use".
CodeSingleUse ==
  \A g, h \in Grants :
    origin[g].code # None /\ origin[g].code = origin[h].code => g = h

\* pkg/token/authorization_code.go:31: on reuse of a code, "revoke all tokens
\* previously issued for this authorization": those of the code itself and of
\* the refreshes that followed.
IssuedFor(c) ==
  {g \in Grants : \/ origin[g].code = c
                  \/ /\ origin[g].parent # None
                     /\ origin[origin[g].parent].code = c}

ReuseRevokesIssued ==
  [][\A p \in Procs : ReplayedCode(p) =>
       \A g \in IssuedFor(req[p].code) : token'[g].st # "valid"]_vars

\* docs-web/docs/configuration/runtime-settings.mdx:48: the refresh token lifetime
\* "controls how long a user stays logged in": until then, an unrevoked
\* refresh token still has the session row a refresh needs.
RefreshLifetimeKept ==
  \A g \in Grants :
    token[g].st = "valid" /\ g \notin expired => session[g].st # "deleted"

\* pkg/user/delete.go:95: DeactivateUser "immediately revokes all tokens and
\* deactivates all sessions": when it has returned, none is honoured.
DeactivationImmediate ==
  \A g \in Grants :
    LET u == session[g].user
    IN  Live(g) => ~(user[u] = "deactivated" /\ <<u, "revokeAll">> \notin pending)
=============================================================================
