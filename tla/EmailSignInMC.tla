---------------------------- MODULE EmailSignInMC ----------------------------
(* Instances of EmailSignIn for TLC. *)
EXTENDS EmailSignIn, TLC

CONSTANTS openid, email

Symmetry == Permutations(Procs) \cup Permutations(Links)

TwoScopes == {openid, email}

\* A narrow and a wide request, and one that insists on the consent page.
ThreeAsks == {[scope |-> {openid}, prompt |-> "any"],
              [scope |-> TwoScopes, prompt |-> "any"],
              [scope |-> {openid}, prompt |-> "consent"]}

\* src/docs-web/docs/authentication/consent.mdx:34: "When `consent_required` is
\* `true`, users must approve scopes before an authorization code is issued",
\* whichever way they sign in.
CodesApproved == unapproved = {}

\* Bounds: a behaviour is followed until an UPDATE is lost, since nothing is
\* counted from then on, and until a code is issued without consent once there
\* are links.
NothingLost == ~lost
UnapprovedAlone == unapproved = {} \/ \A l \in Links : link[l] = "none"
=============================================================================
