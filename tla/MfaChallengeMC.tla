--------------------------- MODULE MfaChallengeMC ---------------------------
(* Instances of MfaChallenge for TLC. *)
EXTENDS MfaChallenge, TLC

Symmetry == Permutations(Procs) \cup Permutations(Challenges)

Both == [RequireMfa |-> TRUE, MfaMethod |-> "both", TrustDevice |-> TRUE, Smtp |-> TRUE]

\* Settings that take every branch of the method selection between them.
ThreeConfigs == {Both, [Both EXCEPT !.RequireMfa = FALSE],
                 [Both EXCEPT !.MfaMethod = "email", !.Smtp = FALSE]}

\* Bounds: a behaviour is followed until an UPDATE is lost, since nothing is
\* counted from then on; a second challenge is inserted under the first settings.
NothingLost == ~lost
SecondUnderBoth == config = Both \/ \E c \in Challenges : challenge[c].st = "none"
=============================================================================
