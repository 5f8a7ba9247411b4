------------------------- MODULE MCProviderCreation ------------------------
(* A small instance of ProviderCreation for TLC.                           *)
EXTENDS ProviderCreation, TLC

CONSTANTS p1, p2, p3, w1, create, t1, t2, q1, q2, q3

ThreeCalls     == {p1, p2, p3}
OneWindow      == {w1}
OneKind        == {create}
TwoTargets     == {t1, t2}
ThreeProviders == {q1, q2, q3}

CreationSymmetry == Permutations(Payload) \cup Permutations(Target) \cup Permutations(Provider)

=============================================================================
