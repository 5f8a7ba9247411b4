--------------------------- MODULE MCPostedPayload --------------------------
(* A small instance of PostedPayload for TLC.                               *)
EXTENDS PostedPayload, TLC

CONSTANTS p1, p2, w1, w2, action, create

TwoPayloads == {p1, p2}
TwoWindows  == {w1, w2}
TwoKinds    == {action, create}

PayloadSymmetry == Permutations(Payload) \cup Permutations(Window) \cup Permutations(Kind)

=============================================================================
