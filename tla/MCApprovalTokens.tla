--------------------------- MODULE MCApprovalTokens ---------------------------
(* Small instances of ApprovalTokens for TLC. *)
EXTENDS ApprovalTokens, TLC

CONSTANTS c1, c2, c3, t1, t2, noToken

ThreeCallers == {c1, c2, c3}
TwoTokens == {t1, t2}

Symmetry == Permutations(ThreeCallers) \cup Permutations(TwoTokens)
==============================================================================
