-------------------------- MODULE MCPendingApprovals --------------------------
(* Small instances of PendingApprovals for TLC. *)
EXTENDS PendingApprovals, TLC

CONSTANTS plain1, plain2, secret1

AllCalls == {plain1, plain2, secret1}
TwoPlain == {plain1, plain2}
Secret == {secret1}
NoCalls == {}

Symmetry == Permutations(TwoPlain)
==============================================================================
