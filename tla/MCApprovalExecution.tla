------------------------ MODULE MCApprovalExecution ------------------------
(* Instances of ApprovalExecution for TLC. *)
EXTENDS ApprovalExecution, TLC

CONSTANTS r1, r2, h1, h2

MCOneRun       == {r1}
MCTwoRuns      == {r1, r2}
MCOneHandler   == {h1}
MCTwoHandlers  == {h1, h2}
MCNone         == {}

HandlerSymmetry == Permutations(Handlers)
=============================================================================
