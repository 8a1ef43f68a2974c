------------------------ MODULE MCExecutionCapacity ------------------------
(* Instances of ExecutionCapacity for TLC. *)
EXTENDS ExecutionCapacity

CONSTANTS o1, o2, o3

MCOps   == {o1, o2, o3}
MCHosts == {1, 2}
=============================================================================
