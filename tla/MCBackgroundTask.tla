--------------------------- MODULE MCBackgroundTask ---------------------------
(* Instances of BackgroundTask for TLC. *)
EXTENDS BackgroundTask

CONSTANTS t1, t2

MCOneTask  == {t1}
MCTwoTasks == {t1, t2}
=============================================================================
