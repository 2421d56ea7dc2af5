------------------------------ MODULE MCTaskRun ------------------------------
(***************************************************************************)
(* An instance of TaskRun for TLC.                                          *)
(***************************************************************************)
EXTENDS TaskRun, TLC

CONSTANTS v1, v2, v3

ThreeContents == {v1, v2, v3}

\* Contents are only compared with each other.
AnyContents == Permutations(ThreeContents)
==============================================================================
