------------------------------ MODULE MCKptRun ------------------------------
(***************************************************************************)
(* KptRun for TLC.  Nothing in the code depends on which value an          *)
(* annotation has beyond its being equal to another or empty, so the       *)
(* values that are model values may be permuted in the runs without        *)
(* liveness.                                                               *)
(***************************************************************************)
EXTENDS KptRun, TLC

ValueSymmetry == Permutations(Values)
=============================================================================
