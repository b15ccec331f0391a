---------------------------- MODULE MCExecution ----------------------------
(***************************************************************************)
(* Execution for TLC: the instances are in the exec_*.cfg and find_*.cfg   *)
(* configurations.  Consumers are interchangeable, and so are the          *)
(* instructions of a batch; the liveness runs use no symmetry.             *)
(***************************************************************************)
EXTENDS Execution, TLC

Symmetry == Permutations(Workers) \cup Permutations(Instructions)
=============================================================================
