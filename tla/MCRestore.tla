------------------------------ MODULE MCRestore ------------------------------
(***************************************************************************)
(* Restore for TLC: the instance is in audit_chain.cfg.  No symmetry: the  *)
(* run checks a liveness property.                                         *)
(***************************************************************************)
EXTENDS Restore
=============================================================================
