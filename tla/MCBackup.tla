------------------------------ MODULE MCBackup ------------------------------
(***************************************************************************)
(* Backup for TLC: the instance is in backup_retention.cfg.  Consumers are *)
(* interchangeable, and so are the on-demand requests.                     *)
(***************************************************************************)
EXTENDS Backup, TLC

Symmetry == Permutations(Workers) \cup Permutations(Manual)
=============================================================================
