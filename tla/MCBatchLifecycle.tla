-------------------------- MODULE MCBatchLifecycle --------------------------
(***************************************************************************)
(* BatchLifecycle for TLC: the instance is in life_ceremony.cfg.  Officers *)
(* of one level are interchangeable unless one of them declared a          *)
(* conflict; the run checks liveness, so it uses no symmetry.              *)
(***************************************************************************)
EXTENDS BatchLifecycle, TLC

CONSTANTS y, q

\* The officer y is in conflict with a recipient of q.
MCConflicts == {<<y, q>>}

=============================================================================
