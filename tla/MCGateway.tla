------------------------------ MODULE MCGateway ------------------------------
(***************************************************************************)
(* Gateway for TLC: the instance is in daraja_gateway.cfg.                 *)
(***************************************************************************)
EXTENDS Gateway, TLC

Symmetry == Permutations(Workers) \cup Permutations(Officers)
=============================================================================
