---------------------------- MODULE MCEndpoints ----------------------------
(***************************************************************************)
(* A small instance of Endpoints for TLC.                                  *)
(***************************************************************************)
EXTENDS Endpoints, TLC

Symmetry == Permutations(Conn)
=============================================================================
