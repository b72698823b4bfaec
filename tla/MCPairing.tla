----------------------------- MODULE MCPairing ------------------------------
(***************************************************************************)
(* The instances of Pairing that TLC checks.                               *)
(***************************************************************************)
EXTENDS Pairing, TLC

DesktopSymmetry == Permutations(Desktop)
=============================================================================
