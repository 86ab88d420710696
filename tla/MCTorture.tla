------------------------------ MODULE MCTorture ------------------------------
(***************************************************************************)
(* An instance of Torture for TLC: three nodes, a short run.               *)
(***************************************************************************)
EXTENDS Torture

ThreeNodes == 1..3
Values == 0..Rounds

=============================================================================
