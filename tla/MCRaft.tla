------------------------------- MODULE MCRaft -------------------------------
(***************************************************************************)
(* Instances of RaftSafety for TLC; the .cfg files give the constants.     *)
(***************************************************************************)
EXTENDS RaftSafety, TLC

\* Nodes that campaign and never crash are interchangeable if the other sets
\* of the instance do not tell them apart.
Symmetry == Permutations(Campaigners)

=============================================================================
