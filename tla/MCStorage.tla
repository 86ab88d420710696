----------------------------- MODULE MCStorage -----------------------------
(***************************************************************************)
(* Instances of Storage for TLC; the .cfg files give the constants.        *)
(***************************************************************************)
EXTENDS Storage, TLC

\* Crashes of one kind, and everything at once.
CrashesAndErrors == {{"process"}, {"power"}, Fault}

\* Keys and values are only compared for equality.
Symmetry == Permutations(Key) \cup Permutations(Value)

=============================================================================
