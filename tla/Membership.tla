----------------------------- MODULE Membership -----------------------------
(***************************************************************************)
(* The voter sets that decide elections and commits, as internal/raft      *)
(* represents them (membership.go): a simple configuration uses only old,  *)
(* a joint configuration needs a majority of old and a majority of new.    *)
(***************************************************************************)
EXTENDS Integers, FiniteSets

\* A configuration over the nodes of S.
Configurations(S) == [old : SUBSET S, new : SUBSET S, joint : BOOLEAN]

Simple(voters) == [old |-> voters, new |-> {}, joint |-> FALSE]
Joint(old, new) == [old |-> old, new |-> new, joint |-> TRUE]

Voters(m) == IF m.joint THEN m.old \cup m.new ELSE m.old

\* More than half of set appears in votes. Go divides integers: len/2 + 1.
Majority(set, votes) ==
  Cardinality(set \cap votes) >= (Cardinality(set) \div 2) + 1

\* Seeded mistake, the one membership.go warns about: a majority of the union.
HasQuorumOfUnion(m, votes) == Majority(Voters(m), votes)

HasQuorum(m, votes) ==
  /\ Majority(m.old, votes)
  /\ m.joint => Majority(m.new, votes)

=============================================================================
