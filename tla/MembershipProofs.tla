-------------------------- MODULE MembershipProofs --------------------------
(***************************************************************************)
(* What the voter sets of membership.go decide: two quorums of one         *)
(* configuration share a voter, a quorum of a joint configuration shares   *)
(* one with every quorum before it and after it, and more votes never lose *)
(* a quorum. For every finite set of nodes.                                *)
(***************************************************************************)
EXTENDS Membership, FiniteSetTheorems, TLAPS

-----------------------------------------------------------------------------
\* Two majorities of one finite set share a member of it (membership.go
\* majority).
LEMMA MajoritiesIntersect ==
  ASSUME NEW S, IsFiniteSet(S), NEW Q, NEW R, Majority(S, Q), Majority(S, R)
  PROVE  (S \cap Q) \cap (S \cap R) # {}
<1>1. Cardinality(S) \in Nat
  BY FS_CardinalityType
<1>2. /\ Cardinality(S \cap Q) \in Nat
      /\ Cardinality(S \cap R) \in Nat
  <2>1. IsFiniteSet(S \cap Q) /\ IsFiniteSet(S \cap R)
    BY FS_Subset
  <2> QED
    BY <2>1, FS_CardinalityType
<1>3. Cardinality(S \cap Q) + Cardinality(S \cap R) > Cardinality(S)
  BY <1>1, <1>2 DEF Majority
<1> QED
  BY <1>3, FS_MajoritiesIntersect

\* Two sets of votes that are both enough for one configuration have a common
\* voter of it, whether it is simple or joint (membership.go HasQuorum): two
\* candidates of one term cannot both win unless somebody voted for both.
THEOREM QuorumsIntersect ==
  ASSUME NEW S, IsFiniteSet(S), NEW m \in Configurations(S), NEW Q, NEW R,
         HasQuorum(m, Q), HasQuorum(m, R)
  PROVE  Voters(m) \cap Q \cap R # {}
<1>1. IsFiniteSet(m.old)
  BY FS_Subset DEF Configurations
<1>2. (m.old \cap Q) \cap (m.old \cap R) # {}
  BY <1>1, MajoritiesIntersect DEF HasQuorum
<1>3. m.old \subseteq Voters(m)
  BY DEF Voters
<1> QED
  BY <1>2, <1>3

\* A quorum of a joint configuration shares a voter with every quorum of the
\* simple configuration before it and with every quorum of the simple one
\* after it (confchange.go: there is never a moment when two different groups
\* could each elect a leader).
THEOREM JointQuorumMeetsOldAndNew ==
  ASSUME NEW S, IsFiniteSet(S), NEW old \in SUBSET S, NEW new \in SUBSET S,
         NEW Q, HasQuorum(Joint(old, new), Q), NEW R
  PROVE  /\ HasQuorum(Simple(old), R) => Q \cap R # {}
         /\ HasQuorum(Simple(new), R) => Q \cap R # {}
<1>1. Majority(old, Q) /\ Majority(new, Q)
  BY DEF HasQuorum, Joint
<1>2. IsFiniteSet(old) /\ IsFiniteSet(new)
  BY FS_Subset
<1>3. HasQuorum(Simple(old), R) => (old \cap Q) \cap (old \cap R) # {}
  BY <1>1, <1>2, MajoritiesIntersect DEF HasQuorum, Simple
<1>4. HasQuorum(Simple(new), R) => (new \cap Q) \cap (new \cap R) # {}
  BY <1>1, <1>2, MajoritiesIntersect DEF HasQuorum, Simple
<1> QED
  BY <1>3, <1>4

\* More votes for one set of voters.
LEMMA MajorityGrows ==
  ASSUME NEW S, IsFiniteSet(S), NEW V \in SUBSET S, NEW Q, NEW R, Q \subseteq R,
         Majority(V, Q)
  PROVE  Majority(V, R)
<1>1. IsFiniteSet(V)
  BY FS_Subset
<1>2. V \cap Q \subseteq V \cap R /\ IsFiniteSet(V \cap R) /\ IsFiniteSet(V \cap Q)
  BY <1>1, FS_Subset
<1>3. /\ Cardinality(V \cap Q) <= Cardinality(V \cap R)
      /\ Cardinality(V \cap Q) \in Nat /\ Cardinality(V \cap R) \in Nat
      /\ Cardinality(V) \in Nat
  BY <1>1, <1>2, FS_Subset, FS_CardinalityType
<1> QED
  BY <1>3 DEF Majority

\* More votes are as good, in a joint configuration too.
LEMMA QuorumGrows ==
  ASSUME NEW S, IsFiniteSet(S), NEW m \in Configurations(S), NEW Q, NEW R,
         Q \subseteq R, HasQuorum(m, Q)
  PROVE  HasQuorum(m, R)
<1>1. m.old \in SUBSET S /\ m.new \in SUBSET S
  BY DEF Configurations
<1> QED
  BY <1>1, MajorityGrows DEF HasQuorum

=============================================================================
