--------------------------- MODULE RaftNodeProofs ---------------------------
(***************************************************************************)
(* What every handler of a replica (RaftNode) preserves: its type, and the *)
(* facts behind "save before sending". Module RaftProofs lifts them to the *)
(* hosts.                                                                  *)
(***************************************************************************)
EXTENDS RaftNode, IndexProofs, SequenceTheorems, TLAPS

-----------------------------------------------------------------------------
(* The newest configuration of a log.                                      *)

\* The newest config entry exists whenever a config entry does.
LEMMA NewestConfigType ==
  ASSUME NEW log \in Seq(Entry)
  PROVE  /\ NewestConfigIndex(log) \in 0..Len(log)
         /\ NewestConfigIndex(log) # 0 => NewestConfigIndex(log) \in ConfigIndexes(log)
<1>1. CASE ConfigIndexes(log) = {}
  BY <1>1 DEF NewestConfigIndex
<1>2. CASE ConfigIndexes(log) # {}
  <2>1. ConfigIndexes(log) \in SUBSET (0..Len(log))
    BY DEF ConfigIndexes
  <2>2. \E i \in ConfigIndexes(log) : \A j \in ConfigIndexes(log) : j <= i
    <3>1. Len(log) \in Nat
      BY LenProperties
    <3> QED
      BY <1>2, <2>1, <3>1, MaximumExists
  <2>3. NewestConfigIndex(log) \in ConfigIndexes(log)
    BY <1>2, <2>2 DEF NewestConfigIndex
  <2> QED
    BY <2>1, <2>3
<1> QED
  BY <1>1, <1>2

\* What recomputeMembership reads out of a log is a configuration.
LEMMA ConfigurationType ==
  ASSUME NEW log \in Seq(Entry)
  PROVE  ConfigurationOf(log) \in Configurations(Node)
<1>1. CASE NewestConfigIndex(log) = 0
  BY <1>1, NodeAssumption DEF ConfigurationOf, Simple, Configurations
<1>2. CASE NewestConfigIndex(log) # 0
  <2> DEFINE i == NewestConfigIndex(log)
  <2>1. i \in 1..Len(log) /\ IsConfig(log[i].data)
    BY <1>2, NewestConfigType DEF ConfigIndexes
  <2>2. log[i].data \in Data
    <3> HIDE DEF i
    <3>1. log[i] \in Entry
      BY <2>1, ElementOfSeq
    <3> QED
      BY <3>1 DEF Entry
  <2>3. PICK c \in Configurations(Node) : log[i].data = ConfigData(c)
    BY <2>1, <2>2 DEF Data, IsConfig, CommandData, Noop
  <2>4. log[i].data.membership = c
    BY <2>3 DEF ConfigData
  <2> QED
    BY <1>2, <2>4 DEF ConfigurationOf
<1> QED
  BY <1>1, <1>2

-----------------------------------------------------------------------------
(* What a handler preserves. D is the set of the indexes on the disk.      *)

\* The indexes on the disk or waiting to be saved.
Held(s, D) == D \cup {s.unstable[k].index : k \in 1..Len(s.unstable)}

\* The entries of a message follow its index, one by one.
Consecutive(m) == \A k \in 1..Len(m.entries) : m.entries[k].index = m.index + k

\* Once s and what it holds is saved, message m may be sent.
Sendable(m, s, D) ==
  /\ m.from = s.id
  /\ m.term <= IF m.type = "PreVote" THEN s.term + 1 ELSE s.term
  /\ Consecutive(m)
  /\ \A k \in 1..Len(m.entries) : m.entries[k].index \in Held(s, D)
  /\ m.type = "AppendResp" /\ ~m.reject => 1..m.index \subseteq Held(s, D)

Numbered(log) == \A i \in 1..Len(log) : log[i].index = i

NextPositive(s) == \A p \in Node : s.next[p] >= 1

\* A leader sends from index 1 at least, and no one campaigns in term 0.
RoleOK(s) ==
  /\ s.role = "Leader" => NextPositive(s)
  /\ s.role # "Follower" => s.term >= 1

ReplicaOK(s, D) ==
  /\ s \in Replica
  /\ RoleOK(s)
  /\ Numbered(s.log)
  /\ 1..Len(s.log) \subseteq Held(s, D)
  /\ \A m \in s.msgs : Sendable(m, s, D)

\* Replica r may follow replica s within one step of a host.
Follows(s, r, D) ==
  /\ ReplicaOK(r, D)
  /\ r.id = s.id
  /\ r.term >= s.term
  /\ Held(s, D) \subseteq Held(r, D)

\* A handler that returns the replica unchanged keeps all promises.
LEMMA FollowsReflexive ==
  ASSUME NEW D, NEW s, ReplicaOK(s, D)
  PROVE  Follows(s, s, D)
<1>1. s.term \in Nat
  BY DEF ReplicaOK, Replica
<1> QED
  BY <1>1 DEF Follows

\* Handlers call each other (handleVoteResp calls becomeLeader, and so on):
\* what each call preserves, their sequence preserves.
LEMMA FollowsTransitive ==
  ASSUME NEW D, NEW s, NEW r, NEW q, ReplicaOK(s, D),
         Follows(s, r, D), Follows(r, q, D)
  PROVE  Follows(s, q, D)
<1>1. s.term \in Nat /\ r.term \in Nat /\ q.term \in Nat
  BY DEF Follows, ReplicaOK, Replica
<1>2. q.term >= s.term
  BY <1>1 DEF Follows
<1> QED
  BY <1>2 DEF Follows

\* A message that was sendable stays so.
LEMMA SendableStays ==
  ASSUME NEW D, NEW s, NEW r, NEW m \in Message, Sendable(m, s, D),
         s.term \in Nat, r.term \in Nat, r.id = s.id, r.term >= s.term,
         Held(s, D) \subseteq Held(r, D)
  PROVE  Sendable(m, r, D)
<1>1. m.term \in Nat
  BY DEF Message
<1>2. m.term <= IF m.type = "PreVote" THEN r.term + 1 ELSE r.term
  BY <1>1 DEF Sendable
<1> QED
  BY <1>2 DEF Sendable

\* A message before its own fields are filled in is a message.
LEMMA MessageOfType ==
  ASSUME NEW s \in Replica, NEW type \in MessageType, NEW p \in Node
  PROVE  MessageOf(s, type, p) \in Message
<1>1. s.id \in Node /\ s.term \in Nat
  BY DEF Replica
<1>2. <<>> \in Seq(Entry)
  BY EmptySeq
<1> QED
  BY <1>1, <1>2 DEF MessageOf, Message

\* raftLog.term answers a term for every index, also one the log lacks.
LEMMA TermAtType ==
  ASSUME NEW log \in Seq(Entry), NEW i
  PROVE  TermAt(log, i) \in Nat
<1>1. CASE i \in 1..Len(log)
  <2>1. log[i] \in Entry
    BY <1>1, ElementOfSeq
  <2> QED
    BY <1>1, <2>1 DEF TermAt, Entry
<1>2. CASE i \notin 1..Len(log)
  BY <1>2 DEF TermAt
<1> QED
  BY <1>1, <1>2

\* raftLog.entriesFrom returns the entries of the log from i on, in place.
LEMMA EntriesFromType ==
  ASSUME NEW log \in Seq(Entry), NEW i \in Nat, i >= 1
  PROVE  /\ EntriesFrom(log, i) \in Seq(Entry)
         /\ \A k \in 1..Len(EntriesFrom(log, i)) :
              /\ i + k - 1 \in 1..Len(log)
              /\ EntriesFrom(log, i)[k] = log[i + k - 1]
<1>1. Len(log) \in Nat
  BY LenProperties
<1>2. \A j \in i..Len(log) : log[j] \in Entry
  BY <1>1, ElementOfSeq
<1>3. /\ SubSeq(log, i, Len(log)) \in Seq(Entry)
      /\ Len(SubSeq(log, i, Len(log))) =
           IF i <= Len(log) THEN Len(log) - i + 1 ELSE 0
      /\ \A k \in 1..(Len(log) - i + 1) :
           SubSeq(log, i, Len(log))[k] = log[i + k - 1]
  BY <1>1, <1>2, SubSeqProperties
<1>4. ASSUME NEW k \in 1..Len(SubSeq(log, i, Len(log)))
      PROVE  k \in 1..(Len(log) - i + 1) /\ i + k - 1 \in 1..Len(log)
  BY <1>1, <1>3
<1> QED
  BY <1>3, <1>4 DEF EntriesFrom

-----------------------------------------------------------------------------
(* Sending and the small steps the handlers are made of.                   *)

\* sendAppend may go out after the next save: all it replicates is held, its
\* term is the sender's, and its entries are consecutive.
LEMMA AppendToSendable ==
  ASSUME NEW D, NEW s, ReplicaOK(s, D), NEW p \in Node, s.next[p] >= 1
  PROVE  AppendTo(s, p) \in Message /\ Sendable(AppendTo(s, p), s, D)
<1> DEFINE base == MessageOf(s, "Append", p)
           i == s.next[p]
<1>1. /\ s \in Replica
      /\ s.log \in Seq(Entry)
      /\ s.next[p] \in Nat
      /\ s.committed \in Nat
      /\ s.term \in Nat
      /\ s.id \in Node
  BY DEF ReplicaOK, Replica
<1>2. base \in Message
  BY <1>1, MessageOfType DEF MessageType
<1>3. TermAt(s.log, i - 1) \in Nat
  BY <1>1, TermAtType
<1>4. /\ EntriesFrom(s.log, i) \in Seq(Entry)
      /\ \A k \in 1..Len(EntriesFrom(s.log, i)) :
           /\ i + k - 1 \in 1..Len(s.log)
           /\ EntriesFrom(s.log, i)[k] = s.log[i + k - 1]
  BY <1>1, EntriesFromType
<1>5. AppendTo(s, p) = [base EXCEPT !.index = i - 1,
                                    !.logTerm = TermAt(s.log, i - 1),
                                    !.commit = s.committed,
                                    !.entries = EntriesFrom(s.log, i)]
  BY DEF AppendTo
<1>6. AppendTo(s, p) \in Message
  <2>1. i - 1 \in Nat
    BY <1>1
  <2> HIDE DEF base, i
  <2> QED
    BY <1>1, <1>2, <1>3, <1>4, <1>5, <2>1 DEF Message
<1>7. /\ AppendTo(s, p).from = s.id
      /\ AppendTo(s, p).term = s.term
      /\ AppendTo(s, p).type = "Append"
      /\ AppendTo(s, p).index = i - 1
      /\ AppendTo(s, p).entries = EntriesFrom(s.log, i)
  BY DEF AppendTo, MessageOf
<1>8. \A k \in 1..Len(EntriesFrom(s.log, i)) :
        /\ EntriesFrom(s.log, i)[k].index = (i - 1) + k
        /\ EntriesFrom(s.log, i)[k].index \in Held(s, D)
  <2> TAKE k \in 1..Len(EntriesFrom(s.log, i))
  <2>1. i + k - 1 \in 1..Len(s.log)
    BY <1>4
  <2>2. EntriesFrom(s.log, i)[k].index = i + k - 1
    BY <1>4, <2>1 DEF ReplicaOK, Numbered
  <2>3. i + k - 1 \in Held(s, D)
    BY <2>1 DEF ReplicaOK
  <2>4. k \in Nat
    BY <1>4, LenProperties
  <2> QED
    BY <2>2, <2>3, <2>4, <1>1
<1>9. Sendable(AppendTo(s, p), s, D)
  <2> DEFINE x == AppendTo(s, p)
  <2>1. x.from = s.id /\ x.term <= s.term /\ x.type = "Append"
    BY <1>1, <1>7
  <2>2. \A k \in 1..Len(x.entries) : /\ x.entries[k].index = x.index + k
                                     /\ x.entries[k].index \in Held(s, D)
    BY <1>7, <1>8
  <2> HIDE DEF x
  <2>3. Sendable(x, s, D)
    BY <2>1, <2>2 DEF Sendable, Consecutive
  <2> QED
    BY <2>3 DEF x
<1> QED
  BY <1>6, <1>9

\* Queueing messages that may go out changes nothing else.
LEMMA SendFollows ==
  ASSUME NEW D, NEW s, ReplicaOK(s, D), NEW M \in SUBSET Message,
         \A m \in M : Sendable(m, s, D)
  PROVE  /\ Follows(s, Send(s, M), D)
         /\ Send(s, M).next = s.next
         /\ Send(s, M).role = s.role
         /\ Send(s, M).log = s.log
         /\ Send(s, M).term = s.term
         /\ Send(s, M).membership = s.membership
<1> DEFINE r == Send(s, M)
<1>1. s \in Replica /\ s.msgs \in SUBSET Message /\ s.term \in Nat
  BY DEF ReplicaOK, Replica
<1>2. r = [s EXCEPT !.msgs = s.msgs \cup M]
  BY DEF Send
<1>3. r \in Replica
  BY <1>1, <1>2 DEF Replica
<1>4. /\ r.id = s.id /\ r.term = s.term /\ r.role = s.role /\ r.log = s.log
      /\ r.next = s.next /\ r.unstable = s.unstable
      /\ r.membership = s.membership /\ r.msgs = s.msgs \cup M
  BY <1>1, <1>2 DEF Replica
<1>5. Held(r, D) = Held(s, D)
  BY <1>4 DEF Held
<1>6. \A m \in r.msgs : Sendable(m, r, D)
  <2> TAKE m \in r.msgs
  <2>1. Sendable(m, s, D) /\ m \in Message
    BY <1>1, <1>4 DEF ReplicaOK
  <2> HIDE DEF r
  <2> QED
    BY <2>1, <1>1, <1>4, <1>5, SendableStays
<1>7. ReplicaOK(r, D)
  <2> HIDE DEF r
  <2> QED
    BY <1>3, <1>4, <1>5, <1>6 DEF ReplicaOK, RoleOK, NextPositive
<1> QED
  BY <1>1, <1>4, <1>5, <1>7 DEF Follows

\* sendAppend keeps the promises of the replica.
LEMMA SendAppendFollows ==
  ASSUME NEW D, NEW s, ReplicaOK(s, D), NEW p \in Node, s.next[p] >= 1
  PROVE  Follows(s, SendAppend(s, p), D)
BY AppendToSendable, SendFollows DEF SendAppend

\* broadcastAppend keeps the promises of the replica, and its role.
LEMMA BroadcastAppendFollows ==
  ASSUME NEW D, NEW s, ReplicaOK(s, D), NextPositive(s)
  PROVE  /\ Follows(s, BroadcastAppend(s), D)
         /\ BroadcastAppend(s).next = s.next
         /\ BroadcastAppend(s).role = s.role
         /\ BroadcastAppend(s).membership = s.membership
<1> DEFINE M == {AppendTo(s, p) : p \in Node \ {s.id}}
<1>1. \A p \in Node : AppendTo(s, p) \in Message /\ Sendable(AppendTo(s, p), s, D)
  BY AppendToSendable DEF NextPositive
<1>2. M \in SUBSET Message /\ \A m \in M : Sendable(m, s, D)
  BY <1>1
<1> HIDE DEF M
<1>3. BroadcastAppend(s) = Send(s, M)
  BY DEF BroadcastAppend, M
<1> QED
  BY <1>2, <1>3, SendFollows

\* A change that leaves the log, the unsaved entries and the messages alone.
LEMMA FrameFollows ==
  ASSUME NEW D, NEW s, ReplicaOK(s, D), NEW r \in Replica,
         r.id = s.id, r.term >= s.term, r.log = s.log,
         r.unstable = s.unstable, r.msgs = s.msgs, RoleOK(r)
  PROVE  Follows(s, r, D)
<1>1. s.term \in Nat /\ r.term \in Nat /\ s.msgs \in SUBSET Message
  BY DEF ReplicaOK, Replica
<1>2. Held(r, D) = Held(s, D)
  BY DEF Held
<1>3. \A m \in r.msgs : Sendable(m, r, D)
  BY <1>1, <1>2, SendableStays DEF ReplicaOK
<1>4. ReplicaOK(r, D)
  BY <1>2, <1>3 DEF ReplicaOK
<1> QED
  BY <1>2, <1>4 DEF Follows

\* ... and that keeps the role, the term and the progress of the peers.
LEMMA SameRoleFollows ==
  ASSUME NEW D, NEW s, ReplicaOK(s, D), NEW r \in Replica,
         r.id = s.id, r.term = s.term, r.log = s.log,
         r.unstable = s.unstable, r.msgs = s.msgs,
         r.role = s.role, r.next = s.next
  PROVE  Follows(s, r, D)
<1>1. RoleOK(r)
  BY DEF ReplicaOK, RoleOK, NextPositive
<1>2. r.term >= s.term
  BY DEF Replica
<1> QED
  BY <1>1, <1>2, FrameFollows

\* becomeFollower keeps the promises if the term is not an older one.
LEMMA BecomeFollowerFollows ==
  ASSUME NEW D, NEW s, ReplicaOK(s, D), NEW t \in Nat, t >= s.term
  PROVE  /\ Follows(s, BecomeFollower(s, t), D)
         /\ BecomeFollower(s, t).term = t
         /\ BecomeFollower(s, t).log = s.log
         /\ BecomeFollower(s, t).next = s.next
<1> DEFINE r == BecomeFollower(s, t)
<1>1. s \in Replica
  BY DEF ReplicaOK
<1>2. r \in Replica
  BY <1>1 DEF BecomeFollower, Replica, Role
<1>3. /\ r.id = s.id /\ r.term = t /\ r.log = s.log /\ r.role = "Follower"
      /\ r.unstable = s.unstable /\ r.msgs = s.msgs /\ r.next = s.next
  BY <1>1 DEF BecomeFollower, Replica
<1> HIDE DEF r
<1>4. Follows(s, r, D)
  BY <1>2, <1>3, FrameFollows DEF RoleOK
<1> QED
  BY <1>3, <1>4 DEF r

\* recomputeMembership touches nothing but the membership.
LEMMA RecomputeMembershipFollows ==
  ASSUME NEW D, NEW s, ReplicaOK(s, D)
  PROVE  /\ Follows(s, RecomputeMembership(s), D)
         /\ RecomputeMembership(s).next = s.next
         /\ RecomputeMembership(s).role = s.role
         /\ RecomputeMembership(s).log = s.log
         /\ RecomputeMembership(s).term = s.term
<1> DEFINE r == RecomputeMembership(s)
<1>1. s \in Replica /\ s.log \in Seq(Entry) /\ s.term \in Nat
  BY DEF ReplicaOK, Replica
<1>2. ConfigurationOf(s.log) \in Configurations(Node)
  BY <1>1, ConfigurationType
<1>3. NewestConfigIndex(s.log) \in Nat
  BY <1>1, NewestConfigType, LenProperties
<1>4. r \in Replica
  BY <1>1, <1>2, <1>3 DEF RecomputeMembership, Replica
<1>5. /\ r.id = s.id /\ r.term = s.term /\ r.log = s.log /\ r.role = s.role
      /\ r.unstable = s.unstable /\ r.msgs = s.msgs /\ r.next = s.next
  BY <1>1 DEF RecomputeMembership, Replica
<1> HIDE DEF r
<1>6. RoleOK(r)
  BY <1>5 DEF ReplicaOK, RoleOK, NextPositive
<1>7. Follows(s, r, D)
  BY <1>1, <1>4, <1>5, <1>6, FrameFollows
<1> QED
  BY <1>5, <1>7 DEF r

\* A longer log whose new entries all wait to be saved.
LEMMA AppendedFollows ==
  ASSUME NEW D, NEW s, ReplicaOK(s, D), NEW r \in Replica,
         NEW es \in Seq(Entry), r.unstable = s.unstable \o es,
         r.id = s.id, r.term >= s.term, r.msgs = s.msgs,
         RoleOK(r), Numbered(r.log),
         \A i \in 1..Len(r.log) :
            i \in 1..Len(s.log) \/ \E k \in 1..Len(es) : es[k].index = i
  PROVE  Follows(s, r, D)
<1>1. /\ s.term \in Nat /\ r.term \in Nat /\ s.msgs \in SUBSET Message
      /\ s.unstable \in Seq(Entry)
  BY DEF ReplicaOK, Replica
<1>2. Len(s.unstable) \in Nat /\ Len(es) \in Nat
  BY <1>1, LenProperties
<1>3. /\ Len(r.unstable) = Len(s.unstable) + Len(es)
      /\ \A k \in 1..Len(s.unstable) : r.unstable[k] = s.unstable[k]
      /\ \A k \in 1..Len(es) : r.unstable[Len(s.unstable) + k] = es[k]
  BY <1>1, <1>2, ConcatProperties
<1>4. Held(s, D) \subseteq Held(r, D)
  BY <1>2, <1>3 DEF Held
<1>5. \A k \in 1..Len(es) : es[k].index \in Held(r, D)
  <2> TAKE k \in 1..Len(es)
  <2>1. Len(s.unstable) + k \in 1..Len(r.unstable)
    BY <1>2, <1>3
  <2>2. r.unstable[Len(s.unstable) + k].index = es[k].index
    BY <1>3
  <2> QED
    BY <2>1, <2>2 DEF Held
<1>6. 1..Len(r.log) \subseteq Held(r, D)
  BY <1>4, <1>5 DEF ReplicaOK
<1>7. \A m \in r.msgs : Sendable(m, r, D)
  BY <1>1, <1>4, SendableStays DEF ReplicaOK
<1>8. ReplicaOK(r, D)
  BY <1>6, <1>7 DEF ReplicaOK
<1> QED
  BY <1>4, <1>8 DEF Follows

-----------------------------------------------------------------------------
(* Taking over the entries of a message.                                   *)

\* What raftLog.append leaves behind, for entries that follow an index of the
\* log: a log, numbered if both parts were, of old and taken over indexes.
LEMMA AppendEntriesType ==
  ASSUME NEW log \in Seq(Entry), NEW prev \in 0..Len(log), NEW es \in Seq(Entry),
         Numbered(log), \A k \in 1..Len(es) : es[k].index = prev + k
  PROVE  /\ AppendEntries(log, prev, es) \in Seq(Entry)
         /\ Numbered(AppendEntries(log, prev, es))
         /\ \A i \in 1..Len(AppendEntries(log, prev, es)) :
              i \in 1..Len(log) \/ \E k \in 1..Len(es) : es[k].index = i
<1>1. Len(log) \in Nat /\ Len(es) \in Nat /\ prev \in Nat
  BY LenProperties
<1>2. CASE AlreadyHas(log, prev, es, Len(es))
  BY <1>2 DEF AppendEntries
<1>3. CASE ~AlreadyHas(log, prev, es, Len(es))
  <2> DEFINE n == prev + Len(es)
             kept(i) == i <= prev \/ AlreadyHas(log, prev, es, i - prev)
             r == [i \in 1..n |-> IF kept(i) THEN log[i] ELSE es[i - prev]]
  <2>1. AppendEntries(log, prev, es) = r
    BY <1>3 DEF AppendEntries
  <2>2. ASSUME NEW i \in 1..n, kept(i)
        PROVE  i \in 1..Len(log)
    <3>1. CASE i <= prev
      BY <1>1, <3>1
    <3>2. CASE ~(i <= prev)
      <4>1. AlreadyHas(log, prev, es, i - prev) /\ i - prev \in 1..(i - prev)
        BY <1>1, <2>2, <3>2
      <4>2. prev + (i - prev) <= Len(log)
        BY <4>1 DEF AlreadyHas
      <4> QED
        BY <1>1, <4>2
    <3> QED
      BY <3>1, <3>2
  <2>3. ASSUME NEW i \in 1..n, ~kept(i)
        PROVE  i - prev \in 1..Len(es)
    BY <1>1, <2>3
  <2>4. ASSUME NEW i \in 1..n
        PROVE  /\ r[i] \in Entry
               /\ r[i].index = i
               /\ i \in 1..Len(log) \/ \E k \in 1..Len(es) : es[k].index = i
    <3>1. CASE kept(i)
      <4>1. i \in 1..Len(log) /\ r[i] = log[i]
        BY <2>2, <3>1
      <4> QED
        BY <4>1, ElementOfSeq DEF Numbered
    <3>2. CASE ~kept(i)
      <4>1. i - prev \in 1..Len(es) /\ r[i] = es[i - prev]
        BY <2>3, <3>2
      <4>2. es[i - prev] \in Entry /\ es[i - prev].index = i
        <5>1. es[i - prev].index = prev + (i - prev)
          BY <4>1
        <5> QED
          BY <1>1, <4>1, <5>1, ElementOfSeq
      <4> HIDE DEF r, kept
      <4> QED
        BY <4>1, <4>2
    <3> QED
      BY <3>1, <3>2
  <2>5. n \in Nat /\ DOMAIN r = 1..n
    BY <1>1
  <2> HIDE DEF n, r
  <2>6. r \in Seq(Entry) /\ Len(r) = n
    <3>1. r \in [1..n -> Entry]
      <4>1. r = [i \in 1..n |-> r[i]]
        BY DEF r
      <4> QED
        BY <2>4, <4>1
    <3> QED
      BY <2>5, <3>1, LenProperties
  <2> QED
    BY <2>1, <2>4, <2>6 DEF Numbered
<1> QED
  BY <1>2, <1>3

-----------------------------------------------------------------------------
(* Proposals and commits of a leader.                                      *)

\* What proposeInternal appends, it also keeps for the next save.
LEMMA ProposeInternalFollows ==
  ASSUME NEW D, NEW s, ReplicaOK(s, D), NextPositive(s), NEW data \in Data
  PROVE  /\ Follows(s, ProposeInternal(s, data), D)
         /\ ProposeInternal(s, data).next = s.next
         /\ ProposeInternal(s, data).role = s.role
<1> DEFINE entry == [index |-> Len(s.log) + 1, term |-> s.term, data |-> data]
           appended == [s EXCEPT !.log = Append(@, entry),
                                 !.unstable = Append(@, entry),
                                 !.match[s.id] = Len(s.log) + 1]
           r == IF IsConfig(data) THEN RecomputeMembership(appended) ELSE appended
<1>1. /\ s \in Replica /\ s.log \in Seq(Entry) /\ s.unstable \in Seq(Entry)
      /\ s.term \in Nat /\ s.id \in Node /\ Len(s.log) \in Nat
  BY LenProperties DEF ReplicaOK, Replica
<1>2. entry \in Entry /\ entry.index = Len(s.log) + 1
  BY <1>1 DEF Entry
<1> HIDE DEF entry
<1>3. /\ Append(s.log, entry) \in Seq(Entry)
      /\ Len(Append(s.log, entry)) = Len(s.log) + 1
      /\ \A i \in 1..Len(s.log) : Append(s.log, entry)[i] = s.log[i]
      /\ Append(s.log, entry)[Len(s.log) + 1] = entry
  BY <1>1, <1>2, AppendProperties
<1>4. Append(s.unstable, entry) \in Seq(Entry)
  BY <1>1, <1>2, AppendProperties
<1>5. appended \in Replica
  <2>1. s.match \in [Node -> Nat] /\ Len(s.log) + 1 \in Nat
    BY <1>1 DEF Replica
  <2>2. [s.match EXCEPT ![s.id] = Len(s.log) + 1] \in [Node -> Nat]
    BY <1>1, <2>1
  <2> QED
    BY <1>1, <1>3, <1>4, <2>2 DEF Replica
<1>6. /\ appended.id = s.id /\ appended.term = s.term
      /\ appended.term >= s.term
      /\ appended.role = s.role /\ appended.msgs = s.msgs
      /\ appended.next = s.next /\ appended.log = Append(s.log, entry)
      /\ appended.unstable = Append(s.unstable, entry)
  BY <1>1 DEF Replica
<1>7. Append(s.unstable, entry) = s.unstable \o <<entry>> /\ <<entry>> \in Seq(Entry)
  BY <1>1, <1>2
<1>8. Numbered(appended.log)
  BY <1>1, <1>2, <1>3, <1>6 DEF Numbered, ReplicaOK
<1>9. ASSUME NEW i \in 1..Len(appended.log)
      PROVE  i \in 1..Len(s.log) \/ \E k \in 1..Len(<<entry>>) : <<entry>>[k].index = i
  BY <1>1, <1>2, <1>3, <1>6
<1>10. RoleOK(appended)
  BY <1>6 DEF ReplicaOK, RoleOK, NextPositive
<1> HIDE DEF appended
<1>11. Follows(s, appended, D)
  <2> DEFINE es == <<entry>>
  <2>1. /\ es \in Seq(Entry)
        /\ appended.unstable = s.unstable \o es
        /\ \A i \in 1..Len(appended.log) :
             i \in 1..Len(s.log) \/ \E k \in 1..Len(es) : es[k].index = i
    BY <1>6, <1>7, <1>9
  <2> HIDE DEF es
  <2> QED
    BY <1>5, <1>6, <1>8, <1>10, <2>1, AppendedFollows
<1>12. ReplicaOK(appended, D)
  BY <1>11 DEF Follows
<1>13. Follows(s, r, D) /\ r.next = s.next /\ r.role = s.role
  <2>1. CASE IsConfig(data)
    <3>1. r = RecomputeMembership(appended)
      BY <2>1
    <3>2. Follows(appended, r, D) /\ r.next = s.next /\ r.role = s.role
      BY <1>6, <1>12, <3>1, RecomputeMembershipFollows
    <3> HIDE DEF r
    <3> QED
      BY <1>11, <3>2, FollowsTransitive
  <2>2. CASE ~IsConfig(data)
    BY <1>6, <1>11, <2>2
  <2> QED
    BY <2>1, <2>2
<1>14. ProposeInternal(s, data) = BroadcastAppend(r)
  BY DEF ProposeInternal, r, appended, entry
<1> HIDE DEF r
<1>15. ReplicaOK(r, D) /\ NextPositive(r)
  BY <1>13 DEF Follows, NextPositive
<1>16. /\ Follows(r, BroadcastAppend(r), D)
       /\ BroadcastAppend(r).next = r.next
       /\ BroadcastAppend(r).role = r.role
  BY <1>15, BroadcastAppendFollows
<1>17. Follows(s, BroadcastAppend(r), D)
  BY <1>13, <1>16, FollowsTransitive
<1> QED
  BY <1>13, <1>14, <1>16, <1>17

\* The data of the entries a leader proposes for a configuration change.
LEMMA ConfigDataType ==
  ASSUME NEW old \in SUBSET Node, NEW new \in SUBSET Node
  PROVE  ConfigData(Simple(new)) \in Data /\ ConfigData(Joint(old, new)) \in Data
<1>1. Simple(new) \in Configurations(Node)
  BY DEF Simple, Configurations
<1>2. Joint(old, new) \in Configurations(Node)
  BY DEF Joint, Configurations
<1> QED
  BY <1>1, <1>2 DEF Data

\* Leaving a joint configuration, stepping down, or doing neither.
LEMMA MaybeLeaveJointOrStepDownFollows ==
  ASSUME NEW D, NEW s, ReplicaOK(s, D), NextPositive(s)
  PROVE  /\ Follows(s, MaybeLeaveJointOrStepDown(s), D)
         /\ MaybeLeaveJointOrStepDown(s).next = s.next
<1>1. /\ s.term \in Nat /\ s.membership.new \in SUBSET Node
      /\ s.membership.old \in SUBSET Node
  BY DEF ReplicaOK, Replica, Configurations
<1>2. CASE s.membership.joint /\ s.committed >= s.membershipIndex
  <2>1. MaybeLeaveJointOrStepDown(s) =
          ProposeInternal(s, ConfigData(Simple(s.membership.new)))
    BY <1>2 DEF MaybeLeaveJointOrStepDown, ProposeLeaveJoint
  <2>2. ConfigData(Simple(s.membership.new)) \in Data
    BY <1>1, ConfigDataType
  <2> QED
    BY <2>1, <2>2, ProposeInternalFollows
<1>3. CASE ~(s.membership.joint /\ s.committed >= s.membershipIndex)
  <2>1. CASE ~s.membership.joint /\ ~IsVoter(s, s.id)
    <3>1. MaybeLeaveJointOrStepDown(s) = BecomeFollower(s, s.term)
      BY <1>3, <2>1 DEF MaybeLeaveJointOrStepDown
    <3>2. s.term >= s.term
      BY <1>1
    <3> QED
      BY <1>1, <3>1, <3>2, BecomeFollowerFollows
  <2>2. CASE ~(~s.membership.joint /\ ~IsVoter(s, s.id))
    <3>1. MaybeLeaveJointOrStepDown(s) = s
      BY <1>3, <2>2 DEF MaybeLeaveJointOrStepDown
    <3> QED
      BY <3>1, FollowsReflexive
  <2> QED
    BY <2>1, <2>2
<1> QED
  BY <1>2, <1>3

\* Winning an election.
LEMMA BecomeLeaderFollows ==
  ASSUME NEW D, NEW s, ReplicaOK(s, D), s.term >= 1
  PROVE  Follows(s, BecomeLeader(s), D)
<1> DEFINE leader == [s EXCEPT
      !.role = "Leader",
      !.next = [p \in Node |-> Len(s.log) + 1],
      !.match = [p \in Node |-> IF p = s.id THEN Len(s.log) ELSE 0],
      !.preVote = FALSE]
<1>1. s \in Replica /\ Len(s.log) \in Nat /\ s.term \in Nat
  BY LenProperties DEF ReplicaOK, Replica
<1>2. leader \in Replica
  <2>1. /\ [p \in Node |-> Len(s.log) + 1] \in [Node -> Nat]
        /\ [p \in Node |-> IF p = s.id THEN Len(s.log) ELSE 0] \in [Node -> Nat]
    BY <1>1
  <2> QED
    BY <1>1, <2>1 DEF Replica, Role
<1>3. /\ leader.id = s.id /\ leader.term = s.term /\ leader.log = s.log
      /\ leader.unstable = s.unstable /\ leader.msgs = s.msgs
      /\ leader.next = [p \in Node |-> Len(s.log) + 1]
  BY <1>1 DEF Replica
<1>4. BecomeLeader(s) = IF s.membership.joint THEN ProposeInternal(leader, Noop)
                                              ELSE BroadcastAppend(leader)
  BY DEF BecomeLeader
<1> HIDE DEF leader
<1>5. NextPositive(leader)
  BY <1>1, <1>3 DEF NextPositive
<1>6. Follows(s, leader, D)
  BY <1>1, <1>2, <1>3, <1>5, FrameFollows DEF RoleOK
<1>7. ReplicaOK(leader, D)
  BY <1>6 DEF Follows
<1>8. Follows(leader, BecomeLeader(s), D)
  <2>1. Noop \in Data
    BY DEF Data
  <2> QED
    BY <1>4, <1>5, <1>7, <2>1, ProposeInternalFollows, BroadcastAppendFollows
<1> QED
  BY <1>6, <1>8, FollowsTransitive

\* The index advanceCommit commits is an index of the log.
LEMMA CommittableType ==
  ASSUME NEW s \in Replica, s.term >= 1, Committable(s) # {}
  PROVE  (CHOOSE c \in Committable(s) : \A d \in Committable(s) : d <= c) \in Nat
<1>1. s.committed \in Nat /\ s.term \in Nat /\ Len(s.log) \in Nat /\ s.match \in [Node -> Nat]
  BY LenProperties DEF Replica
<1>2. Committable(s) \in SUBSET (0..Len(s.log))
  <2> SUFFICES ASSUME NEW c \in Committable(s)
               PROVE  c \in 0..Len(s.log)
    OBVIOUS
  <2>1. TermAt(s.log, c) = s.term
    BY DEF Committable
  <2>2. c \in 1..Len(s.log)
    BY <1>1, <2>1 DEF TermAt
  <2> QED
    BY <2>2
<1>3. \E c \in Committable(s) : \A d \in Committable(s) : d <= c
  BY <1>1, <1>2, MaximumExists
<1> QED
  BY <1>2, <1>3

\* advanceCommit, with the final configuration it may append and the step
\* down it may end in, keeps the promises of a leader.
LEMMA AdvanceCommitFollows ==
  ASSUME NEW D, NEW s, ReplicaOK(s, D), s.role = "Leader"
  PROVE  /\ Follows(s, AdvanceCommit(s), D)
         /\ AdvanceCommit(s).next = s.next
<1>1. CASE Committable(s) = {}
  BY <1>1, FollowsReflexive DEF AdvanceCommit
<1>2. CASE Committable(s) # {}
  <2> DEFINE highest == CHOOSE c \in Committable(s) : \A d \in Committable(s) : d <= c
             r == [s EXCEPT !.committed = highest]
             b == BroadcastAppend(r)
  <2>1. s \in Replica /\ s.term \in Nat /\ s.term >= 1 /\ NextPositive(s)
    BY DEF ReplicaOK, Replica, RoleOK
  <2>2. highest \in Nat
    BY <1>2, <2>1, CommittableType
  <2>3. AdvanceCommit(s) = MaybeLeaveJointOrStepDown(b)
    BY <1>2 DEF AdvanceCommit
  <2> HIDE DEF highest
  <2>4. r \in Replica
    BY <2>1, <2>2 DEF Replica
  <2>5. /\ r.id = s.id /\ r.term = s.term /\ r.log = s.log /\ r.role = s.role
        /\ r.unstable = s.unstable /\ r.msgs = s.msgs /\ r.next = s.next
    BY <2>1 DEF Replica
  <2> HIDE DEF r
  <2>6. NextPositive(r) /\ RoleOK(r)
    BY <2>1, <2>5 DEF NextPositive, RoleOK
  <2>7. Follows(s, r, D)
    BY <2>1, <2>4, <2>5, <2>6, FrameFollows
  <2>8. ReplicaOK(r, D)
    BY <2>7 DEF Follows
  <2>9. Follows(r, b, D) /\ b.next = r.next
    BY <2>6, <2>8, BroadcastAppendFollows
  <2> HIDE DEF b
  <2>10. Follows(s, b, D)
    BY <2>7, <2>9, FollowsTransitive
  <2>11. ReplicaOK(b, D) /\ NextPositive(b)
    BY <2>6, <2>9 DEF Follows, NextPositive
  <2>12. /\ Follows(b, MaybeLeaveJointOrStepDown(b), D)
         /\ MaybeLeaveJointOrStepDown(b).next = b.next
    BY <2>11, MaybeLeaveJointOrStepDownFollows
  <2>13. Follows(s, MaybeLeaveJointOrStepDown(b), D)
    BY <2>10, <2>12, FollowsTransitive
  <2> QED
    BY <2>3, <2>5, <2>9, <2>12, <2>13
<1> QED
  BY <1>1, <1>2

-----------------------------------------------------------------------------
(* Elections.                                                              *)

\* A message that carries no entries and acknowledges none is sendable as
\* soon as its term is.
LEMMA BareSendable ==
  ASSUME NEW D, NEW s, NEW m, m.from = s.id, m.entries = <<>>,
         m.type # "AppendResp" \/ m.reject,
         m.term <= IF m.type = "PreVote" THEN s.term + 1 ELSE s.term
  PROVE  Sendable(m, s, D)
<1>1. Len(m.entries) = 0
  OBVIOUS
<1> QED
  BY <1>1 DEF Sendable, Consecutive

\* The requests of a campaign.
LEMMA SolicitSendable ==
  ASSUME NEW D, NEW s \in Replica, NEW type \in {"PreVote", "Vote"},
         NEW t \in Nat, t <= IF type = "PreVote" THEN s.term + 1 ELSE s.term
  PROVE  /\ Solicit(s, type, t) \in SUBSET Message
         /\ \A m \in Solicit(s, type, t) : Sendable(m, s, D)
<1>1. /\ s.term \in Nat /\ s.id \in Node /\ s.log \in Seq(Entry)
      /\ s.membership \in Configurations(Node)
  BY DEF Replica
<1>2. LastIndex(s.log) \in Nat /\ LastTerm(s.log) \in Nat
  BY <1>1, TermAtType, LenProperties DEF LastIndex, LastTerm
<1>3. VotingPeers(s) \in SUBSET Node
  BY <1>1 DEF VotingPeers, Voters, Configurations
<1> SUFFICES ASSUME NEW p \in Node
             PROVE  LET m == [MessageOf(s, type, p) EXCEPT
                                !.term = t, !.index = LastIndex(s.log),
                                !.logTerm = LastTerm(s.log)]
                    IN m \in Message /\ Sendable(m, s, D)
  BY <1>3 DEF Solicit
<1> DEFINE m == [MessageOf(s, type, p) EXCEPT
                   !.term = t, !.index = LastIndex(s.log),
                   !.logTerm = LastTerm(s.log)]
<1>4. MessageOf(s, type, p) \in Message
  BY MessageOfType DEF MessageType
<1>5. m \in Message
  BY <1>2, <1>4 DEF Message
<1>6. /\ m.from = s.id /\ m.entries = <<>> /\ m.type = type /\ m.term = t
  BY DEF MessageOf
<1> HIDE DEF m
<1>7. Sendable(m, s, D)
  BY <1>6, BareSendable
<1> QED
  BY <1>5, <1>7 DEF m

\* An answer to a request for votes.
LEMMA AnswerFollows ==
  ASSUME NEW D, NEW s, ReplicaOK(s, D), NEW type \in {"PreVoteResp", "VoteResp"},
         NEW p \in Node, NEW reject \in BOOLEAN
  PROVE  Follows(s, Send(s, {[MessageOf(s, type, p) EXCEPT !.reject = reject]}), D)
<1> DEFINE m == [MessageOf(s, type, p) EXCEPT !.reject = reject]
<1>1. s \in Replica /\ s.term \in Nat
  BY DEF ReplicaOK, Replica
<1>2. MessageOf(s, type, p) \in Message
  BY <1>1, MessageOfType DEF MessageType
<1>3. m \in Message
  BY <1>2 DEF Message
<1>4. m.from = s.id /\ m.entries = <<>> /\ m.type = type /\ m.term = s.term
  BY DEF MessageOf
<1> HIDE DEF m
<1>5. m.term <= IF m.type = "PreVote" THEN s.term + 1 ELSE s.term
  BY <1>1, <1>4
<1>6. Sendable(m, s, D)
  BY <1>4, <1>5, BareSendable
<1>7. Follows(s, Send(s, {m}), D)
  BY <1>3, <1>6, SendFollows
<1> QED
  BY <1>7 DEF m

\* startPreVote asks for a term that is not on the disk, one above it.
LEMMA StartPreVoteFollows ==
  ASSUME NEW D, NEW s, ReplicaOK(s, D)
  PROVE  Follows(s, StartPreVote(s), D)
<1> DEFINE r == [s EXCEPT !.votes = {s.id}, !.preVote = TRUE]
           M == Solicit(s, "PreVote", s.term + 1)
<1>1. s \in Replica /\ s.term \in Nat /\ s.id \in Node
  BY DEF ReplicaOK, Replica
<1>2. r \in Replica
  BY <1>1 DEF Replica
<1>3. /\ r.id = s.id /\ r.term = s.term /\ r.log = s.log /\ r.role = s.role
      /\ r.unstable = s.unstable /\ r.msgs = s.msgs /\ r.next = s.next
      /\ r.membership = s.membership
  BY <1>1 DEF Replica
<1>4. Solicit(r, "PreVote", r.term + 1) = M
  BY <1>3 DEF Solicit, VotingPeers, MessageOf
<1> HIDE DEF r
<1>5. Follows(s, r, D)
  BY <1>2, <1>3, SameRoleFollows
<1>6. M \in SUBSET Message /\ \A m \in M : Sendable(m, r, D)
  BY <1>1, <1>2, <1>3, <1>4, SolicitSendable
<1> HIDE DEF M
<1>7. ReplicaOK(r, D)
  BY <1>5 DEF Follows
<1>8. Follows(r, Send(r, M), D)
  BY <1>6, <1>7, SendFollows
<1>9. Follows(s, Send(r, M), D)
  BY <1>5, <1>8, FollowsTransitive
<1> QED
  BY <1>9 DEF StartPreVote, r, M

\* startElection moves to the term it asks the votes for.
LEMMA StartElectionFollows ==
  ASSUME NEW D, NEW s, ReplicaOK(s, D)
  PROVE  Follows(s, StartElection(s), D)
<1> DEFINE r == [s EXCEPT !.preVote = FALSE, !.role = "Candidate",
                          !.term = @ + 1, !.vote = s.id, !.votes = {s.id}]
           M == Solicit(r, "Vote", r.term)
<1>1. s \in Replica /\ s.term \in Nat /\ s.id \in Node
  BY DEF ReplicaOK, Replica
<1>2. r \in Replica
  <2>1. /\ s.term + 1 \in Nat /\ "Candidate" \in Role /\ {s.id} \in SUBSET Node
        /\ s.id \in Node \cup {None}
    BY <1>1 DEF Role
  <2> QED
    BY <1>1, <2>1 DEF Replica
<1>3. /\ r.id = s.id /\ r.term = s.term + 1 /\ r.log = s.log
      /\ r.role = "Candidate" /\ r.unstable = s.unstable /\ r.msgs = s.msgs
  BY <1>1 DEF Replica
<1> HIDE DEF r
<1>4. Follows(s, r, D)
  BY <1>1, <1>2, <1>3, FrameFollows DEF RoleOK
<1>5. M \in SUBSET Message /\ \A m \in M : Sendable(m, r, D)
  <2>1. r.term \in Nat /\ r.term <= IF "Vote" = "PreVote" THEN r.term + 1 ELSE r.term
    BY <1>1, <1>3
  <2> QED
    BY <1>2, <2>1, SolicitSendable
<1> HIDE DEF M
<1>6. ReplicaOK(r, D)
  BY <1>4 DEF Follows
<1>7. Follows(r, Send(r, M), D)
  BY <1>5, <1>6, SendFollows
<1>8. Follows(s, Send(r, M), D)
  BY <1>4, <1>7, FollowsTransitive
<1> QED
  BY <1>8 DEF StartElection, r, M

\* Counting one more vote, whichever election it was meant for.
LEMMA CountedFollows ==
  ASSUME NEW D, NEW s, ReplicaOK(s, D), NEW p \in Node
  PROVE  LET counted == [s EXCEPT !.votes = @ \cup {p}]
         IN Follows(s, counted, D) /\ counted.term = s.term
<1> DEFINE r == [s EXCEPT !.votes = @ \cup {p}]
<1>1. s \in Replica /\ s.term \in Nat
  BY DEF ReplicaOK, Replica
<1>2. r \in Replica
  BY <1>1 DEF Replica
<1>3. /\ r.id = s.id /\ r.term = s.term /\ r.log = s.log /\ r.role = s.role
      /\ r.unstable = s.unstable /\ r.msgs = s.msgs /\ r.next = s.next
  BY <1>1 DEF Replica
<1> HIDE DEF r
<1>4. Follows(s, r, D)
  BY <1>2, <1>3, SameRoleFollows
<1> QED
  BY <1>3, <1>4 DEF r

\* handlePreVote only answers.
LEMMA HandlePreVoteFollows ==
  ASSUME NEW D, NEW s, ReplicaOK(s, D), NEW m \in Message
  PROVE  Follows(s, HandlePreVote(s, m), D)
<1> DEFINE reject == ~(/\ IsVoter(s, s.id)
                       /\ m.term >= s.term + 1
                       /\ LogUpToDate(s, m.index, m.logTerm))
<1>1. m.from \in Node /\ reject \in BOOLEAN
  BY DEF Message
<1>2. HandlePreVote(s, m) =
        Send(s, {[MessageOf(s, "PreVoteResp", m.from) EXCEPT !.reject = reject]})
  BY DEF HandlePreVote
<1> HIDE DEF reject
<1> QED
  BY <1>1, <1>2, AnswerFollows

\* handlePreVoteResp counts, and may start the election.
LEMMA HandlePreVoteRespFollows ==
  ASSUME NEW D, NEW s, ReplicaOK(s, D), NEW m \in Message
  PROVE  Follows(s, HandlePreVoteResp(s, m), D)
<1> DEFINE counted == [s EXCEPT !.votes = @ \cup {m.from}]
<1>1. HandlePreVoteResp(s, m) = s \/ HandlePreVoteResp(s, m) \in {counted, StartElection(counted)}
  BY DEF HandlePreVoteResp
<1>2. m.from \in Node
  BY DEF Message
<1>3. Follows(s, counted, D)
  BY <1>2, CountedFollows
<1> HIDE DEF counted
<1>4. ReplicaOK(counted, D)
  BY <1>3 DEF Follows
<1>5. Follows(counted, StartElection(counted), D)
  BY <1>4, StartElectionFollows
<1>6. Follows(s, StartElection(counted), D)
  BY <1>3, <1>5, FollowsTransitive
<1> QED
  BY <1>1, <1>3, <1>6, FollowsReflexive

\* handleVote records the vote and answers in its own term.
LEMMA HandleVoteFollows ==
  ASSUME NEW D, NEW s, ReplicaOK(s, D), NEW m \in Message
  PROVE  Follows(s, HandleVote(s, m), D)
<1> DEFINE granted == /\ IsVoter(s, s.id)
                      /\ s.vote \in {None, m.from}
                      /\ LogUpToDate(s, m.index, m.logTerm)
           voted == IF granted THEN [s EXCEPT !.vote = m.from] ELSE s
           reject == ~granted
<1>1. m.from \in Node /\ reject \in BOOLEAN
  BY DEF Message
<1>2. HandleVote(s, m) =
        Send(voted, {[MessageOf(s, "VoteResp", m.from) EXCEPT !.reject = reject]})
  BY DEF HandleVote
<1> HIDE DEF granted, reject
<1>3. s \in Replica /\ s.term \in Nat
  BY DEF ReplicaOK, Replica
<1>4. voted \in Replica
  BY <1>1, <1>3 DEF Replica
<1>5. /\ voted.id = s.id /\ voted.term = s.term /\ voted.log = s.log
      /\ voted.role = s.role /\ voted.unstable = s.unstable
      /\ voted.msgs = s.msgs /\ voted.next = s.next
  BY <1>3 DEF Replica
<1>6. MessageOf(s, "VoteResp", m.from) = MessageOf(voted, "VoteResp", m.from)
  BY <1>5 DEF MessageOf
<1> HIDE DEF voted
<1>7. Follows(s, voted, D)
  BY <1>4, <1>5, SameRoleFollows
<1>8. ReplicaOK(voted, D)
  BY <1>7 DEF Follows
<1>9. Follows(voted, HandleVote(s, m), D)
  BY <1>1, <1>2, <1>6, <1>8, AnswerFollows
<1> QED
  BY <1>7, <1>9, FollowsTransitive

\* handleVoteResp counts, and may become the leader.
LEMMA HandleVoteRespFollows ==
  ASSUME NEW D, NEW s, ReplicaOK(s, D), NEW m \in Message
  PROVE  Follows(s, HandleVoteResp(s, m), D)
<1>1. CASE s.role # "Candidate" \/ m.term # s.term \/ m.reject
  BY <1>1, FollowsReflexive DEF HandleVoteResp
<1>2. CASE ~(s.role # "Candidate" \/ m.term # s.term \/ m.reject)
  <2> DEFINE counted == [s EXCEPT !.votes = @ \cup {m.from}]
  <2>1. HandleVoteResp(s, m) \in {counted, BecomeLeader(counted)}
    BY <1>2 DEF HandleVoteResp
  <2>2. m.from \in Node
    BY DEF Message
  <2>3. Follows(s, counted, D) /\ counted.term = s.term
    BY <2>2, CountedFollows
  <2> HIDE DEF counted
  <2>4. ReplicaOK(counted, D) /\ counted.term >= 1
    BY <1>2, <2>3 DEF Follows, ReplicaOK, RoleOK
  <2>5. Follows(counted, BecomeLeader(counted), D)
    BY <2>4, BecomeLeaderFollows
  <2>6. Follows(s, BecomeLeader(counted), D)
    BY <2>3, <2>5, FollowsTransitive
  <2> QED
    BY <2>1, <2>3, <2>6
<1> QED
  BY <1>1, <1>2

-----------------------------------------------------------------------------
(* Log replication.                                                        *)

\* A follower may acknowledge its whole log: it holds every entry of it.
LEMMA AppendRespFollows ==
  ASSUME NEW D, NEW s, ReplicaOK(s, D), NEW m \in Message, NEW reject \in BOOLEAN
  PROVE  Follows(s, Send(s, {AppendResp(s, m, reject)}), D)
<1> DEFINE x == AppendResp(s, m, reject)
<1>1. /\ s \in Replica /\ s.term \in Nat /\ Len(s.log) \in Nat
      /\ m.from \in Node
  BY LenProperties DEF ReplicaOK, Replica, Message
<1>2. MessageOf(s, "AppendResp", m.from) \in Message
  BY <1>1, MessageOfType DEF MessageType
<1>3. x \in Message
  BY <1>1, <1>2 DEF AppendResp, LastIndex, Message
<1>4. /\ x.from = s.id /\ x.entries = <<>> /\ x.type = "AppendResp"
      /\ x.term = s.term /\ x.index = Len(s.log)
  BY DEF AppendResp, MessageOf, LastIndex
<1> HIDE DEF x
<1>5. Consecutive(x) /\ \A k \in 1..Len(x.entries) : x.entries[k].index \in Held(s, D)
  <2>1. Len(x.entries) = 0
    BY <1>4
  <2> QED
    BY <2>1 DEF Consecutive
<1>6. 1..x.index \subseteq Held(s, D)
  BY <1>4 DEF ReplicaOK
<1>7. Sendable(x, s, D)
  BY <1>1, <1>4, <1>5, <1>6 DEF Sendable
<1>8. Follows(s, Send(s, {x}), D)
  BY <1>3, <1>7, SendFollows
<1> QED
  BY <1>8 DEF x

\* What a follower takes over, it keeps for the next save.
LEMMA AcceptFollows ==
  ASSUME NEW D, NEW s, ReplicaOK(s, D), s.role = "Follower",
         NEW m \in Message, Consecutive(m), HasIndex(s.log, m.index)
  PROVE  Follows(s, Accept(s, m), D)
<1> DEFINE log == AppendEntries(s.log, m.index, m.entries)
           known == IF m.commit <= Len(log) THEN m.commit ELSE Len(log)
           r == [s EXCEPT
                   !.log = log,
                   !.unstable = @ \o m.entries,
                   !.committed = IF m.commit > s.committed THEN known ELSE s.committed]
<1>1. /\ s \in Replica /\ s.term \in Nat /\ s.log \in Seq(Entry)
      /\ s.unstable \in Seq(Entry) /\ s.committed \in Nat
      /\ m.entries \in Seq(Entry) /\ m.commit \in Nat
      /\ m.index \in 0..Len(s.log)
  BY DEF ReplicaOK, Replica, Message, HasIndex
<1>2. \A k \in 1..Len(m.entries) : m.entries[k].index = m.index + k
  BY DEF Consecutive
<1>3. /\ log \in Seq(Entry)
      /\ Numbered(log)
      /\ \A i \in 1..Len(log) :
           i \in 1..Len(s.log) \/ \E k \in 1..Len(m.entries) : m.entries[k].index = i
  BY <1>1, <1>2, AppendEntriesType DEF ReplicaOK
<1> HIDE DEF log
<1>4. known \in Nat /\ s.unstable \o m.entries \in Seq(Entry)
  BY <1>1, <1>3, LenProperties, ConcatProperties
<1>5. Accept(s, m) = IF m.entries = <<>> THEN r ELSE RecomputeMembership(r)
  BY DEF Accept, log
<1> HIDE DEF known
<1>6. r \in Replica
  BY <1>1, <1>3, <1>4 DEF Replica
<1>7. /\ r.id = s.id /\ r.term = s.term /\ r.log = log /\ r.role = s.role
      /\ r.unstable = s.unstable \o m.entries /\ r.msgs = s.msgs
  BY <1>1 DEF Replica
<1> HIDE DEF r
<1>8. Follows(s, r, D)
  <2>1. r.term >= s.term /\ RoleOK(r)
    BY <1>1, <1>7 DEF RoleOK
  <2> QED
    BY <1>1, <1>3, <1>6, <1>7, <2>1, AppendedFollows
<1>9. ReplicaOK(r, D)
  BY <1>8 DEF Follows
<1>10. Follows(r, RecomputeMembership(r), D)
  BY <1>9, RecomputeMembershipFollows
<1>11. Follows(s, RecomputeMembership(r), D)
  BY <1>8, <1>10, FollowsTransitive
<1> QED
  BY <1>5, <1>8, <1>11

\* handleAppend acknowledges only entries on the disk or among the unsaved
\* ones, whatever prefix the message overlaps and whatever it cuts.
LEMMA HandleAppendFollows ==
  ASSUME NEW D, NEW s, ReplicaOK(s, D), NEW m \in Message, Consecutive(m)
  PROVE  Follows(s, HandleAppend(s, m), D)
<1>1. s.term \in Nat /\ m.term \in Nat /\ TRUE \in BOOLEAN /\ FALSE \in BOOLEAN
  BY DEF ReplicaOK, Replica, Message
<1>2. CASE m.term < s.term
  <2>1. HandleAppend(s, m) = Send(s, {AppendResp(s, m, TRUE)})
    BY <1>2 DEF HandleAppend
  <2> QED
    BY <1>1, <2>1, AppendRespFollows
<1>3. CASE ~(m.term < s.term)
  <2> DEFINE f == BecomeFollower(s, m.term)
             matches == HasIndex(s.log, m.index) /\ TermAt(s.log, m.index) = m.logTerm
             a == Accept(f, m)
  <2>1. Follows(s, f, D) /\ f.log = s.log
    BY <1>1, <1>3, BecomeFollowerFollows
  <2>2. f.role = "Follower"
    BY DEF BecomeFollower, ReplicaOK, Replica
  <2>3. HandleAppend(s, m) = IF ~matches THEN Send(f, {AppendResp(f, m, TRUE)})
                                         ELSE Send(a, {AppendResp(a, m, FALSE)})
    BY <1>3 DEF HandleAppend
  <2> HIDE DEF f
  <2>4. ReplicaOK(f, D)
    BY <2>1 DEF Follows
  <2>5. CASE ~matches
    <3>1. Follows(f, HandleAppend(s, m), D)
      BY <1>1, <2>3, <2>4, <2>5, AppendRespFollows
    <3> QED
      BY <2>1, <3>1, FollowsTransitive
  <2>6. CASE matches
    <3>1. Follows(f, a, D)
      BY <2>1, <2>2, <2>4, <2>6, AcceptFollows
    <3>2. HandleAppend(s, m) = Send(a, {AppendResp(a, m, FALSE)})
      BY <2>3, <2>6
    <3> HIDE DEF a, matches
    <3>3. ReplicaOK(a, D)
      BY <3>1 DEF Follows
    <3>4. Follows(a, HandleAppend(s, m), D)
      BY <1>1, <3>2, <3>3, AppendRespFollows
    <3>5. Follows(f, HandleAppend(s, m), D)
      BY <2>4, <3>1, <3>4, FollowsTransitive
    <3> QED
      BY <2>1, <3>5, FollowsTransitive
  <2> QED
    BY <2>5, <2>6
<1> QED
  BY <1>2, <1>3

\* The leader's answer to an acknowledgement: it never sends from index 0.
LEMMA HandleAppendRespFollows ==
  ASSUME NEW D, NEW s, ReplicaOK(s, D), NEW m \in Message
  PROVE  Follows(s, HandleAppendResp(s, m), D)
<1> DEFINE p == m.from
           back == [s EXCEPT !.next[p] = IF @ > 1 THEN @ - 1 ELSE @]
           acked == [s EXCEPT !.match[p] = m.index, !.next[p] = m.index + 1]
           advanced == AdvanceCommit(acked)
<1>1. /\ s \in Replica /\ s.term \in Nat /\ p \in Node /\ m.index \in Nat
      /\ s.next \in [Node -> Nat] /\ s.match \in [Node -> Nat]
  BY DEF ReplicaOK, Replica, Message
<1>2. CASE s.role # "Leader" \/ m.term # s.term
  BY <1>2, FollowsReflexive DEF HandleAppendResp
<1>3. CASE s.role = "Leader" /\ m.term = s.term /\ m.reject
  <2> DEFINE next == [s.next EXCEPT ![p] = IF s.next[p] > 1 THEN s.next[p] - 1 ELSE s.next[p]]
  <2>1. NextPositive(s)
    BY <1>3 DEF ReplicaOK, RoleOK
  <2>2. next \in [Node -> Nat] /\ \A q \in Node : next[q] >= 1
    <3>1. \A q \in Node : s.next[q] \in Nat /\ s.next[q] >= 1
      BY <1>1, <2>1 DEF NextPositive
    <3> QED
      BY <1>1, <3>1
  <2>3. back = [s EXCEPT !.next = next]
    BY <1>1 DEF Replica
  <2>4. HandleAppendResp(s, m) = SendAppend(back, p)
    BY <1>3 DEF HandleAppendResp
  <2> HIDE DEF next
  <2>5. back \in Replica
    BY <1>1, <2>2, <2>3 DEF Replica
  <2>6. /\ back.id = s.id /\ back.term = s.term /\ back.log = s.log
        /\ back.role = s.role /\ back.unstable = s.unstable
        /\ back.msgs = s.msgs /\ back.next = next
    BY <1>1, <2>3 DEF Replica
  <2> HIDE DEF back
  <2>7. RoleOK(back) /\ back.next[p] >= 1 /\ back.term >= s.term
    BY <1>1, <2>2, <2>6 DEF RoleOK, NextPositive, ReplicaOK
  <2>8. Follows(s, back, D)
    BY <2>5, <2>6, <2>7, FrameFollows
  <2>9. ReplicaOK(back, D)
    BY <2>8 DEF Follows
  <2>10. Follows(back, SendAppend(back, p), D)
    BY <1>1, <2>7, <2>9, SendAppendFollows
  <2> HIDE DEF p
  <2> QED
    BY <2>4, <2>8, <2>10, FollowsTransitive
<1>4. CASE s.role = "Leader" /\ m.term = s.term /\ ~m.reject
  <2> DEFINE next == [s.next EXCEPT ![p] = m.index + 1]
             match == [s.match EXCEPT ![p] = m.index]
  <2>1. NextPositive(s)
    BY <1>4 DEF ReplicaOK, RoleOK
  <2>2. /\ next \in [Node -> Nat] /\ \A q \in Node : next[q] >= 1
        /\ match \in [Node -> Nat]
    <3>1. \A q \in Node : s.next[q] \in Nat /\ s.next[q] >= 1
      BY <1>1, <2>1 DEF NextPositive
    <3> QED
      BY <1>1, <3>1
  <2>3. acked = [s EXCEPT !.match = match, !.next = next]
    BY <1>1 DEF Replica
  <2>4. HandleAppendResp(s, m) = IF advanced.next[p] <= LastIndex(advanced.log)
                                   THEN SendAppend(advanced, p)
                                   ELSE advanced
    BY <1>4 DEF HandleAppendResp
  <2> HIDE DEF next, match
  <2>5. acked \in Replica
    BY <1>1, <2>2, <2>3 DEF Replica
  <2>6. /\ acked.id = s.id /\ acked.term = s.term /\ acked.log = s.log
        /\ acked.role = s.role /\ acked.unstable = s.unstable
        /\ acked.msgs = s.msgs /\ acked.next = next
    BY <1>1, <2>3 DEF Replica
  <2> HIDE DEF acked
  <2>7. RoleOK(acked) /\ acked.term >= s.term
    BY <1>1, <2>2, <2>6 DEF RoleOK, NextPositive, ReplicaOK
  <2>8. Follows(s, acked, D)
    BY <2>5, <2>6, <2>7, FrameFollows
  <2>9. ReplicaOK(acked, D)
    BY <2>8 DEF Follows
  <2>10. Follows(acked, advanced, D) /\ advanced.next = next
    BY <1>4, <2>6, <2>9, AdvanceCommitFollows
  <2> HIDE DEF advanced
  <2>11. Follows(s, advanced, D)
    BY <2>8, <2>10, FollowsTransitive
  <2>12. ReplicaOK(advanced, D)
    BY <2>11 DEF Follows
  <2>13. Follows(advanced, SendAppend(advanced, p), D)
    BY <1>1, <2>2, <2>10, <2>12, SendAppendFollows
  <2>14. Follows(s, SendAppend(advanced, p), D)
    BY <2>11, <2>13, FollowsTransitive
  <2> HIDE DEF p
  <2> QED
    BY <2>4, <2>11, <2>14
<1>5. m.reject \in BOOLEAN
  BY DEF Message
<1> QED
  BY <1>2, <1>3, <1>4, <1>5

-----------------------------------------------------------------------------
(* The interface of the host.                                              *)

\* Whatever message a replica steps, the replica it leaves may follow it.
LEMMA StepFollows ==
  ASSUME NEW D, NEW s, ReplicaOK(s, D), NEW m \in Message, Consecutive(m)
  PROVE  Follows(s, Step(s, m), D)
<1> DEFINE c == IF m.term > s.term /\ m.type \notin {"PreVote", "PreVoteResp"}
                  THEN BecomeFollower(s, m.term)
                  ELSE s
<1>1. Step(s, m) = CASE m.type = "PreVote"     -> HandlePreVote(c, m)
                     [] m.type = "PreVoteResp" -> HandlePreVoteResp(c, m)
                     [] m.type = "Vote"        -> HandleVote(c, m)
                     [] m.type = "VoteResp"    -> HandleVoteResp(c, m)
                     [] m.type = "Append"      -> HandleAppend(c, m)
                     [] m.type = "AppendResp"  -> HandleAppendResp(c, m)
  BY DEF Step
<1>2. Follows(s, c, D)
  <2>1. s.term \in Nat /\ m.term \in Nat
    BY DEF ReplicaOK, Replica, Message
  <2> QED
    BY <2>1, FollowsReflexive, BecomeFollowerFollows
<1> HIDE DEF c
<1>3. ReplicaOK(c, D)
  BY <1>2 DEF Follows
<1>4. m.type \in MessageType
  BY DEF Message
<1>5. Follows(c, Step(s, m), D)
  <2>1. CASE m.type = "PreVote"
    BY <1>1, <1>3, <2>1, HandlePreVoteFollows
  <2>2. CASE m.type = "PreVoteResp"
    BY <1>1, <1>3, <2>2, HandlePreVoteRespFollows
  <2>3. CASE m.type = "Vote"
    BY <1>1, <1>3, <2>3, HandleVoteFollows
  <2>4. CASE m.type = "VoteResp"
    BY <1>1, <1>3, <2>4, HandleVoteRespFollows
  <2>5. CASE m.type = "Append"
    BY <1>1, <1>3, <2>5, HandleAppendFollows
  <2>6. CASE m.type = "AppendResp"
    BY <1>1, <1>3, <2>6, HandleAppendRespFollows
  <2> QED
    BY <1>4, <2>1, <2>2, <2>3, <2>4, <2>5, <2>6 DEF MessageType
<1> QED
  BY <1>2, <1>5, FollowsTransitive

\* More on the disk disturbs nothing.
LEMMA ReplicaOKGrows ==
  ASSUME NEW D, NEW E, D \subseteq E, NEW s, ReplicaOK(s, D)
  PROVE  ReplicaOK(s, E)
<1>1. Held(s, D) \subseteq Held(s, E)
  BY DEF Held
<1>2. \A m \in s.msgs : Sendable(m, s, E)
  BY <1>1 DEF ReplicaOK, Sendable
<1> QED
  BY <1>1, <1>2 DEF ReplicaOK

\* Advance forgets what was saved and sent.
LEMMA AdvanceOK ==
  ASSUME NEW D, NEW s, ReplicaOK(s, D)
  PROVE  /\ ReplicaOK(Advance(s), Held(s, D))
         /\ Advance(s).id = s.id
         /\ Advance(s).term = s.term
<1> DEFINE r == Advance(s)
<1>1. s \in Replica /\ s.committed \in Nat
  BY DEF ReplicaOK, Replica
<1>2. <<>> \in Seq(Entry) /\ {} \in SUBSET Message
  BY EmptySeq
<1>3. r \in Replica
  BY <1>1, <1>2 DEF Advance, Replica
<1>4. /\ r.id = s.id /\ r.term = s.term /\ r.log = s.log /\ r.role = s.role
      /\ r.unstable = <<>> /\ r.msgs = {} /\ r.next = s.next
  BY <1>1 DEF Advance, Replica
<1> HIDE DEF r
<1>5. RoleOK(r)
  BY <1>4 DEF ReplicaOK, RoleOK, NextPositive
<1>6. Held(s, D) \subseteq Held(r, Held(s, D))
  BY DEF Held
<1>7. ReplicaOK(r, Held(s, D))
  BY <1>3, <1>4, <1>5, <1>6 DEF ReplicaOK
<1> QED
  BY <1>4, <1>7 DEF r

\* A fresh replica holds nothing.
LEMMA NewNodeOK ==
  ASSUME NEW D, NEW n \in Node
  PROVE  ReplicaOK(NewNode(n), D)
<1> DEFINE s == NewNode(n)
<1>1. <<>> \in Seq(Entry) /\ Len(<<>>) = 0 /\ 0 \in Nat
  BY EmptySeq
<1>2. Simple(InitialVoters) \in Configurations(Node)
  BY NodeAssumption DEF Simple, Configurations
<1>3. s \in Replica
  BY <1>1, <1>2 DEF NewNode, Replica, Role
<1>4. s.role = "Follower" /\ s.log = <<>> /\ s.msgs = {}
  BY DEF NewNode
<1> HIDE DEF s
<1>5. Numbered(s.log) /\ 1..Len(s.log) = {}
  BY <1>1, <1>4 DEF Numbered
<1> QED
  BY <1>3, <1>4, <1>5 DEF ReplicaOK, RoleOK, s

\* What Ready hands out to apply is a sequence of entries.
LEMMA CommittedEntriesType ==
  ASSUME NEW s \in Replica
  PROVE  CommittedEntries(s) \in Seq(Entry)
<1> DEFINE last == IF s.committed <= Len(s.log) THEN s.committed ELSE Len(s.log)
<1>1. /\ s.log \in Seq(Entry) /\ Len(s.log) \in Nat
      /\ s.applied \in Nat /\ s.committed \in Nat
  BY LenProperties DEF Replica
<1>2. last \in Int /\ last <= Len(s.log)
  BY <1>1
<1> HIDE DEF last
<1>3. \A i \in (s.applied + 1)..last : s.log[i] \in Entry
  BY <1>1, <1>2, ElementOfSeq
<1>4. SubSeq(s.log, s.applied + 1, last) \in Seq(Entry)
  BY <1>1, <1>2, <1>3, SubSeqProperties
<1> QED
  BY <1>4, EmptySeq DEF CommittedEntries, last

=============================================================================
