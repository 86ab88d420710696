----------------------------- MODULE RaftProofs -----------------------------
(***************************************************************************)
(* Theorems about the group of hosts (Raft): the types, the rule "save     *)
(* before sending", that no disk ever returns to an older term, and that   *)
(* the membership follows the log. They hold for every set of nodes and    *)
(* voters, every interleaving, loss, crash and disk error of the model,    *)
(* and without its bounds.                                                 *)
(***************************************************************************)
EXTENDS RaftSafety, RaftNodeProofs

-----------------------------------------------------------------------------
(* The inductive invariant.                                                *)

\* An entry is stored under its own index.
StoredByIndex == \A n \in Node : \A i \in DOMAIN stored[n] : stored[n][i].index = i

\* Every replica holds its log on the disk or among its unsaved entries, and
\* what it has not sent yet may go out after the next save.
ReplicasOK ==
  \A n \in Node :
    /\ node[n].id = n
    /\ ReplicaOK(node[n], DOMAIN stored[n])

\* A running host works in the term on its disk or in a later one.
TermsAhead == \A n \in Node : up[n] => node[n].term >= hard[n].term

\* Entries travel in the order of their indexes.
NetConsecutive == \A m \in net : Consecutive(m)

IInv ==
  /\ TypeOK
  /\ StoredByIndex
  /\ ReplicasOK
  /\ TermsAhead
  /\ NetConsecutive
  /\ SavedBeforeSent

-----------------------------------------------------------------------------
(* Saving.                                                                 *)

\* What Persist leaves on a disk: entries under their own indexes, the old
\* ones and the written ones.
LEMMA WriteEntriesType ==
  ASSUME NEW entries, NEW es \in Seq(Entry),
         DOMAIN entries \subseteq Nat, entries \in [DOMAIN entries -> Entry],
         \A i \in DOMAIN entries : entries[i].index = i
  PROVE  /\ DOMAIN WriteEntries(entries, es) =
              DOMAIN entries \cup {es[k].index : k \in 1..Len(es)}
         /\ DOMAIN WriteEntries(entries, es) \subseteq Nat
         /\ WriteEntries(entries, es) \in [DOMAIN WriteEntries(entries, es) -> Entry]
         /\ \A i \in DOMAIN WriteEntries(entries, es) :
              WriteEntries(entries, es)[i].index = i
<1> DEFINE written == {es[k].index : k \in 1..Len(es)}
           writes(i) == {k \in 1..Len(es) : es[k].index = i}
           last(i) == CHOOSE k \in writes(i) : \A j \in writes(i) : j <= k
           w == [i \in DOMAIN entries \cup written |->
                   IF i \in written THEN es[last(i)] ELSE entries[i]]
<1>1. WriteEntries(entries, es) = w
  BY DEF WriteEntries
<1>2. Len(es) \in Nat /\ \A k \in 1..Len(es) : es[k] \in Entry
  BY LenProperties, ElementOfSeq
<1>3. ASSUME NEW i \in written
      PROVE  es[last(i)] \in Entry /\ es[last(i)].index = i
  <2>1. writes(i) \in SUBSET (0..Len(es)) /\ writes(i) # {}
    BY <1>2, <1>3
  <2>2. \E k \in writes(i) : \A j \in writes(i) : j <= k
    <3> HIDE DEF writes
    <3> QED
      BY <1>2, <2>1, MaximumExists
  <2>3. last(i) \in writes(i)
    <3> HIDE DEF writes
    <3> QED
      BY <2>2
  <2> HIDE DEF last
  <2> QED
    BY <1>2, <2>3
<1>4. written \subseteq Nat
  BY <1>2 DEF Entry
<1> HIDE DEF written, last
<1>5. \A i \in DOMAIN entries \cup written : w[i] \in Entry /\ w[i].index = i
  BY <1>3
<1>6. DOMAIN w = DOMAIN entries \cup written
  OBVIOUS
<1>7. w \in [DOMAIN w -> Entry]
  BY <1>5, <1>6
<1> HIDE DEF w
<1> QED
  BY <1>1, <1>4, <1>5, <1>6, <1>7 DEF written

\* The same for the first puts of one Persist: the more puts succeed the more
\* of what the replica holds is on the disk, and all of it after the last one.
LEMMA SavedType ==
  ASSUME NEW entries, NEW s \in Replica, NEW k \in 0..Puts(s),
         DOMAIN entries \subseteq Nat, entries \in [DOMAIN entries -> Entry],
         \A i \in DOMAIN entries : entries[i].index = i
  PROVE  LET w == WriteEntries(entries, SubSeq(s.unstable, 1, k - 1))
         IN /\ DOMAIN w \subseteq Nat
            /\ w \in [DOMAIN w -> Entry]
            /\ \A i \in DOMAIN w : w[i].index = i
            /\ DOMAIN entries \subseteq DOMAIN w
            /\ DOMAIN w \subseteq Held(s, DOMAIN entries)
            /\ k = Puts(s) => DOMAIN w = Held(s, DOMAIN entries)
<1> DEFINE es == SubSeq(s.unstable, 1, k - 1)
           w == WriteEntries(entries, es)
<1>1. s.unstable \in Seq(Entry) /\ Len(s.unstable) \in Nat /\ k \in Int
  BY LenProperties DEF Replica, Puts
<1>2. /\ es \in Seq(Entry)
      /\ Len(es) = IF 1 <= k - 1 THEN k - 1 ELSE 0
      /\ \A j \in 1..(k - 1) : es[j] = s.unstable[j]
  <2>1. k - 1 <= Len(s.unstable) /\ k - 1 \in Int
    BY <1>1 DEF Puts
  <2>2. \A j \in 1..(k - 1) : s.unstable[j] \in Entry
    BY <1>1, <2>1, ElementOfSeq
  <2>3. /\ es \in Seq(Entry)
        /\ Len(es) = IF 1 <= k - 1 THEN (k - 1) - 1 + 1 ELSE 0
        /\ \A j \in 1..((k - 1) - 1 + 1) : es[j] = s.unstable[1 + j - 1]
    BY <1>1, <2>1, <2>2, SubSeqProperties
  <2> HIDE DEF es
  <2> QED
    BY <2>1, <2>3
<1> HIDE DEF es
<1>3. /\ \A j \in 1..Len(es) : j \in 1..Len(s.unstable) /\ es[j] = s.unstable[j]
      /\ k = Puts(s) => Len(es) = Len(s.unstable)
  <2>1. k <= 1 + Len(s.unstable) /\ (k = Puts(s) => k = 1 + Len(s.unstable))
    BY <1>1 DEF Puts
  <2> QED
    BY <1>1, <1>2, <2>1
<1>4. /\ {es[j].index : j \in 1..Len(es)} \subseteq {s.unstable[j].index : j \in 1..Len(s.unstable)}
      /\ k = Puts(s) => {es[j].index : j \in 1..Len(es)} =
                          {s.unstable[j].index : j \in 1..Len(s.unstable)}
  BY <1>3
<1>5. /\ DOMAIN w = DOMAIN entries \cup {es[j].index : j \in 1..Len(es)}
      /\ DOMAIN w \subseteq Nat
      /\ w \in [DOMAIN w -> Entry]
      /\ \A i \in DOMAIN w : w[i].index = i
  BY <1>2, WriteEntriesType
<1> HIDE DEF w
<1>6. /\ DOMAIN entries \subseteq DOMAIN w
      /\ DOMAIN w \subseteq Held(s, DOMAIN entries)
      /\ k = Puts(s) => DOMAIN w = Held(s, DOMAIN entries)
  BY <1>4, <1>5 DEF Held
<1> QED
  BY <1>5, <1>6 DEF w, es

\* RecoverNode builds a replica whose whole log is on the disk.
LEMMA RecoveredOK ==
  ASSUME NEW n \in Node, NEW h \in HardState, NEW entries,
         DOMAIN entries \subseteq Nat, entries \in [DOMAIN entries -> Entry],
         \A i \in DOMAIN entries : entries[i].index = i,
         Recoverable(h, entries)
  PROVE  /\ ReplicaOK(Recovered(n, h, entries), DOMAIN entries)
         /\ Recovered(n, h, entries).id = n
         /\ Recovered(n, h, entries).term = h.term
<1> DEFINE s == NewNode(n)
           r == [s EXCEPT !.term = h.term, !.vote = h.vote,
                          !.log = entries, !.committed = h.commit]
<1>1. PICK last \in {0} \cup DOMAIN entries : DOMAIN entries = 1..last
  BY DEF Recoverable
<1>2. last \in Nat
  BY <1>1
<1>3. entries \in Seq(Entry) /\ Len(entries) = last
  BY <1>1, <1>2, LenProperties
<1>4. s \in Replica
  BY NewNodeOK DEF ReplicaOK
<1>5. s.id = n /\ s.role = "Follower" /\ s.msgs = {}
  BY DEF NewNode
<1> HIDE DEF s
<1>6. r \in Replica
  BY <1>3, <1>4 DEF Replica, HardState
<1>7. /\ r.id = n /\ r.role = "Follower" /\ r.msgs = {}
      /\ r.log = entries /\ r.term = h.term
  BY <1>4, <1>5 DEF Replica
<1>8. Recovered(n, h, entries) = RecomputeMembership(r)
  BY DEF Recovered, s
<1> HIDE DEF r
<1>9. Numbered(r.log) /\ 1..Len(r.log) \subseteq Held(r, DOMAIN entries)
  BY <1>1, <1>3, <1>7 DEF Numbered, Held
<1>10. ReplicaOK(r, DOMAIN entries)
  BY <1>6, <1>7, <1>9 DEF ReplicaOK, RoleOK
<1>11. /\ Follows(r, RecomputeMembership(r), DOMAIN entries)
       /\ RecomputeMembership(r).term = r.term
  BY <1>10, RecomputeMembershipFollows
<1> QED
  BY <1>7, <1>8, <1>11 DEF Follows

-----------------------------------------------------------------------------
(* One save.                                                               *)

\* What a message relies on is on the disk of its sender.
SavedMessage(m) ==
  /\ hard[m.from].term >= IF m.type = "PreVote" THEN m.term - 1 ELSE m.term
  /\ \A k \in 1..Len(m.entries) : m.entries[k].index \in DOMAIN stored[m.from]
  /\ m.type = "AppendResp" /\ ~m.reject => 1..m.index \subseteq DOMAIN stored[m.from]

\* No disk loses anything in this step.
DisksGrow ==
  \A p \in Node : /\ hard'[p].term >= hard[p].term
                  /\ DOMAIN stored[p] \subseteq DOMAIN stored'[p]

DisksOK ==
  /\ hard \in [Node -> HardState]
  /\ DOMAIN stored = Node
  /\ \A n \in Node : /\ DOMAIN stored[n] \subseteq Nat
                     /\ stored[n] \in [DOMAIN stored[n] -> Entry]
  /\ StoredByIndex

\* A save, complete or not, of the state a running host may be in next.
LEMMA SaveStep ==
  ASSUME IInv, NEW n \in Node, up[n], NEW s, NEW k \in 0..Puts(s),
         Follows(node[n], s, DOMAIN stored[n]), Save(n, s, k)
  PROVE  /\ DisksOK'
         /\ DisksGrow
         /\ \A p \in Node \ {n} : hard'[p] = hard[p] /\ stored'[p] = stored[p]
         /\ hard'[n].term <= s.term
         /\ DOMAIN stored'[n] \subseteq Held(s, DOMAIN stored[n])
         /\ k = Puts(s) => /\ hard'[n].term = s.term
                           /\ DOMAIN stored'[n] = Held(s, DOMAIN stored[n])
<1> DEFINE w == WriteEntries(stored[n], SubSeq(s.unstable, 1, k - 1))
<1>1. /\ hard \in [Node -> HardState] /\ DOMAIN stored = Node
      /\ \A p \in Node : /\ DOMAIN stored[p] \subseteq Nat
                         /\ stored[p] \in [DOMAIN stored[p] -> Entry]
                         /\ \A i \in DOMAIN stored[p] : stored[p][i].index = i
  BY DEF IInv, TypeOK, StoredByIndex
<1>2. s \in Replica /\ s.term >= node[n].term
  BY DEF Follows, ReplicaOK
<1>3. node[n].term \in Nat /\ node[n].term >= hard[n].term
  BY DEF IInv, TypeOK, Replica, TermsAhead
<1>4. /\ s.term \in Nat /\ HardStateOf(s) \in HardState /\ HardStateOf(s).term = s.term
  BY <1>2 DEF Replica, HardState, HardStateOf
<1>5. \A p \in Node : hard[p] \in HardState /\ hard[p].term \in Nat
  BY <1>1 DEF HardState
<1>6. s.term >= hard[n].term
  BY <1>2, <1>3, <1>4, <1>5
<1>7. /\ DOMAIN w \subseteq Nat
      /\ w \in [DOMAIN w -> Entry]
      /\ \A i \in DOMAIN w : w[i].index = i
      /\ DOMAIN stored[n] \subseteq DOMAIN w
      /\ DOMAIN w \subseteq Held(s, DOMAIN stored[n])
      /\ k = Puts(s) => DOMAIN w = Held(s, DOMAIN stored[n])
  BY <1>1, <1>2, SavedType
<1>8. /\ hard' = [hard EXCEPT ![n] = IF k >= 1 THEN HardStateOf(s) ELSE hard[n]]
      /\ stored' = [stored EXCEPT ![n] = w]
  BY DEF Save
<1> HIDE DEF w
<1>9. /\ hard' \in [Node -> HardState]
      /\ \A p \in Node \ {n} : hard'[p] = hard[p]
      /\ hard'[n] \in {HardStateOf(s), hard[n]}
      /\ k >= 1 => hard'[n] = HardStateOf(s)
  BY <1>1, <1>4, <1>8
<1>10. /\ DOMAIN stored' = Node
       /\ \A p \in Node \ {n} : stored'[p] = stored[p]
       /\ stored'[n] = w
  BY <1>1, <1>8
<1>11. DisksOK'
  BY <1>1, <1>7, <1>9, <1>10 DEF DisksOK, StoredByIndex
<1>12. DisksGrow
  BY <1>4, <1>5, <1>6, <1>7, <1>9, <1>10 DEF DisksGrow
<1>13. k = Puts(s) => k >= 1
  BY <1>2, LenProperties DEF Puts, Replica
<1>14. hard'[n].term <= s.term
  BY <1>4, <1>5, <1>6, <1>9
<1> QED
  BY <1>4, <1>7, <1>9, <1>10, <1>11, <1>12, <1>13, <1>14

\* What was saved before a step is saved after it.
LEMMA SavedStays ==
  ASSUME DisksOK, DisksOK', DisksGrow, NEW m \in Message, SavedMessage(m)
  PROVE  SavedMessage(m)'
<1>1. m.from \in Node /\ m.term \in Nat
  BY DEF Message
<1>2. hard[m.from].term \in Nat /\ hard'[m.from].term \in Nat
  BY <1>1 DEF DisksOK, HardState
<1>3. /\ hard'[m.from].term >= hard[m.from].term
      /\ DOMAIN stored[m.from] \subseteq DOMAIN stored'[m.from]
  BY <1>1 DEF DisksGrow
<1>4. hard'[m.from].term >= IF m.type = "PreVote" THEN m.term - 1 ELSE m.term
  BY <1>1, <1>2, <1>3 DEF SavedMessage
<1> QED
  BY <1>3, <1>4 DEF SavedMessage

\* The parts of the invariant, regrouped for the steps of a host.
LEMMA IInvParts ==
  IInv <=> /\ node \in [Node -> Replica]
           /\ up \in [Node -> BOOLEAN]
           /\ applied \in [Node -> Seq(Entry)]
           /\ net \in SUBSET Message
           /\ DisksOK
           /\ ReplicasOK
           /\ TermsAhead
           /\ \A m \in net : Consecutive(m) /\ SavedMessage(m)
BY DEF IInv, TypeOK, DisksOK, NetConsecutive, SavedBeforeSent, SavedMessage

\* Replacing the replica of one host.
LEMMA ReplicaStep ==
  ASSUME IInv, NEW n \in Node, NEW r, node' = [node EXCEPT ![n] = r],
         ReplicaOK(r, DOMAIN stored'[n]), r.id = n,
         \A p \in Node \ {n} : stored'[p] = stored[p]
  PROVE  node' \in [Node -> Replica] /\ ReplicasOK'
<1>1. node \in [Node -> Replica] /\ ReplicasOK
  BY IInvParts
<1>2. r \in Replica
  BY DEF ReplicaOK
<1>3. node'[n] = r /\ \A p \in Node \ {n} : node'[p] = node[p]
  BY <1>1
<1>4. ASSUME NEW p \in Node
      PROVE  node'[p].id = p /\ ReplicaOK(node'[p], DOMAIN stored'[p])
  <2>1. CASE p = n
    BY <1>3, <2>1
  <2>2. CASE p # n
    BY <1>1, <1>3, <2>2 DEF ReplicasOK
  <2> QED
    BY <2>1, <2>2
<1> QED
  BY <1>1, <1>2, <1>4 DEF ReplicasOK

-----------------------------------------------------------------------------
(* One drive: complete, failed or cut short by a crash.                    *)

\* A whole save followed by sends: what goes out relies on what was saved.
LEMMA SaveAndSendStep ==
  ASSUME IInv, NEW n \in Node, up[n], NEW s, NEW rest \in SUBSET net,
         Follows(node[n], s, DOMAIN stored[n]),
         Save(n, s, Puts(s)), Transmit(s.msgs, rest)
  PROVE  /\ DisksOK' /\ DisksGrow
         /\ \A p \in Node \ {n} : hard'[p] = hard[p] /\ stored'[p] = stored[p]
         /\ hard'[n].term = s.term
         /\ DOMAIN stored'[n] = Held(s, DOMAIN stored[n])
         /\ \A m \in net' : m \in Message /\ Consecutive(m) /\ SavedMessage(m)'
<1>1. /\ net \in SUBSET Message /\ DisksOK /\ ReplicasOK
      /\ \A m \in net : Consecutive(m) /\ SavedMessage(m)
  BY IInvParts
<1>2. ReplicaOK(s, DOMAIN stored[n]) /\ s \in Replica /\ s.id = n
  BY <1>1 DEF Follows, ReplicaOK, ReplicasOK
<1>3. s.term \in Nat /\ s.msgs \in SUBSET Message /\ Puts(s) \in 0..Puts(s)
  BY <1>2, LenProperties DEF Replica, Puts
<1>4. /\ DisksOK' /\ DisksGrow
      /\ \A p \in Node \ {n} : hard'[p] = hard[p] /\ stored'[p] = stored[p]
      /\ hard'[n].term = s.term
      /\ DOMAIN stored'[n] = Held(s, DOMAIN stored[n])
  BY <1>3, SaveStep
<1>5. PICK sent \in SUBSET s.msgs : net' = rest \cup sent
  BY DEF Transmit
<1>6. ASSUME NEW m \in s.msgs
      PROVE  Consecutive(m) /\ SavedMessage(m)'
  <2>1. Sendable(m, s, DOMAIN stored[n]) /\ m \in Message
    BY <1>2, <1>3 DEF ReplicaOK
  <2>2. m.from = n /\ m.term \in Nat
    BY <1>2, <2>1 DEF Sendable, Message
  <2>3. hard'[n].term >= IF m.type = "PreVote" THEN m.term - 1 ELSE m.term
    BY <1>3, <1>4, <2>1, <2>2 DEF Sendable
  <2>4. SavedMessage(m)'
    BY <1>4, <2>1, <2>2, <2>3 DEF SavedMessage, Sendable
  <2> QED
    BY <2>1, <2>4 DEF Sendable
<1>7. \A m \in net' : m \in Message /\ Consecutive(m) /\ SavedMessage(m)'
  <2> TAKE m \in net'
  <2>1. CASE m \in rest
    <3>1. m \in Message /\ Consecutive(m) /\ SavedMessage(m)
      BY <1>1, <2>1
    <3>2. SavedMessage(m)'
      BY <1>1, <1>4, <3>1, SavedStays
    <3> QED
      BY <3>1, <3>2
  <2>2. CASE m \in sent
    BY <1>3, <1>6, <2>2
  <2> QED
    BY <1>5, <2>1, <2>2
<1> QED
  BY <1>4, <1>7

\* What both kinds of drive have in common: r is the replica they leave.
LEMMA SentStep ==
  ASSUME IInv, NEW n \in Node, up[n], NEW s, NEW rest \in SUBSET net,
         Follows(node[n], s, DOMAIN stored[n]),
         Save(n, s, Puts(s)), Transmit(s.msgs, rest), up' = up,
         NEW r, node' = [node EXCEPT ![n] = r],
         ReplicaOK(r, DOMAIN stored'[n]), r.id = n, r.term = s.term,
         applied' \in [Node -> Seq(Entry)]
  PROVE  IInv' /\ DisksGrow
<1>1. node \in [Node -> Replica] /\ up \in [Node -> BOOLEAN] /\ TermsAhead
  BY IInvParts
<1>2. s.term \in Nat
  BY DEF Follows, ReplicaOK, Replica
<1>3. /\ DisksOK' /\ DisksGrow
      /\ \A p \in Node \ {n} : hard'[p] = hard[p] /\ stored'[p] = stored[p]
      /\ hard'[n].term = s.term
      /\ \A m \in net' : m \in Message /\ Consecutive(m) /\ SavedMessage(m)'
  BY SaveAndSendStep
<1>4. node' \in [Node -> Replica] /\ ReplicasOK'
  BY <1>3, ReplicaStep
<1>5. TermsAhead'
  <2> SUFFICES ASSUME NEW p \in Node, up[p]
               PROVE  node'[p].term >= hard'[p].term
    BY DEF TermsAhead
  <2>1. CASE p = n
    BY <1>1, <1>2, <1>3, <2>1
  <2>2. CASE p # n
    BY <1>1, <1>3, <2>2 DEF TermsAhead
  <2> QED
    BY <2>1, <2>2
<1>6. up' \in [Node -> BOOLEAN] /\ net' \in SUBSET Message
  BY <1>1, <1>3
<1>7. IInv'
  BY <1>3, <1>4, <1>5, <1>6
     DEF IInv, TypeOK, DisksOK, NetConsecutive, SavedBeforeSent, SavedMessage
<1> QED
  BY <1>3, <1>7

\* A complete drive of what a handler left keeps the invariant.
LEMMA DriveStep ==
  ASSUME IInv, NEW n \in Node, up[n], NEW s, NEW rest \in SUBSET net,
         Follows(node[n], s, DOMAIN stored[n]), Drive(n, s, rest)
  PROVE  IInv' /\ DisksGrow
<1>1. ReplicasOK /\ applied \in [Node -> Seq(Entry)]
  BY IInvParts
<1>2. ReplicaOK(s, DOMAIN stored[n]) /\ s \in Replica /\ s.id = n
  BY <1>1 DEF Follows, ReplicaOK, ReplicasOK
<1>3. /\ Save(n, s, Puts(s)) /\ Transmit(s.msgs, rest) /\ up' = up
      /\ node' = [node EXCEPT ![n] = Advance(s)]
      /\ applied' = [applied EXCEPT ![n] = applied[n] \o CommittedEntries(s)]
  BY DEF Drive
<1>4. DOMAIN stored'[n] = Held(s, DOMAIN stored[n])
  BY <1>3, SaveAndSendStep
<1>5. /\ ReplicaOK(Advance(s), DOMAIN stored'[n])
      /\ Advance(s).id = n
      /\ Advance(s).term = s.term
  BY <1>2, <1>4, AdvanceOK
<1>6. applied' \in [Node -> Seq(Entry)]
  <2>1. CommittedEntries(s) \in Seq(Entry)
    BY <1>2, CommittedEntriesType
  <2>2. applied[n] \o CommittedEntries(s) \in Seq(Entry)
    BY <1>1, <2>1, ConcatProperties
  <2> QED
    BY <1>1, <1>3, <2>2
<1> QED
  BY <1>3, <1>5, <1>6, SentStep

\* A drive that Apply stopped: saved and sent, but not advanced.
LEMMA DriveRefusedStep ==
  ASSUME IInv, NEW n \in Node, up[n], NEW s, NEW rest \in SUBSET net,
         Follows(node[n], s, DOMAIN stored[n]), DriveRefused(n, s, rest)
  PROVE  IInv' /\ DisksGrow
<1>1. ReplicasOK /\ applied \in [Node -> Seq(Entry)]
  BY IInvParts
<1>2. ReplicaOK(s, DOMAIN stored[n]) /\ s \in Replica /\ s.id = n
  BY <1>1 DEF Follows, ReplicaOK, ReplicasOK
<1>3. /\ Save(n, s, Puts(s)) /\ Transmit(s.msgs, rest) /\ up' = up
      /\ node' = [node EXCEPT ![n] = s]
  BY DEF DriveRefused
<1>4. PICK k \in Refusals(s) :
        applied' = [applied EXCEPT
                      ![n] = applied[n] \o SubSeq(CommittedEntries(s), 1, k - 1)]
  BY DEF DriveRefused
<1>5. ReplicaOK(s, DOMAIN stored'[n])
  <2>1. DOMAIN stored[n] \subseteq DOMAIN stored'[n]
    BY <1>3, SaveAndSendStep DEF DisksGrow
  <2> QED
    BY <1>2, <2>1, ReplicaOKGrows
<1>6. applied' \in [Node -> Seq(Entry)]
  <2> DEFINE es == CommittedEntries(s)
  <2>1. es \in Seq(Entry) /\ Len(es) \in Nat
    BY <1>2, CommittedEntriesType, LenProperties
  <2>2. k \in 1..Len(es)
    BY DEF Refusals
  <2> HIDE DEF es
  <2>3. k - 1 \in Int /\ \A i \in 1..(k - 1) : es[i] \in Entry
    BY <2>1, <2>2, ElementOfSeq
  <2>4. SubSeq(es, 1, k - 1) \in Seq(Entry)
    BY <2>3, SubSeqProperties
  <2>5. applied[n] \o SubSeq(es, 1, k - 1) \in Seq(Entry)
    BY <1>1, <2>4, ConcatProperties
  <2> QED
    BY <1>1, <1>4, <2>5 DEF es
<1> QED
  BY <1>2, <1>3, <1>5, <1>6, SentStep

\* A step that loses messages or none, and sends none.
LEMMA SilentStep ==
  ASSUME IInv, DisksOK', DisksGrow, net' \subseteq net,
         node' \in [Node -> Replica], ReplicasOK', TermsAhead',
         up' \in [Node -> BOOLEAN], applied' \in [Node -> Seq(Entry)]
  PROVE  IInv'
<1>1. /\ net \in SUBSET Message /\ DisksOK
      /\ \A m \in net : Consecutive(m) /\ SavedMessage(m)
  BY IInvParts
<1>2. \A m \in net' : m \in Message /\ Consecutive(m) /\ SavedMessage(m)'
  BY <1>1, SavedStays
<1>3. net' \in SUBSET Message
  BY <1>2
<1> QED
  BY <1>2, <1>3 DEF IInv, TypeOK, DisksOK, NetConsecutive, SavedBeforeSent, SavedMessage

\* So does one with an error from the disk after any number of puts.
LEMMA DriveFailsStep ==
  ASSUME IInv, NEW n \in Node, up[n], NEW s, NEW rest \in SUBSET net,
         Follows(node[n], s, DOMAIN stored[n]), DriveFails(n, s, rest)
  PROVE  IInv' /\ DisksGrow
<1>1. /\ node \in [Node -> Replica] /\ up \in [Node -> BOOLEAN]
      /\ applied \in [Node -> Seq(Entry)] /\ DisksOK /\ ReplicasOK /\ TermsAhead
  BY IInvParts
<1>2. ReplicaOK(s, DOMAIN stored[n]) /\ s.id = n
  BY <1>1 DEF Follows, ReplicasOK
<1>3. PICK k \in 0..Puts(s) : Save(n, s, k)
  BY DEF DriveFails
<1>4. /\ DisksOK' /\ DisksGrow
      /\ \A p \in Node \ {n} : hard'[p] = hard[p] /\ stored'[p] = stored[p]
      /\ hard'[n].term <= s.term
  BY <1>3, SaveStep
<1>5. node' = [node EXCEPT ![n] = s] /\ net' = rest /\ up' = up /\ applied' = applied
  BY DEF DriveFails
<1>6. ReplicaOK(s, DOMAIN stored'[n])
  <2>1. DOMAIN stored[n] \subseteq DOMAIN stored'[n]
    BY <1>4 DEF DisksGrow
  <2> QED
    BY <1>2, <2>1, ReplicaOKGrows
<1>7. node' \in [Node -> Replica] /\ ReplicasOK'
  BY <1>2, <1>4, <1>5, <1>6, ReplicaStep
<1>8. TermsAhead'
  <2> SUFFICES ASSUME NEW p \in Node, up[p]
               PROVE  node'[p].term >= hard'[p].term
    BY <1>5 DEF TermsAhead
  <2>1. CASE p = n
    <3>1. s.term \in Nat /\ hard'[n].term \in Nat
      BY <1>2, <1>4 DEF ReplicaOK, Replica, DisksOK, HardState
    <3> QED
      BY <1>1, <1>4, <1>5, <2>1, <3>1
  <2>2. CASE p # n
    BY <1>1, <1>4, <1>5, <2>2 DEF TermsAhead
  <2> QED
    BY <2>1, <2>2
<1>9. IInv'
  BY <1>1, <1>4, <1>5, <1>7, <1>8, SilentStep
<1> QED
  BY <1>4, <1>9

\* A process that dies, whatever its last save left.
LEMMA DieStep ==
  ASSUME IInv, NEW n \in Node, NEW rest \in SUBSET net, Die(n, rest),
         DisksOK', DisksGrow,
         \A p \in Node \ {n} : hard'[p] = hard[p] /\ stored'[p] = stored[p]
  PROVE  IInv'
<1>1. /\ node \in [Node -> Replica] /\ up \in [Node -> BOOLEAN]
      /\ applied \in [Node -> Seq(Entry)] /\ DisksOK /\ ReplicasOK /\ TermsAhead
  BY IInvParts
<1>2. /\ node' = [node EXCEPT ![n] = NewNode(n)]
      /\ up' = [up EXCEPT ![n] = FALSE]
      /\ applied' = [applied EXCEPT ![n] = <<>>]
      /\ net' \subseteq net
  BY DEF Die
<1>3. ReplicaOK(NewNode(n), DOMAIN stored'[n]) /\ NewNode(n).id = n
  BY NewNodeOK DEF NewNode
<1>4. node' \in [Node -> Replica] /\ ReplicasOK'
  BY <1>2, <1>3, ReplicaStep
<1>5. TermsAhead'
  BY <1>1, <1>2 DEF TermsAhead
<1>6. up' \in [Node -> BOOLEAN] /\ applied' \in [Node -> Seq(Entry)]
  BY <1>1, <1>2, EmptySeq
<1> QED
  BY <1>2, <1>4, <1>5, <1>6, SilentStep

\* So does every way in which a drive may end.
LEMMA HandleStep ==
  ASSUME IInv, NEW n \in Node, up[n], NEW s, NEW rest \in SUBSET net,
         Follows(node[n], s, DOMAIN stored[n]), Handle(n, s, rest)
  PROVE  IInv' /\ DisksGrow
<1>1. CASE Drive(n, s, rest)
  BY <1>1, DriveStep
<1>2. CASE DriveRefused(n, s, rest)
  BY <1>2, DriveRefusedStep
<1>3. CASE DriveFails(n, s, rest)
  BY <1>3, DriveFailsStep
<1>4. CASE DriveCrashes(n, s, rest)
  <2>1. PICK k \in 1..Puts(s) : Save(n, s, k)
    BY <1>4 DEF DriveCrashes
  <2>2. k \in 0..Puts(s)
    OBVIOUS
  <2>3. /\ DisksOK' /\ DisksGrow
        /\ \A p \in Node \ {n} : hard'[p] = hard[p] /\ stored'[p] = stored[p]
    BY <2>1, <2>2, SaveStep
  <2>4. Die(n, rest)
    BY <1>4 DEF DriveCrashes
  <2> QED
    BY <2>3, <2>4, DieStep
<1> QED
  BY <1>1, <1>2, <1>3, <1>4 DEF Handle

-----------------------------------------------------------------------------
(* The steps of a host.                                                    *)

\* A group that starts with empty disks has the invariant.
LEMMA InitIInv == Init => IInv
<1> SUFFICES ASSUME Init
             PROVE  IInv
  OBVIOUS
<1> USE DEF Init
<1>1. \A n \in Node : ReplicaOK(NewNode(n), {}) /\ NewNode(n).id = n
  BY NewNodeOK DEF NewNode
<1>2. \A n \in Node : stored[n] = <<>> /\ DOMAIN stored[n] = {}
  OBVIOUS
<1>3. DisksOK
  <2>1. \A n \in Node : DOMAIN stored[n] \subseteq Nat /\ stored[n] \in [DOMAIN stored[n] -> Entry]
    BY <1>2
  <2> QED
    BY <1>2, <2>1 DEF DisksOK, HardState, StoredByIndex
<1>4. ReplicasOK
  BY <1>1, <1>2 DEF ReplicasOK
<1>5. node \in [Node -> Replica]
  BY <1>1 DEF ReplicaOK
<1>6. TermsAhead
  BY DEF TermsAhead, NewNode
<1>7. applied \in [Node -> Seq(Entry)]
  BY EmptySeq
<1> QED
  BY <1>3, <1>4, <1>5, <1>6, <1>7, IInvParts

\* RecoverNode rebuilds a replica that holds its log on the disk.
LEMMA RestartStep ==
  ASSUME IInv, NEW n \in Node, Restart(n)
  PROVE  IInv' /\ DisksGrow
<1>1. /\ node \in [Node -> Replica] /\ up \in [Node -> BOOLEAN]
      /\ applied \in [Node -> Seq(Entry)] /\ DisksOK /\ ReplicasOK /\ TermsAhead
  BY IInvParts
<1> DEFINE r == Recovered(n, hard[n], stored[n])
<1>2. /\ node' = [node EXCEPT ![n] = r] /\ up' = [up EXCEPT ![n] = TRUE]
      /\ hard' = hard /\ stored' = stored /\ applied' = applied /\ net' = net
      /\ Recoverable(hard[n], stored[n])
  BY DEF Restart
<1>3. /\ ReplicaOK(r, DOMAIN stored[n])
      /\ r.id = n
      /\ r.term = hard[n].term
  <2>1. /\ hard[n] \in HardState
        /\ DOMAIN stored[n] \subseteq Nat
        /\ stored[n] \in [DOMAIN stored[n] -> Entry]
        /\ \A i \in DOMAIN stored[n] : stored[n][i].index = i
    BY <1>1 DEF DisksOK, StoredByIndex
  <2> QED
    BY <1>2, <2>1, RecoveredOK
<1> HIDE DEF r
<1>4. node' \in [Node -> Replica] /\ ReplicasOK'
  <2>1. /\ ReplicaOK(r, DOMAIN stored'[n])
        /\ \A p \in Node \ {n} : stored'[p] = stored[p]
    BY <1>2, <1>3
  <2> QED
    BY <1>2, <1>3, <2>1, ReplicaStep
<1>5. \A p \in Node : hard[p].term \in Nat
  BY <1>1 DEF DisksOK, HardState
<1>6. TermsAhead'
  <2> SUFFICES ASSUME NEW p \in Node, up'[p]
               PROVE  node'[p].term >= hard[p].term
    BY <1>2 DEF TermsAhead
  <2>1. CASE p = n
    BY <1>1, <1>2, <1>3, <1>5, <2>1
  <2>2. CASE p # n
    BY <1>1, <1>2, <2>2 DEF TermsAhead
  <2> QED
    BY <2>1, <2>2
<1>7. DisksOK' /\ DisksGrow
  BY <1>1, <1>2, <1>5 DEF DisksOK, DisksGrow, StoredByIndex
<1>8. up' \in [Node -> BOOLEAN]
  BY <1>1, <1>2
<1>9. IInv'
  BY <1>1, <1>2, <1>4, <1>6, <1>7, <1>8, SilentStep
<1> QED
  BY <1>7, <1>9

\* Whatever a running host does next keeps the invariant; so do crashes,
\* restarts and a step that changes nothing.
LEMMA NextIInv ==
  ASSUME IInv, [Next]_vars
  PROVE  IInv' /\ DisksGrow
<1>1. /\ \A n \in Node : /\ node[n].id = n
                         /\ ReplicaOK(node[n], DOMAIN stored[n])
      /\ \A m \in net : m \in Message /\ Consecutive(m)
      /\ DisksOK
  BY IInvParts DEF ReplicasOK
<1>2. net \in SUBSET net
  OBVIOUS
<1>3. ASSUME NEW n \in Node, Heartbeat(n)
      PROVE  IInv' /\ DisksGrow
  <2>1. NextPositive(node[n])
    BY <1>1, <1>3 DEF Heartbeat, ReplicaOK, RoleOK
  <2>2. Follows(node[n], BroadcastAppend(node[n]), DOMAIN stored[n])
    BY <1>1, <2>1, BroadcastAppendFollows
  <2> QED
    BY <1>2, <1>3, <2>2, HandleStep DEF Heartbeat
<1>4. ASSUME NEW n \in Node, ElectionTimeout(n)
      PROVE  IInv' /\ DisksGrow
  <2>1. Follows(node[n], StartPreVote(node[n]), DOMAIN stored[n])
    BY <1>1, StartPreVoteFollows
  <2> QED
    BY <1>2, <1>4, <2>1, HandleStep DEF ElectionTimeout
<1>5. ASSUME NEW n \in Node, IdleTick(n)
      PROVE  IInv' /\ DisksGrow
  <2>1. Follows(node[n], node[n], DOMAIN stored[n])
    BY <1>1, FollowsReflexive
  <2> QED
    BY <1>2, <1>5, <2>1, HandleStep DEF IdleTick
<1>6. ASSUME NEW n \in Node, NEW c \in Command, Propose(n, c)
      PROVE  IInv' /\ DisksGrow
  <2>1. NextPositive(node[n])
    BY <1>1, <1>6 DEF Propose, ReplicaOK, RoleOK
  <2>2. CommandData(c) \in Data
    BY DEF Data
  <2>3. Follows(node[n], ProposeInternal(node[n], CommandData(c)), DOMAIN stored[n])
    BY <1>1, <2>1, <2>2, ProposeInternalFollows
  <2> QED
    BY <1>2, <1>6, <2>3, HandleStep DEF Propose
<1>7. ASSUME NEW n \in Node, NEW voters \in VoterChanges, ProposeConfChange(n, voters)
      PROVE  IInv' /\ DisksGrow
  <2>1. NextPositive(node[n])
    BY <1>1, <1>7 DEF ProposeConfChange, ReplicaOK, RoleOK
  <2>2. voters \in SUBSET Node /\ node[n].membership.old \in SUBSET Node
    <3>1. node[n].membership \in Configurations(Node)
      BY <1>1 DEF ReplicaOK, Replica
    <3> QED
      BY <3>1, EnvironmentAssumption DEF Configurations
  <2>3. ConfigData(Joint(node[n].membership.old, voters)) \in Data
    BY <2>2, ConfigDataType
  <2>4. Follows(node[n], ProposeJoint(node[n], voters), DOMAIN stored[n])
    BY <1>1, <2>1, <2>3, ProposeInternalFollows DEF ProposeJoint
  <2> QED
    BY <1>2, <1>7, <2>4, HandleStep DEF ProposeConfChange
<1>8. ASSUME NEW n \in Node, Crash(n)
      PROVE  IInv' /\ DisksGrow
  <2>1. hard' = hard /\ stored' = stored /\ Die(n, net)
    BY <1>8 DEF Crash
  <2>2. DisksOK' /\ DisksGrow
    <3>1. \A p \in Node : hard[p].term \in Nat
      BY <1>1 DEF DisksOK, HardState
    <3> QED
      BY <1>1, <2>1, <3>1 DEF DisksOK, DisksGrow, StoredByIndex
  <2> QED
    BY <1>2, <2>1, <2>2, DieStep
<1>9. ASSUME NEW n \in Node, Restart(n)
      PROVE  IInv' /\ DisksGrow
  BY <1>9, RestartStep
<1>10. ASSUME NEW m \in net, Receive(m)
       PROVE  IInv' /\ DisksGrow
  <2>1. m.to \in Node /\ m \in Message /\ Consecutive(m)
    BY <1>1 DEF Message
  <2>2. Follows(node[m.to], Step(node[m.to], m), DOMAIN stored[m.to])
    BY <1>1, <2>1, StepFollows
  <2>3. net \ {m} \in SUBSET net
    OBVIOUS
  <2> QED
    BY <1>10, <2>1, <2>2, <2>3, HandleStep DEF Receive
<1>11. CASE UNCHANGED vars
  <2>1. IInv'
    BY <1>11 DEF vars, IInv, TypeOK, StoredByIndex, ReplicasOK, TermsAhead,
                 NetConsecutive, SavedBeforeSent
  <2>2. DisksGrow
    <3>1. \A p \in Node : hard[p].term \in Nat
      BY <1>1 DEF DisksOK, HardState
    <3> QED
      BY <1>11, <3>1 DEF vars, DisksGrow
  <2> QED
    BY <2>1, <2>2
<1> QED
  BY <1>3, <1>4, <1>5, <1>6, <1>7, <1>8, <1>9, <1>10, <1>11 DEF Next

-----------------------------------------------------------------------------
(* The theorems.                                                           *)

\* The invariant holds in every reachable state: by induction over the steps.
LEMMA Invariance == Spec => []IInv
<1>1. Init => IInv
  BY InitIInv
<1>2. IInv /\ [Next]_vars => IInv'
  BY NextIInv
<1> QED
  BY <1>1, <1>2, PTL DEF Spec

\* Every replica, disk and message keeps the shape of the Go types: no handler
\* of node.go, election.go or confchange.go, and no restart, leaves a log, an
\* index, a voter set or a pending message ill-formed.
THEOREM TypeCorrect == Spec => []TypeOK
<1>1. IInv => TypeOK
  BY DEF IInv
<1> QED
  BY <1>1, Invariance, PTL

\* driveLocked saves before it sends, in every interleaving with lost
\* messages, failing disks and crashes: what a message in flight relies on
\* (its term, its entries, the entries it acknowledges) is on its sender's disk.
THEOREM SavesBeforeSending == Spec => []SavedBeforeSent
<1>1. IInv => SavedBeforeSent
  BY DEF IInv
<1> QED
  BY <1>1, Invariance, PTL

\* No save, torn save, crash or restart takes the term on a disk back: no
\* replica ever takes part in a term it has already left.
THEOREM TermsNeverGoBack == Spec => TermNeverGoesBack
<1>1. IInv /\ [Next]_vars => [\A n \in Node : hard'[n].term >= hard[n].term]_vars
  <2>1. DisksGrow => \A n \in Node : hard'[n].term >= hard[n].term
    BY DEF DisksGrow
  <2> QED
    BY <2>1, NextIInv
<1> QED
  BY <1>1, Invariance, PTL DEF Spec, TermNeverGoesBack

-----------------------------------------------------------------------------
(* The membership a replica decides with is the newest configuration of    *)
(* its log: the code keeps the two apart (node.membership,                 *)
(* node.membershipIndex) and rescans the log only where it believes that   *)
(* it has to.                                                              *)

Configured(s) ==
  /\ s.membership = ConfigurationOf(s.log)
  /\ s.membershipIndex = NewestConfigIndex(s.log)

\* Handlers that touch neither the log nor the membership.
SameConfig(s, r) ==
  /\ r.log = s.log
  /\ r.membership = s.membership
  /\ r.membershipIndex = s.membershipIndex

LEMMA SameConfigConfigured ==
  ASSUME NEW s, NEW r, Configured(s), SameConfig(s, r)
  PROVE  Configured(r)
BY DEF Configured, SameConfig

\* Sending, and taking a role, leave the membership alone.
LEMMA SendConfigured ==
  ASSUME NEW s \in Replica, NEW M, Configured(s)
  PROVE  Configured(Send(s, M))
<1>1. SameConfig(s, Send(s, M))
  BY DEF Replica, Send, SameConfig
<1> QED
  BY <1>1, SameConfigConfigured

LEMMA BecomeFollowerConfigured ==
  ASSUME NEW s \in Replica, NEW t, Configured(s)
  PROVE  Configured(BecomeFollower(s, t))
<1>1. SameConfig(s, BecomeFollower(s, t))
  BY DEF Replica, BecomeFollower, SameConfig
<1> QED
  BY <1>1, SameConfigConfigured

\* The rescan is correct whatever was there before it.
LEMMA RecomputeConfigured ==
  ASSUME NEW s \in Replica
  PROVE  Configured(RecomputeMembership(s))
BY DEF Replica, RecomputeMembership, Configured

\* An entry that is no configuration does not change which one is the newest.
LEMMA PlainEntryKeepsConfig ==
  ASSUME NEW log \in Seq(Entry), NEW entry \in Entry, ~IsConfig(entry.data)
  PROVE  /\ ConfigurationOf(Append(log, entry)) = ConfigurationOf(log)
         /\ NewestConfigIndex(Append(log, entry)) = NewestConfigIndex(log)
<1> DEFINE grown == Append(log, entry)
<1>1. /\ Len(log) \in Nat
      /\ Len(grown) = Len(log) + 1
      /\ \A i \in 1..Len(log) : grown[i] = log[i]
      /\ grown[Len(log) + 1] = entry
  BY LenProperties, AppendProperties
<1> HIDE DEF grown
<1>2. ConfigIndexes(grown) = ConfigIndexes(log)
  BY <1>1 DEF ConfigIndexes
<1>3. NewestConfigIndex(grown) = NewestConfigIndex(log)
  BY <1>2 DEF NewestConfigIndex
<1>4. NewestConfigIndex(log) \in {0} \cup ConfigIndexes(log)
  BY NewestConfigType
<1>5. ConfigurationOf(grown) = ConfigurationOf(log)
  BY <1>1, <1>3, <1>4 DEF ConfigurationOf, ConfigIndexes
<1> QED
  BY <1>3, <1>5 DEF grown

\* proposeInternal rescans exactly when it has appended a configuration.
LEMMA ProposeInternalConfigured ==
  ASSUME NEW s \in Replica, NEW data \in Data, Configured(s)
  PROVE  Configured(ProposeInternal(s, data))
<1> DEFINE entry == [index |-> Len(s.log) + 1, term |-> s.term, data |-> data]
           appended == [s EXCEPT !.log = Append(@, entry),
                                 !.unstable = Append(@, entry),
                                 !.match[s.id] = Len(s.log) + 1]
           r == IF IsConfig(data) THEN RecomputeMembership(appended) ELSE appended
           M == {AppendTo(r, p) : p \in Node \ {r.id}}
<1>1. /\ s.log \in Seq(Entry) /\ s.unstable \in Seq(Entry) /\ s.id \in Node
      /\ s.match \in [Node -> Nat] /\ s.term \in Nat /\ Len(s.log) \in Nat
  BY LenProperties DEF Replica
<1>2. entry \in Entry /\ entry.data = data
  BY <1>1 DEF Entry
<1>3. ProposeInternal(s, data) = Send(r, M)
  BY DEF ProposeInternal, BroadcastAppend
<1> HIDE DEF entry
<1>4. Append(s.log, entry) \in Seq(Entry) /\ Append(s.unstable, entry) \in Seq(Entry)
  BY <1>1, <1>2, AppendProperties
<1>5. /\ appended \in Replica
      /\ appended.log = Append(s.log, entry)
      /\ appended.membership = s.membership
      /\ appended.membershipIndex = s.membershipIndex
  <2>1. [s.match EXCEPT ![s.id] = Len(s.log) + 1] \in [Node -> Nat]
    BY <1>1
  <2> QED
    BY <1>1, <1>4, <2>1 DEF Replica
<1> HIDE DEF appended
<1>6. Configured(r) /\ r \in Replica
  <2>1. CASE IsConfig(data)
    <3>1. ConfigurationOf(appended.log) \in Configurations(Node)
      BY <1>4, <1>5, ConfigurationType
    <3>2. NewestConfigIndex(appended.log) \in Nat
      <4>1. NewestConfigIndex(appended.log) \in 0..Len(appended.log)
        BY <1>4, <1>5, NewestConfigType
      <4> QED
        BY <4>1
    <3>3. RecomputeMembership(appended) \in Replica
      BY <1>5, <3>1, <3>2 DEF RecomputeMembership, Replica
    <3> QED
      BY <1>5, <2>1, <3>3, RecomputeConfigured
  <2>2. CASE ~IsConfig(data)
    BY <1>1, <1>2, <1>5, <2>2, PlainEntryKeepsConfig DEF Configured
  <2> QED
    BY <2>1, <2>2
<1> HIDE DEF r, M
<1> QED
  BY <1>3, <1>6, SendConfigured

LEMMA MaybeLeaveJointConfigured ==
  ASSUME NEW s \in Replica, Configured(s)
  PROVE  Configured(MaybeLeaveJointOrStepDown(s))
<1>1. s.membership.new \in SUBSET Node /\ s.membership.old \in SUBSET Node
  BY DEF Replica, Configurations
<1>2. ConfigData(Simple(s.membership.new)) \in Data
  BY <1>1, ConfigDataType
<1> QED
  BY <1>2, ProposeInternalConfigured, BecomeFollowerConfigured
     DEF MaybeLeaveJointOrStepDown, ProposeLeaveJoint

\* A new leader in a joint configuration appends an entry that is no config.
LEMMA BecomeLeaderConfigured ==
  ASSUME NEW s \in Replica, Configured(s)
  PROVE  Configured(BecomeLeader(s))
<1> DEFINE leader == [s EXCEPT
      !.role = "Leader",
      !.next = [p \in Node |-> Len(s.log) + 1],
      !.match = [p \in Node |-> IF p = s.id THEN Len(s.log) ELSE 0],
      !.preVote = FALSE]
<1>1. Len(s.log) \in Nat
  BY LenProperties DEF Replica
<1>2. /\ [p \in Node |-> Len(s.log) + 1] \in [Node -> Nat]
      /\ [p \in Node |-> IF p = s.id THEN Len(s.log) ELSE 0] \in [Node -> Nat]
  BY <1>1
<1>3. leader \in Replica
  BY <1>2 DEF Replica, Role
<1>4. SameConfig(s, leader)
  BY DEF Replica, SameConfig
<1>5. BecomeLeader(s) = IF s.membership.joint THEN ProposeInternal(leader, Noop)
                                              ELSE BroadcastAppend(leader)
  BY DEF BecomeLeader
<1> HIDE DEF leader
<1>6. Configured(leader) /\ Noop \in Data
  BY <1>4, SameConfigConfigured DEF Data
<1> QED
  BY <1>3, <1>5, <1>6, ProposeInternalConfigured, SendConfigured DEF BroadcastAppend

LEMMA AdvanceCommitConfigured ==
  ASSUME NEW D, NEW s, ReplicaOK(s, D), s.role = "Leader", Configured(s)
  PROVE  Configured(AdvanceCommit(s))
<1>1. CASE Committable(s) = {}
  BY <1>1 DEF AdvanceCommit
<1>2. CASE Committable(s) # {}
  <2> DEFINE highest == CHOOSE c \in Committable(s) : \A d \in Committable(s) : d <= c
             r == [s EXCEPT !.committed = highest]
             b == BroadcastAppend(r)
  <2>1. s \in Replica /\ s.term \in Nat /\ s.term >= 1 /\ NextPositive(s)
    BY DEF ReplicaOK, Replica, RoleOK
  <2>2. highest \in Nat
    BY <1>2, <2>1, CommittableType
  <2>3. AdvanceCommit(s) = MaybeLeaveJointOrStepDown(b)
    BY <1>2 DEF AdvanceCommit
  <2> HIDE DEF highest
  <2>4. r \in Replica /\ SameConfig(s, r)
    BY <2>1, <2>2 DEF Replica, SameConfig
  <2>5. /\ r.id = s.id /\ r.term = s.term /\ r.log = s.log /\ r.role = s.role
        /\ r.unstable = s.unstable /\ r.msgs = s.msgs /\ r.next = s.next
    BY <2>1 DEF Replica
  <2> HIDE DEF r
  <2>6. NextPositive(r) /\ RoleOK(r)
    BY <2>1, <2>5 DEF NextPositive, RoleOK
  <2>7. Follows(s, r, D)
    BY <2>1, <2>4, <2>5, <2>6, FrameFollows
  <2>8. b \in Replica
    BY <2>6, <2>7, BroadcastAppendFollows DEF Follows, ReplicaOK
  <2>9. Configured(b)
    BY <2>4, SameConfigConfigured, SendConfigured DEF BroadcastAppend
  <2> HIDE DEF b
  <2> QED
    BY <2>3, <2>8, <2>9, MaybeLeaveJointConfigured
<1> QED
  BY <1>1, <1>2

\* A campaign does not concern the log.
LEMMA StartPreVoteConfigured ==
  ASSUME NEW s \in Replica, Configured(s)
  PROVE  Configured(StartPreVote(s))
<1> DEFINE r == [s EXCEPT !.votes = {s.id}, !.preVote = TRUE]
<1>1. r \in Replica /\ SameConfig(s, r)
  <2>1. s.id \in Node
    BY DEF Replica
  <2> QED
    BY <2>1 DEF Replica, SameConfig
<1> HIDE DEF r
<1>2. Configured(Send(r, Solicit(s, "PreVote", s.term + 1)))
  BY <1>1, SameConfigConfigured, SendConfigured
<1> QED
  BY <1>2 DEF StartPreVote, r

\* Votes, pre-votes and their answers do not concern the log.
LEMMA ElectionConfigured ==
  ASSUME NEW s \in Replica, Configured(s), NEW m \in Message
  PROVE  /\ Configured(HandlePreVote(s, m))
         /\ Configured(HandlePreVoteResp(s, m))
         /\ Configured(HandleVote(s, m))
         /\ Configured(HandleVoteResp(s, m))
<1> DEFINE counted == [s EXCEPT !.votes = @ \cup {m.from}]
<1>1. m.from \in Node /\ s.id \in Node
  BY DEF Replica, Message
<1>3. Configured(HandlePreVote(s, m))
  BY SendConfigured DEF HandlePreVote
<1>4. counted \in Replica /\ SameConfig(s, counted)
  BY <1>1 DEF Replica, SameConfig
<1> HIDE DEF counted
<1>5. Configured(counted)
  BY <1>4, SameConfigConfigured
<1>6. Configured(StartElection(counted))
  <2> DEFINE r == [counted EXCEPT !.preVote = FALSE, !.role = "Candidate",
                                  !.term = @ + 1, !.vote = counted.id,
                                  !.votes = {counted.id}]
  <2>0. counted.id \in Node /\ counted.term \in Nat
    BY <1>4 DEF Replica
  <2>1. counted.id \in Node /\ counted.term + 1 \in Nat
    BY <2>0
  <2>2. r \in Replica /\ SameConfig(counted, r)
    BY <1>4, <2>1 DEF Replica, Role, SameConfig
  <2> HIDE DEF r
  <2>3. Configured(Send(r, Solicit(r, "Vote", r.term)))
    BY <1>5, <2>2, SameConfigConfigured, SendConfigured
  <2> QED
    BY <2>3 DEF StartElection, r
<1>7. Configured(HandlePreVoteResp(s, m))
  BY <1>5, <1>6 DEF HandlePreVoteResp, counted
<1>8. Configured(HandleVote(s, m))
  <2> DEFINE voted == [s EXCEPT !.vote = m.from]
  <2>1. voted \in Replica /\ SameConfig(s, voted)
    BY <1>1 DEF Replica, SameConfig
  <2> HIDE DEF voted
  <2>2. Configured(voted)
    BY <2>1, SameConfigConfigured
  <2> QED
    BY <2>1, <2>2, SendConfigured DEF HandleVote, voted
<1>9. Configured(BecomeLeader(counted))
  BY <1>4, <1>5, BecomeLeaderConfigured
<1>10. Configured(HandleVoteResp(s, m))
  BY <1>5, <1>9 DEF HandleVoteResp, counted
<1> QED
  BY <1>3, <1>7, <1>8, <1>10

\* A follower that is sent no entries leaves its log alone; otherwise it scans
\* the log again, whatever was cut.
LEMMA AcceptConfigured ==
  ASSUME NEW D, NEW s, ReplicaOK(s, D), s.role = "Follower", Configured(s),
         NEW m \in Message, Consecutive(m), HasIndex(s.log, m.index)
  PROVE  Configured(Accept(s, m)) /\ Accept(s, m) \in Replica
<1> DEFINE log == AppendEntries(s.log, m.index, m.entries)
           known == IF m.commit <= Len(log) THEN m.commit ELSE Len(log)
           r == [s EXCEPT
                   !.log = log,
                   !.unstable = @ \o m.entries,
                   !.committed = IF m.commit > s.committed THEN known ELSE s.committed]
<1>1. Accept(s, m) \in Replica
  BY AcceptFollows DEF Follows, ReplicaOK
<1>2. Accept(s, m) = IF m.entries = <<>> THEN r ELSE RecomputeMembership(r)
  BY DEF Accept
<1>3. s \in Replica
  BY DEF ReplicaOK
<1>4. CASE m.entries = <<>>
  <2>1. AlreadyHas(s.log, m.index, m.entries, Len(m.entries))
    <3>1. Len(m.entries) = 0
      BY <1>4
    <3> QED
      BY <3>1 DEF AlreadyHas
  <2>2. log = s.log
    BY <2>1 DEF AppendEntries
  <2> HIDE DEF log, known
  <2>3. SameConfig(s, r)
    BY <1>3, <2>2 DEF Replica, SameConfig
  <2> QED
    BY <1>1, <1>2, <1>4, <2>3, SameConfigConfigured
<1>5. CASE m.entries # <<>>
  <2> HIDE DEF log, known
  <2>1. /\ r.log = log /\ DOMAIN r = DOMAIN s
    BY <1>3 DEF Replica
  <2>2. Configured(RecomputeMembership(r))
    BY <1>3, <2>1 DEF Replica, RecomputeMembership, Configured
  <2> QED
    BY <1>1, <1>2, <1>5, <2>2
<1> QED
  BY <1>4, <1>5

LEMMA HandleAppendConfigured ==
  ASSUME NEW D, NEW s, ReplicaOK(s, D), Configured(s),
         NEW m \in Message, Consecutive(m)
  PROVE  Configured(HandleAppend(s, m))
<1> DEFINE f == BecomeFollower(s, m.term)
           a == Accept(f, m)
<1>1. s \in Replica /\ s.term \in Nat /\ m.term \in Nat
  BY DEF ReplicaOK, Replica, Message
<1>2. CASE m.term < s.term
  BY <1>1, <1>2, SendConfigured DEF HandleAppend
<1>3. CASE ~(m.term < s.term)
  <2>1. Follows(s, f, D)
    BY <1>1, <1>3, BecomeFollowerFollows
  <2>2. ReplicaOK(f, D) /\ f \in Replica /\ f.role = "Follower" /\ f.log = s.log
    BY <1>1, <2>1 DEF Follows, ReplicaOK, BecomeFollower, Replica
  <2>3. Configured(f)
    BY <1>1, BecomeFollowerConfigured
  <2>4. HandleAppend(s, m) =
          IF ~(HasIndex(s.log, m.index) /\ TermAt(s.log, m.index) = m.logTerm)
            THEN Send(f, {AppendResp(f, m, TRUE)})
            ELSE Send(a, {AppendResp(a, m, FALSE)})
    BY <1>3 DEF HandleAppend
  <2> HIDE DEF f
  <2>5. ASSUME HasIndex(s.log, m.index)
        PROVE  Configured(a) /\ a \in Replica
    BY <2>2, <2>3, <2>5, AcceptConfigured
  <2> HIDE DEF a
  <2> QED
    BY <2>2, <2>3, <2>4, <2>5, SendConfigured
<1> QED
  BY <1>2, <1>3

LEMMA HandleAppendRespConfigured ==
  ASSUME NEW D, NEW s, ReplicaOK(s, D), Configured(s), NEW m \in Message
  PROVE  Configured(HandleAppendResp(s, m))
<1> DEFINE p == m.from
           back == [s EXCEPT !.next[p] = IF @ > 1 THEN @ - 1 ELSE @]
           acked == [s EXCEPT !.match[p] = m.index, !.next[p] = m.index + 1]
           advanced == AdvanceCommit(acked)
<1>1. /\ s \in Replica /\ s.term \in Nat /\ p \in Node /\ m.index \in Nat
      /\ s.next \in [Node -> Nat] /\ s.match \in [Node -> Nat]
  BY DEF ReplicaOK, Replica, Message
<1>2. CASE s.role # "Leader" \/ m.term # s.term
  BY <1>2 DEF HandleAppendResp
<1>3. CASE s.role = "Leader" /\ m.term = s.term /\ m.reject
  <2>1. back \in Replica /\ SameConfig(s, back)
    <3>1. s.next[p] \in Nat /\ (s.next[p] > 1 => s.next[p] - 1 \in Nat)
      BY <1>1
    <3>2. [s.next EXCEPT ![p] = IF s.next[p] > 1 THEN s.next[p] - 1 ELSE s.next[p]]
            \in [Node -> Nat]
      BY <1>1, <3>1
    <3> QED
      BY <1>1, <3>2 DEF Replica, SameConfig
  <2> HIDE DEF back
  <2>2. Configured(SendAppend(back, p))
    BY <2>1, SameConfigConfigured, SendConfigured DEF SendAppend
  <2>3. HandleAppendResp(s, m) = SendAppend(back, p)
    BY <1>3 DEF HandleAppendResp, back
  <2> QED
    BY <2>2, <2>3
<1>4. CASE s.role = "Leader" /\ m.term = s.term /\ ~m.reject
  <2> DEFINE next == [s.next EXCEPT ![p] = m.index + 1]
             match == [s.match EXCEPT ![p] = m.index]
  <2>1. NextPositive(s)
    BY <1>4 DEF ReplicaOK, RoleOK
  <2>2. /\ next \in [Node -> Nat] /\ \A q \in Node : next[q] >= 1
        /\ match \in [Node -> Nat]
    <3>1. \A q \in Node : s.next[q] \in Nat /\ s.next[q] >= 1
      BY <1>1, <2>1 DEF NextPositive
    <3> QED
      BY <1>1, <3>1
  <2>3. acked = [s EXCEPT !.match = match, !.next = next]
    BY <1>1 DEF Replica
  <2> HIDE DEF next, match
  <2>4. /\ acked \in Replica /\ SameConfig(s, acked)
        /\ acked.id = s.id /\ acked.term = s.term /\ acked.log = s.log
        /\ acked.role = s.role /\ acked.unstable = s.unstable
        /\ acked.msgs = s.msgs /\ acked.next = next
    BY <1>1, <2>2, <2>3 DEF Replica, SameConfig
  <2> HIDE DEF acked
  <2>5. Follows(s, acked, D) /\ ReplicaOK(acked, D)
    <3>1. RoleOK(acked) /\ acked.term >= s.term
      BY <1>1, <2>2, <2>4 DEF RoleOK, NextPositive, ReplicaOK
    <3> QED
      BY <2>4, <3>1, FrameFollows DEF Follows
  <2>6. Configured(advanced)
    BY <1>4, <2>4, <2>5, SameConfigConfigured, AdvanceCommitConfigured
  <2>7. advanced \in Replica
    BY <1>4, <2>4, <2>5, AdvanceCommitFollows DEF Follows, ReplicaOK
  <2>8. HandleAppendResp(s, m) = IF advanced.next[p] <= LastIndex(advanced.log)
                                   THEN SendAppend(advanced, p)
                                   ELSE advanced
    BY <1>4 DEF HandleAppendResp, acked
  <2> HIDE DEF advanced
  <2> QED
    BY <2>6, <2>7, <2>8, SendConfigured DEF SendAppend
<1>5. m.reject \in BOOLEAN
  BY DEF Message
<1> QED
  BY <1>2, <1>3, <1>4, <1>5

\* So whatever message a replica steps.
LEMMA StepConfigured ==
  ASSUME NEW D, NEW s, ReplicaOK(s, D), Configured(s),
         NEW m \in Message, Consecutive(m)
  PROVE  Configured(Step(s, m))
<1> DEFINE current == IF m.term > s.term /\ m.type \notin {"PreVote", "PreVoteResp"}
                        THEN BecomeFollower(s, m.term)
                        ELSE s
<1>1. s \in Replica /\ s.term \in Nat /\ m.term \in Nat /\ m.type \in MessageType
  BY DEF ReplicaOK, Replica, Message
<1>2. ReplicaOK(current, D) /\ Configured(current) /\ current \in Replica
  <2>1. CASE m.term > s.term /\ m.type \notin {"PreVote", "PreVoteResp"}
    <3>1. Follows(s, BecomeFollower(s, m.term), D)
      BY <1>1, <2>1, BecomeFollowerFollows
    <3> QED
      BY <1>1, <2>1, <3>1, BecomeFollowerConfigured DEF Follows, ReplicaOK
  <2>2. CASE ~(m.term > s.term /\ m.type \notin {"PreVote", "PreVoteResp"})
    BY <1>1, <2>2
  <2> QED
    BY <2>1, <2>2
<1> HIDE DEF current
<1>3. /\ Configured(HandlePreVote(current, m)) /\ Configured(HandlePreVoteResp(current, m))
      /\ Configured(HandleVote(current, m)) /\ Configured(HandleVoteResp(current, m))
      /\ Configured(HandleAppend(current, m)) /\ Configured(HandleAppendResp(current, m))
  BY <1>2, ElectionConfigured, HandleAppendConfigured, HandleAppendRespConfigured
<1> QED
  BY <1>1, <1>3 DEF Step, MessageType, current

-----------------------------------------------------------------------------
(* The hosts.                                                              *)

\* The initial voters are the configuration of an empty log.
LEMMA NewNodeConfigured ==
  ASSUME NEW n \in Node
  PROVE  Configured(NewNode(n))
<1>1. Len(<<>>) = 0
  BY EmptySeq
<1>2. ConfigIndexes(<<>>) = {}
  BY <1>1 DEF ConfigIndexes
<1>3. NewestConfigIndex(<<>>) = 0 /\ ConfigurationOf(<<>>) = Simple(InitialVoters)
  BY <1>2 DEF NewestConfigIndex, ConfigurationOf
<1> QED
  BY <1>3 DEF Configured, NewNode

\* However a drive ends, the replica is the one the handler left, or a new one.
LEMMA HandleConfigured ==
  ASSUME IInv, MembershipIsNewestConfig, NEW n \in Node, NEW s \in Replica,
         Configured(s), NEW rest, Handle(n, s, rest)
  PROVE  MembershipIsNewestConfig'
<1>1. node \in [Node -> Replica] /\ \A p \in Node : Configured(node[p])
  BY DEF IInv, TypeOK, MembershipIsNewestConfig, Configured
<1>2. Configured(Advance(s))
  <2>1. SameConfig(s, Advance(s))
    BY DEF Replica, Advance, SameConfig
  <2> QED
    BY <2>1, SameConfigConfigured
<1>3. PICK r \in {Advance(s), s, NewNode(n)} : node' = [node EXCEPT ![n] = r]
  BY DEF Handle, Drive, DriveRefused, DriveFails, DriveCrashes, Die
<1>4. Configured(r)
  BY <1>2, <1>3, NewNodeConfigured
<1>5. node'[n] = r /\ \A p \in Node \ {n} : node'[p] = node[p]
  BY <1>1, <1>3
<1>6. \A p \in Node : Configured(node'[p])
  BY <1>1, <1>4, <1>5
<1> QED
  BY <1>6 DEF MembershipIsNewestConfig, Configured

LEMMA NextConfigured ==
  ASSUME IInv, MembershipIsNewestConfig, [Next]_vars
  PROVE  MembershipIsNewestConfig'
<1>1. /\ \A n \in Node : /\ node[n] \in Replica
                         /\ ReplicaOK(node[n], DOMAIN stored[n])
                         /\ Configured(node[n])
      /\ \A m \in net : m \in Message /\ Consecutive(m)
  BY DEF IInv, TypeOK, ReplicasOK, ReplicaOK, NetConsecutive, MembershipIsNewestConfig,
         Configured
<1>2. ASSUME NEW n \in Node, NEW s, NEW rest, Configured(s),
             Follows(node[n], s, DOMAIN stored[n]), Handle(n, s, rest)
      PROVE  MembershipIsNewestConfig'
  <2>1. s \in Replica
    BY <1>2 DEF Follows, ReplicaOK
  <2> QED
    BY <1>2, <2>1, HandleConfigured
<1>3. ASSUME NEW n \in Node, Heartbeat(n)
      PROVE  MembershipIsNewestConfig'
  <2>1. NextPositive(node[n])
    BY <1>1, <1>3 DEF Heartbeat, ReplicaOK, RoleOK
  <2>2. Follows(node[n], BroadcastAppend(node[n]), DOMAIN stored[n])
    BY <1>1, <2>1, BroadcastAppendFollows
  <2>3. Configured(BroadcastAppend(node[n]))
    BY <1>1, SendConfigured DEF BroadcastAppend
  <2> QED
    BY <1>2, <1>3, <2>2, <2>3 DEF Heartbeat
<1>4. ASSUME NEW n \in Node, ElectionTimeout(n)
      PROVE  MembershipIsNewestConfig'
  <2>1. Follows(node[n], StartPreVote(node[n]), DOMAIN stored[n])
    BY <1>1, StartPreVoteFollows
  <2>2. Configured(StartPreVote(node[n]))
    BY <1>1, StartPreVoteConfigured
  <2> QED
    BY <1>2, <1>4, <2>1, <2>2 DEF ElectionTimeout
<1>5. ASSUME NEW n \in Node, IdleTick(n)
      PROVE  MembershipIsNewestConfig'
  <2>1. Follows(node[n], node[n], DOMAIN stored[n])
    BY <1>1, FollowsReflexive
  <2> QED
    BY <1>1, <1>2, <1>5, <2>1 DEF IdleTick
<1>6. ASSUME NEW n \in Node, NEW data \in Data, node[n].role = "Leader",
             Handle(n, ProposeInternal(node[n], data), net)
      PROVE  MembershipIsNewestConfig'
  <2>1. NextPositive(node[n])
    BY <1>1, <1>6 DEF ReplicaOK, RoleOK
  <2>2. Follows(node[n], ProposeInternal(node[n], data), DOMAIN stored[n])
    BY <1>1, <2>1, ProposeInternalFollows
  <2>3. Configured(ProposeInternal(node[n], data))
    BY <1>1, ProposeInternalConfigured
  <2> QED
    BY <1>2, <1>6, <2>2, <2>3
<1>7. ASSUME NEW n \in Node, NEW c \in Command, Propose(n, c)
      PROVE  MembershipIsNewestConfig'
  <2>1. CommandData(c) \in Data
    BY DEF Data
  <2> QED
    BY <1>6, <1>7, <2>1 DEF Propose
<1>8. ASSUME NEW n \in Node, NEW voters \in VoterChanges, ProposeConfChange(n, voters)
      PROVE  MembershipIsNewestConfig'
  <2>1. voters \in SUBSET Node /\ node[n].membership.old \in SUBSET Node
    BY <1>1, EnvironmentAssumption DEF Replica, Configurations
  <2>2. ConfigData(Joint(node[n].membership.old, voters)) \in Data
    BY <2>1, ConfigDataType
  <2> QED
    BY <1>6, <1>8, <2>2 DEF ProposeConfChange, ProposeJoint
<1>9. ASSUME NEW n \in Node, NEW r, Configured(r), node' = [node EXCEPT ![n] = r]
      PROVE  MembershipIsNewestConfig'
  <2>1. node'[n] = r /\ \A p \in Node \ {n} : node'[p] = node[p]
    BY <1>9 DEF IInv, TypeOK
  <2>2. \A p \in Node : Configured(node'[p])
    BY <1>1, <1>9, <2>1
  <2> QED
    BY <2>2 DEF MembershipIsNewestConfig, Configured
<1>10. ASSUME NEW n \in Node, Crash(n)
       PROVE  MembershipIsNewestConfig'
  BY <1>9, <1>10, NewNodeConfigured DEF Crash, Die
<1>11. ASSUME NEW n \in Node, Restart(n)
       PROVE  MembershipIsNewestConfig'
  <2> DEFINE s == [NewNode(n) EXCEPT !.term = hard[n].term, !.vote = hard[n].vote,
                                     !.log = stored[n], !.committed = hard[n].commit]
  <2>1. Configured(RecomputeMembership(s))
    BY DEF NewNode, RecomputeMembership, Configured
  <2>2. Recovered(n, hard[n], stored[n]) = RecomputeMembership(s)
    BY DEF Recovered
  <2> HIDE DEF s
  <2> QED
    BY <1>9, <1>11, <2>1, <2>2 DEF Restart
<1>12. ASSUME NEW m \in net, Receive(m)
       PROVE  MembershipIsNewestConfig'
  <2>1. m.to \in Node /\ m \in Message /\ Consecutive(m)
    BY <1>1 DEF Message
  <2>2. Follows(node[m.to], Step(node[m.to], m), DOMAIN stored[m.to])
    BY <1>1, <2>1, StepFollows
  <2>3. Configured(Step(node[m.to], m))
    BY <1>1, <2>1, StepConfigured
  <2> QED
    BY <1>2, <1>12, <2>1, <2>2, <2>3 DEF Receive
<1>13. CASE UNCHANGED vars
  BY <1>13 DEF vars, MembershipIsNewestConfig
<1> QED
  BY <1>3, <1>4, <1>5, <1>7, <1>8, <1>10, <1>11, <1>12, <1>13 DEF Next

\* In every group, whatever is cut, lost, torn by a crash or recovered, the
\* voters a replica decides with are those of the newest config entry in its
\* log (recomputeMembership and the handlers that do not call it).
THEOREM MembershipFollowsLog == Spec => []MembershipIsNewestConfig
<1>1. Init => MembershipIsNewestConfig
  BY NewNodeConfigured DEF Init, MembershipIsNewestConfig, Configured
<1>2. IInv /\ MembershipIsNewestConfig /\ [Next]_vars => MembershipIsNewestConfig'
  BY NextConfigured
<1> QED
  BY <1>1, <1>2, Invariance, PTL DEF Spec

=============================================================================
