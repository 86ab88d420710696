----------------------- MODULE RaftReplicationProofs -----------------------
(***************************************************************************)
(* Theorems about the replication of the log: what raftLog.append takes    *)
(* over, that the disk of a host holds the log it works with (host.go      *)
(* driveLocked, storage.go Persist), what a leader may commit              *)
(* (advanceCommit) and which configurations it may append (confchange.go). *)
(* Any number of nodes may campaign and lead at once, logs conflict and    *)
(* are cut, messages are lost and late, disks fail, commands are refused,  *)
(* hosts crash, also inside a save, and come back.                         *)
(***************************************************************************)
EXTENDS RaftProofs, MembershipProofs

-----------------------------------------------------------------------------
(* What raftLog.append leaves behind.                                      *)

\* Two logs that hold an entry of the same index and term agree up to it.
Agree(a, b) ==
  \A i \in 1..Len(a) : i <= Len(b) /\ a[i].term = b[i].term =>
    \A j \in 1..i : a[j] = b[j]

\* The result is a log. Behind the entries taken over, and before them, it is
\* the log it was; and it has the terms of all the entries taken over.
LEMMA AppendEntriesTerms ==
  ASSUME NEW log \in Seq(Entry), NEW prev \in 0..Len(log), NEW es \in Seq(Entry)
  PROVE  LET l == AppendEntries(log, prev, es)
         IN /\ l \in Seq(Entry)
            /\ prev + Len(es) <= Len(l)
            /\ l = log \/ Len(l) = prev + Len(es)
            /\ \A i \in 1..Len(l) :
                 IF i \in (prev + 1)..(prev + Len(es))
                   THEN /\ i - prev \in 1..Len(es)
                        /\ l[i].term = es[i - prev].term
                        /\ \/ l[i] = es[i - prev]
                           \/ /\ i <= Len(log) /\ l[i] = log[i]
                              /\ log[i].term = es[i - prev].term
                   ELSE i \in 1..Len(log) /\ l[i] = log[i]
<1>1. Len(log) \in Nat /\ Len(es) \in Nat /\ prev \in Nat
  BY LenProperties
<1>2. CASE AlreadyHas(log, prev, es, Len(es))
  <2>1. AppendEntries(log, prev, es) = log
    BY <1>2 DEF AppendEntries
  <2>2. \A j \in 1..Len(es) : prev + j <= Len(log) /\ log[prev + j].term = es[j].term
    BY <1>2 DEF AlreadyHas
  <2>3. prev + Len(es) <= Len(log)
    <3>1. CASE Len(es) = 0
      BY <1>1, <3>1
    <3>2. CASE Len(es) # 0
      <4>1. Len(es) \in 1..Len(es)
        BY <1>1, <3>2
      <4> QED
        BY <2>2, <4>1
    <3> QED
      BY <3>1, <3>2
  <2>4. ASSUME NEW i \in (prev + 1)..(prev + Len(es))
        PROVE  /\ i - prev \in 1..Len(es) /\ i <= Len(log)
               /\ log[i].term = es[i - prev].term
    <3>1. i - prev \in 1..Len(es) /\ prev + (i - prev) = i
      BY <1>1
    <3> QED
      BY <2>2, <3>1
  <2> QED
    BY <2>1, <2>3, <2>4
<1>3. CASE ~AlreadyHas(log, prev, es, Len(es))
  <2> DEFINE n == prev + Len(es)
             kept(i) == i <= prev \/ AlreadyHas(log, prev, es, i - prev)
             r == [i \in 1..n |-> IF kept(i) THEN log[i] ELSE es[i - prev]]
  <2>1. AppendEntries(log, prev, es) = r
    BY <1>3 DEF AppendEntries
  <2>2. ASSUME NEW i \in 1..n, ~(i <= prev)
        PROVE  i \in (prev + 1)..(prev + Len(es)) /\ i - prev \in 1..Len(es)
    BY <1>1, <2>2
  <2>3. ASSUME NEW i \in 1..n, ~(i <= prev), AlreadyHas(log, prev, es, i - prev)
        PROVE  i <= Len(log) /\ log[i].term = es[i - prev].term
    <3>1. i - prev \in 1..(i - prev) /\ prev + (i - prev) = i
      BY <1>1, <2>2, <2>3
    <3> QED
      BY <2>3, <3>1 DEF AlreadyHas
  <2>4. ASSUME NEW i \in 1..n
        PROVE  /\ r[i] \in Entry
               /\ IF i \in (prev + 1)..(prev + Len(es))
                    THEN /\ i - prev \in 1..Len(es)
                         /\ r[i].term = es[i - prev].term
                         /\ \/ r[i] = es[i - prev]
                            \/ /\ i <= Len(log) /\ r[i] = log[i]
                               /\ log[i].term = es[i - prev].term
                    ELSE i \in 1..Len(log) /\ r[i] = log[i]
    <3>1. CASE i <= prev
      <4>1. i \in 1..Len(log) /\ i \notin (prev + 1)..(prev + Len(es))
        BY <1>1, <3>1
      <4>2. r[i] = log[i]
        BY <3>1
      <4> HIDE DEF r
      <4> QED
        BY <4>1, <4>2, ElementOfSeq
    <3>2. CASE ~(i <= prev) /\ AlreadyHas(log, prev, es, i - prev)
      <4>1. i \in 1..Len(log)
        BY <1>1, <2>3, <3>2
      <4>2. r[i] = log[i]
        BY <3>2
      <4> HIDE DEF r
      <4> QED
        BY <2>2, <2>3, <3>2, <4>1, <4>2, ElementOfSeq
    <3>3. CASE ~(i <= prev) /\ ~AlreadyHas(log, prev, es, i - prev)
      <4>1. r[i] = es[i - prev]
        BY <3>3
      <4> HIDE DEF r
      <4> QED
        BY <2>2, <3>3, <4>1, ElementOfSeq
    <3> QED
      BY <3>1, <3>2, <3>3
  <2>5. n \in Nat /\ DOMAIN r = 1..n /\ r = [i \in 1..n |-> r[i]]
    BY <1>1
  <2> HIDE DEF r
  <2>6. r \in Seq(Entry) /\ Len(r) = n
    <3>1. r \in [1..n -> Entry]
      BY <2>4, <2>5
    <3> HIDE DEF n
    <3> QED
      BY <2>5, <3>1, LenProperties
  <2> QED
    BY <1>1, <2>1, <2>4, <2>6
<1> QED
  BY <1>2, <1>3

\* handleAppend keeps logs matching. A follower whose log has, before the
\* entries of a message, an entry of the sender's term, and agrees with the
\* sender's log, then holds exactly what the sender holds up to the last of
\* these entries; it keeps what stands behind only if nothing conflicted; and
\* it agrees with every log that both of them agreed with (log.go append).
THEOREM AppendMatches ==
  ASSUME NEW log \in Seq(Entry), NEW x \in Seq(Entry), NEW prev \in 0..Len(log),
         NEW es \in Seq(Entry), Agree(log, x),
         prev + Len(es) <= Len(x), \A k \in 1..Len(es) : es[k] = x[prev + k],
         prev > 0 => log[prev].term = x[prev].term
  PROVE  LET l == AppendEntries(log, prev, es)
         IN /\ \A i \in 1..(prev + Len(es)) : i <= Len(l) /\ l[i] = x[i]
            /\ l = log \/ Len(l) = prev + Len(es)
            /\ \A y \in Seq(Entry) : Agree(log, y) /\ Agree(x, y) => Agree(l, y)
<1> DEFINE l == AppendEntries(log, prev, es)
           n == prev + Len(es)
<1>1. /\ Len(log) \in Nat /\ Len(es) \in Nat /\ prev \in Nat /\ Len(x) \in Nat
      /\ n \in Nat
  BY LenProperties
<1>2. /\ l \in Seq(Entry) /\ n <= Len(l) /\ (l = log \/ Len(l) = n)
      /\ \A i \in 1..Len(l) :
           IF i \in (prev + 1)..n
             THEN /\ i - prev \in 1..Len(es)
                  /\ \/ l[i] = es[i - prev]
                     \/ /\ i <= Len(log) /\ l[i] = log[i]
                        /\ log[i].term = es[i - prev].term
             ELSE i \in 1..Len(log) /\ l[i] = log[i]
  BY AppendEntriesTerms
<1>3. Len(l) \in Nat
  BY <1>2, LenProperties
<1> HIDE DEF l
<1>4. ASSUME NEW i \in 1..n
      PROVE  i <= Len(l) /\ l[i] = x[i]
  <2>1. i \in 1..Len(l) /\ i <= Len(x) /\ i \in 1..i
    BY <1>1, <1>2, <1>3
  <2>2. CASE i \in (prev + 1)..n
    <3>1. i - prev \in 1..Len(es) /\ prev + (i - prev) = i
      BY <1>1, <1>2, <2>1, <2>2
    <3>2. es[i - prev] = x[i]
      BY <3>1
    <3>3. CASE l[i] = es[i - prev]
      BY <2>1, <3>2, <3>3
    <3>4. CASE i <= Len(log) /\ l[i] = log[i] /\ log[i].term = es[i - prev].term
      <4>1. i \in 1..Len(log) /\ log[i].term = x[i].term
        BY <1>1, <3>2, <3>4
      <4> QED
        BY <2>1, <3>4, <4>1 DEF Agree
    <3> QED
      BY <1>2, <2>1, <2>2, <3>3, <3>4
  <2>3. CASE i \notin (prev + 1)..n
    <3>1. prev \in 1..Len(log) /\ i \in 1..prev /\ prev <= Len(x) /\ prev > 0
      BY <1>1, <2>3
    <3>2. log[i] = x[i]
      BY <3>1 DEF Agree
    <3> QED
      BY <1>2, <2>1, <2>3, <3>2
  <2> QED
    BY <2>2, <2>3
<1>5. ASSUME NEW y \in Seq(Entry), Agree(log, y), Agree(x, y)
      PROVE  Agree(l, y)
  <2>1. CASE l = log
    BY <1>5, <2>1
  <2>2. CASE Len(l) = n
    <3> SUFFICES ASSUME NEW i \in 1..Len(l), i <= Len(y), l[i].term = y[i].term,
                        NEW j \in 1..i
                 PROVE  l[j] = y[j]
      BY DEF Agree
    <3>1. i \in 1..n /\ j \in 1..n /\ i \in 1..Len(x)
      BY <1>1, <2>2
    <3>2. l[i] = x[i] /\ l[j] = x[j]
      BY <1>4, <3>1
    <3> QED
      BY <1>5, <3>1, <3>2 DEF Agree
  <2> QED
    BY <1>2, <2>1, <2>2
<1> QED
  BY <1>2, <1>4, <1>5 DEF l

-----------------------------------------------------------------------------
(* What Persist leaves for an index.                                       *)

\* Of the entries es, the k-th one is the last of index i.
LastOf(es, i, k) ==
  /\ k \in 1..Len(es)
  /\ es[k].index = i
  /\ \A j \in 1..Len(es) : es[j].index = i => j <= k

Indexes(es) == {es[k].index : k \in 1..Len(es)}

\* An index among the entries written gets the last of them, another index
\* keeps what it had.
LEMMA WriteEntriesLast ==
  ASSUME NEW entries, NEW es \in Seq(Entry), NEW i
  PROVE  LET w == WriteEntries(entries, es)
         IN /\ i \in Indexes(es) =>
                 /\ i \in DOMAIN w
                 /\ \E k \in 1..Len(es) : LastOf(es, i, k) /\ w[i] = es[k]
            /\ i \notin Indexes(es) =>
                 /\ i \in DOMAIN w <=> i \in DOMAIN entries
                 /\ i \in DOMAIN w => w[i] = entries[i]
<1> DEFINE written == {es[k].index : k \in 1..Len(es)}
           writes(j) == {k \in 1..Len(es) : es[k].index = j}
           last(j) == CHOOSE k \in writes(j) : \A l \in writes(j) : l <= k
           w == [j \in DOMAIN entries \cup written |->
                   IF j \in written THEN es[last(j)] ELSE entries[j]]
<1>1. WriteEntries(entries, es) = w
  BY DEF WriteEntries
<1>2. written = Indexes(es) /\ DOMAIN w = DOMAIN entries \cup written
  BY DEF Indexes
<1>3. CASE i \in written
  <2>1. writes(i) \in SUBSET (0..Len(es)) /\ writes(i) # {} /\ Len(es) \in Nat
    BY <1>3, LenProperties
  <2>2. \E k \in writes(i) : \A l \in writes(i) : l <= k
    <3> HIDE DEF writes
    <3> QED
      BY <2>1, MaximumExists
  <2>3. last(i) \in writes(i) /\ \A l \in writes(i) : l <= last(i)
    <3> HIDE DEF writes
    <3> QED
      BY <2>2
  <2>4. w[i] = es[last(i)] /\ i \in DOMAIN w
    BY <1>3
  <2> HIDE DEF last, w
  <2>5. LastOf(es, i, last(i))
    BY <2>3 DEF LastOf
  <2> QED
    BY <1>1, <1>2, <1>3, <2>4, <2>5 DEF LastOf
<1>4. CASE i \notin written
  <2>1. i \in DOMAIN w => w[i] = entries[i]
    BY <1>4
  <2> HIDE DEF w
  <2> QED
    BY <1>1, <1>2, <1>4, <2>1
<1> QED
  BY <1>3, <1>4

\* A save that stopped after some puts and is tried again leaves what one
\* save would have left.
LEMMA WriteAgain ==
  ASSUME NEW entries, NEW es \in Seq(Entry), NEW k \in Int, k <= Len(es),
         NEW i \in DOMAIN WriteEntries(entries, es)
  PROVE  LET some == WriteEntries(entries, SubSeq(es, 1, k))
             again == WriteEntries(some, es)
         IN i \in DOMAIN again /\ again[i] = WriteEntries(entries, es)[i]
<1> DEFINE part == SubSeq(es, 1, k)
           some == WriteEntries(entries, part)
           again == WriteEntries(some, es)
           w == WriteEntries(entries, es)
<1>1. Len(es) \in Nat
  BY LenProperties
<1>2. /\ part \in Seq(Entry)
      /\ \A j \in 1..Len(part) : j \in 1..Len(es) /\ part[j] = es[j]
  <2>1. \A j \in 1..k : es[j] \in Entry
    BY <1>1, ElementOfSeq
  <2>2. /\ part \in Seq(Entry)
        /\ Len(part) = IF 1 <= k THEN k - 1 + 1 ELSE 0
        /\ \A j \in 1..(k - 1 + 1) : part[j] = es[1 + j - 1]
    BY <1>1, <2>1, SubSeqProperties
  <2> HIDE DEF part
  <2> QED
    BY <1>1, <2>2
<1> HIDE DEF part
<1>3. CASE i \in Indexes(es)
  <2>1. PICK a \in 1..Len(es) : LastOf(es, i, a) /\ again[i] = es[a]
    BY <1>3, WriteEntriesLast
  <2>2. PICK b \in 1..Len(es) : LastOf(es, i, b) /\ w[i] = es[b]
    BY <1>3, WriteEntriesLast
  <2>3. a = b
    BY <1>1, <2>1, <2>2 DEF LastOf
  <2>4. i \in DOMAIN again
    BY <1>3, WriteEntriesLast
  <2> QED
    BY <2>1, <2>2, <2>3, <2>4 DEF part
<1>4. CASE i \notin Indexes(es)
  <2>1. i \notin Indexes(part)
    BY <1>2, <1>4 DEF Indexes
  <2>2. i \in DOMAIN entries /\ w[i] = entries[i]
    BY <1>4, WriteEntriesLast
  <2>3. i \in DOMAIN some /\ some[i] = entries[i]
    BY <1>2, <2>1, <2>2, WriteEntriesLast
  <2> HIDE DEF some, w
  <2>4. i \in DOMAIN again /\ again[i] = some[i]
    BY <1>4, <2>3, WriteEntriesLast
  <2> QED
    BY <2>2, <2>3, <2>4 DEF part, some, w
<1> QED
  BY <1>3, <1>4

\* Disk w holds one of the entries es at index i.
Holds(w, es, i) ==
  i \in DOMAIN w /\ \E k \in 1..Len(es) : es[k].index = i /\ w[i] = es[k]

\* Disk w holds at index i what disk before holds there.
Keeps(w, before, i) == i \in DOMAIN before => i \in DOMAIN w /\ w[i] = before[i]

\* More entries to save: they count for their own indexes, the others as before.
LEMMA WriteMore ==
  ASSUME NEW entries, NEW u \in Seq(Entry), NEW es \in Seq(Entry), NEW i
  PROVE  IF i \in Indexes(es)
           THEN Holds(WriteEntries(entries, u \o es), es, i)
           ELSE Keeps(WriteEntries(entries, u \o es), WriteEntries(entries, u), i)
<1> DEFINE w == WriteEntries(entries, u)
           all == u \o es
           more == WriteEntries(entries, all)
<1>1. /\ Len(u) \in Nat /\ Len(es) \in Nat
      /\ all \in Seq(Entry) /\ Len(all) = Len(u) + Len(es)
      /\ \A k \in 1..Len(u) : all[k] = u[k]
      /\ \A k \in 1..Len(es) : all[Len(u) + k] = es[k]
  BY LenProperties, ConcatProperties
<1> HIDE DEF all
<1>2. ASSUME NEW k \in 1..Len(all)
      PROVE  \/ k \in 1..Len(u) /\ all[k] = u[k]
             \/ k - Len(u) \in 1..Len(es) /\ all[k] = es[k - Len(u)]
  <2>1. CASE k <= Len(u)
    BY <1>1, <2>1
  <2>2. CASE ~(k <= Len(u))
    <3>1. k - Len(u) \in 1..Len(es) /\ Len(u) + (k - Len(u)) = k
      BY <1>1, <2>2
    <3> QED
      BY <1>1, <3>1
  <2> QED
    BY <2>1, <2>2
<1>3. /\ i \in Indexes(all) =>
            /\ i \in DOMAIN more
            /\ \E k \in 1..Len(all) : LastOf(all, i, k) /\ more[i] = all[k]
      /\ i \notin Indexes(all) =>
           /\ i \in DOMAIN more <=> i \in DOMAIN entries
           /\ i \in DOMAIN more => more[i] = entries[i]
  BY <1>1, WriteEntriesLast
<1> HIDE DEF more
<1>4. ASSUME i \in Indexes(es)
      PROVE  /\ i \in DOMAIN more
             /\ \E k \in 1..Len(es) : es[k].index = i /\ more[i] = es[k]
  <2>1. PICK j \in 1..Len(es) : es[j].index = i
    BY <1>4 DEF Indexes
  <2>2. Len(u) + j \in 1..Len(all) /\ all[Len(u) + j].index = i
    BY <1>1, <2>1
  <2>3. i \in Indexes(all)
    BY <2>2 DEF Indexes
  <2>4. PICK a \in 1..Len(all) : LastOf(all, i, a) /\ more[i] = all[a]
    BY <1>3, <2>3
  <2>5. Len(u) + j <= a
    BY <2>2, <2>4 DEF LastOf
  <2>6. a - Len(u) \in 1..Len(es) /\ all[a] = es[a - Len(u)]
    BY <1>1, <1>2, <2>5
  <2> QED
    BY <1>3, <2>3, <2>4, <2>6 DEF LastOf
<1>5. ASSUME i \notin Indexes(es), i \in DOMAIN w
      PROVE  i \in DOMAIN more /\ more[i] = w[i]
  <2>1. CASE i \in Indexes(u)
    <3>1. PICK b \in 1..Len(u) : LastOf(u, i, b) /\ w[i] = u[b]
      BY <2>1, WriteEntriesLast
    <3>2. b \in 1..Len(all) /\ all[b] = u[b] /\ all[b].index = i
      BY <1>1, <3>1 DEF LastOf
    <3>3. i \in Indexes(all)
      BY <3>2 DEF Indexes
    <3>4. PICK a \in 1..Len(all) : LastOf(all, i, a) /\ more[i] = all[a]
      BY <1>3, <3>3
    <3>5. a \in 1..Len(u) /\ all[a] = u[a]
      BY <1>2, <1>5, <3>4 DEF LastOf, Indexes
    <3>6. a = b
      BY <1>1, <3>1, <3>2, <3>4, <3>5 DEF LastOf
    <3> QED
      BY <1>3, <3>1, <3>2, <3>3, <3>4, <3>6
  <2>2. CASE i \notin Indexes(u)
    <3>1. i \notin Indexes(all)
      BY <1>2, <1>5, <2>2 DEF Indexes
    <3>2. i \in DOMAIN entries /\ w[i] = entries[i]
      BY <1>5, <2>2, WriteEntriesLast
    <3> QED
      BY <1>3, <3>1, <3>2
  <2> QED
    BY <2>1, <2>2
<1> QED
  BY <1>4, <1>5 DEF all, more, Holds, Keeps

-----------------------------------------------------------------------------
(* What a handler keeps. entries is the log on the disk of the replica, D  *)
(* the indexes on every disk.                                              *)

\* A full save would put the log on the disk, over whatever is there.
LogKept(s, entries) ==
  \A i \in 1..Len(s.log) :
    LET saved == WriteEntries(entries, s.unstable)
    IN i \in DOMAIN saved /\ saved[i].term = s.log[i].term

\* What a replica believes that another one has is on the disk of that one.
Matched(s, D) == \A p \in Node \ {s.id} : 1..s.match[p] \subseteq D[p]

Backed(s, entries, D) ==
  /\ Configured(s)
  /\ LogKept(s, entries)
  /\ Matched(s, D)

\* The leader and the nodes that have the log up to c on their disks.
Backers(s, c, D) == {p \in Node : p = s.id \/ 1..c \subseteq D[p]}

\* Configuration config may come after configuration before.
StepsFrom(before, config) ==
  IF config.joint THEN ~before.joint /\ config.old = before.old
                  ELSE before.joint /\ config.old = before.new

\* A log that only grew, each configuration following from the one before it.
GrowsInStep(old, new) ==
  /\ Len(old) <= Len(new)
  /\ \A i \in 1..Len(old) : new[i] = old[i]
  /\ \A i \in (Len(old) + 1)..Len(new) :
       IsConfig(new[i].data) =>
         StepsFrom(ConfigurationOf(SubSeq(new, 1, i - 1)), new[i].data.membership)

\* What leader s may have become, if it still leads.
Leads(s, r, D) ==
  r.role = "Leader" =>
    /\ GrowsInStep(s.log, r.log)
    /\ r.committed > s.committed =>
         HasQuorum(s.membership, Backers(s, r.committed, D))

\* A change that concerns neither the log nor what is known of the others.
Same(s, r) ==
  /\ r.id = s.id
  /\ r.unstable = s.unstable
  /\ r.match = s.match
  /\ r.committed = s.committed
  /\ SameConfig(s, r)

LEMMA SameTransitive ==
  ASSUME NEW s, NEW r, NEW q, Same(s, r), Same(r, q)
  PROVE  Same(s, q)
BY DEF Same, SameConfig

LEMMA SameBacked ==
  ASSUME NEW entries, NEW D, NEW s, NEW r, Same(s, r), Backed(s, entries, D)
  PROVE  Backed(r, entries, D)
<1>1. Configured(r)
  BY SameConfigConfigured DEF Same, Backed
<1>2. LogKept(r, entries)
  BY DEF Same, SameConfig, Backed, LogKept
<1>3. Matched(r, D)
  BY DEF Same, Backed, Matched
<1> QED
  BY <1>1, <1>2, <1>3 DEF Backed

LEMMA SameLeads ==
  ASSUME NEW D, NEW s \in Replica, NEW r, Same(s, r)
  PROVE  Leads(s, r, D)
<1>1. r.log = s.log /\ r.committed = s.committed /\ s.committed \in Nat
  BY DEF Same, SameConfig, Replica
<1>2. Len(s.log) \in Nat
  BY LenProperties DEF Replica
<1>3. GrowsInStep(s.log, r.log)
  BY <1>1, <1>2 DEF GrowsInStep
<1> QED
  BY <1>1, <1>3 DEF Leads

\* Frames before and after a step of a leader.
LEMMA LeadsFrame ==
  ASSUME NEW D, NEW s, NEW a, NEW b, NEW r, Same(s, a), Leads(a, b, D),
         Same(b, r), r.role = b.role
  PROVE  Leads(s, r, D)
<1>1. /\ a.log = s.log /\ a.committed = s.committed /\ a.membership = s.membership
      /\ a.id = s.id /\ r.log = b.log /\ r.committed = b.committed
  BY DEF Same, SameConfig
<1>2. Backers(a, r.committed, D) = Backers(s, r.committed, D)
  BY <1>1 DEF Backers
<1> QED
  BY <1>1, <1>2 DEF Leads

LEMMA SendSame ==
  ASSUME NEW s \in Replica, NEW M
  PROVE  Same(s, Send(s, M)) /\ Send(s, M).role = s.role
BY DEF Send, Replica, Same, SameConfig

LEMMA BroadcastSame ==
  ASSUME NEW s \in Replica
  PROVE  /\ Same(s, BroadcastAppend(s)) /\ BroadcastAppend(s).role = s.role
         /\ \A p : Same(s, SendAppend(s, p)) /\ SendAppend(s, p).role = s.role
BY SendSame DEF BroadcastAppend, SendAppend

LEMMA BecomeFollowerSame ==
  ASSUME NEW s \in Replica, NEW t
  PROVE  Same(s, BecomeFollower(s, t)) /\ BecomeFollower(s, t).role = "Follower"
BY DEF BecomeFollower, Replica, Same, SameConfig

-----------------------------------------------------------------------------
(* Proposals and commits of a leader.                                      *)

\* A prefix of a sequence is the same sequence as that of a longer one.
LEMMA SamePrefix ==
  ASSUME NEW a \in Seq(Entry), NEW entry \in Entry
  PROVE  SubSeq(Append(a, entry), 1, Len(a)) = a
<1> DEFINE b == Append(a, entry)
<1>1. /\ Len(a) \in Nat /\ b \in Seq(Entry) /\ Len(b) = Len(a) + 1
      /\ \A i \in 1..Len(a) : b[i] = a[i]
  BY LenProperties, AppendProperties
<1> HIDE DEF b
<1>2. \A i \in 1..Len(a) : b[i] \in Entry /\ a[i] \in Entry
  BY <1>1, ElementOfSeq
<1>3. /\ SubSeq(b, 1, Len(a)) \in Seq(Entry)
      /\ Len(SubSeq(b, 1, Len(a))) = IF 1 <= Len(a) THEN Len(a) - 1 + 1 ELSE 0
      /\ \A i \in 1..(Len(a) - 1 + 1) : SubSeq(b, 1, Len(a))[i] = b[1 + i - 1]
  BY <1>1, <1>2, SubSeqProperties
<1>4. /\ Len(SubSeq(b, 1, Len(a))) = Len(a)
      /\ \A i \in 1..Len(a) : SubSeq(b, 1, Len(a))[i] = a[i]
  BY <1>1, <1>3
<1> QED
  BY <1>3, <1>4, SeqEqual DEF b

\* proposeInternal appends one entry, which waits to be saved.
LEMMA ProposeInternalBacked ==
  ASSUME NEW entries, NEW D, NEW s \in Replica, Backed(s, entries, D),
         NEW data \in Data,
         IsConfig(data) => StepsFrom(s.membership, data.membership)
  PROVE  LET r == ProposeInternal(s, data)
         IN /\ Backed(r, entries, D)
            /\ GrowsInStep(s.log, r.log)
            /\ r.committed = s.committed
<1> DEFINE entry == [index |-> Len(s.log) + 1, term |-> s.term, data |-> data]
           log == Append(s.log, entry)
           unstable == Append(s.unstable, entry)
           match == [s.match EXCEPT ![s.id] = Len(s.log) + 1]
           appended == [s EXCEPT !.log = Append(@, entry),
                                 !.unstable = Append(@, entry),
                                 !.match[s.id] = Len(s.log) + 1]
           r == IF IsConfig(data) THEN RecomputeMembership(appended) ELSE appended
           b == BroadcastAppend(r)
<1>1. /\ s.log \in Seq(Entry) /\ s.unstable \in Seq(Entry) /\ s.id \in Node
      /\ s.match \in [Node -> Nat] /\ s.term \in Nat /\ Len(s.log) \in Nat
      /\ s.membership = ConfigurationOf(s.log)
  BY LenProperties DEF Replica, Backed, Configured
<1>2. /\ entry \in Entry /\ entry.data = data /\ entry.index = Len(s.log) + 1
  BY <1>1 DEF Entry
<1>3. ProposeInternal(s, data) = b
  BY DEF ProposeInternal
<1>4. appended = [s EXCEPT !.log = log, !.unstable = unstable, !.match = match]
  BY <1>1 DEF Replica
<1>5. Configured(b)
  BY <1>3, ProposeInternalConfigured DEF Backed
<1> HIDE DEF entry
<1>6. /\ log \in Seq(Entry) /\ Len(log) = Len(s.log) + 1
      /\ \A i \in 1..Len(s.log) : log[i] = s.log[i]
      /\ log[Len(s.log) + 1] = entry
      /\ unstable \in Seq(Entry)
      /\ match \in [Node -> Nat]
      /\ \A p \in Node \ {s.id} : match[p] = s.match[p]
  BY <1>1, <1>2, AppendProperties
<1>7. unstable = s.unstable \o <<entry>> /\ <<entry>> \in Seq(Entry)
  BY <1>1, <1>2
<1>8. SubSeq(log, 1, Len(s.log)) = s.log
  BY <1>1, <1>2, SamePrefix
<1> HIDE DEF log, unstable, match
<1>9. /\ r.id = s.id /\ r.log = log /\ r.unstable = unstable /\ r.match = match
      /\ r.committed = s.committed /\ r.msgs = s.msgs
      /\ DOMAIN r = DOMAIN s
  <2>1. /\ appended.id = s.id /\ appended.log = log /\ appended.unstable = unstable
        /\ appended.match = match /\ appended.committed = s.committed
        /\ appended.msgs = s.msgs /\ DOMAIN appended = DOMAIN s
    BY <1>4 DEF Replica
  <2> HIDE DEF appended
  <2>2. LET q == RecomputeMembership(appended)
        IN /\ q.id = appended.id /\ q.log = appended.log
           /\ q.unstable = appended.unstable /\ q.match = appended.match
           /\ q.committed = appended.committed /\ q.msgs = appended.msgs
           /\ DOMAIN q = DOMAIN appended
    BY <2>1 DEF RecomputeMembership, Replica
  <2> QED
    BY <2>1, <2>2
<1> HIDE DEF r
<1>10. /\ b.id = s.id /\ b.log = log /\ b.unstable = unstable /\ b.match = match
       /\ b.committed = s.committed
  BY <1>9 DEF BroadcastAppend, Send, Replica
<1> HIDE DEF b
<1>11. GrowsInStep(s.log, log)
  <2>1. ASSUME NEW i \in (Len(s.log) + 1)..Len(log), IsConfig(log[i].data)
        PROVE  StepsFrom(ConfigurationOf(SubSeq(log, 1, i - 1)), log[i].data.membership)
    <3>1. i = Len(s.log) + 1 /\ i - 1 = Len(s.log)
      BY <1>1, <1>6
    <3>2. log[i].data = data
      BY <1>2, <1>6, <3>1
    <3> QED
      BY <1>1, <1>8, <2>1, <3>1, <3>2
  <2> QED
    BY <1>1, <1>6, <2>1 DEF GrowsInStep
<1>12. LogKept(b, entries)
  <2> DEFINE es == <<entry>>
             more == WriteEntries(entries, s.unstable \o es)
  <2>1. Indexes(es) = {Len(s.log) + 1} /\ \A k \in 1..Len(es) : es[k] = entry
    BY <1>2 DEF Indexes
  <2>2. es \in Seq(Entry)
    BY <1>7
  <2> HIDE DEF es
  <2> DEFINE w == WriteEntries(entries, s.unstable)
  <2>3. \A i : IF i \in Indexes(es) THEN Holds(more, es, i) ELSE Keeps(more, w, i)
    BY <1>1, <2>2, WriteMore
  <2>4. ASSUME NEW i \in 1..Len(log)
        PROVE  i \in DOMAIN more /\ more[i].term = log[i].term
    <3> HIDE DEF more
    <3>1. CASE i = Len(s.log) + 1
      <4>1. i \in Indexes(es) /\ log[i] = entry
        BY <1>6, <2>1, <3>1
      <4> QED
        BY <2>1, <2>3, <4>1 DEF Holds
    <3>2. CASE i # Len(s.log) + 1
      <4>1. i \in 1..Len(s.log) /\ log[i] = s.log[i] /\ i \notin Indexes(es)
        BY <1>1, <1>6, <2>1, <3>2
      <4>2. i \in DOMAIN w /\ w[i].term = s.log[i].term
        BY <4>1 DEF Backed, LogKept
      <4> HIDE DEF w
      <4> QED
        BY <2>3, <4>1, <4>2 DEF Keeps
    <3> QED
      BY <3>1, <3>2
  <2>5. more = WriteEntries(entries, unstable)
    BY <1>7 DEF es
  <2> HIDE DEF more
  <2> QED
    BY <1>10, <2>4, <2>5 DEF LogKept
<1>13. Matched(b, D)
  BY <1>6, <1>10 DEF Backed, Matched
<1> QED
  BY <1>3, <1>5, <1>10, <1>11, <1>12, <1>13 DEF Backed

\* A new leader counts on nobody yet, and in a joint configuration appends an
\* entry that is no configuration.
LEMMA BecomeLeaderBacked ==
  ASSUME NEW entries, NEW D, NEW s \in Replica, Backed(s, entries, D)
  PROVE  Backed(BecomeLeader(s), entries, D)
<1> DEFINE leader == [s EXCEPT
      !.role = "Leader",
      !.next = [p \in Node |-> Len(s.log) + 1],
      !.match = [p \in Node |-> IF p = s.id THEN Len(s.log) ELSE 0],
      !.preVote = FALSE]
<1>1. Len(s.log) \in Nat
  BY LenProperties DEF Replica
<1>2. /\ [p \in Node |-> Len(s.log) + 1] \in [Node -> Nat]
      /\ [p \in Node |-> IF p = s.id THEN Len(s.log) ELSE 0] \in [Node -> Nat]
  BY <1>1
<1>3. leader \in Replica
  BY <1>2 DEF Replica, Role
<1>4. /\ SameConfig(s, leader) /\ leader.id = s.id /\ leader.unstable = s.unstable
      /\ \A p \in Node \ {s.id} : leader.match[p] = 0
  BY DEF Replica, SameConfig
<1>5. BecomeLeader(s) = IF s.membership.joint THEN ProposeInternal(leader, Noop)
                                              ELSE BroadcastAppend(leader)
  BY DEF BecomeLeader
<1> HIDE DEF leader
<1>6. Backed(leader, entries, D)
  <2>1. Configured(leader)
    BY <1>4, SameConfigConfigured DEF Backed
  <2>2. LogKept(leader, entries)
    BY <1>4 DEF SameConfig, Backed, LogKept
  <2>3. Matched(leader, D)
    BY <1>4 DEF Matched
  <2> QED
    BY <2>1, <2>2, <2>3 DEF Backed
<1>7. Noop \in Data /\ ~IsConfig(Noop)
  BY DEF Data, IsConfig, Noop
<1> QED
  BY <1>3, <1>5, <1>6, <1>7, ProposeInternalBacked, BroadcastSame, SameBacked

\* Leaving a joint configuration follows from it; stepping down is no step of a
\* leader any more.
LEMMA MaybeLeaveJointBacked ==
  ASSUME NEW entries, NEW D, NEW s \in Replica, Backed(s, entries, D)
  PROVE  LET r == MaybeLeaveJointOrStepDown(s)
         IN /\ Backed(r, entries, D)
            /\ r.role = "Leader" => GrowsInStep(s.log, r.log) /\ r.committed = s.committed
<1>1. s.membership.new \in SUBSET Node
  BY DEF Replica, Configurations
<1>2. CASE s.membership.joint /\ s.committed >= s.membershipIndex
  <2> DEFINE data == ConfigData(Simple(s.membership.new))
  <2>1. MaybeLeaveJointOrStepDown(s) = ProposeInternal(s, data)
    BY <1>2 DEF MaybeLeaveJointOrStepDown, ProposeLeaveJoint
  <2>2. data \in Data
    BY <1>1, ConfigDataType
  <2>3. StepsFrom(s.membership, data.membership)
    BY <1>2 DEF ConfigData, Simple, StepsFrom
  <2> HIDE DEF data
  <2> QED
    BY <2>1, <2>2, <2>3, ProposeInternalBacked
<1>3. CASE ~(s.membership.joint /\ s.committed >= s.membershipIndex)
  <2> DEFINE r == MaybeLeaveJointOrStepDown(s)
  <2>1. r = s \/ r = BecomeFollower(s, s.term)
    BY <1>3 DEF MaybeLeaveJointOrStepDown
  <2> HIDE DEF r
  <2>2. CASE r = s
    <3>1. Same(s, s)
      BY DEF Same, SameConfig
    <3>2. Leads(s, s, D) /\ s.committed = s.committed
      BY <3>1, SameLeads
    <3> QED
      BY <2>2, <3>2 DEF Leads, r
  <2>3. CASE r = BecomeFollower(s, s.term)
    <3>1. Same(s, r) /\ r.role = "Follower"
      BY <2>3, BecomeFollowerSame
    <3>2. Backed(r, entries, D)
      BY <3>1, SameBacked
    <3> QED
      BY <3>1, <3>2 DEF r
  <2> QED
    BY <2>1, <2>2, <2>3
<1> QED
  BY <1>2, <1>3

\* advanceCommit counts the nodes whose disks have the log up to the index,
\* and itself.
LEMMA AdvanceCommitBacked ==
  ASSUME NEW entries, NEW D, NEW E, NEW s, ReplicaOK(s, E), s.role = "Leader",
         Backed(s, entries, D)
  PROVE  Backed(AdvanceCommit(s), entries, D) /\ Leads(s, AdvanceCommit(s), D)
<1>1. s \in Replica
  BY DEF ReplicaOK
<1>2. CASE Committable(s) = {}
  <2>1. AdvanceCommit(s) = s /\ Same(s, s)
    BY <1>2 DEF AdvanceCommit, Same, SameConfig
  <2> QED
    BY <1>1, <2>1, SameLeads
<1>3. CASE Committable(s) # {}
  <2> DEFINE highest == CHOOSE c \in Committable(s) : \A d \in Committable(s) : d <= c
             r == [s EXCEPT !.committed = highest]
             b == BroadcastAppend(r)
             q == MaybeLeaveJointOrStepDown(b)
  <2>1. /\ s.term \in Nat /\ s.term >= 1 /\ NextPositive(s)
        /\ s.match \in [Node -> Nat] /\ s.membership \in Configurations(Node)
        /\ Len(s.log) \in Nat
    BY LenProperties DEF ReplicaOK, Replica, RoleOK
  <2>2. highest \in Committable(s) /\ highest \in Nat
    <3>1. ASSUME NEW x \in Committable(s)
          PROVE  x \in 0..Len(s.log)
      <4>1. TermAt(s.log, x) = s.term
        BY DEF Committable
      <4> QED
        BY <2>1, <4>1 DEF TermAt
    <3>2. \E c \in Committable(s) : \A d \in Committable(s) : d <= c
      BY <1>3, <2>1, <3>1, MaximumExists
    <3> HIDE DEF highest
    <3> QED
      BY <3>1, <3>2 DEF highest
  <2>3. AdvanceCommit(s) = q
    BY <1>3 DEF AdvanceCommit
  <2>4. HasQuorum(s.membership, {p \in Node : s.match[p] >= highest})
    BY <2>2 DEF Committable
  <2> HIDE DEF highest
  <2>5. /\ r \in Replica /\ r.id = s.id /\ r.match = s.match
        /\ r.committed = highest /\ r.unstable = s.unstable
        /\ r.role = s.role /\ r.next = s.next /\ r.msgs = s.msgs /\ r.term = s.term
        /\ SameConfig(s, r)
    BY <1>1, <2>2 DEF Replica, SameConfig
  <2> HIDE DEF r
  <2>6. Backed(r, entries, D)
    <3>1. Configured(r)
      BY <2>5, SameConfigConfigured DEF Backed
    <3>2. LogKept(r, entries)
      BY <2>5 DEF SameConfig, Backed, LogKept
    <3>3. Matched(r, D)
      BY <2>5 DEF Backed, Matched
    <3> QED
      BY <3>1, <3>2, <3>3 DEF Backed
  <2>7. b \in Replica
    <3>1. NextPositive(r) /\ RoleOK(r) /\ r.term >= s.term
      BY <2>1, <2>5 DEF NextPositive, RoleOK
    <3>2. Follows(s, r, E)
      BY <2>5, <3>1, FrameFollows DEF SameConfig
    <3> QED
      BY <3>1, <3>2, BroadcastAppendFollows DEF Follows, ReplicaOK
  <2>8. Same(r, b)
    BY <2>5, BroadcastSame
  <2>9. /\ b.log = s.log /\ b.committed = highest
    BY <2>5, <2>8 DEF Same, SameConfig
  <2> HIDE DEF b
  <2>10. /\ Backed(q, entries, D)
         /\ q.role = "Leader" => GrowsInStep(b.log, q.log) /\ q.committed = b.committed
    BY <2>6, <2>7, <2>8, SameBacked, MaybeLeaveJointBacked
  <2> HIDE DEF q
  <2>11. HasQuorum(s.membership, Backers(s, highest, D))
    <3>1. {p \in Node : s.match[p] >= highest} \subseteq Backers(s, highest, D)
      <4> SUFFICES ASSUME NEW p \in Node, s.match[p] >= highest, p # s.id
                   PROVE  1..highest \subseteq D[p]
        BY DEF Backers
      <4>1. s.match[p] \in Nat /\ 1..s.match[p] \subseteq D[p]
        BY <2>1 DEF Backed, Matched
      <4> QED
        BY <2>2, <4>1
    <3> QED
      BY <2>1, <2>4, <3>1, NodeAssumption, QuorumGrows
  <2> QED
    BY <2>3, <2>9, <2>10, <2>11 DEF Leads
<1> QED
  BY <1>2, <1>3


\* An answer is taken at its word: the sender has its disk to show for it.
LEMMA HandleAppendRespBacked ==
  ASSUME NEW entries, NEW D, NEW E, NEW s, ReplicaOK(s, E), Backed(s, entries, D),
         NEW m \in Message, ~m.reject => 1..m.index \subseteq D[m.from]
  PROVE  /\ Backed(HandleAppendResp(s, m), entries, D)
         /\ Leads(s, HandleAppendResp(s, m), D)
<1> DEFINE p == m.from
           back == [s EXCEPT !.next[p] = IF @ > 1 THEN @ - 1 ELSE @]
           acked == [s EXCEPT !.match[p] = m.index, !.next[p] = m.index + 1]
           advanced == AdvanceCommit(acked)
<1>1. /\ s \in Replica /\ s.term \in Nat /\ p \in Node /\ m.index \in Nat
      /\ s.next \in [Node -> Nat] /\ s.match \in [Node -> Nat]
  BY DEF ReplicaOK, Replica, Message
<1>2. Same(s, s)
  BY DEF Same, SameConfig
<1>3. CASE s.role # "Leader" \/ m.term # s.term
  <2>1. HandleAppendResp(s, m) = s
    BY <1>3 DEF HandleAppendResp
  <2> QED
    BY <1>1, <1>2, <2>1, SameLeads
<1>4. CASE s.role = "Leader" /\ m.term = s.term /\ m.reject
  <2>1. back \in Replica /\ Same(s, back)
    <3>1. s.next[p] \in Nat /\ (s.next[p] > 1 => s.next[p] - 1 \in Nat)
      BY <1>1
    <3>2. [s.next EXCEPT ![p] = IF s.next[p] > 1 THEN s.next[p] - 1 ELSE s.next[p]]
            \in [Node -> Nat]
      BY <1>1, <3>1
    <3> QED
      BY <1>1, <3>2 DEF Replica, Same, SameConfig
  <2>2. HandleAppendResp(s, m) = SendAppend(back, p)
    BY <1>4 DEF HandleAppendResp
  <2> HIDE DEF back
  <2>3. Same(s, HandleAppendResp(s, m))
    BY <2>1, <2>2, BroadcastSame, SameTransitive
  <2> QED
    BY <1>1, <2>3, SameBacked, SameLeads
<1>5. CASE s.role = "Leader" /\ m.term = s.term /\ ~m.reject
  <2> DEFINE next == [s.next EXCEPT ![p] = m.index + 1]
             match == [s.match EXCEPT ![p] = m.index]
  <2>1. NextPositive(s)
    BY <1>5 DEF ReplicaOK, RoleOK
  <2>2. /\ next \in [Node -> Nat] /\ \A q \in Node : next[q] >= 1
        /\ match \in [Node -> Nat]
        /\ \A q \in Node \ {s.id} : 1..match[q] \subseteq D[q]
    <3>1. \A q \in Node : s.next[q] \in Nat /\ s.next[q] >= 1
      BY <1>1, <2>1 DEF NextPositive
    <3>2. ASSUME NEW q \in Node \ {s.id}
          PROVE  1..match[q] \subseteq D[q]
      <4>1. CASE q = p
        <5>1. match[q] = m.index
          BY <1>1, <4>1
        <5> QED
          BY <1>5, <4>1, <5>1
      <4>2. CASE q # p
        <5>1. match[q] = s.match[q]
          BY <1>1, <4>2
        <5> QED
          BY <5>1 DEF Backed, Matched
      <4> QED
        BY <4>1, <4>2
    <3> QED
      BY <1>1, <3>1, <3>2
  <2>3. acked = [s EXCEPT !.match = match, !.next = next]
    BY <1>1 DEF Replica
  <2>4. HandleAppendResp(s, m) = IF advanced.next[p] <= LastIndex(advanced.log)
                                   THEN SendAppend(advanced, p)
                                   ELSE advanced
    BY <1>5 DEF HandleAppendResp
  <2> HIDE DEF next, match
  <2>5. /\ acked \in Replica /\ SameConfig(s, acked)
        /\ acked.id = s.id /\ acked.term = s.term /\ acked.role = s.role
        /\ acked.unstable = s.unstable /\ acked.msgs = s.msgs
        /\ acked.next = next /\ acked.match = match
        /\ acked.committed = s.committed
    BY <1>1, <2>2, <2>3 DEF Replica, SameConfig
  <2> HIDE DEF acked
  <2>6. ReplicaOK(acked, E)
    <3>1. RoleOK(acked) /\ acked.term >= s.term /\ acked.log = s.log
      BY <1>1, <2>2, <2>5 DEF RoleOK, NextPositive, ReplicaOK, SameConfig
    <3> QED
      BY <2>5, <3>1, FrameFollows DEF Follows
  <2>7. Backed(acked, entries, D)
    <3>1. Configured(acked)
      BY <2>5, SameConfigConfigured DEF Backed
    <3>2. LogKept(acked, entries)
      BY <2>5 DEF SameConfig, Backed, LogKept
    <3>3. Matched(acked, D)
      BY <2>2, <2>5 DEF Matched
    <3> QED
      BY <3>1, <3>2, <3>3 DEF Backed
  <2>8. Backed(advanced, entries, D) /\ Leads(acked, advanced, D)
    BY <1>5, <2>5, <2>6, <2>7, AdvanceCommitBacked
  <2>9. advanced \in Replica
    BY <1>5, <2>5, <2>6, AdvanceCommitFollows DEF Follows, ReplicaOK
  <2> HIDE DEF advanced
  <2>10. Leads(s, advanced, D)
    <3>1. /\ acked.log = s.log /\ acked.committed = s.committed
          /\ acked.membership = s.membership /\ acked.id = s.id
      BY <2>5 DEF SameConfig
    <3>2. Backers(acked, advanced.committed, D) = Backers(s, advanced.committed, D)
      BY <3>1 DEF Backers
    <3> QED
      BY <2>8, <3>1, <3>2 DEF Leads
  <2>11. /\ Same(advanced, SendAppend(advanced, p))
         /\ SendAppend(advanced, p).role = advanced.role
    BY <2>9, BroadcastSame
  <2>12. /\ Backed(SendAppend(advanced, p), entries, D)
         /\ Leads(s, SendAppend(advanced, p), D)
    BY <1>2, <2>8, <2>10, <2>11, SameBacked, LeadsFrame
  <2> HIDE DEF p
  <2> QED
    BY <2>4, <2>8, <2>10, <2>12
<1>6. m.reject \in BOOLEAN
  BY DEF Message
<1> QED
  BY <1>3, <1>4, <1>5, <1>6

-----------------------------------------------------------------------------
(* Elections.                                                              *)

\* A campaign does not concern the log.
LEMMA StartPreVoteSame ==
  ASSUME NEW s \in Replica
  PROVE  Same(s, StartPreVote(s)) /\ StartPreVote(s).role = s.role
<1> DEFINE r == [s EXCEPT !.votes = {s.id}, !.preVote = TRUE]
<1>1. r \in Replica /\ Same(s, r) /\ r.role = s.role
  <2>1. s.id \in Node
    BY DEF Replica
  <2> QED
    BY <2>1 DEF Replica, Same, SameConfig
<1> HIDE DEF r
<1>2. LET q == Send(r, Solicit(s, "PreVote", s.term + 1))
      IN Same(r, q) /\ q.role = r.role
  BY <1>1, SendSame
<1>3. StartPreVote(s) = Send(r, Solicit(s, "PreVote", s.term + 1))
  BY DEF StartPreVote, r
<1> QED
  BY <1>1, <1>2, <1>3, SameTransitive

\* Votes, pre-votes and their answers; only a candidate is made a leader by them.
LEMMA ElectionBacked ==
  ASSUME NEW entries, NEW D, NEW s \in Replica, Backed(s, entries, D),
         NEW m \in Message,
         NEW r \in {HandlePreVote(s, m), HandlePreVoteResp(s, m),
                    HandleVote(s, m), HandleVoteResp(s, m)}
  PROVE  /\ Backed(r, entries, D)
         /\ s.role # "Candidate" => Leads(s, r, D)
<1> DEFINE counted == [s EXCEPT !.votes = @ \cup {m.from}]
           voted == [s EXCEPT !.vote = m.from]
<1>1. m.from \in Node /\ s.id \in Node /\ s.term + 1 \in Nat
  <2>1. s.term \in Nat
    BY DEF Replica
  <2> QED
    BY <2>1 DEF Replica, Message
<1>2. /\ counted \in Replica /\ Same(s, counted) /\ counted.role = s.role
      /\ voted \in Replica /\ Same(s, voted)
      /\ Same(s, s)
  BY <1>1 DEF Replica, Same, SameConfig
<1>3. ASSUME NEW q, Same(s, q)
      PROVE  Backed(q, entries, D) /\ Leads(s, q, D)
  BY <1>3, SameBacked, SameLeads
<1>4. CASE r = HandlePreVote(s, m)
  <2>1. Same(s, r)
    BY <1>4, SendSame DEF HandlePreVote
  <2> QED
    BY <1>3, <2>1
<1>5. CASE r = HandleVote(s, m)
  <2> HIDE DEF voted
  <2>1. \E M : r = Send(s, M) \/ r = Send(voted, M)
    BY <1>5 DEF HandleVote, voted
  <2>2. Same(s, r)
    BY <1>2, <2>1, SendSame, SameTransitive
  <2> QED
    BY <1>3, <2>2
<1> HIDE DEF counted, voted
<1>6. CASE r = HandlePreVoteResp(s, m)
  <2> DEFINE q == [counted EXCEPT !.preVote = FALSE, !.role = "Candidate",
                                  !.term = @ + 1, !.vote = counted.id,
                                  !.votes = {counted.id}]
  <2>1. counted.id \in Node /\ counted.term + 1 \in Nat
    <3>1. counted.id \in Node /\ counted.term \in Nat
      BY <1>2 DEF Replica
    <3> QED
      BY <3>1
  <2>2. q \in Replica /\ Same(counted, q)
    BY <1>2, <2>1 DEF Replica, Role, Same, SameConfig
  <2> HIDE DEF q
  <2>3. Same(q, Send(q, Solicit(q, "Vote", q.term)))
    BY <2>2, SendSame
  <2>4. StartElection(counted) = Send(q, Solicit(q, "Vote", q.term))
    BY DEF StartElection, q
  <2>5. Same(s, StartElection(counted))
    BY <1>2, <2>2, <2>3, <2>4, SameTransitive
  <2>6. r \in {s, counted, StartElection(counted)}
    BY <1>6 DEF HandlePreVoteResp, counted
  <2> QED
    BY <1>2, <1>3, <2>5, <2>6
<1>7. CASE r = HandleVoteResp(s, m)
  <2>1. \/ r = s \/ r = counted
        \/ r = BecomeLeader(counted) /\ s.role = "Candidate"
    BY <1>7 DEF HandleVoteResp, counted
  <2>2. Backed(BecomeLeader(counted), entries, D)
    BY <1>2, SameBacked, BecomeLeaderBacked
  <2> QED
    BY <1>2, <1>3, <2>1, <2>2
<1> QED
  BY <1>4, <1>5, <1>6, <1>7

-----------------------------------------------------------------------------
(* A follower takes over entries, whatever they overwrite.                 *)

LEMMA AcceptBacked ==
  ASSUME NEW entries, NEW D, NEW E, NEW s, ReplicaOK(s, E), s.role = "Follower",
         Backed(s, entries, D),
         NEW m \in Message, Consecutive(m), HasIndex(s.log, m.index)
  PROVE  /\ Backed(Accept(s, m), entries, D)
         /\ Accept(s, m) \in Replica /\ Accept(s, m).role = "Follower"
<1> DEFINE es == m.entries
           prev == m.index
           log == AppendEntries(s.log, prev, es)
           unstable == s.unstable \o es
           a == Accept(s, m)
           w == WriteEntries(entries, s.unstable)
           more == WriteEntries(entries, unstable)
<1>1. /\ s \in Replica /\ s.log \in Seq(Entry) /\ s.unstable \in Seq(Entry)
      /\ es \in Seq(Entry) /\ prev \in 0..Len(s.log)
      /\ Len(es) \in Nat /\ Len(s.log) \in Nat /\ prev \in Nat
  BY LenProperties DEF ReplicaOK, Replica, Message, HasIndex
<1>2. Configured(a) /\ a \in Replica
  BY AcceptConfigured DEF Backed
<1>3. /\ a.id = s.id /\ a.log = log /\ a.unstable = unstable /\ a.match = s.match
      /\ a.role = "Follower"
  <2> DEFINE known == IF m.commit <= Len(log) THEN m.commit ELSE Len(log)
             r == [s EXCEPT
                     !.log = log,
                     !.unstable = @ \o es,
                     !.committed = IF m.commit > s.committed THEN known ELSE s.committed]
  <2>1. a = IF es = <<>> THEN r ELSE RecomputeMembership(r)
    BY DEF Accept
  <2> HIDE DEF log, known
  <2>2. /\ r.id = s.id /\ r.log = log /\ r.unstable = unstable /\ r.match = s.match
        /\ r.role = s.role /\ DOMAIN r = DOMAIN s
    BY <1>1 DEF Replica
  <2> HIDE DEF r, a, unstable
  <2>3. LET q == RecomputeMembership(r)
        IN /\ q.id = r.id /\ q.log = r.log /\ q.unstable = r.unstable
           /\ q.match = r.match /\ q.role = r.role
    BY <1>1, <2>2 DEF Replica, RecomputeMembership
  <2> QED
    BY <2>1, <2>2, <2>3
<1> HIDE DEF a
<1>4. /\ log \in Seq(Entry)
      /\ \A i \in 1..Len(log) :
           IF i \in (prev + 1)..(prev + Len(es))
             THEN i - prev \in 1..Len(es) /\ log[i].term = es[i - prev].term
             ELSE i \in 1..Len(s.log) /\ log[i] = s.log[i]
  <2>1. /\ log \in Seq(Entry)
        /\ prev + Len(es) <= Len(log)
        /\ log = s.log \/ Len(log) = prev + Len(es)
        /\ \A i \in 1..Len(log) :
             IF i \in (prev + 1)..(prev + Len(es))
               THEN /\ i - prev \in 1..Len(es)
                    /\ log[i].term = es[i - prev].term
                    /\ \/ log[i] = es[i - prev]
                       \/ /\ i <= Len(s.log) /\ log[i] = s.log[i]
                          /\ s.log[i].term = es[i - prev].term
               ELSE i \in 1..Len(s.log) /\ log[i] = s.log[i]
    <3> HIDE DEF es, prev
    <3> QED
      BY <1>1, AppendEntriesTerms
  <2> HIDE DEF log
  <2> QED
    BY <2>1
<1>5. \A k \in 1..Len(es) : es[k].index = prev + k
  BY DEF Consecutive
<1>6. \A i : IF i \in Indexes(es) THEN Holds(more, es, i) ELSE Keeps(more, w, i)
  BY <1>1, WriteMore
<1>7. \A i \in 1..Len(s.log) : i \in DOMAIN w /\ w[i].term = s.log[i].term
  BY DEF Backed, LogKept
<1> HIDE DEF es, prev, log, more, w
<1>8. ASSUME NEW i \in 1..Len(log)
      PROVE  i \in DOMAIN more /\ more[i].term = log[i].term
  <2>1. CASE i \in (prev + 1)..(prev + Len(es))
    <3>1. i - prev \in 1..Len(es) /\ log[i].term = es[i - prev].term /\ i \in Int
      BY <1>4, <2>1
    <3>2. es[i - prev].index = i
      <4>1. es[i - prev].index = prev + (i - prev)
        BY <1>5, <3>1
      <4> QED
        BY <1>1, <3>1, <4>1
    <3>3. Holds(more, es, i)
      BY <1>6, <3>1, <3>2 DEF Indexes
    <3>4. PICK k \in 1..Len(es) : es[k].index = i /\ more[i] = es[k]
      BY <3>3 DEF Holds
    <3>5. k = i - prev
      <4>1. prev + k = i
        BY <1>5, <3>4
      <4> QED
        BY <1>1, <4>1
    <3> QED
      BY <3>1, <3>3, <3>4, <3>5 DEF Holds
  <2>2. CASE i \notin (prev + 1)..(prev + Len(es))
    <3>1. i \in 1..Len(s.log) /\ log[i] = s.log[i]
      BY <1>4, <2>2
    <3>2. i \notin Indexes(es)
      <4>1. ASSUME NEW k \in 1..Len(es), es[k].index = i
            PROVE  FALSE
        <5>1. prev + k = i
          BY <1>5, <4>1
        <5> QED
          BY <1>1, <2>2, <5>1
      <4> QED
        BY <4>1 DEF Indexes
    <3>3. Keeps(more, w, i)
      BY <1>6, <3>2
    <3> QED
      BY <1>7, <3>1, <3>3 DEF Keeps
  <2> QED
    BY <2>1, <2>2
<1>9. LogKept(a, entries)
  BY <1>3, <1>8 DEF LogKept, more
<1>10. Matched(a, D)
  BY <1>3 DEF Backed, Matched
<1> QED
  BY <1>2, <1>3, <1>9, <1>10 DEF Backed, a

\* A leader that accepts follows from then on.
LEMMA HandleAppendBacked ==
  ASSUME NEW entries, NEW D, NEW E, NEW s, ReplicaOK(s, E), Backed(s, entries, D),
         NEW m \in Message, Consecutive(m)
  PROVE  /\ Backed(HandleAppend(s, m), entries, D)
         /\ Leads(s, HandleAppend(s, m), D)
<1> DEFINE f == BecomeFollower(s, m.term)
           a == Accept(f, m)
           r == HandleAppend(s, m)
<1>1. s \in Replica /\ s.term \in Nat /\ m.term \in Nat
  BY DEF ReplicaOK, Replica, Message
<1>2. CASE m.term < s.term
  <2>1. Same(s, r)
    BY <1>1, <1>2, SendSame DEF HandleAppend
  <2> QED
    BY <1>1, <2>1, SameBacked, SameLeads
<1>3. CASE ~(m.term < s.term)
  <2>1. Follows(s, f, E)
    BY <1>1, <1>3, BecomeFollowerFollows
  <2>2. ReplicaOK(f, E) /\ f \in Replica /\ f.role = "Follower" /\ f.log = s.log
    BY <1>1, <2>1 DEF Follows, ReplicaOK, BecomeFollower, Replica
  <2>3. Backed(f, entries, D)
    BY <1>1, BecomeFollowerSame, SameBacked
  <2>4. r = IF ~(HasIndex(s.log, m.index) /\ TermAt(s.log, m.index) = m.logTerm)
              THEN Send(f, {AppendResp(f, m, TRUE)})
              ELSE Send(a, {AppendResp(a, m, FALSE)})
    BY <1>3 DEF HandleAppend
  <2> HIDE DEF f, r
  <2>5. ASSUME HasIndex(s.log, m.index)
        PROVE  Backed(a, entries, D) /\ a \in Replica /\ a.role = "Follower"
    BY <2>2, <2>3, <2>5, AcceptBacked
  <2> HIDE DEF a
  <2>6. \E q \in Replica : \E M : /\ Backed(q, entries, D) /\ q.role = "Follower"
                                   /\ r = Send(q, M)
    BY <2>2, <2>3, <2>4, <2>5
  <2>7. Backed(r, entries, D) /\ r.role = "Follower"
    BY <2>6, SendSame, SameBacked
  <2> QED
    BY <2>7 DEF Leads, r
<1> QED
  BY <1>2, <1>3

\* So whatever message a replica steps.
LEMMA StepBacked ==
  ASSUME NEW entries, NEW D, NEW E, NEW s, ReplicaOK(s, E), Backed(s, entries, D),
         NEW m \in Message, Consecutive(m),
         m.type = "AppendResp" /\ ~m.reject => 1..m.index \subseteq D[m.from]
  PROVE  /\ Backed(Step(s, m), entries, D)
         /\ s.role = "Leader" => Leads(s, Step(s, m), D)
<1> DEFINE f == BecomeFollower(s, m.term)
           higher == m.term > s.term /\ m.type \notin {"PreVote", "PreVoteResp"}
           current == IF higher THEN f ELSE s
           r == Step(s, m)
<1>1. s \in Replica /\ s.term \in Nat /\ m.term \in Nat /\ m.type \in MessageType
  BY DEF ReplicaOK, Replica, Message
<1>2. ReplicaOK(current, E) /\ Backed(current, entries, D) /\ current \in Replica
  <2>1. CASE higher
    <3>1. Follows(s, f, E)
      BY <1>1, <2>1, BecomeFollowerFollows
    <3> QED
      BY <1>1, <2>1, <3>1, BecomeFollowerSame, SameBacked DEF Follows, ReplicaOK
  <2>2. CASE ~higher
    BY <1>1, <2>2
  <2> QED
    BY <2>1, <2>2
<1> HIDE DEF current
<1>3. \/ r = HandlePreVote(current, m) \/ r = HandlePreVoteResp(current, m)
      \/ r = HandleVote(current, m) \/ r = HandleVoteResp(current, m)
      \/ r = HandleAppend(current, m)
      \/ m.type = "AppendResp" /\ r = HandleAppendResp(current, m)
  <2>1. r = CASE m.type = "PreVote"     -> HandlePreVote(current, m)
              [] m.type = "PreVoteResp" -> HandlePreVoteResp(current, m)
              [] m.type = "Vote"        -> HandleVote(current, m)
              [] m.type = "VoteResp"    -> HandleVoteResp(current, m)
              [] m.type = "Append"      -> HandleAppend(current, m)
              [] m.type = "AppendResp"  -> HandleAppendResp(current, m)
    BY DEF Step, current
  <2> HIDE DEF r
  <2> QED
    BY <1>1, <2>1 DEF MessageType
<1>4. Backed(r, entries, D) /\ (current.role # "Candidate" => Leads(current, r, D))
  <2> HIDE DEF r
  <2>1. CASE r \in {HandlePreVote(current, m), HandlePreVoteResp(current, m),
                    HandleVote(current, m), HandleVoteResp(current, m)}
    BY <1>2, <2>1, ElectionBacked
  <2>2. CASE r = HandleAppend(current, m)
    BY <1>2, <2>2, HandleAppendBacked
  <2>3. CASE m.type = "AppendResp" /\ r = HandleAppendResp(current, m)
    BY <1>2, <2>3, HandleAppendRespBacked
  <2> QED
    BY <1>3, <2>1, <2>2, <2>3
<1>5. Same(s, current) /\ (s.role = "Leader" => current.role # "Candidate")
  BY <1>1, BecomeFollowerSame DEF Same, SameConfig, current
<1>6. Same(r, r) /\ r.role = r.role
  BY DEF Same, SameConfig
<1> QED
  BY <1>4, <1>5, <1>6, LeadsFrame

-----------------------------------------------------------------------------
(* The hosts: however a drive ends, what is retried or lost.               *)

Saved == [p \in Node |-> DOMAIN stored[p]]

\* The disk of every host holds the log of its replica, and what a replica
\* believes another one to have is on the disk of that one.
BackedInv == \A n \in Node : Backed(node[n], stored[n], Saved)

\* What a step makes of the leaders.
LeadersStep ==
  \A n \in Node : up[n] /\ node[n].role = "Leader" => Leads(node[n], node'[n], Saved')

\* Nothing to save leaves the disk alone.
LEMMA WriteNothing ==
  ASSUME NEW entries, NEW i
  PROVE  Keeps(WriteEntries(entries, <<>>), entries, i)
<1>1. <<>> \in Seq(Entry) /\ i \notin Indexes(<<>>)
  BY EmptySeq DEF Indexes
<1>2. LET w == WriteEntries(entries, <<>>)
      IN /\ i \in DOMAIN w <=> i \in DOMAIN entries
         /\ i \in DOMAIN w => w[i] = entries[i]
  BY <1>1, WriteEntriesLast
<1> QED
  BY <1>2 DEF Keeps

\* The first puts of a save, all of them when k is the number of puts.
LEMMA AllPuts ==
  ASSUME NEW s \in Replica
  PROVE  /\ Puts(s) \in Nat
         /\ SubSeq(s.unstable, 1, Puts(s) - 1) = s.unstable
<1> DEFINE u == s.unstable
           v == SubSeq(u, 1, Puts(s) - 1)
<1>1. u \in Seq(Entry) /\ Len(u) \in Nat /\ Puts(s) = 1 + Len(u) /\ Puts(s) - 1 = Len(u)
  BY LenProperties DEF Replica, Puts
<1> HIDE DEF u
<1>2. \A j \in 1..Len(u) : u[j] \in Entry
  BY <1>1, ElementOfSeq
<1>3. /\ v \in Seq(Entry)
      /\ Len(v) = IF 1 <= Len(u) THEN Len(u) - 1 + 1 ELSE 0
      /\ \A j \in 1..(Len(u) - 1 + 1) : v[j] = u[1 + j - 1]
  BY <1>1, <1>2, SubSeqProperties
<1> HIDE DEF v
<1>4. Len(v) = Len(u) /\ \A j \in 1..Len(u) : v[j] = u[j]
  BY <1>1, <1>3
<1>5. v = u
  BY <1>1, <1>3, <1>4, SeqEqual
<1> QED
  BY <1>1, <1>5 DEF u, v

LEMMA AdvanceReplica ==
  ASSUME NEW s \in Replica
  PROVE  Advance(s) \in Replica
<1>1. <<>> \in Seq(Entry) /\ {} \in SUBSET Message /\ s.committed \in Nat
  BY EmptySeq DEF Replica
<1> QED
  BY <1>1 DEF Replica, Advance

\* How a drive can end: with the whole save done and the replica advanced; with
\* some of it done and the replica as the handler left it; or dead.
LEMMA HandleOutcome ==
  ASSUME NEW n \in Node, NEW s \in Replica, NEW rest, Handle(n, s, rest)
  PROVE  \E k \in 0..Puts(s), r \in Replica :
           /\ Save(n, s, k)
           /\ node' = [node EXCEPT ![n] = r]
           /\ \/ r = Advance(s) /\ k = Puts(s)
              \/ r = s
              \/ r = NewNode(n)
<1>1. Puts(s) \in 0..Puts(s)
  BY AllPuts
<1>6. Advance(s) \in Replica /\ NewNode(n) \in Replica
  BY NewNodeOK, AdvanceReplica DEF ReplicaOK
<1>2. CASE Drive(n, s, rest)
  BY <1>6, <1>1, <1>2 DEF Drive
<1>3. CASE DriveRefused(n, s, rest)
  BY <1>1, <1>3 DEF DriveRefused
<1>4. CASE DriveFails(n, s, rest)
  BY <1>4 DEF DriveFails
<1>5. CASE DriveCrashes(n, s, rest)
  <2>1. PICK k \in 1..Puts(s) : Save(n, s, k)
    BY <1>5 DEF DriveCrashes
  <2>2. k \in 0..Puts(s) /\ node' = [node EXCEPT ![n] = NewNode(n)]
    BY <1>1, <1>5 DEF DriveCrashes, Die
  <2> QED
    BY <1>6, <2>1, <2>2
<1> QED
  BY <1>2, <1>3, <1>4, <1>5 DEF Handle

\* Disks that only grew back as much.
LEMMA MatchedGrows ==
  ASSUME NEW s, NEW D, NEW E, Matched(s, D), \A p \in Node : D[p] \subseteq E[p]
  PROVE  Matched(s, E)
BY DEF Matched

LEMMA AdvanceBacked ==
  ASSUME NEW entries, NEW D, NEW s \in Replica, Backed(s, entries, D)
  PROVE  Backed(Advance(s), WriteEntries(entries, s.unstable), D)
<1> DEFINE r == Advance(s)
           w == WriteEntries(entries, s.unstable)
<1>1. /\ SameConfig(s, r) /\ r.log = s.log /\ r.unstable = <<>>
      /\ r.id = s.id /\ r.match = s.match
  BY DEF Advance, Replica, SameConfig
<1> HIDE DEF r
<1>2. Configured(r)
  BY <1>1, SameConfigConfigured DEF Backed
<1>3. Matched(r, D)
  BY <1>1 DEF Backed, Matched
<1>4. \A i \in 1..Len(s.log) : i \in DOMAIN w /\ w[i].term = s.log[i].term
  BY DEF Backed, LogKept
<1> HIDE DEF w
<1>5. LogKept(r, w)
  BY <1>1, <1>4, WriteNothing DEF LogKept, Keeps
<1> QED
  BY <1>2, <1>3, <1>5 DEF Backed, r, w

LEMMA RetryBacked ==
  ASSUME NEW entries, NEW D, NEW s \in Replica, Backed(s, entries, D),
         NEW k \in 0..Puts(s)
  PROVE  Backed(s, WriteEntries(entries, SubSeq(s.unstable, 1, k - 1)), D)
<1> DEFINE w == WriteEntries(entries, s.unstable)
           some == WriteEntries(entries, SubSeq(s.unstable, 1, k - 1))
           again == WriteEntries(some, s.unstable)
<1>1. /\ s.unstable \in Seq(Entry)
      /\ k - 1 \in Int /\ k - 1 <= Len(s.unstable)
  BY LenProperties DEF Replica, Puts
<1>2. ASSUME NEW i \in DOMAIN w
      PROVE  i \in DOMAIN again /\ again[i] = w[i]
  BY <1>1, <1>2, WriteAgain
<1>3. \A i \in 1..Len(s.log) : i \in DOMAIN w /\ w[i].term = s.log[i].term
  BY DEF Backed, LogKept
<1> HIDE DEF w, again
<1>4. \A i \in 1..Len(s.log) : i \in DOMAIN again /\ again[i].term = s.log[i].term
  BY <1>2, <1>3
<1>5. LogKept(s, some)
  BY <1>4 DEF LogKept, again
<1> QED
  BY <1>5 DEF Backed

\* A node that starts knows nothing; one that recovers has what is on its disk.
LEMMA NewNodeBacked ==
  ASSUME NEW n \in Node, NEW entries, NEW D
  PROVE  Backed(NewNode(n), entries, D)
<1>1. NewNode(n).log = <<>> /\ \A p \in Node : NewNode(n).match[p] = 0
  BY DEF NewNode
<1>2. Len(<<>>) = 0
  BY EmptySeq
<1> QED
  BY <1>1, <1>2, NewNodeConfigured DEF Backed, LogKept, Matched

LEMMA RecoveredBacked ==
  ASSUME NEW n \in Node, NEW h, NEW entries, NEW D, Recoverable(h, entries),
         DOMAIN entries \subseteq Nat, entries \in [DOMAIN entries -> Entry]
  PROVE  Backed(Recovered(n, h, entries), entries, D)
<1> DEFINE r == [NewNode(n) EXCEPT !.term = h.term, !.vote = h.vote,
                                   !.log = entries, !.committed = h.commit]
           q == RecomputeMembership(r)
<1>1. PICK last \in {0} \cup DOMAIN entries : DOMAIN entries = 1..last
  BY DEF Recoverable
<1>2. entries \in Seq(Entry) /\ Len(entries) = last
  BY <1>1, LenProperties
<1>3. Recovered(n, h, entries) = q
  BY DEF Recovered
<1>4. /\ q.log = entries /\ q.unstable = <<>> /\ \A p \in Node : q.match[p] = 0
      /\ Configured(q)
  BY DEF NewNode, RecomputeMembership, Configured
<1> HIDE DEF q
<1>5. LogKept(q, entries)
  <2>1. \A i \in 1..Len(entries) : i \in DOMAIN entries
    BY <1>1, <1>2
  <2> QED
    BY <1>4, <2>1, WriteNothing DEF LogKept, Keeps
<1>6. Matched(q, D)
  BY <1>4 DEF Matched
<1> QED
  BY <1>3, <1>4, <1>5, <1>6 DEF Backed

\* Every step of a running host.
LEMMA HandleBacked ==
  ASSUME IInv, BackedInv, NEW n \in Node, up[n], NEW s, NEW rest,
         Follows(node[n], s, DOMAIN stored[n]), Backed(s, stored[n], Saved),
         node[n].role = "Leader" => Leads(node[n], s, Saved),
         Handle(n, s, rest)
  PROVE  BackedInv' /\ LeadersStep
<1>1. /\ node \in [Node -> Replica] /\ DOMAIN stored = Node
      /\ s \in Replica
  BY DEF IInv, TypeOK, Follows, ReplicaOK
<1>2. PICK k \in 0..Puts(s), r \in Replica :
        /\ Save(n, s, k)
        /\ node' = [node EXCEPT ![n] = r]
        /\ \/ r = Advance(s) /\ k = Puts(s)
           \/ r = s
           \/ r = NewNode(n)
  BY <1>1, HandleOutcome
<1>3. node'[n] = r /\ \A p \in Node \ {n} : node'[p] = node[p]
  BY <1>1, <1>2
<1>4. /\ \A p \in Node : Saved[p] \subseteq Saved'[p]
      /\ \A p \in Node \ {n} : stored'[p] = stored[p]
  BY <1>1, <1>2, SaveStep DEF DisksGrow, Saved
<1>5. stored'[n] = WriteEntries(stored[n], SubSeq(s.unstable, 1, k - 1))
  BY <1>1, <1>2 DEF Save
<1>6. Backed(r, stored'[n], Saved)
  <2>1. CASE r = Advance(s) /\ k = Puts(s)
    <3>1. stored'[n] = WriteEntries(stored[n], s.unstable)
      BY <1>1, <1>5, <2>1, AllPuts
    <3> QED
      BY <1>1, <2>1, <3>1, AdvanceBacked
  <2>2. CASE r = s
    BY <1>1, <1>5, <2>2, RetryBacked
  <2>3. CASE r = NewNode(n)
    BY <2>3, NewNodeBacked
  <2> QED
    BY <1>2, <2>1, <2>2, <2>3
<1>7. ASSUME NEW q, NEW entries, Backed(q, entries, Saved)
      PROVE  Backed(q, entries, Saved')
  BY <1>4, <1>7, MatchedGrows DEF Backed
<1>8. BackedInv'
  <2>1. ASSUME NEW p \in Node
        PROVE  Backed(node'[p], stored'[p], Saved')
    <3>1. CASE p = n
      BY <1>3, <1>6, <1>7, <3>1
    <3>2. CASE p # n
      <4>1. Backed(node[p], stored[p], Saved)
        BY DEF BackedInv
      <4> QED
        BY <1>3, <1>4, <1>7, <3>2, <4>1
    <3> QED
      BY <3>1, <3>2
  <2> QED
    BY <2>1 DEF BackedInv
<1>9. ASSUME node[n].role = "Leader", r.role = "Leader"
      PROVE  Leads(node[n], r, Saved')
  <2>1. r.log = s.log /\ r.committed = s.committed /\ r.role = s.role
    <3>1. NewNode(n).role = "Follower"
      BY DEF NewNode
    <3>2. /\ Advance(s).log = s.log /\ Advance(s).committed = s.committed
          /\ Advance(s).role = s.role
      BY <1>1 DEF Advance, Replica
    <3> QED
      BY <1>2, <1>9, <3>1, <3>2
  <2>2. /\ GrowsInStep(node[n].log, r.log)
        /\ r.committed > node[n].committed =>
             HasQuorum(node[n].membership, Backers(node[n], r.committed, Saved))
    BY <1>9, <2>1 DEF Leads
  <2>3. node[n].membership \in Configurations(Node)
    BY <1>1 DEF Replica
  <2>4. Backers(node[n], r.committed, Saved) \subseteq Backers(node[n], r.committed, Saved')
    BY <1>4 DEF Backers
  <2>5. r.committed > node[n].committed =>
          HasQuorum(node[n].membership, Backers(node[n], r.committed, Saved'))
    BY <2>2, <2>3, <2>4, NodeAssumption, QuorumGrows
  <2> QED
    BY <2>2, <2>5 DEF Leads
<1>10. ASSUME NEW p \in Node \ {n}
       PROVE  Leads(node[p], node'[p], Saved')
  <2>1. Same(node[p], node[p]) /\ node'[p] = node[p] /\ node[p] \in Replica
    BY <1>1, <1>3 DEF Same, SameConfig
  <2> QED
    BY <2>1, SameLeads
<1>11. LeadersStep
  <2>1. ASSUME NEW p \in Node, node[p].role = "Leader"
        PROVE  Leads(node[p], node'[p], Saved')
    <3>1. CASE p = n /\ r.role = "Leader"
      BY <1>3, <1>9, <2>1, <3>1
    <3>2. CASE p = n /\ r.role # "Leader"
      BY <1>3, <3>2 DEF Leads
    <3>3. CASE p # n
      BY <1>10, <3>3
    <3> QED
      BY <3>1, <3>2, <3>3
  <2> QED
    BY <2>1 DEF LeadersStep
<1> QED
  BY <1>8, <1>11

\* Proposals of a leader, of commands and of configurations.
LEMMA ProposalBacked ==
  ASSUME IInv, BackedInv, NEW n \in Node, up[n], node[n].role = "Leader",
         NEW data \in Data,
         IsConfig(data) => StepsFrom(node[n].membership, data.membership),
         Handle(n, ProposeInternal(node[n], data), net)
  PROVE  BackedInv' /\ LeadersStep
<1> DEFINE s == ProposeInternal(node[n], data)
<1>1. node[n] \in Replica /\ ReplicaOK(node[n], DOMAIN stored[n])
  BY DEF IInv, TypeOK, ReplicasOK
<1>2. NextPositive(node[n]) /\ node[n].committed \in Nat
  BY <1>1 DEF ReplicaOK, RoleOK, Replica
<1>3. Follows(node[n], s, DOMAIN stored[n])
  BY <1>1, <1>2, ProposeInternalFollows
<1>4. Backed(node[n], stored[n], Saved)
  BY DEF BackedInv
<1>5. /\ Backed(s, stored[n], Saved)
      /\ GrowsInStep(node[n].log, s.log)
      /\ s.committed = node[n].committed
  BY <1>1, <1>4, ProposeInternalBacked
<1> HIDE DEF s
<1>6. Leads(node[n], s, Saved)
  BY <1>2, <1>5 DEF Leads
<1> QED
  BY <1>3, <1>5, <1>6, HandleBacked DEF s

\* Crashes and restarts make no leader and leave the disks alone.
LEMMA ReplacedBacked ==
  ASSUME IInv, BackedInv, NEW n \in Node, NEW r \in Replica, r.role # "Leader",
         Backed(r, stored[n], Saved), node' = [node EXCEPT ![n] = r],
         stored' = stored
  PROVE  BackedInv' /\ LeadersStep
<1>1. node \in [Node -> Replica]
  BY DEF IInv, TypeOK
<1>2. /\ node'[n] = r /\ \A p \in Node \ {n} : node'[p] = node[p]
      /\ Saved' = Saved
  BY <1>1 DEF Saved
<1>3. ASSUME NEW p \in Node
      PROVE  Backed(node'[p], stored'[p], Saved')
  BY <1>2 DEF BackedInv
<1>4. ASSUME NEW p \in Node
      PROVE  Leads(node[p], node'[p], Saved')
  <2>1. CASE p = n
    BY <1>2, <2>1 DEF Leads
  <2>2. CASE p # n
    <3>1. Same(node[p], node'[p]) /\ node[p] \in Replica
      BY <1>1, <1>2, <2>2 DEF Same, SameConfig
    <3> QED
      BY <3>1, SameLeads
  <2> QED
    BY <2>1, <2>2
<1> QED
  BY <1>3, <1>4 DEF BackedInv, LeadersStep

LEMMA NextBacked ==
  ASSUME IInv, BackedInv, [Next]_vars
  PROVE  BackedInv' /\ LeadersStep
<1>1. /\ \A n \in Node : /\ node[n] \in Replica
                         /\ ReplicaOK(node[n], DOMAIN stored[n])
                         /\ Backed(node[n], stored[n], Saved)
                         /\ DOMAIN stored[n] \subseteq Nat
                         /\ stored[n] \in [DOMAIN stored[n] -> Entry]
                         /\ \A i \in DOMAIN stored[n] : stored[n][i].index = i
      /\ hard \in [Node -> HardState]
      /\ \A m \in net : m \in Message /\ Consecutive(m)
      /\ DOMAIN stored = Node
  BY DEF IInv, TypeOK, ReplicasOK, NetConsecutive, StoredByIndex, BackedInv
<1>2. ASSUME NEW n \in Node, up[n], NEW s, NEW rest, Same(node[n], s),
             Follows(node[n], s, DOMAIN stored[n]), Handle(n, s, rest)
      PROVE  BackedInv' /\ LeadersStep
  <2>1. Backed(s, stored[n], Saved) /\ Leads(node[n], s, Saved)
    BY <1>1, <1>2, SameBacked, SameLeads
  <2> QED
    BY <1>2, <2>1, HandleBacked
<1>3. ASSUME NEW n \in Node, Heartbeat(n)
      PROVE  BackedInv' /\ LeadersStep
  <2>1. NextPositive(node[n])
    BY <1>1, <1>3 DEF Heartbeat, ReplicaOK, RoleOK
  <2>2. Follows(node[n], BroadcastAppend(node[n]), DOMAIN stored[n])
    BY <1>1, <2>1, BroadcastAppendFollows
  <2>3. Same(node[n], BroadcastAppend(node[n]))
    BY <1>1, BroadcastSame
  <2> QED
    BY <1>2, <1>3, <2>2, <2>3 DEF Heartbeat
<1>4. ASSUME NEW n \in Node, ElectionTimeout(n)
      PROVE  BackedInv' /\ LeadersStep
  <2>1. Follows(node[n], StartPreVote(node[n]), DOMAIN stored[n])
    BY <1>1, StartPreVoteFollows
  <2>2. Same(node[n], StartPreVote(node[n]))
    BY <1>1, StartPreVoteSame
  <2> QED
    BY <1>2, <1>4, <2>1, <2>2 DEF ElectionTimeout
<1>5. ASSUME NEW n \in Node, IdleTick(n)
      PROVE  BackedInv' /\ LeadersStep
  <2>1. Follows(node[n], node[n], DOMAIN stored[n])
    BY <1>1, FollowsReflexive
  <2>2. Same(node[n], node[n])
    BY DEF Same, SameConfig
  <2> QED
    BY <1>2, <1>5, <2>1, <2>2 DEF IdleTick
<1>6. ASSUME NEW n \in Node, NEW c \in Command, Propose(n, c)
      PROVE  BackedInv' /\ LeadersStep
  <2>1. CommandData(c) \in Data /\ ~IsConfig(CommandData(c))
    BY DEF Data, IsConfig, CommandData
  <2> QED
    BY <1>6, <2>1, ProposalBacked DEF Propose
<1>7. ASSUME NEW n \in Node, NEW voters \in VoterChanges, ProposeConfChange(n, voters)
      PROVE  BackedInv' /\ LeadersStep
  <2> DEFINE data == ConfigData(Joint(node[n].membership.old, voters))
  <2>1. voters \in SUBSET Node /\ node[n].membership.old \in SUBSET Node
    BY <1>1, EnvironmentAssumption DEF Replica, Configurations
  <2>2. data \in Data
    BY <2>1, ConfigDataType
  <2>3. StepsFrom(node[n].membership, data.membership)
    BY <1>7 DEF ProposeConfChange, ConfigData, Joint, StepsFrom
  <2>4. /\ up[n] /\ node[n].role = "Leader"
        /\ Handle(n, ProposeInternal(node[n], data), net)
    BY <1>7 DEF ProposeConfChange, ProposeJoint
  <2> HIDE DEF data
  <2> QED
    BY <2>2, <2>3, <2>4, ProposalBacked
<1>8. ASSUME NEW n \in Node, Crash(n)
      PROVE  BackedInv' /\ LeadersStep
  <2>1. NewNode(n) \in Replica /\ NewNode(n).role # "Leader"
    BY NewNodeOK DEF ReplicaOK, NewNode
  <2>2. node' = [node EXCEPT ![n] = NewNode(n)] /\ stored' = stored
    BY <1>8 DEF Crash, Die
  <2> QED
    BY <2>1, <2>2, NewNodeBacked, ReplacedBacked
<1>9. ASSUME NEW n \in Node, Restart(n)
      PROVE  BackedInv' /\ LeadersStep
  <2> DEFINE r == Recovered(n, hard[n], stored[n])
  <2>1. Recoverable(hard[n], stored[n]) /\ node' = [node EXCEPT ![n] = r]
        /\ stored' = stored
    BY <1>9 DEF Restart
  <2>2. r \in Replica
    BY <1>1, <2>1, RecoveredOK DEF ReplicaOK
  <2>3. r.role # "Leader"
    BY DEF Recovered, RecomputeMembership, NewNode
  <2>4. Backed(r, stored[n], Saved)
    BY <1>1, <2>1, RecoveredBacked
  <2> HIDE DEF r
  <2> QED
    BY <2>1, <2>2, <2>3, <2>4, ReplacedBacked
<1>10. ASSUME NEW m \in net, Receive(m)
       PROVE  BackedInv' /\ LeadersStep
  <2>1. m.to \in Node /\ m.from \in Node /\ m \in Message /\ Consecutive(m)
    BY <1>1 DEF Message
  <2>2. Follows(node[m.to], Step(node[m.to], m), DOMAIN stored[m.to])
    BY <1>1, <2>1, StepFollows
  <2>3. m.type = "AppendResp" /\ ~m.reject => 1..m.index \subseteq Saved[m.from]
    BY <2>1 DEF IInv, SavedBeforeSent, Saved
  <2>4. /\ Backed(Step(node[m.to], m), stored[m.to], Saved)
        /\ node[m.to].role = "Leader" => Leads(node[m.to], Step(node[m.to], m), Saved)
    BY <1>1, <2>1, <2>3, StepBacked
  <2> QED
    BY <1>10, <2>1, <2>2, <2>4, HandleBacked DEF Receive
<1>11. CASE UNCHANGED vars
  <2>1. node' = node /\ stored' = stored /\ Saved' = Saved
    BY <1>11 DEF vars, Saved
  <2>2. ASSUME NEW n \in Node
        PROVE  Leads(node[n], node'[n], Saved')
    <3>1. Same(node[n], node'[n])
      BY <2>1 DEF Same, SameConfig
    <3> QED
      BY <1>1, <3>1, SameLeads
  <2> QED
    BY <2>1, <2>2 DEF BackedInv, LeadersStep
<1> QED
  BY <1>3, <1>4, <1>5, <1>6, <1>7, <1>8, <1>9, <1>10, <1>11 DEF Next

LEMMA InitBacked == Init => BackedInv
BY NewNodeBacked DEF Init, BackedInv

LEMMA BackedInvariance == Spec => []BackedInv
<1>1. IInv /\ BackedInv /\ [Next]_vars => BackedInv'
  BY NextBacked
<1> QED
  BY <1>1, InitBacked, Invariance, PTL DEF Spec

-----------------------------------------------------------------------------
(* The theorems.                                                           *)

\* Whenever nothing is left unsaved, the disk of a host holds the log it works
\* with, in every group: whatever was overwritten or cut, put in part and
\* retried, lost in a crash or recovered (host.go driveLocked, storage.go
\* Persist, which deletes nothing).
THEOREM DiskFollowsLog == Spec => []DiskHoldsLog
<1>1. BackedInv => DiskHoldsLog
  <2> SUFFICES ASSUME BackedInv, NEW n \in Node, node[n].unstable = <<>>,
                      NEW i \in 1..Len(node[n].log)
               PROVE  i \in DOMAIN stored[n] /\ stored[n][i].term = node[n].log[i].term
    BY DEF DiskHoldsLog, Running
  <2> DEFINE w == WriteEntries(stored[n], <<>>)
  <2>1. LogKept(node[n], stored[n])
    BY DEF BackedInv, Backed
  <2>2. i \in DOMAIN w /\ w[i].term = node[n].log[i].term
    BY <2>1 DEF LogKept
  <2>3. <<>> \in Seq(Entry) /\ i \notin Indexes(<<>>)
    BY EmptySeq DEF Indexes
  <2>4. /\ i \in DOMAIN w <=> i \in DOMAIN stored[n]
        /\ i \in DOMAIN w => w[i] = stored[n][i]
    BY <2>3, WriteEntriesLast
  <2> HIDE DEF w
  <2> QED
    BY <2>2, <2>4
<1> QED
  BY <1>1, BackedInvariance, PTL

\* A leader commits up to an index only when a quorum of its membership, joint
\* or simple, has entries up to it on disk, its own saves aside: however many
\* lead, whatever is lost, late, retried, crashed or refused (node.go
\* handleAppendResp, advanceCommit).
THEOREM CommitNeedsQuorum == Spec => CommitsWithQuorum
<1>1. IInv /\ BackedInv /\ [Next]_vars =>
        [\A n \in Node :
           /\ up[n] /\ node[n].role = "Leader" /\ node'[n].role = "Leader"
           /\ node'[n].committed > node[n].committed
           => HasQuorum(node[n].membership,
                        {p \in Node : \/ p = n
                                      \/ 1..node'[n].committed \subseteq DOMAIN stored'[p]})]_vars
  <2> SUFFICES ASSUME IInv, BackedInv, [Next]_vars, NEW n \in Node,
                      up[n], node[n].role = "Leader", node'[n].role = "Leader",
                      node'[n].committed > node[n].committed
               PROVE  HasQuorum(node[n].membership,
                        {p \in Node : \/ p = n
                                      \/ 1..node'[n].committed \subseteq DOMAIN stored'[p]})
    OBVIOUS
  <2>1. Leads(node[n], node'[n], Saved')
    BY NextBacked DEF LeadersStep
  <2>2. node[n].id = n
    BY DEF IInv, ReplicasOK
  <2>3. Backers(node[n], node'[n].committed, Saved') =
          {p \in Node : p = n \/ 1..node'[n].committed \subseteq DOMAIN stored'[p]}
    BY <2>2 DEF Backers, Saved
  <2> QED
    BY <2>1, <2>3 DEF Leads
<1> QED
  BY <1>1, Invariance, BackedInvariance, PTL DEF Spec, CommitsWithQuorum

\* A leader never changes what is in its log, and every configuration it adds
\* follows from the newest one before it: a joint step from the voters in
\* effect, a final step out of the joint step (confchange.go).
LeadersGrowInStep ==
  [][\A n \in Node :
       up[n] /\ node[n].role = "Leader" /\ node'[n].role = "Leader"
       => GrowsInStep(node[n].log, node'[n].log)]_vars

\* So in every group, also while a replica with a newer or older term leads.
THEOREM LeadersFollowSteps == Spec => LeadersGrowInStep
<1>1. IInv /\ BackedInv /\ [Next]_vars =>
        [\A n \in Node :
           up[n] /\ node[n].role = "Leader" /\ node'[n].role = "Leader"
           => GrowsInStep(node[n].log, node'[n].log)]_vars
  BY NextBacked DEF LeadersStep, Leads
<1> QED
  BY <1>1, Invariance, BackedInvariance, PTL DEF Spec, LeadersGrowInStep
=============================================================================
