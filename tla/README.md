# A TLA+ model of Consensa

Consensa is a small distributed vector database in Go. Every node runs a gRPC
service over a vector index (HNSW); the mutations of the index go through a Raft
log written by hand, which every node keeps in its own storage engine. This
directory models all of these layers, and the torture test that drives the
replication; it model-checks them with TLC and proves theorems about the
replication, the storage engine, the index and the service with TLAPS.

All paths below are relative to the repository.

## 1. The system

| Component | Source | State | Operations | Modelled |
|---|---|---|---|---|
| Raft log | `internal/raft/log.go` | entries, committed, applied | term, append, entriesFrom | `RaftLog` |
| Voter sets | `internal/raft/membership.go` | old and new voters, joint | Voters, HasQuorum | `Membership` |
| Raft replica | `node.go`, `election.go`, `state.go` | role, term, vote, votes, next, match, queues of messages and unsaved entries | Tick, Step (six message types), Propose, Ready, Advance | `RaftNode` |
| Voter changes | `confchange.go` | membership and its index, cached from the log | ProposeConfChange, the final step, the rescan; AddKnownPeer | `RaftNode`, `Raft` (without AddKnownPeer) |
| Host and persister | `host.go`, `storage.go` | a replica, its disk, a transport, one mutex | Tick, Step, Propose, driveLocked, Persist, RecoverNode | `Raft` |
| Transport | `tcp.go` | listener, addresses | Send, receive | in `Raft` as a lossy, reordering network |
| Storage engine | `internal/storage` | the file wal.log, the count of unsynced appends, a map | Open, Put, Get, Scan, Sync, Close | `Storage` |
| Cluster harness | `cluster.go` | nodes, what they applied, no disks | Tick, Propose, DeliverFiltered, Leader, Applied | `Cluster` |
| HNSW index | `internal/ann/hnsw.go` | nodes, links per level, entry node, random generator | Insert, Delete, Search | `HNSW` |
| Mutations, durable node | `internal/ann/persist.go`, `durable.go` | the index, a host, the lock of the index | apply, Insert, Delete, Search, replay | `DurableNode`, its lock in `Service` |
| gRPC service | `internal/server/service.go` | an index, one lock | Upsert, Search, Delete, Status | `Service` |
| Vectors | `internal/vector` | none | distances, validation | `HNSW`, over integers |
| Torture test | `cmd/torture`, `harness/torture` | a schedule of faults, a history | rounds of a tick, a write and a read; the checker of the history | `Torture` |
| Commands, benchmarks, demo, generated API | `cmd/consensa`, `cmd/annbench`, `cmd/democlient`, `harness/bench`, `api`, `demo.sh` | | | no (wiring, measurement, generated) |

How they interact: a client calls the `Service`, which holds its lock for the
whole call and passes mutations to a `DurableNode`; that proposes them to its
`Host`. `cmd/consensa` ticks the node. The host holds one mutex while it hands a
tick, a message or a proposal to its replica and then drives it (`driveLocked`):
**save** the hard state and the unsaved entries, **send** the queued messages,
**apply** what is committed to the graph, under the graph's own lock, **advance**.
The transport calls the host from one goroutine per incoming message. On a
restart `RecoverNode` rebuilds the replica from the disk and the committed entries
are applied from the first one on, to an empty graph.

What is hard: messages that are lost, late or out of order; campaigns that
overlap; a process that dies inside `Persist`, which is a sequence of puts; a
disk that reports an error and a drive that is retried; an `Apply` that reports
an error; a membership that is cached from a log whose end may be cut; a log
file that ends, or goes on, after half a record; a counter of unsynced writes
that does not survive a restart; a graph that every replica must rebuild in exactly
the same way, with links cut back on one side only; three nested locks, of which
the first is held while a client is waited for; a leadership lost in the middle of
a batch; partitions after which an old leader still claims to lead. `PROJECT.json` lists each of them at its line.

What makes each part correct:

- elections: one leader per term, elected by a quorum of voters of its term;
- replication: logs that agree on an entry agree up to it; committed means on the
  disks of a majority; hosts apply the same entries in the same order, once;
- durability: no message stands on something a crash can take back; a restart
  finds the log the node worked with, and succeeds; terms never go back;
- membership: the voters in effect are those of the newest configuration in the
  log, joint and final steps alternate, and no two disjoint groups can elect;
- storage: what a Sync acknowledged survives, memory and log file agree;
- index: links lead to nodes of their level, the entry node is the highest, replicas
  with the same log have the same graph, a search finds what is stored;
- service: a batch that is malformed or cut short leaves nothing behind, a batch is
  not interleaved with others, a search never sees half a replacement, every call returns;
- the group under partitions: clients see one copy of the data, a leader that is cut
  off commits nothing, and the group recovers.

## 2. The modules

```
Membership   RaftLog                    KeyValueStore       HNSW
      \       /                               | (refined by)   |
      RaftNode ----- RaftNodeProofs        Storage         DurableNode     Service --- ServiceProofs
      /     \              |               |     \          |       \           |
   Raft    Cluster         |        MCStorage  Storage-     |     Durable-    MCService
     |        |            |                   Proofs       |     NodeProofs
RaftSafety  Torture    RaftProofs (of RaftSafety)     MCDurableNode
     |        |            |
  MCRaft   MCTorture   RaftReplicationProofs --- MembershipProofs (of Membership)
```

`IndexProofs` holds facts about sets of indexes and about folds over lists, for
`RaftNodeProofs`, `StorageProofs` and `DurableNodeProofs`.

**`Membership`, `RaftLog`, `RaftNode`** are pure operators. A replica is a record
with the fields of `struct node`; a handler of the code is an operator from the
replica to the replica it leaves behind, named like the Go function
(`HandleVoteResp` is `handleVoteResp`), including every function it calls. What
a handler queues stays in the fields `msgs` and `unstable`, as in the code. A log
is the sequence of the entries after the placeholder, so `log[i]` has index i.
Entry data is a command, a configuration or the noop of a new leader.

**`Raft`** is the state machine: `node[n]` is the replica of host n, `hard[n]` and
`stored[n]` are its disk, `applied[n]` what it handed to Apply since it started,
`net` the messages in flight. One action is one critical section of the host's
mutex: an input (`Heartbeat`, `ElectionTimeout`, `IdleTick`, `Receive`, `Propose`,
`ProposeConfChange`) followed by `Handle`, which is `driveLocked` with each of its
ends: it completes (`Drive`), Apply refuses an entry (`DriveRefused`), Persist
fails after any number of its puts (`DriveFails`), or the process dies inside
Persist (`DriveCrashes`). `Crash` and `Restart` complete it.

**`RaftSafety`** states what the hosts promise; **`MCRaft`** instantiates it.

**`Storage`** is the engine below a host: the file as a sequence of whole and torn
records, how much of it an fsync covered, the counter `pending`, the map. Its
ghost variable `promised` holds the file as it was when a sync was acknowledged.
**`KeyValueStore`** is what it should look like from outside, and `Storage`
refines it: the writes that took effect are what a replay would return.

`Raft` uses its disk at the level of puts, in the order in which Persist makes
them, and loses none of them: a crash there is the death of a process. The death
of a machine is a matter of `Storage`; there `PromisedSurvives` is what the
host's rule "save before sending" needs of every Sync.

**`Cluster`** is the second composition of `RaftNode`: the group in one process, with
the tick counters of the code (heartbeats with every tick, election timeouts of 3,
4 and 5 ticks). A call (`TickFiltered`, `ProposeFiltered`) hands every node a tick
or one node a proposal; then the delivery loop runs, one turn of a node per step
(`Visit`), in any order, as Go iterates over a map, until a pass delivers nothing.
**`Torture`** is the program that makes the calls: warm-up, then rounds under any
schedule of isolation windows that `nemesis.py` can produce, and the checker of
`linearizability.py`, which is applied to the recorded history.

**`HNSW`** is the graph as a record and every function of `hnsw.go` as an operator on
it, with the order of lists, the ties and the order of the repair kept.
**`DurableNode`** lets replicas build it from one committed log: drives of several
entries (`StartDrive`, `Apply`), an entry that is refused (`Refuse`), restarts with
a replay (`Restart`). That there is one committed log is the subject of
`RaftSafety`, and is taken from there.

**`Service`** is one server process: the calls of clients as processes that take
Service.mu, Host.mu and DurableNode.mu as the code does, with a step wherever the
code may wait, and every way a call can end: a malformed request, a stream that
cannot be read, a proposal that is refused or cannot be saved, an answer that does
not reach the client. The graph is the set of entries whose vectors it holds. The
other nodes appear as what reaches this one: an append of another leader
(`HandleAppend`), which may carry an entry and cut what is not committed, a vote
(`BecomeLeader`), commits.

The definitions marked as seeded mistakes are not used by any specification.
Each one shows that a property can fail: put in place of the definition below
it, it makes TLC find a violation.

## 3. Abstractions and bounds

- *Time.* The tick counters are left out. `ElectionTimeout` may happen whenever its
  node is a voter and not the leader, `Heartbeat` whenever it is the leader.
- *Overlapping campaigns.* Which timers fire is an assumption of each instance
  (`TimerFires`, `QuietFor`), kept apart from the handler `ElectionTimeout` because no
  line of the code is behind it. With `OverlappingCampaigns = TRUE` any timer of
  `Campaigners` may fire. The runs that pass on elections and replication assume
  FALSE: a campaign starts only when no other node campaigns and no message of a
  campaign is in flight. The staggered timeouts of `host.go` are meant to bring this
  about ("so the node ranked first reliably starts its election first") but only make
  timeouts longer; the run `two_leaders` shows what happens without the assumption.
  No theorem rests on it.
- *The network* is a set: messages overtake each other, are lost at sending
  (`Transmit`), and may stay in flight for ever. `MaxInFlight` bounds it: what would
  exceed it counts as lost. Framing, deadlines and the size limit are losses too.
- *Peers* are fixed: every node knows every other one from the start.
- *MaxTerm, MaxLog, MaxApplied, MaxUnsaved*: no timer fires at a node that has
  reached MaxTerm, no client proposes to a leader whose log has MaxLog entries, and
  a refused or failed drive is repeated only within MaxApplied and MaxUnsaved.
  They bound inputs, not handlers: what the handlers append themselves (the final
  configuration, the noop of a leader) is not cut off.
- *Left out of the replica*: the leader hint, and lastHard, which only lets a drive
  skip a save that would change nothing.
- *Storage*: MaxFile bounds the records of the file; keys and values are interchangeable,
  so TLC uses their symmetry. `promised` is the file as it was when a sync was last
  acknowledged. Each behaviour has a fixed set of
  faults, one of `FaultSets`. Corruption other than a torn record is left out. A
  file with a torn record in its middle either fails to open (the checksum) or is
  cut there; the first changes nothing, so only the second is a step.
- *Cluster*: the messages of a replica are a set, delivered to a node in any order;
  the code keeps the order, so the model allows more, except that two equal
  messages of one turn are one. The clock of a leader, which nothing reads, stays 0.
- *Torture*: three nodes, `Rounds = 13`: room for two windows of `MinWindow = 4` and
  four healthy rounds, or for one window, a recovery and a second one. A longer
  window is a continued one. "partition" and "crash" are the same in the code.
- *HNSW*: integer vectors of dimension 1, so distances are exact; levels are drawn
  from the two sequences of `TwoSeeds`, repeated. `M = 2` among four nodes makes lists
  overflow, `M = 3` never does. Vectors and IDs are valid: the service has checked
  them before they are proposed.
- *DurableNode*: logs of six entries, of which four are loaded first (two layouts: a
  cluster with an outlier, two far pairs), so that the states are spent on the
  replacements and deletes after them. `MaxDrive = 2`, one restart.
- *Service*: an upsert of at most two vectors under two IDs, a delete and a search,
  inserts of another leader, and three changes of leadership (`MaxTurns`): enough for
  a batch that loses its leader between two proposals, and for a replacement by this
  node or by another one while a search waits. Arguments refused before the lock is
  taken and a search of the wrong dimension (it returns like any other) are left out.
  An append of another leader carries at most one entry.

In `Raft`, two or three nodes (four where half of the voters must differ from a
majority), two terms and one to three entries are the smallest instances in which
a log is cut, a joint step is taken over in a new term, and a crash falls between
two saves. The passing runs explore between 165,000 and 1.9 million distinct states
each; the mutants show that the cases that matter do occur in them.

## 4. The runs

Runs that pass:

| Run | Properties | Instance |
|---|---|---|
| `faults` | TypeOK, SavedBeforeSent, AppliedWasAccepted, TermNeverGoesBack | 2 nodes that campaign at the same time and crash (also inside Persist), a disk that fails, a command that Apply refuses |
| `elections` | ElectionSafety, LeaderHasQuorumOfItsTerm, LogMatching, DiskHoldsLog | 3 nodes, 2 campaigners that do not overlap (interchangeable, so TLC uses their symmetry), 2 terms, logs of 2 entries that conflict |
| `replication` | CommittedOnMajority, StateMachineSafety, AppliedOnceInOrder, CommitsWithQuorum | 3 nodes, 1 campaigner, 2 terms, 2 hosts that crash, 2 proposals |
| `voters` | NoTwoElectorates, ConfigsAlternate, MembershipIsNewestConfig | 3 nodes, a change to the leader alone or to the two others, 2 terms of a leader that crashes in between |
| `torture` | HistoryLinearizable, IsolatedWriteUncommitted, IsolatedTermStaysBehind, AppliedAgree, HealthyRoundCommits, RunEnds | 3 nodes, 13 rounds, every schedule of windows and every order of visits |
| `storage` | TypeOK, PromisedSurvives, MemoryMatchesLog, NothingUnlogged, ImplementsStore | syncs by the caller and at every third put; crashes of the process, crashes of the machine, or every fault |
| `index` | TypeOK, LinksSound, EntryIsHighest, ContentsMatchLog, ReplicasAgree, SearchFindsStored, EveryAcceptedIsApplied | 2 replicas, 4 IDs, 2 configurations, 2 seeds, 2 layouts, replacements and deletes, a restart |
| `service` | AllOrNothing, BatchIsContiguous, SearchSeesWholeEntries, EveryCallReturns | an upsert of up to 2 vectors, a delete, a search, invalid requests, broken streams, unsent answers, failed saves, entries of another leader, 3 changes of leadership |

What they do *not* show is as important. ElectionSafety and
LeaderHasQuorumOfItsTerm hold only while campaigns do not overlap, those of one
candidate whose timer fires again included;
CommittedOnMajority, StateMachineSafety and NoTwoElectorates only while a single
node campaigns (no log is ever cut then); AppliedOnceInOrder only while Apply
refuses nothing; DiskHoldsLog says nothing of what stands on a disk *behind* the log;
PromisedSurvives holds only with crashes of one kind and without failing writes and
fsyncs (`Tolerated`). ContentsMatchLog, ReplicasAgree and
EveryAcceptedIsApplied say nothing about a log with an entry that is refused;
SearchFindsStored only about graphs of at most M + 1 nodes, in which no list
overflows. EveryCallReturns needs clients that do not stop in mid-stream.
AppliedAgree and HistoryLinearizable are about a single isolated node and a network
that is otherwise reliable; there the overlapping campaigns of `two_leaders` do not
arise.

The following runs drop such assumptions; each one ends in a violation, and is a
finding:

| Run | Violated | What the code does |
|---|---|---|
| `two_leaders` | ElectionSafety | `becomeFollower` clears the vote within a term (`node.go:217`), and every append calls it: a voter votes twice in a term |
| `unverified_match` | CommittedOnMajority | a heartbeat is acknowledged with the index of the last own entry, compared or not (`node.go:283`) |
| `torn_save` | RestartSucceeds | the commit index is saved before the entries (`storage.go:26`): RecoverNode refuses the disk of a host that died in between |
| `unknown_delete` | EveryCommittedIsApplied | a delete of an unknown ID is proposed like any other and refused when applied (`hnsw.go:230`): the drive returns before Advance (`host.go:169`), on every replica and for ever |

More can be seen with other constants of the same modules, or with a property that
is stated more strongly, and have no run of their own:

- Pre-votes and votes are counted in one set (`election.go:49`, `:89`), so a candidate
  whose timer fires again becomes leader with a pre-vote and fewer votes than a
  quorum: LeaderHasQuorumOfItsTerm fails with four voters, one campaigner,
  `OverlappingCampaigns = TRUE`, `MaxTerm = 2`, `MaxLog = 0`, `MaxInFlight = 3` and no
  crashes, against "counts votes and becomes leader once we have a quorum"
  (`election.go:83`).
- Persist only puts entries and never deletes one that was cut (`storage.go:29`), so
  a restart loads it again. DiskHoldsLog with an equality in the place of the inclusion
  (`Len(node[n].log) = Cardinality(DOMAIN stored[n])` added) fails with three voters,
  two campaigners that do not overlap, `MaxTerm = 2`, `MaxLog = 2` and
  `MaxInFlight = 3`, against "our entry and everything after it is dropped first"
  (`log.go:37-38`).
- A reopened log counts as synced (`wal.go:62`), so Sync acknowledges without an
  fsync what a crashed process left in the file: without `Tolerated`, PromisedSurvives
  fails with `FaultSets = {{"process", "power"}}`, against "Sync forces all writes so
  far onto disk" (`engine.go:100`).
- A failed write leaves part of a record in the log file (`wal.go:47-52`), and what
  is written and synced behind it is lost at the next replay: the same property
  fails with `FaultSets = {{"write"}}`, against "a crash cannot lose an acknowledged
  write (once synced)" (`engine.go:53-54`).
- The answer of `unverified_match` also commits a joint step that the old voters do
  not hold: with the constants of that run, `VoterChanges = {{n2}}` and
  `MaxInFlight = 2`, NoTwoElectorates fails, against "there is never a moment when
  two different groups could each elect a leader" (`confchange.go:17-18`).
- What was applied before a refused entry is applied again by the next drive
  (`host.go:169`): in `faults` with `MaxApplied = 2` AppliedOnceInOrder fails, against
  "Apply is called once for each committed entry, in order" (`host.go:15`). In the
  graph the repeated inserts draw new levels, so replicas whose drives began at
  different entries differ, and a vector deleted earlier in the drive is there again
  for a while: ReplicasAgree and ContentsMatchLog fail without AllAccepted.
- A node that comes back with an up-to-date log displaces a healthy leader, since
  nobody refuses a pre-vote because it hears from a leader, against "stops a node
  that was cut off from the group from forcing a new election" (`election.go:18-20`).
  Up to three healthy rounds pass without a write that everybody applied:
  HealthyRoundCommits fails with 3 in the place of 4.

Fairness is assumed where something must eventually happen, and only for what the
code or its surroundings keep doing:

- `DurableNode`: every replica is ticked for ever, hears of a commit in the end (a
  heartbeat carries the commit index), and a drive that has begun is a loop that goes
  on. The condition on the drive is stated for its position alone (`Proceed`):
  Apply and Refuse are the steps of a drive, and restarts are finitely many.
- `Torture`: one goroutine that nothing stops, so weak fairness of its progress.
- `Service`: weak fairness for each kind of step a goroutine makes without waiting,
  and for clients, who send, close or break their stream in the end; strong fairness
  for taking Host.mu and DurableNode.mu, which others take and leave meanwhile:
  Go's mutexes hand themselves to a waiter that has waited for a millisecond. Nothing
  is assumed about leadership, commits or the starting of calls.

Deadlock is checked in every run but those of `DurableNode`, whose log is finite: a
host that is up can always tick, a closed store can always be opened, a finished
torture run stays finished.

## 5. The proofs

TLAPS checks, for every value of the constants:

- `MembershipProofs`: two quorums of a configuration share a node
  (`QuorumsIntersect`); a quorum of a joint configuration meets every majority of
  the old and of the new voters (`JointQuorumMeetsOldAndNew`). They need only that
  the set of nodes is finite, and rest on the cardinality theorems of the library.
- `StorageProofs`: `TypeCorrect`, `MapIsLogged`, `SyncedWritesSurvive`, `MapIsReplay`
  and `EngineImplementsStore`, that is TypeOK, NothingUnlogged, PromisedSurvives,
  MemoryMatchesLog and the refinement of `KeyValueStore` (ImplementsStore), for every
  set of keys and values, every SyncEvery and a log of any length. The properties
  themselves ask for the faults the engine tolerates (`Tolerated`); TypeOK and
  NothingUnlogged hold for every fault.
- `RaftProofs`: `TypeCorrect`, `SavesBeforeSending`, `TermsNeverGoBack` and
  `MembershipFollowsLog`, that is TypeOK, SavedBeforeSent, TermNeverGoesBack and
  MembershipIsNewestConfig in every behaviour of `Raft`, with every loss, crash and
  disk error, overlapping campaigns, refused entries and voter changes. They need
  `NodeAssumption` and `EnvironmentAssumption`; the bounds occur as arbitrary
  naturals.
- `RaftReplicationProofs`, about `Raft` under the same assumptions and without any
  further one: `DiskFollowsLog` and `CommitNeedsQuorum`, that is DiskHoldsLog and
  CommitsWithQuorum; `LeadersFollowSteps`, that a leader only adds to its log and every
  configuration it adds follows from the newest one before it; and `AppendMatches`,
  about the operator AppendEntries: a follower that takes in a run of a leader's entries
  then agrees with the leader up to the last of them, and still matches every log that
  both of them matched.
- `ServiceProofs`: `UpsertsAreAllOrNothing`, `BatchesAreContiguous` and
  `SearchesSeeWholeEntries`, that is AllOrNothing, BatchIsContiguous and
  SearchSeesWholeEntries in every behaviour of `Service`, for any number of calls,
  streams of any length and any mutations of other leaders. They need
  `ServiceAssumption`, and no fairness.
- `DurableNodeProofs`: `DurableNodeTypeCorrect`, `LinksStaySound`, `EntryStaysHighest`,
  `ContentsFollowLog` and `ReplicasConverge`, that is TypeOK, LinksSound,
  EntryIsHighest, ContentsMatchLog and ReplicasAgree, for any number of replicas,
  nodes and levels, every valid configuration, every sequence of levels, vectors of
  any dimension, and logs, drives and restarts without a bound. They need
  `DurableNodeAssumption` (the types of the constants, settings that NewHNSW accepts,
  mutations whose IDs are not empty, which the service has checked), and no fairness.
  With `M = 1`, which NewHNSW accepts, the code draws levels that are no natural
  numbers (section 6): there the theorems say nothing about it.

In `RaftProofs`, the invariant TypeOK /\ SavedBeforeSent is not inductive. `IInv` adds

- `ReplicasOK`: every entry of a log is on the disk or among the unsaved entries
  under its own index, every queued message may go out *after the next save*,
  and a leader has a positive next index for every peer (with 0, `next - 1` would
  leave the naturals);
- `StoredByIndex`: an entry is stored under its own index, so that a recovered log
  is a log;
- `TermsAhead`: a running host is never behind the term on its disk;
- `NetConsecutive`: the entries of a message follow its index without a gap. It is
  why the error of a gap in `raftLog.append` can never occur, and why a
  follower that accepts entries holds all of them.

The argument has two halves. `RaftNodeProofs` shows for each handler, once, that
the replica it returns *follows* the one it was given (`Follows`: same node, no
older term, nothing held is lost, all that is queued may go out after a save),
and composes the calls by transitivity; `StepFollows` is the result for all
messages. `RaftProofs` then needs only one lemma for each way a drive ends
(`DriveStep`, `DriveRefusedStep`, `DriveFailsStep`, `DriveCrashesStep`), whatever
the input was.

In `StorageProofs`, `IInv` adds what the file looks like when a crash may have torn its
last record (`LogInv`: a torn record is only ever the last one, and an open store has
cut it off), and why an acknowledged sync is safe (`PromiseInv`: what was
acknowledged is the beginning of the file and, if the machine may die, lies in what
an fsync covered; a counter of 0 means that everything does). The second part
couples the counter with the file and is the one that a crash of both kinds breaks.
The refinement maps the writes that took effect to `Replayed(file)` and the number of
them that is safe to the length of `promised`; its lemmas are about replay: a prefix of the file, unchanged by what
is appended behind a torn record, cut exactly to it by Open.

MembershipIsNewestConfig is inductive together with this `IInv`. The work is in the two handlers that do not rescan the log in
every case: an entry that is no configuration leaves the newest one where it was
(`PlainEntryKeepsConfig`), and an append without entries leaves the log as it is.

`RaftReplicationProofs` is about any number of nodes that campaign and lead, with logs
that conflict and are cut, and every crash and error. `BackedInv` says, of every
replica against the disks, what `IInv` does not: *what* is on the disk, and what the
replicas believe of each other.

- `LogKept`: a save of everything unsaved would put the log on the disk, entry by
  entry with its term, over whatever is there. That is more than `ReplicasOK`, by which an
  entry of the log may be covered by a *different* one on the disk. It is not enough to
  say it of an empty `unstable`: a save may stop after any of its puts and be retried with newer
  entries, so what one index ends up with is decided by the last entry of that index
  (`WriteEntriesLast`), saving it twice changes nothing (`WriteAgain`), and entries added
  behind count after those before (`WriteMore`). `AcceptBacked` is where entries replace others:
  raftLog.append may cut the log, but what it writes is what is unsaved.
- `Matched`: what a replica believes another one to have matched, that one has on its
  disk. It holds because an answer stands on saved entries (SavedBeforeSent, from
  `RaftProofs`), disks never lose an index, and match only ever comes from an answer
  or is reset to 0.
- `Configured`: the voters in effect are the newest configuration (MembershipIsNewestConfig),
  without which a commit would be counted with a configuration of the past.

`StepBacked` says what each handler keeps, and of a leader that goes on leading what it
may have become (`Leads`); `HandleBacked` carries both through the ends of a drive,
which `HandleOutcome` reduces to three. DiskFollowsLog is `LogKept` with nothing
unsaved. CommitNeedsQuorum is the `Leads` of advanceCommit: the nodes it counts
are those of `Matched`, and a larger set of votes is still a quorum (`QuorumGrows`).
It is about entries *up to an index*, not about their content: that a follower has the same
entries there is what `unverified_match` refutes.

What is not proved about the replication is what the code does not keep for every
group. ElectionSafety, LeaderHasQuorumOfItsTerm, LogMatching, CommittedOnMajority,
StateMachineSafety, AppliedOnceInOrder, NoTwoElectorates and ConfigsAlternate are
checked in instances with a single campaigner or with campaigns that do not overlap,
and `two_leaders`, `unverified_match` and section 4 show several of them to fail without
that. A theorem would have to assume it, and nothing in the code does.

In `ServiceProofs`, the first two invariants say what the entries of an upsert look like
when it is over; `IInv` says it at every moment. `LockInv`: only the holder of
Service.mu is between its lock and its return, only the holder of Host.mu drives,
and a mutation runs only in a drive (so an error of apply always returns from the
call that drives). `CallInv`: an upsert has an answer only at its end, and stops
proposing with the end of what it received. `BatchInv`: its entries are an interval
of the log in the order of the stream, empty until it proposes, and the newest part
of the log while it goes on. The last part needs `LockInv`: nobody else proposes
meanwhile. There is one lemma per action; the returns share `ReturnIInv` and the two
actions that put an entry into the log `ProposalBatch`.

What a search sees stands on `DriveInv`. `GraphInv` says what the graph is between any
two steps, as long as no committed entry was refused: what the applied entries leave,
and in a drive what the entries before the current one leave, less its ID while
its mutation holds the lock. `ContentsStep` says that the mutation takes `Contents(i - 1)`
to `Contents(i)`, so a search, which gets the lock only between two mutations, finds one of
them. `CommittedKept` keeps its result true later: a change of leadership cuts only
what is not committed. NothingRefused is the hypothesis of the property itself; once
false it stays false (the other half of `CommittedKept`). It cannot be dropped: a retried
drive applies old entries to a newer graph. After insert a, delete a, insert b and a
second delete of a, which is refused, the retry shows a search both a and b, which no entry
leaves. (TLC finds this with two deletes and `MaxBatch = 1`.)

In `DurableNodeProofs`, the operations of the graph are folds: a list is sorted,
selected from, linked or repaired one element after the other. `IndexProofs` shows
that the recursive function behind a fold exists (`RecursionExists`, over any finite
set; `FoldDefined`) and that its result is the last of a sequence of stages, each a
step from the one before (`FoldSteps`). Every lemma about an operation then says
what its stages keep, by induction on their number (`IndexInduction`, which, unlike the
induction theorems of the library, takes a set and not an operator).

`SoundGraph` is what holds between two mutations: `TargetsSound` (a link leads to
another node of the graph on its level), `ListsShort` (no list is longer than M) and
`Highest` (the entry). It does *not* hold inside them, which is where the work is:

- `LinkLists`: a link makes one list longer, that of the node that is connected,
  and only the other one is cut back. So `ConnectLists` counts: the list grows by the
  number of links asked for. Repair asks for M less those it has (`RepairLevelSound`);
  Insert asks for M, and the list of the new node is empty on each level, since the
  levels above and below leave it alone (`LinkedSound`).
- `UnlinkedPrunes`: after the loop over all nodes and levels, no list has the deleted
  ID, although each step rewrites one list only and trims it: what one step removes
  none of the later ones brings back (`Pruned`). Only then is the graph without the node
  a graph whose links all have a target (`RemovedGraph`).
- `NewEntryHighest`: going through the IDs in order and keeping the first node above all
  before it ends at the highest level.

No proof uses what a distance is: they hold for the floating-point distances of the
code as well, as long as equal vectors give equal ones.

`IndexInv` adds what a replica has replayed. As long as no entry of the log is refused
(`AcceptedOf`), its graph holds the vectors of its position in the log, and is the
value that every replay of the log has there (`Replayed`). ContentsMatchLog is the first
half. ReplicasAgree follows from the second: two replicas are never compared with
each other but both with one replay, which exists (`ReplayExists`). The case of an
entry that is refused inside a log without one is contradictory: what the graph
holds is what the entries before it leave (`ReplayedAccepts`, `RefuseStep`). The vectors of
the log after one entry more are those of `VectorsOfNext`, which is about the *newest* entry of each ID.

Only model-checked: the properties of the replication named above, and AppliedWasAccepted
(in the instance of `faults`); the cluster and the torture test; of the
index that a search finds what is stored, and of the service that calls return. Out of
the prover's reach altogether: liveness under fairness and ENABLED, and what a
recursive definition computes for every input (the walk of a search). `Torture` (the
checker) declares recursive operators, so nothing can be proved about it or in a
module that uses it; no other module does.

## 6. Not modelled, and the plan

Not modelled: AddKnownPeer and AddPeer (peers are fixed), Close of a host, the
framing and the deadlines of the transport, rounding and NaN in distances, the
level formula (`M = 1` divides by `log 1`), flags and wiring of the commands,
benchmarks, the demo client and generated code. The specifications the repository
keeps (`specs/`) are older sketches, not code.

What would come next, in this order:

1. *Proofs*: what an acknowledgement means by content. Answers to appends that carried
   entries stand on entries that match the sender's log (`AppendMatches`); only the
   answer to a heartbeat does not. With that told apart, what a follower has acknowledged could be
   shown to match the log of the leader it answers.
2. *New nodes*: AddKnownPeer and AddPeer, with peers per node, and the join of an
   empty learner; the next index of an unknown peer.
3. *Liveness of voter changes* on `Cluster`: a voter that does not know it is one
   (`election.go:33`), a group with one voter (`:23`), a leader that steps down with its
   last configuration (`node.go:357`).
4. *An abstract log* (a sequence of committed entries that only grows) that the
   instances of one campaigner are shown to refine, as a PROPERTY of `replication`.
