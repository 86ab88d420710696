----------------------------- MODULE DurableNode -----------------------------
(***************************************************************************)
(* Replicas of the vector index (internal/ann/durable.go, persist.go): each*)
(* applies the mutations of the Raft log, in order, to its own graph. The  *)
(* graph is never saved: a restarted replica replays the log from the first*)
(* entry into an empty one.                                                *)
(*                                                                         *)
(* That the committed entries form one log is the subject of RaftSafety.   *)
(* Here log is that log, and a replica goes through it in drives: the loop *)
(* of driveLocked (internal/raft/host.go) over the entries committed since *)
(* the last Advance, which a refused entry ends without an Advance.        *)
(***************************************************************************)
EXTENDS HNSW

CONSTANTS
  Replica,       \* the nodes of the group
  Configs,       \* the index settings a group may be started with
  Seeds,         \* the level sequences its Seed may stand for
  LoadedLogs,    \* the logs the group may have at the start
  Mutation,      \* the mutations that are proposed after that
  MaxLog,        \* nothing is proposed to a log of this length
  MaxDrive,      \* the most entries one drive applies
  MaxRestarts    \* the most restarts, of any replica

InsertOf(id, v) == [operation |-> "insert", id |-> id, vector |-> v]
DeleteOf(id) == [operation |-> "delete", id |-> id]

\* Inserts and deletes; the service rejects an empty ID.
Mutations ==
  [operation : {"insert"}, id : Nat \ {NoID}, vector : Seq(Int)]
    \cup [operation : {"delete"}, id : Nat \ {NoID}]

ASSUME DurableNodeAssumption ==
  /\ Configs \subseteq [M : Nat, EFConstruction : Nat, EFSearch : Nat]
  /\ \A cfg \in Configs : ValidConfig(cfg)
  /\ Seeds \subseteq Seq(Nat) \ {<<>>}
  /\ LoadedLogs \subseteq Seq(Mutations)
  /\ Mutation \subseteq Mutations
  /\ {MaxLog, MaxDrive, MaxRestarts} \subseteq Nat

VARIABLES
  config,     \* the index settings, the same on every replica
  seed,       \* the levels its Seed stands for
  log,        \* the committed mutations
  index,      \* the graph of every replica
  advanced,   \* raftLog.applied: where the next drive starts
  at, last,   \* the entry a drive is about to apply, and its last one; or 0
  restarts

vars == <<config, seed, log, index, advanced, at, last, restarts>>

Init ==
  /\ config \in Configs
  /\ seed \in Seeds
  /\ log \in LoadedLogs
  /\ index = [r \in Replica |-> NewHNSW(config, seed)]
  /\ advanced = [r \in Replica |-> 0]
  /\ at = [r \in Replica |-> 0]
  /\ last = [r \in Replica |-> 0]
  /\ restarts = 0

-----------------------------------------------------------------------------
(* The state machine (persist.go).                                         *)

\* Deleting an unknown ID is an error; a valid insert never is.
Accepts(h, m) == m.operation = "insert" \/ m.id \in IDs(h)

ApplyMutation(h, m) ==
  IF m.operation = "insert" THEN Insert(h, m.id, m.vector) ELSE Delete(h, m.id)

-----------------------------------------------------------------------------
(* The replicas.                                                           *)

\* A mutation is proposed at the leader and commits.
Commit(m) ==
  /\ Len(log) < MaxLog
  /\ log' = Append(log, m)
  /\ UNCHANGED <<config, seed, index, advanced, at, last, restarts>>

\* Seeded mistake: a drive leaves the newest entry it knows to the next one.
StartDriveLate(r, c) ==
  /\ at[r] = 0
  /\ advanced[r] < c /\ c < Len(log)
  /\ c - advanced[r] <= MaxDrive
  /\ at' = [at EXCEPT ![r] = advanced[r] + 1]
  /\ last' = [last EXCEPT ![r] = c]
  /\ UNCHANGED <<config, seed, log, index, advanced, restarts>>

\* A drive with the entries up to c, as far as the replica knows the commit.
StartDrive(r, c) ==
  /\ at[r] = 0
  /\ advanced[r] < c /\ c <= Len(log)
  /\ c - advanced[r] <= MaxDrive
  /\ at' = [at EXCEPT ![r] = advanced[r] + 1]
  /\ last' = [last EXCEPT ![r] = c]
  /\ UNCHANGED <<config, seed, log, index, advanced, restarts>>

\* apply of one entry; with the last one the drive advances and ends.
Apply(r) ==
  /\ at[r] # 0
  /\ Accepts(index[r], log[at[r]])
  /\ index' = [index EXCEPT ![r] = ApplyMutation(@, log[at[r]])]
  /\ advanced' = [advanced EXCEPT ![r] = IF at[r] = last[r] THEN at[r] ELSE @]
  /\ at' = [at EXCEPT ![r] = IF @ = last[r] THEN 0 ELSE @ + 1]
  /\ last' = [last EXCEPT ![r] = IF at[r] = @ THEN 0 ELSE @]
  /\ UNCHANGED <<config, seed, log, restarts>>

\* The graph refuses an entry: the drive ends before Advance, and the next
\* one starts with its first entry again.
Refuse(r) ==
  /\ at[r] # 0
  /\ ~Accepts(index[r], log[at[r]])
  /\ at' = [at EXCEPT ![r] = 0]
  /\ last' = [last EXCEPT ![r] = 0]
  /\ UNCHANGED <<config, seed, log, index, advanced, restarts>>

\* Seeded mistake: what was committed before the restart counts as applied.
ReplayFromEnd(r) ==
  /\ restarts < MaxRestarts
  /\ restarts' = restarts + 1
  /\ index' = [index EXCEPT ![r] = NewHNSW(config, seed)]
  /\ at' = [at EXCEPT ![r] = 0]
  /\ last' = [last EXCEPT ![r] = 0]
  /\ UNCHANGED <<config, seed, log, advanced>>

\* The process ends and NewDurableNode opens the same directory.
Restart(r) ==
  /\ restarts < MaxRestarts
  /\ restarts' = restarts + 1
  /\ index' = [index EXCEPT ![r] = NewHNSW(config, seed)]
  /\ advanced' = [advanced EXCEPT ![r] = 0]
  /\ at' = [at EXCEPT ![r] = 0]
  /\ last' = [last EXCEPT ![r] = 0]
  /\ UNCHANGED <<config, seed, log>>

Next ==
  \/ \E m \in Mutation : Commit(m)
  \/ \E r \in Replica :
       \/ \E c \in 1..MaxLog : StartDrive(r, c)
       \/ Apply(r)
       \/ Refuse(r)
       \/ Restart(r)

\* What a drive does to its position: enabled whenever a drive is under way,
\* and a step of it is Apply, Refuse or one of finitely many restarts.
Proceed(r) ==
  /\ at[r] # 0
  /\ \E k \in 0..MaxLog : at' = [at EXCEPT ![r] = k]

\* Every replica is ticked for ever (cmd/consensa/main.go), hears of every
\* commit in the end, and a drive that has begun goes on.
Fairness ==
  \A r \in Replica :
    /\ WF_vars(\E c \in 1..MaxLog : StartDrive(r, c))
    /\ WF_at(Proceed(r))

Spec == Init /\ [][Next]_vars /\ Fairness

-----------------------------------------------------------------------------
(* What the index promises.                                                *)

\* The mutations a graph holds: those before the entry the drive has come to.
Position(r) == IF at[r] = 0 THEN advanced[r] ELSE at[r] - 1

\* The vectors the first n mutations of the log leave, by ID.
Vectors(n) ==
  LET ids == {log[i].id : i \in 1..n}
      newest(id) == CHOOSE i \in 1..n :
                      log[i].id = id /\ \A j \in i + 1..n : log[j].id # id
  IN [id \in {j \in ids : log[newest(j)].operation = "insert"} |->
        log[newest(id)].vector]

\* No entry among the first n is refused.
AllAccepted(n) ==
  \A i \in 1..n : log[i].operation = "delete" => log[i].id \in DOMAIN Vectors(i - 1)

Level(h, id) == h.nodes[id].level

\* The shape of the Go types.
TypeOK ==
  /\ \A r \in Replica :
       /\ index[r].entry \in IDs(index[r]) \cup {NoID}
       /\ index[r].maxLevel >= -1
       /\ \A id \in IDs(index[r]) :
            DOMAIN index[r].nodes[id].neighbors = 0..Level(index[r], id)
       /\ {advanced[r], at[r], last[r]} \subseteq Nat
       /\ advanced[r] <= Len(log) /\ at[r] <= last[r] /\ last[r] <= Len(log)

\* Whatever is inserted, replaced and deleted: the links of a level lead to
\* other nodes that are in the graph and on that level, so that no distance
\* is computed to a node that is gone, and a node keeps at most M per level.
LinksSound ==
  \A r \in Replica : \A a \in IDs(index[r]) : \A l \in 0..Level(index[r], a) :
    LET list == Neighbors(index[r], a, l)
    IN /\ Len(list) <= config.M
       /\ \A b \in ToSet(list) :
            b # a /\ b \in IDs(index[r]) /\ Level(index[r], b) >= l

\* "node where every search starts (it has the highest level)", "-1 when the
\* graph is empty".
EntryIsHighest ==
  \A r \in Replica :
    IF IDs(index[r]) = {}
      THEN index[r].maxLevel = -1
      ELSE /\ index[r].entry \in IDs(index[r])
           /\ index[r].maxLevel = Level(index[r], index[r].entry)
           /\ \A id \in IDs(index[r]) : Level(index[r], id) <= index[r].maxLevel

\* The graph holds the vectors its part of the log leaves, after every insert,
\* replacement, delete and replay; unless the log has an entry it refuses.
ContentsMatchLog ==
  AllAccepted(Len(log)) =>
    \A r \in Replica :
      Vectors(Position(r)) = [id \in IDs(index[r]) |-> index[r].nodes[id].v]

\* "The same mutation sequence and the same Config.Seed": replicas that have
\* come equally far have the same graph, also after a restart, wherever their
\* drives began and ended; unless the log has an entry they refuse.
ReplicasAgree ==
  AllAccepted(Len(log)) =>
    \A a, b \in Replica : Position(a) = Position(b) => index[a] = index[b]

\* With lists that never overflow, a search that is wide enough finds every
\* vector the graph holds, whatever was deleted and repaired before.
SearchFindsStored ==
  \A r \in Replica :
    Cardinality(IDs(index[r])) <= config.M + 1 =>
      \A id \in IDs(index[r]) :
        LET v == index[r].nodes[id].v
            found == Search(index[r], v, Cardinality(IDs(index[r])), Cardinality(IDs(index[r])))
        IN id \in ToSet(found)

\* Every replica catches up with the log, unless an entry of it is refused.
EveryAcceptedIsApplied ==
  \A r \in Replica : []<>(advanced[r] = Len(log) \/ ~AllAccepted(Len(log)))

\* "Every replica applies it to its own HNSW graph": what is committed is
\* applied in the end.
EveryCommittedIsApplied == \A r \in Replica : []<>(advanced[r] = Len(log))

=============================================================================
