------------------------------- MODULE Torture -------------------------------
(***************************************************************************)
(* The torture test: the program cmd/torture drives a Cluster through      *)
(* rounds of one tick, one write and one read each, under the windows of   *)
(* isolation that harness/torture/nemesis.py chooses, and records what a   *)
(* client would have seen; harness/torture/checker decides whether that    *)
(* history is linearizable.                                                *)
(***************************************************************************)
EXTENDS Cluster

CONSTANTS
  Rounds,      \* the rounds of the run
  MinWindow,   \* MIN_WINDOW: rounds a node stays isolated, at least
  WarmUp       \* ticks on a healthy network before the first round

ASSUME TortureAssumption ==
  /\ {Rounds, MinWindow, WarmUp} \subseteq Nat
  /\ 0..Rounds - 1 \subseteq Command   \* the value of a round is its number

VARIABLES
  pc,        \* what main does next
  round,     \* the number of the round, or of the tick while warming up
  isolated,  \* the target of the fault of this round, or None
  window,    \* the rounds, this one included, the target has been isolated for
  healthy,   \* the rounds, this one included, since the last fault
  writer,    \* the leader the write of this round went to
  logical,   \* the clock of the history
  history    \* what the client saw

driverVars == <<pc, round, isolated, window, healthy, writer, logical, history>>
vars == <<clusterVars, driverVars>>

NoValue == -1   \* the null of a read before any write

Write(t, v) ==
  [invocation |-> t, response |-> t + 1, kind |-> "write", value |-> v]
Read(t, v) ==
  [invocation |-> t, response |-> t + 1, kind |-> "read", value |-> v]

LastApplied(n) ==
  IF applied[n] = <<>> THEN NoValue ELSE Last(applied[n]).command

Init ==
  /\ ClusterInit
  /\ pc = "warmup"
  /\ round = 0
  /\ isolated = None
  /\ window = 0
  /\ healthy = 0
  /\ writer = None
  /\ logical = 0
  /\ history = <<>>

-----------------------------------------------------------------------------

\* Three ticks to elect a leader.
WarmUpTick ==
  /\ pc = "warmup" /\ round < WarmUp
  /\ TickFiltered(None)
  /\ round' = round + 1
  /\ UNCHANGED <<pc, isolated, window, healthy, writer, logical, history>>

WarmedUp ==
  /\ pc = "warmup" /\ round = WarmUp /\ ~calling
  /\ pc' = "tick"
  /\ round' = 0
  /\ UNCHANGED <<clusterVars, isolated, window, healthy, writer, logical, history>>

\* The schedule: a node is isolated for a whole window, then a new window may
\* begin, with any node, or a healthy round comes.
Schedule(target) ==
  \/ target = isolated /\ target # None
  \/ isolated = None \/ window >= MinWindow

\* Every round begins with a tick under its fault.
RoundTick(target) ==
  /\ pc = "tick" /\ round < Rounds
  /\ Schedule(target)
  /\ TickFiltered(target)
  /\ isolated' = target
  /\ window' = IF target = None THEN 0 ELSE IF target = isolated THEN window + 1 ELSE 1
  /\ healthy' = IF target = None THEN healthy + 1 ELSE 0
  /\ pc' = "write"
  /\ UNCHANGED <<round, writer, logical, history>>

\* No leader: the round ends without an operation.
SkipRound ==
  /\ pc = "write" /\ ~calling
  /\ Leader = {}
  /\ pc' = "tick"
  /\ round' = round + 1
  /\ writer' = None
  /\ UNCHANGED <<clusterVars, isolated, window, healthy, logical, history>>

\* The write goes to the leader, "even if the fault just cut it off".
SendWrite(leader) ==
  /\ pc = "write"
  /\ leader \in Leader
  /\ ProposeFiltered(leader, round, isolated)
  /\ writer' = leader
  /\ pc' = "read"
  /\ UNCHANGED <<round, isolated, window, healthy, logical, history>>

\* The write is recorded if it is what the leader applied last.
Recorded ==
  IF LastApplied(writer) = round THEN Append(history, Write(logical, round)) ELSE history

\* The read, from whoever is leader now; it begins when the write ends. Some
\* node still leads: a proposal makes no leader step down (otherwise the run
\* would stop here, in a deadlock), so the code never skips the read.
RecordRead(leader) ==
  /\ pc = "read" /\ ~calling
  /\ leader \in Leader
  /\ history' = Append(Recorded, Read(logical + 1, LastApplied(leader)))
  /\ logical' = logical + 3
  /\ pc' = "tick"
  /\ round' = round + 1
  /\ UNCHANGED <<clusterVars, isolated, window, healthy, writer>>

\* The last round is over: the report is printed.
Finish ==
  /\ pc = "tick" /\ round = Rounds /\ ~calling
  /\ pc' = "done"
  /\ UNCHANGED <<clusterVars, round, isolated, window, healthy, writer, logical, history>>

Driver ==
  \/ WarmUpTick
  \/ WarmedUp
  \/ \E target \in Node \cup {None} : RoundTick(target)
  \/ SkipRound
  \/ \E leader \in Node : SendWrite(leader) \/ RecordRead(leader)
  \/ Finish

Next ==
  \/ Driver
  \/ Deliver /\ UNCHANGED driverVars
  \/ pc = "done" /\ UNCHANGED vars

\* What every step but the last one changes: where the program is.
Proceed ==
  /\ pc # "done"
  /\ \E p \in {"warmup", "tick", "write", "read", "done"} : pc' = p
  /\ \E t \in SUBSET Node : todo' = t
  /\ \E b \in BOOLEAN : calling' = b

\* One goroutine, which nothing stops.
Spec == Init /\ [][Next]_vars /\ WF_<<pc, todo, calling>>(Proceed)

-----------------------------------------------------------------------------
(* The checker: "the operations can be put in one order such that every    *)
(* read returns the value of the latest write before it in that order, and *)
(* an operation that finished before another began stays before it".       *)

\* op i may come next once everything that ended before it began is placed.
MayComeNext(ops, done, i) ==
  \A j \in DOMAIN ops \ done : ops[j].response >= ops[i].invocation

RECURSIVE Explained(_, _, _)
Explained(ops, done, value) ==
  \/ done = DOMAIN ops
  \/ \E i \in DOMAIN ops \ done :
       /\ MayComeNext(ops, done, i)
       /\ ops[i].kind = "read" => ops[i].value = value
       /\ Explained(ops, done \cup {i}, ops[i].value)

IsLinearizable(ops) == Explained(ops, {}, NoValue)

-----------------------------------------------------------------------------
(* What the torture test expects of the cluster.                           *)

RoundIsOver == pc = "tick" /\ ~calling

\* "It could have come from a single correct copy of the data", whatever was
\* cut off and came back, and in whatever order the nodes were visited.
HistoryLinearizable == RoundIsOver => IsLinearizable(history)

\* "An isolated leader cannot reach a quorum, so its write must not commit."
IsolatedWriteUncommitted ==
  RoundIsOver /\ writer # None /\ writer = isolated =>
    \A n \in Node : \A i \in DOMAIN applied[n] : applied[n][i].command # round - 1

\* "The isolated node's term cannot pass the majority's" (cluster.go, Leader).
IsolatedTermStaysBehind ==
  ~calling /\ cut # None =>
    \E n \in Node \ {cut} : node[cut].term <= node[n].term

\* What two nodes have applied never differs, only its length.
AppliedAgree ==
  \A a, b \in Node : IsPrefix(applied[a], applied[b]) \/ IsPrefix(applied[b], applied[a])

\* Elections and replication recover from every schedule: the fourth healthy
\* round in a row ends with its write applied by every node.
HealthyRoundCommits ==
  RoundIsOver /\ healthy >= 4 => \A n \in Node : LastApplied(n) = round - 1

\* Deliver returns from every call, "until none are left", and the run ends.
RunEnds == <>(pc = "done")

=============================================================================
