------------------------------- MODULE Cluster -------------------------------
(***************************************************************************)
(* The in-process group of internal/raft/cluster.go: the replicas of       *)
(* RaftNode without disks, ticked together by a caller, with a network that*)
(* passes messages by function calls until nobody has one left to send.    *)
(* Nothing runs concurrently; the order in which Go iterates over the map  *)
(* of nodes, a new one for every loop, is the only choice.                 *)
(*                                                                         *)
(* A call Tick or Propose leaves messages to send and returns after the    *)
(* loop of DeliverFiltered, whose steps are Visit, NextPass and Return. The*)
(* module that makes the calls says when.                                  *)
(***************************************************************************)
EXTENDS RaftNode, SequencesExt

ASSUME NodesAreNumbered == Node = 1..Cardinality(Node)

VARIABLES
  node,      \* the replica of every node
  elapsed,   \* electionElapsed of every node; 0 for a leader, which ignores it
  applied,   \* the data every node has applied, in order
  cut,       \* the node the filter of the call isolates, or None
  todo,      \* the nodes this pass of the delivery loop has still to visit
  progress,  \* whether a message got through in this pass
  calling    \* whether a call is under way

clusterVars == <<node, elapsed, applied, cut, todo, progress, calling>>

\* Seeded mistake: every node has the same election timeout.
SameElectionTick(n) == 3

\* "Each node gets a slightly different election timeout"; HeartbeatTick is 1.
ElectionTick(n) == 3 + (n - 1)

ClusterInit ==
  /\ node = [n \in Node |-> NewNode(n)]
  /\ elapsed = [n \in Node |-> 0]
  /\ applied = [n \in Node |-> <<>>]
  /\ cut = None
  /\ todo = {}
  /\ progress = FALSE
  /\ calling = FALSE

-----------------------------------------------------------------------------
(* The clock of a node (node.go, election.go).                             *)

IsLeader(n) == node[n].role = "Leader"

\* A leader sends a heartbeat with every tick; a voter campaigns in time.
Campaigns(n) ==
  /\ ~IsLeader(n)
  /\ IsVoter(node[n], n)
  /\ elapsed[n] + 1 >= ElectionTick(n)

TickNode(n) ==
  IF IsLeader(n) THEN BroadcastAppend(node[n])
  ELSE IF Campaigns(n) THEN StartPreVote(node[n])
  ELSE node[n]

TickClock(n) == IF IsLeader(n) \/ Campaigns(n) THEN 0 ELSE elapsed[n] + 1

\* The messages that start the clock of replica s again: those that make it a
\* follower, and a request for votes it grants.
StartsClock(s, m) ==
  \/ m.term > s.term /\ m.type \notin {"PreVote", "PreVoteResp"}
  \/ m.type = "Append" /\ m.term >= s.term
  \/ /\ m.type = "Vote"
     /\ IsVoter(s, s.id)
     /\ s.vote \in {None, m.from}
     /\ LogUpToDate(s, m.index, m.logTerm)

-----------------------------------------------------------------------------
(* The calls.                                                              *)

StartDelivery(isolated) ==
  /\ cut' = isolated
  /\ todo' = Node
  /\ progress' = FALSE
  /\ calling' = TRUE

\* TickFiltered, with the filter that isolates a node, and Tick with None.
TickFiltered(isolated) ==
  /\ ~calling
  /\ node' = [n \in Node |-> TickNode(n)]
  /\ elapsed' = [n \in Node |-> TickClock(n)]
  /\ StartDelivery(isolated)
  /\ UNCHANGED applied

\* ProposeFiltered; the node accepts it only as a leader.
ProposeFiltered(n, c, isolated) ==
  /\ ~calling
  /\ IsLeader(n)
  /\ node' = [node EXCEPT ![n] = ProposeInternal(@, CommandData(c))]
  /\ StartDelivery(isolated)
  /\ UNCHANGED <<elapsed, applied>>

\* Seeded mistake: a message is only dropped between two isolated nodes.
DeliversEither(m) == m.from # cut \/ m.to # cut

Delivers(m) == m.from # cut /\ m.to # cut

\* A replica and its clock after a message.
Received(state, m) ==
  [replica |-> Step(state.replica, m),
   clock |-> IF StartsClock(state.replica, m) \/ Step(state.replica, m).role = "Leader"
               THEN 0 ELSE state.clock]

\* What may become of node p when n has its turn: n applies and advances, and
\* any other node gets what n has for it, in some order (the messages of a
\* replica are a set).
Outcomes(n, p) ==
  LET unchanged == [replica |-> node[p], clock |-> elapsed[p]]
  IN IF p = n
       THEN {[unchanged EXCEPT !.replica = Advance(@)]}
       ELSE {FoldLeft(Received, unchanged, order) :
               order \in SetToSeqs({m \in node[n].msgs : m.to = p /\ Delivers(m)})}

\* One turn of the inner loop, for node n.
Visit(n) ==
  /\ calling
  /\ n \in todo
  /\ \E outcome \in [Node -> UNION {Outcomes(n, p) : p \in Node}] :
       /\ \A p \in Node : outcome[p] \in Outcomes(n, p)
       /\ node' = [p \in Node |-> outcome[p].replica]
       /\ elapsed' = [p \in Node |-> outcome[p].clock]
  /\ progress' = (progress \/ \E m \in node[n].msgs : Delivers(m))
  /\ applied' = [applied EXCEPT
       ![n] = @ \o [k \in DOMAIN CommittedEntries(node[n]) |->
                      CommittedEntries(node[n])[k].data]]
  /\ todo' = todo \ {n}
  /\ UNCHANGED <<cut, calling>>

\* "until none are left": another pass after one in which a message got through.
NextPass ==
  /\ calling
  /\ todo = {}
  /\ progress
  /\ todo' = Node
  /\ progress' = FALSE
  /\ UNCHANGED <<node, elapsed, applied, cut, calling>>

Return ==
  /\ calling
  /\ todo = {}
  /\ ~progress
  /\ calling' = FALSE
  /\ UNCHANGED <<node, elapsed, applied, cut, todo, progress>>

Deliver == (\E n \in Node : Visit(n)) \/ NextPass \/ Return

-----------------------------------------------------------------------------
(* The queries.                                                            *)

Claiming == {n \in Node : IsLeader(n)}

\* Seeded mistake: any node that claims to lead, as an earlier version did.
AnyClaiming == Claiming

\* The results Leader may return: of those that claim to lead, the highest term.
Leader == {n \in Claiming : \A p \in Claiming : node[p].term <= node[n].term}

=============================================================================
