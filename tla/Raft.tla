-------------------------------- MODULE Raft --------------------------------
(***************************************************************************)
(* A group of Raft hosts: every host owns one replica (RaftNode), saves    *)
(* its state to its disk before it sends (host.go, storage.go), and sends  *)
(* over a network that loses, delays and reorders (tcp.go: one short-lived *)
(* connection and one goroutine per message). Hosts crash, also in the     *)
(* middle of a save, and restart from what their disk holds.               *)
(*                                                                         *)
(* The mutex of the host makes the handling of one tick, message or        *)
(* proposal together with driveLocked one step.                            *)
(***************************************************************************)
EXTENDS RaftNode

CONSTANTS
  Campaigners,           \* the nodes whose election timer may fire
  OverlappingCampaigns,  \* FALSE: only while no other campaign is under way
  Crashers,              \* the nodes that may crash
  FailingDisks,          \* the nodes whose disk may report an error
  VoterChanges,          \* the voter sets ProposeConfChange may be called with
  Refused,               \* the commands for which Apply reports an error
  MaxTerm,               \* no election timer fires at a node of this term
  MaxLog,                \* no client proposes to a leader with this long a log
  MaxApplied,            \* a refusal is retried only up to this many applied
  MaxUnsaved,            \* no error is met with more entries than this unsaved
  MaxInFlight            \* messages in the network: the others are lost

ASSUME EnvironmentAssumption ==
  /\ Campaigners \subseteq Node
  /\ OverlappingCampaigns \in BOOLEAN
  /\ Crashers \subseteq Node
  /\ FailingDisks \subseteq Node
  /\ VoterChanges \subseteq (SUBSET Node) \ {{}}
  /\ Refused \subseteq Command
  /\ {MaxTerm, MaxLog, MaxApplied, MaxUnsaved, MaxInFlight} \subseteq Nat

VARIABLES
  node,     \* the replica of every host, the fresh one while the host is down
  up,       \* whether the host runs
  hard,     \* the hard state on its disk: term, vote and commit
  stored,   \* the log entries on its disk, by index
  applied,  \* what driveLocked went through since the start, in order
  net       \* the messages in flight

vars == <<node, up, hard, stored, applied, net>>

HardState == [term : Nat, vote : Node \cup {None}, commit : Nat]

Init ==
  /\ node = [n \in Node |-> NewNode(n)]
  /\ up = [n \in Node |-> TRUE]
  /\ hard = [n \in Node |-> [term |-> 0, vote |-> None, commit |-> 0]]
  /\ stored = [n \in Node |-> <<>>]
  /\ applied = [n \in Node |-> <<>>]
  /\ net = {}

-----------------------------------------------------------------------------
(* Saving: Persist puts the hard state, then the entries one by one.       *)

HardStateOf(s) == [term |-> s.term, vote |-> s.vote, commit |-> s.committed]

\* The entries es written over the stored ones; of two for one index the
\* last one stays. Nothing is ever deleted.
WriteEntries(entries, es) ==
  LET written == {es[k].index : k \in 1..Len(es)}
      writes(i) == {k \in 1..Len(es) : es[k].index = i}
      last(i) == CHOOSE k \in writes(i) : \A j \in writes(i) : j <= k
  IN [i \in DOMAIN entries \cup written |->
        IF i \in written THEN es[last(i)] ELSE entries[i]]

\* The number of puts of one Persist, and what the first k of them leave.
Puts(s) == 1 + Len(s.unstable)

\* Seeded mistake: the hard state is only saved along with entries.
SaveWithEntriesOnly(n, s, k) ==
  /\ hard' = [hard EXCEPT ![n] = IF k >= 2 THEN HardStateOf(s) ELSE @]
  /\ stored' = [stored EXCEPT ![n] = WriteEntries(@, SubSeq(s.unstable, 1, k - 1))]

Save(n, s, k) ==
  /\ hard' = [hard EXCEPT ![n] = IF k >= 1 THEN HardStateOf(s) ELSE @]
  /\ stored' = [stored EXCEPT ![n] = WriteEntries(@, SubSeq(s.unstable, 1, k - 1))]

\* A send to a host that is down fails; any other message may get lost too.
Transmit(messages, rest) ==
  \E sent \in SUBSET {m \in messages : up[m.to]} :
    /\ Cardinality(rest \cup sent) <= MaxInFlight
    /\ net' = rest \cup sent

\* The positions among the committed entries that Apply would refuse; the
\* entries internal to Raft are not passed to it.
Refusals(s) ==
  {k \in 1..Len(CommittedEntries(s)) :
     LET data == CommittedEntries(s)[k].data
     IN ~IsInternal(data) /\ data.command \in Refused}

\* driveLocked, from the replica s a handler left and the messages rest still
\* in flight: save, send, apply, advance.
Drive(n, s, rest) ==
  /\ Refusals(s) = {}
  /\ Save(n, s, Puts(s))
  /\ Transmit(s.msgs, rest)
  /\ applied' = [applied EXCEPT ![n] = @ \o CommittedEntries(s)]
  /\ node' = [node EXCEPT ![n] = Advance(s)]
  /\ UNCHANGED up

\* Seeded mistake: the error is swallowed and the refused entry skipped.
DriveRefusedAdvances(n, s, rest) ==
  /\ Save(n, s, Puts(s))
  /\ Transmit(s.msgs, rest)
  /\ \E k \in Refusals(s) :
       applied' = [applied EXCEPT
                     ![n] = @ \o SubSeq(CommittedEntries(s), 1, k - 1)]
  /\ node' = [node EXCEPT ![n] = Advance(s)]
  /\ UNCHANGED up

\* Apply refuses an entry: driveLocked returns before Advance, so the next
\* drive saves, sends and applies everything of this one again.
DriveRefused(n, s, rest) ==
  /\ Len(s.unstable) <= MaxUnsaved
  /\ Save(n, s, Puts(s))
  /\ Transmit(s.msgs, rest)
  /\ \E k \in Refusals(s) :
       /\ \A j \in Refusals(s) : k <= j
       /\ Len(applied[n]) + k - 1 <= MaxApplied
       /\ applied' = [applied EXCEPT
                         ![n] = @ \o SubSeq(CommittedEntries(s), 1, k - 1)]
  /\ node' = [node EXCEPT ![n] = s]
  /\ UNCHANGED up

\* Seeded mistake: the messages leave before the error shows.
DriveFailsAfterSending(n, s, rest) ==
  /\ n \in FailingDisks
  /\ Len(s.unstable) <= MaxUnsaved
  /\ \E k \in 0..Puts(s) : Save(n, s, k)
  /\ Transmit(s.msgs, rest)
  /\ node' = [node EXCEPT ![n] = s]
  /\ UNCHANGED <<up, applied>>

\* Persist reports an error: nothing is sent, applied or advanced, and the
\* next drive retries all of it.
DriveFails(n, s, rest) ==
  /\ n \in FailingDisks
  /\ Len(s.unstable) <= MaxUnsaved
  /\ \E k \in 0..Puts(s) : Save(n, s, k)
  /\ node' = [node EXCEPT ![n] = s]
  /\ net' = rest
  /\ UNCHANGED <<up, applied>>

\* The process dies; what waited in its sockets dies with it.
Die(n, messages) ==
  /\ node' = [node EXCEPT ![n] = NewNode(n)]
  /\ up' = [up EXCEPT ![n] = FALSE]
  /\ applied' = [applied EXCEPT ![n] = <<>>]
  /\ net' = {m \in messages : m.to # n}

\* The process dies inside Persist, after k of its puts.
DriveCrashes(n, s, rest) ==
  /\ n \in Crashers
  /\ \E k \in 1..Puts(s) : Save(n, s, k)
  /\ Die(n, rest)

Handle(n, s, rest) ==
  \/ Drive(n, s, rest)
  \/ DriveRefused(n, s, rest)
  \/ DriveFails(n, s, rest)
  \/ DriveCrashes(n, s, rest)

-----------------------------------------------------------------------------
(* The steps of a host.                                                    *)

\* Tick of a leader whose heartbeat is due.
Heartbeat(n) ==
  /\ up[n]
  /\ node[n].role = "Leader"
  /\ Handle(n, BroadcastAppend(node[n]), net)

\* Tick of a voter that has heard nothing from a leader for too long.
ElectionTimeout(n) ==
  /\ up[n]
  /\ node[n].role # "Leader"
  /\ IsVoter(node[n], n)
  /\ Handle(n, StartPreVote(node[n]), net)

\* Tick with no timer due: it drives what an earlier drive left behind.
IdleTick(n) ==
  /\ up[n]
  /\ Handle(n, node[n], net)

\* One message reaches its destination.
Receive(m) ==
  /\ up[m.to]
  /\ Handle(m.to, Step(node[m.to], m), net \ {m})

\* Propose: only a leader accepts it.
Propose(n, c) ==
  /\ up[n]
  /\ node[n].role = "Leader"
  /\ Len(node[n].log) < MaxLog
  /\ Handle(n, ProposeInternal(node[n], CommandData(c)), net)

\* Seeded mistake: a second change may start while the first one is joint.
ProposeConfChangeAnytime(n, voters) ==
  /\ up[n]
  /\ node[n].role = "Leader"
  /\ Len(node[n].log) < MaxLog
  /\ Handle(n, ProposeJoint(node[n], voters), net)

\* ProposeConfChange: only a leader, and not while a change is joint.
ProposeConfChange(n, voters) ==
  /\ up[n]
  /\ node[n].role = "Leader"
  /\ ~node[n].membership.joint
  /\ Len(node[n].log) < MaxLog
  /\ Handle(n, ProposeJoint(node[n], voters), net)

Crash(n) ==
  /\ up[n]
  /\ n \in Crashers
  /\ Die(n, net)
  /\ UNCHANGED <<hard, stored>>

\* RecoverNode succeeds if the stored entries are contiguous from 1 and
\* reach the stored commit index.
Recoverable(h, entries) ==
  \E last \in {0} \cup DOMAIN entries :
    DOMAIN entries = 1..last /\ h.commit <= last

\* Seeded mistakes: the hard state is not loaded, or the membership is not
\* recomputed, or what was committed counts as applied.
RecoveredEntriesOnly(n, h, entries) ==
  RecomputeMembership([NewNode(n) EXCEPT !.log = entries])

RecoveredInitialMembership(n, h, entries) ==
  [NewNode(n) EXCEPT !.term = h.term, !.vote = h.vote,
                     !.log = entries, !.committed = h.commit]

RecoveredAsApplied(n, h, entries) ==
  RecomputeMembership(
    [NewNode(n) EXCEPT !.term = h.term, !.vote = h.vote, !.log = entries,
                       !.committed = h.commit, !.applied = h.commit])

Recovered(n, h, entries) ==
  RecomputeMembership(
    [NewNode(n) EXCEPT !.term = h.term, !.vote = h.vote,
                       !.log = entries, !.committed = h.commit])

Restart(n) ==
  /\ ~up[n]
  /\ Recoverable(hard[n], stored[n])
  /\ node' = [node EXCEPT ![n] = Recovered(n, hard[n], stored[n])]
  /\ up' = [up EXCEPT ![n] = TRUE]
  /\ UNCHANGED <<hard, stored, applied, net>>

-----------------------------------------------------------------------------
(* The environment: no clock is modelled, so which election timers fire, and *)
(* when, is an assumption of each instance and not a guard of the code.      *)

\* No other node is campaigning and no answer to a campaign is under way.
QuietFor(n) ==
  /\ \A p \in Node \ {n} : node[p].role # "Candidate" /\ ~node[p].preVote
  /\ \A m \in net : m.type \in {"Append", "AppendResp"}

TimerFires(n) ==
  /\ n \in Campaigners
  /\ node[n].term < MaxTerm
  /\ OverlappingCampaigns \/ QuietFor(n)

Next ==
  \/ \E n \in Node :
       \/ Heartbeat(n)
       \/ TimerFires(n) /\ ElectionTimeout(n)
       \/ IdleTick(n)
       \/ \E c \in Command : Propose(n, c)
       \/ \E voters \in VoterChanges : ProposeConfChange(n, voters)
       \/ Crash(n)
       \/ Restart(n)
  \/ \E m \in net : Receive(m)

Spec == Init /\ [][Next]_vars

=============================================================================
