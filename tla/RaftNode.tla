------------------------------ MODULE RaftNode ------------------------------
(***************************************************************************)
(* One Raft replica as a pure state machine: the struct node of node.go,   *)
(* with election.go and confchange.go. A replica is a record s; a handler  *)
(* is an operator from the replica to the replica it leaves behind, whose  *)
(* fields msgs and unstable collect, as in the code, what the caller still *)
(* has to send and to save.                                                *)
(*                                                                         *)
(* The clocks electionElapsed and heartbeatElapsed are abstracted: the     *)
(* module that runs the replicas decides when a timer fires. The field     *)
(* leader (a hint for clients) and lastHard (it only lets driveLocked skip *)
(* a save that changes nothing) are left out.                              *)
(***************************************************************************)
EXTENDS Membership, RaftLog

CONSTANTS
  Node,           \* every node of the group: node.peers
  None,           \* no vote: the vote 0 of the code
  Command,        \* the application commands clients propose
  InitialVoters   \* the voters of initialMembership; the others are learners

ASSUME NodeAssumption ==
  /\ IsFiniteSet(Node)
  /\ None \notin Node
  /\ InitialVoters \in SUBSET Node
  /\ InitialVoters # {}

-----------------------------------------------------------------------------
(* Entries, messages and replicas.                                         *)

CommandData(c) == [kind |-> "command", command |-> c]
ConfigData(m) == [kind |-> "config", membership |-> m]   \* marshalConfChange
Noop == [kind |-> "noop"]                                \* jointLeaderNoop

IsConfig(data) == data.kind = "config"
IsInternal(data) == data.kind # "command"

Data ==
  {CommandData(c) : c \in Command} \cup {Noop}
    \cup {ConfigData(m) : m \in Configurations(Node)}

Entry == [index : Nat, term : Nat, data : Data]

MessageType ==
  {"PreVote", "PreVoteResp", "Vote", "VoteResp", "Append", "AppendResp"}

Message ==
  [type : MessageType, from : Node, to : Node, term : Nat, index : Nat,
   logTerm : Nat, commit : Nat, reject : BOOLEAN, entries : Seq(Entry)]

Role == {"Follower", "Candidate", "Leader"}

Replica ==
  [id : Node, role : Role, term : Nat, vote : Node \cup {None},
   log : Seq(Entry), committed : Nat, applied : Nat,
   votes : SUBSET Node, preVote : BOOLEAN,
   next : [Node -> Nat], match : [Node -> Nat],
   membership : Configurations(Node), membershipIndex : Nat,
   msgs : SUBSET Message, unstable : Seq(Entry)]

\* NewNode. A missing key of the maps next and match reads as 0.
NewNode(n) ==
  [id |-> n, role |-> "Follower", term |-> 0, vote |-> None,
   log |-> <<>>, committed |-> 0, applied |-> 0,
   votes |-> {}, preVote |-> FALSE,
   next |-> [p \in Node |-> 0], match |-> [p \in Node |-> 0],
   membership |-> Simple(InitialVoters), membershipIndex |-> 0,
   msgs |-> {}, unstable |-> <<>>]

\* A message of replica s with the fields that every message carries.
MessageOf(s, type, to) ==
  [type |-> type, from |-> s.id, to |-> to, term |-> s.term, index |-> 0,
   logTerm |-> 0, commit |-> 0, reject |-> FALSE, entries |-> <<>>]

Send(s, messages) == [s EXCEPT !.msgs = @ \cup messages]

-----------------------------------------------------------------------------
(* Membership.                                                             *)

ConfigIndexes(log) == {i \in 1..Len(log) : IsConfig(log[i].data)}

\* The index of the newest config entry of a log, 0 if it has none.
NewestConfigIndex(log) ==
  IF ConfigIndexes(log) = {}
    THEN 0
    ELSE CHOOSE i \in ConfigIndexes(log) : \A j \in ConfigIndexes(log) : j <= i

ConfigurationOf(log) ==
  IF NewestConfigIndex(log) = 0
    THEN Simple(InitialVoters)
    ELSE log[NewestConfigIndex(log)].data.membership

\* The rescan of the whole log: correct also after a suffix was cut.
RecomputeMembership(s) ==
  [s EXCEPT !.membership = ConfigurationOf(s.log),
            !.membershipIndex = NewestConfigIndex(s.log)]

IsVoter(s, n) == n \in Voters(s.membership)
VotingPeers(s) == Voters(s.membership) \ {s.id}

-----------------------------------------------------------------------------
(* Roles and replication.                                                  *)

\* becomeFollower clears the vote whatever the term was.
BecomeFollower(s, term) ==
  [s EXCEPT !.role = "Follower", !.term = term, !.vote = None,
            !.votes = {}, !.preVote = FALSE]

\* Seeded mistake: the entry before the previous one is the one to match.
AppendToOneBefore(s, p) ==
  [MessageOf(s, "Append", p) EXCEPT
     !.index = s.next[p] - 2,
     !.logTerm = TermAt(s.log, s.next[p] - 2),
     !.commit = s.committed,
     !.entries = EntriesFrom(s.log, s.next[p])]

\* The AppendEntries message for one peer: everything from next[p] on.
AppendTo(s, p) ==
  [MessageOf(s, "Append", p) EXCEPT
     !.index = s.next[p] - 1,
     !.logTerm = TermAt(s.log, s.next[p] - 1),
     !.commit = s.committed,
     !.entries = EntriesFrom(s.log, s.next[p])]

SendAppend(s, p) == Send(s, {AppendTo(s, p)})

BroadcastAppend(s) == Send(s, {AppendTo(s, p) : p \in Node \ {s.id}})

\* proposeInternal: append to the own log, adopt a config at once, replicate.
ProposeInternal(s, data) ==
  LET entry == [index |-> Len(s.log) + 1, term |-> s.term, data |-> data]
      appended == [s EXCEPT !.log = Append(@, entry),
                            !.unstable = Append(@, entry),
                            !.match[s.id] = Len(s.log) + 1]
  IN BroadcastAppend(IF IsConfig(data) THEN RecomputeMembership(appended)
                                       ELSE appended)

BecomeLeader(s) ==
  LET leader == [s EXCEPT
        !.role = "Leader",
        !.next = [p \in Node |-> Len(s.log) + 1],
        !.match = [p \in Node |-> IF p = s.id THEN Len(s.log) ELSE 0],
        !.preVote = FALSE]
  IN IF s.membership.joint THEN ProposeInternal(leader, Noop)
                           ELSE BroadcastAppend(leader)

\* Propose and ProposeConfChange of a leader; the callers hold the guards.
ProposeLeaveJoint(s) ==
  ProposeInternal(s, ConfigData(Simple(s.membership.new)))

ProposeJoint(s, voters) ==
  ProposeInternal(s, ConfigData(Joint(s.membership.old, voters)))

\* maybeLeaveJointOrStepDown, after the commit index of a leader moved.
MaybeLeaveJointOrStepDown(s) ==
  IF s.membership.joint /\ s.committed >= s.membershipIndex
    THEN ProposeLeaveJoint(s)
    ELSE IF ~s.membership.joint /\ ~IsVoter(s, s.id)
           THEN BecomeFollower(s, s.term)
           ELSE s

\* Seeded mistake: a follower counts that lacks the entry itself.
CommittableOneAhead(s) ==
  {c \in {LastIndex(s.log)} \cup {s.match[p] : p \in Node} :
     /\ c > s.committed
     /\ TermAt(s.log, c) = s.term
     /\ HasQuorum(s.membership, {p \in Node : s.match[p] + 1 >= c})}

\* The indexes advanceCommit may commit: above committed, of the own term,
\* and held by a quorum according to match.
Committable(s) ==
  {c \in {LastIndex(s.log)} \cup {s.match[p] : p \in Node} :
     /\ c > s.committed
     /\ TermAt(s.log, c) = s.term
     /\ HasQuorum(s.membership, {p \in Node : s.match[p] >= c})}

AdvanceCommit(s) ==
  IF Committable(s) = {}
    THEN s
    ELSE LET highest == CHOOSE c \in Committable(s) :
                          \A d \in Committable(s) : d <= c
         IN MaybeLeaveJointOrStepDown(
              BroadcastAppend([s EXCEPT !.committed = highest]))

-----------------------------------------------------------------------------
(* Elections.                                                              *)

\* Seeded mistake: a longer log is taken for a newer one.
LogAtLeastAsLong(s, lastIndex, lastTerm) == lastIndex >= LastIndex(s.log)

LogUpToDate(s, lastIndex, lastTerm) ==
  \/ lastTerm > LastTerm(s.log)
  \/ lastTerm = LastTerm(s.log) /\ lastIndex >= LastIndex(s.log)

\* A request for votes of the given type and term.
Solicit(s, type, term) ==
  {[MessageOf(s, type, p) EXCEPT !.term = term,
                                 !.index = LastIndex(s.log),
                                 !.logTerm = LastTerm(s.log)] :
     p \in VotingPeers(s)}

\* Seeded mistake: no pre-vote, the election starts at once.
StartPreVoteAsElection(s) ==
  LET candidate == [s EXCEPT !.role = "Candidate", !.term = @ + 1,
                             !.vote = s.id, !.votes = {s.id}]
  IN Send(candidate, Solicit(candidate, "Vote", candidate.term))

StartPreVote(s) ==
  Send([s EXCEPT !.votes = {s.id}, !.preVote = TRUE],
       Solicit(s, "PreVote", s.term + 1))

StartElection(s) ==
  LET candidate == [s EXCEPT !.preVote = FALSE, !.role = "Candidate",
                             !.term = @ + 1, !.vote = s.id, !.votes = {s.id}]
  IN Send(candidate, Solicit(candidate, "Vote", candidate.term))

HandlePreVote(s, m) ==
  LET granted == /\ IsVoter(s, s.id)
                 /\ m.term >= s.term + 1
                 /\ LogUpToDate(s, m.index, m.logTerm)
  IN Send(s, {[MessageOf(s, "PreVoteResp", m.from) EXCEPT !.reject = ~granted]})

HandlePreVoteResp(s, m) ==
  IF m.reject \/ m.term > s.term \/ ~s.preVote
    THEN s
    ELSE LET counted == [s EXCEPT !.votes = @ \cup {m.from}]
         IN IF HasQuorum(counted.membership, counted.votes)
              THEN StartElection(counted)
              ELSE counted

HandleVote(s, m) ==
  LET granted == /\ IsVoter(s, s.id)
                 /\ s.vote \in {None, m.from}
                 /\ LogUpToDate(s, m.index, m.logTerm)
      voted == IF granted THEN [s EXCEPT !.vote = m.from] ELSE s
  IN Send(voted, {[MessageOf(s, "VoteResp", m.from) EXCEPT !.reject = ~granted]})

HandleVoteResp(s, m) ==
  IF s.role # "Candidate" \/ m.term # s.term \/ m.reject
    THEN s
    ELSE LET counted == [s EXCEPT !.votes = @ \cup {m.from}]
         IN IF HasQuorum(counted.membership, counted.votes)
              THEN BecomeLeader(counted)
              ELSE counted

-----------------------------------------------------------------------------
(* Log replication.                                                        *)

\* The answer of handleAppend: it reports the whole log, verified or not.
AppendResp(s, m, reject) ==
  [MessageOf(s, "AppendResp", m.from) EXCEPT !.index = LastIndex(s.log),
                                             !.reject = reject]

\* Seeded mistake: an entry that overwrites another one is not saved.
AcceptUnsaved(s, m) ==
  RecomputeMembership(
    [s EXCEPT !.log = AppendEntries(@, m.index, m.entries),
              !.committed = IF m.commit > @ THEN m.commit ELSE @])

\* A follower takes over the entries, its new configuration and the commit.
Accept(s, m) ==
  LET log == AppendEntries(s.log, m.index, m.entries)
      known == IF m.commit <= Len(log) THEN m.commit ELSE Len(log)
      appended == [s EXCEPT
        !.log = log,
        !.unstable = @ \o m.entries,
        !.committed = IF m.commit > s.committed THEN known ELSE s.committed]
  IN IF m.entries = <<>> THEN appended ELSE RecomputeMembership(appended)

HandleAppend(s, m) ==
  LET follower == BecomeFollower(s, m.term)
      matches == HasIndex(s.log, m.index) /\ TermAt(s.log, m.index) = m.logTerm
      accepted == Accept(follower, m)
  IN IF m.term < s.term
       THEN Send(s, {AppendResp(s, m, TRUE)})
       ELSE IF ~matches
              THEN Send(follower, {AppendResp(follower, m, TRUE)})
              ELSE Send(accepted, {AppendResp(accepted, m, FALSE)})

\* Seeded mistake: a reject sends the same again.
HandleAppendRespNoStepBack(s, m) ==
  LET p == m.from
      advanced == AdvanceCommit([s EXCEPT !.match[p] = m.index,
                                          !.next[p] = m.index + 1])
  IN IF s.role # "Leader" \/ m.term # s.term
       THEN s
       ELSE IF m.reject
              THEN SendAppend(s, p)
              ELSE IF advanced.next[p] <= LastIndex(advanced.log)
                     THEN SendAppend(advanced, p)
                     ELSE advanced

\* A reject steps next back; a success is taken at its word.
HandleAppendResp(s, m) ==
  LET p == m.from
      back == [s EXCEPT !.next[p] = IF @ > 1 THEN @ - 1 ELSE @]
      advanced == AdvanceCommit([s EXCEPT !.match[p] = m.index,
                                          !.next[p] = m.index + 1])
  IN IF s.role # "Leader" \/ m.term # s.term
       THEN s
       ELSE IF m.reject
              THEN SendAppend(back, p)
              ELSE IF advanced.next[p] <= LastIndex(advanced.log)
                     THEN SendAppend(advanced, p)
                     ELSE advanced

-----------------------------------------------------------------------------
(* The interface the host calls.                                           *)

\* Step: a higher term makes a follower, except for the pre-vote messages.
Step(s, m) ==
  LET current == IF m.term > s.term /\ m.type \notin {"PreVote", "PreVoteResp"}
                   THEN BecomeFollower(s, m.term)
                   ELSE s
  IN CASE m.type = "PreVote"     -> HandlePreVote(current, m)
       [] m.type = "PreVoteResp" -> HandlePreVoteResp(current, m)
       [] m.type = "Vote"        -> HandleVote(current, m)
       [] m.type = "VoteResp"    -> HandleVoteResp(current, m)
       [] m.type = "Append"      -> HandleAppend(current, m)
       [] m.type = "AppendResp"  -> HandleAppendResp(current, m)

\* Ready().CommittedEntries: what is committed and not yet applied.
CommittedEntries(s) ==
  IF s.applied < s.committed
    THEN SubSeq(s.log, s.applied + 1,
                IF s.committed <= Len(s.log) THEN s.committed ELSE Len(s.log))
    ELSE <<>>

Advance(s) ==
  [s EXCEPT !.unstable = <<>>, !.msgs = {}, !.applied = s.committed]

=============================================================================
