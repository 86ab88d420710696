----------------------------- MODULE RaftSafety -----------------------------
(***************************************************************************)
(* What the Raft hosts of module Raft promise.                             *)
(***************************************************************************)
EXTENDS Raft

Running == {n \in Node : up[n]}
Leaders == {n \in Running : node[n].role = "Leader"}

\* Every replica, disk and message has the shape the Go types give it.
TypeOK ==
  /\ node \in [Node -> Replica]
  /\ up \in [Node -> BOOLEAN]
  /\ hard \in [Node -> HardState]
  /\ DOMAIN stored = Node
  /\ \A n \in Node : /\ DOMAIN stored[n] \subseteq Nat
                     /\ stored[n] \in [DOMAIN stored[n] -> Entry]
  /\ applied \in [Node -> Seq(Entry)]
  /\ net \in SUBSET Message

-----------------------------------------------------------------------------
(* Saving before sending (host.go driveLocked).                            *)

\* "Save before sending: a peer must never see a message that depends on
\* state we could lose in a crash." The term of a message is on the disk of
\* its sender (a pre-vote asks for the term after it), and so is every entry
\* it replicates or acknowledges.
SavedBeforeSent ==
  \A m \in net :
    /\ hard[m.from].term >= IF m.type = "PreVote" THEN m.term - 1 ELSE m.term
    /\ \A k \in 1..Len(m.entries) : m.entries[k].index \in DOMAIN stored[m.from]
    /\ m.type = "AppendResp" /\ ~m.reject => 1..m.index \subseteq DOMAIN stored[m.from]

\* Whatever fails or crashes, the term on a disk never goes back: a node
\* never takes part in a term it has left.
TermNeverGoesBack == [][\A n \in Node : hard'[n].term >= hard[n].term]_vars

\* Whenever nothing is left unsaved, the disk holds the log the node works with,
\* although an entry that replaces another one is only ever put over it. Behind
\* the log may stand what was cut: Persist deletes nothing.
DiskHoldsLog ==
  \A n \in Running : node[n].unstable = <<>> =>
    \A i \in 1..Len(node[n].log) :
      i \in DOMAIN stored[n] /\ stored[n][i].term = node[n].log[i].term

\* RecoverNode accepts what is on the disk, wherever Persist was interrupted.
RestartSucceeds == \A n \in Node : Recoverable(hard[n], stored[n])

-----------------------------------------------------------------------------
(* Elections and logs.                                                     *)

\* At most one leader per term.
ElectionSafety ==
  \A a, b \in Leaders : node[a].term = node[b].term => a = b

\* "counts votes and becomes leader once we have a quorum": a quorum of the
\* voters has reached the term of a leader (a vote takes its voter there).
LeaderHasQuorumOfItsTerm ==
  \A n \in Leaders :
    HasQuorum(Simple(InitialVoters), {p \in Node : hard[p].term >= node[n].term})

\* Two logs that hold an entry of the same index and term agree up to it.
LogMatching ==
  \A a, b \in Running : \A i \in 1..Len(node[a].log) :
    /\ i <= Len(node[b].log)
    /\ node[a].log[i].term = node[b].log[i].term
    => SubSeq(node[a].log, 1, i) = SubSeq(node[b].log, 1, i)

\* Two hosts never apply different entries at the same position.
StateMachineSafety ==
  \A a, b \in Running : \A i \in 1..Len(applied[a]) :
    i <= Len(applied[b]) => applied[a][i] = applied[b][i]

\* "Apply is called once for each committed entry, in order. After a restart
\* it can be called again for entries it already saw": only after a restart.
AppliedOnceInOrder ==
  \A n \in Running : \A i \in 1..Len(applied[n]) : applied[n][i].index = i

\* What counts as applied was handed to Apply since the start, and Apply took
\* it, whatever was refused and retried, or lost in a crash and recovered.
AppliedWasAccepted ==
  \A n \in Running : \A i \in 1..node[n].applied :
    \E j \in 1..Len(applied[n]) :
      i <= Len(node[n].log) /\ applied[n][j] = node[n].log[i]

\* "A majority of replicas log it durably": an entry a node holds committed is
\* on the disks of a majority of the voters (while the voters do not change).
CommittedOnMajority ==
  \A n \in Running : \A i \in 1..node[n].committed :
    HasQuorum(Simple(InitialVoters),
              {p \in Node : /\ i \in DOMAIN stored[p]
                            /\ i <= Len(node[n].log)
                            /\ stored[p][i] = node[n].log[i]})

\* A leader commits up to an index only when a quorum of the voters it decides
\* with has entries up to it on disk, whatever crashed or failed after they
\* were acknowledged, and in whatever order. (Its own may still be unsaved.)
CommitsWithQuorum ==
  [][\A n \in Node :
       /\ up[n] /\ node[n].role = "Leader" /\ node'[n].role = "Leader"
       /\ node'[n].committed > node[n].committed
       => HasQuorum(node[n].membership,
                    {p \in Node : \/ p = n
                                  \/ 1..node'[n].committed \subseteq DOMAIN stored'[p]})]_vars

-----------------------------------------------------------------------------
(* Membership changes (confchange.go).                                     *)

\* The membership a node decides with is the newest config entry of its log,
\* also after entries were cut, lost in a crash or recovered.
MembershipIsNewestConfig ==
  \A n \in Node :
    /\ node[n].membership = ConfigurationOf(node[n].log)
    /\ node[n].membershipIndex = NewestConfigIndex(node[n].log)

\* In every log a joint step starts from the voters in effect, and a final
\* step finishes the joint step before it: no step is skipped.
ConfigsAlternate ==
  \A n \in Running : \A i \in ConfigIndexes(node[n].log) :
    LET before == ConfigurationOf(SubSeq(node[n].log, 1, i - 1))
        config == node[n].log[i].data.membership
    IN IF config.joint THEN ~before.joint /\ config.old = before.old
                       ELSE before.joint /\ config.old = before.new

\* Some node of group can win an election with the votes of the group.
CanElect(group) ==
  \E c \in group :
    /\ HasQuorum(node[c].membership, group)
    /\ \A q \in group :
         /\ IsVoter(node[q], q)
         /\ LogUpToDate(node[q], LastIndex(node[c].log), LastTerm(node[c].log))

\* "There is never a moment when two different groups could each elect a
\* leader."
NoTwoElectorates ==
  \A g, h \in SUBSET Running : CanElect(g) /\ CanElect(h) => g \cap h # {}

=============================================================================
