------------------------------- MODULE Service -------------------------------
(***************************************************************************)
(* The calls of one server process: the gRPC service in front of the       *)
(* durable node (internal/server/service.go, internal/ann/durable.go), with*)
(* the three locks they take, in this order:                               *)
(*   - Service.mu: Upsert and Delete hold it alone and Search holds it with*)
(*     other searches, from the start of the call to its end, also while   *)
(*     they wait for the stream of their client;                           *)
(*   - Host.mu: a proposal, a message from a peer or a tick, with the drive*)
(*     after it, which applies what is committed;                          *)
(*   - DurableNode.mu: one mutation of the graph, or one search of it.     *)
(*                                                                         *)
(* What the other nodes do (the subject of module Raft) appears as what it *)
(* changes here: leadership comes and goes, entries of other leaders arrive*)
(* and cut what is not committed, entries commit. The graph is the set of  *)
(* the entries whose vectors it holds.                                     *)
(***************************************************************************)
EXTENDS Integers, Sequences, FiniteSets

CONSTANTS
  Upserts, Deletes, Searches,   \* the calls clients make
  Request,       \* what the stream of an upsert may carry: an ID, and whether
                 \* the ID, the vector and its dimension are valid
  MaxBatch,      \* the most requests of one stream
  Target,        \* the ID of every delete
  NoOne,
  Peer,          \* the goroutines of the transport and of the ticker
  Foreign,       \* the mutations other leaders put into the log of this node
  MaxTurns       \* appends of other leaders and elections of this node

Calls == Upserts \cup Deletes \cup Searches

ASSUME ServiceAssumption ==
  /\ Upserts \cap Deletes = {} /\ Searches \cap (Upserts \cup Deletes) = {}
  /\ {NoOne, Peer} \cap Calls = {} /\ NoOne # Peer
  /\ \A r \in Request : r.valid \in BOOLEAN
  /\ \A f \in Foreign : f.insert \in BOOLEAN
  /\ DOMAIN Target = Deletes
  /\ {MaxBatch, MaxTurns} \subseteq Nat

VARIABLES
  pc,         \* how far every call has come
  reply,      \* what it returns: accepted, or the error: malformed, broken
              \*   (reading the stream), failed (a proposal) or unsent (the
              \*   answer does not reach the client)
  received,   \* the requests an upsert has read from its stream
  inserted,   \* how many of them it has proposed
  writer,     \* Service.mu: the call that holds it alone, or NoOne
  readers,    \*   and the searches that hold it together
  hostLock,   \* Host.mu: the call that holds it, Peer, or NoOne
  at,         \* the entry the drive of its holder is applying, or 0
  mutating,   \* DurableNode.mu: whether apply holds it
  leader,     \* whether this node leads
  log,        \* the entries in the log of this node
  committed,
  applied,
  graph,      \* the entries whose vectors are in the graph
  turns,
  proposals,  \* history: the entries this node has accepted, in order
  result      \* the part of the graph a search has seen

callVars == <<pc, reply, received, inserted>>
lockVars == <<writer, readers>>
raftVars == <<leader, log, committed, turns, proposals>>
driveVars == <<hostLock, at, mutating, applied, graph>>
vars == <<callVars, lockVars, raftVars, driveVars, result>>

Init ==
  /\ pc = [c \in Calls |-> "idle"]
  /\ reply = [c \in Calls |-> "none"]
  /\ received = [u \in Upserts |-> <<>>]
  /\ inserted = [u \in Upserts |-> 0]
  /\ writer = NoOne /\ readers = {}
  /\ hostLock = NoOne /\ at = 0 /\ mutating = FALSE
  /\ leader = FALSE /\ log = <<>> /\ committed = 0 /\ turns = 0 /\ proposals = <<>>
  /\ applied = 0 /\ graph = {}
  /\ result = [s \in Searches |-> {}]

-----------------------------------------------------------------------------
(* Service.mu, a sync.RWMutex: a writer that waits keeps new readers out,  *)
(* and one that leaves lets the readers in that have come meanwhile.       *)

Goto(c, to) == pc' = [pc EXCEPT ![c] = to]

Call(c) ==
  /\ pc[c] = "idle"
  /\ Goto(c, "locking")
  /\ UNCHANGED <<reply, received, inserted, lockVars, raftVars, driveVars, result>>

\* Seeded mistake: an upsert or a delete shares the lock with others.
LockShared(c) ==
  /\ pc[c] = "locking" /\ c \notin Searches
  /\ writer' = c
  /\ Goto(c, IF c \in Upserts THEN "receiving" ELSE "proposing")
  /\ UNCHANGED <<reply, received, inserted, readers, raftVars, driveVars, result>>

Lock(c) ==
  /\ pc[c] = "locking" /\ c \notin Searches
  /\ writer = NoOne /\ readers = {}
  /\ writer' = c
  /\ Goto(c, IF c \in Upserts THEN "receiving" ELSE "proposing")
  /\ UNCHANGED <<reply, received, inserted, readers, raftVars, driveVars, result>>

RLock(s) ==
  /\ pc[s] = "locking" /\ s \in Searches
  /\ writer = NoOne
  /\ \A c \in Calls \ Searches : pc[c] # "locking"
  /\ readers' = readers \cup {s}
  /\ Goto(s, "searching")
  /\ UNCHANGED <<reply, received, inserted, writer, raftVars, driveVars, result>>

\* Seeded mistake: a call that fails leaves the lock behind.
ReturnLocked(c, answer) ==
  LET waiting == {s \in Searches : pc[s] = "locking"}
  IN /\ writer' = IF answer = "malformed" THEN writer ELSE NoOne
     /\ readers' = IF answer = "malformed" THEN readers ELSE waiting
     /\ pc' = [p \in Calls |-> IF p = c THEN "done"
                               ELSE IF p \in readers' THEN "searching" ELSE pc[p]]
     /\ reply' = [reply EXCEPT ![c] = answer]

\* A call returns, with the deferred Unlock.
Return(c, answer) ==
  LET waiting == {s \in Searches : pc[s] = "locking"}
  IN /\ writer' = NoOne
     /\ readers' = waiting
     /\ pc' = [p \in Calls |-> IF p = c THEN "done"
                               ELSE IF p \in waiting THEN "searching" ELSE pc[p]]
     /\ reply' = [reply EXCEPT ![c] = answer]

-----------------------------------------------------------------------------
(* Upsert.                                                                 *)

\* A mutation in the log: who proposed it, its ID, an insert or a delete.
Mutation(c, id, insert) == [call |-> c, id |-> id, insert |-> insert]

Malformed(u, request) ==
  ~request.valid \/ \E k \in DOMAIN received[u] : received[u][k].id = request.id

\* Seeded mistake: a request is proposed as soon as it is read.
ReceiveAndPropose(u, request) ==
  /\ pc[u] = "receiving"
  /\ Len(received[u]) < MaxBatch
  /\ ~mutating
  /\ IF Malformed(u, request)
       THEN Return(u, "malformed") /\ UNCHANGED <<received, proposals, log>>
       ELSE /\ received' = [received EXCEPT ![u] = Append(@, request)]
            /\ proposals' = Append(proposals, Mutation(u, request.id, TRUE))
            /\ log' = Append(log, Mutation(u, request.id, TRUE))
            /\ UNCHANGED <<pc, reply, lockVars>>
  /\ UNCHANGED <<inserted, leader, committed, turns, driveVars, result>>

\* The next request of the stream is read and checked, which reads the index.
\* (An empty or repeated ID is refused just before that, with the same answer.)
Receive(u, request) ==
  /\ pc[u] = "receiving"
  /\ Len(received[u]) < MaxBatch
  /\ ~mutating
  /\ IF Malformed(u, request)
       THEN Return(u, "malformed") /\ UNCHANGED received
       ELSE /\ received' = [received EXCEPT ![u] = Append(@, request)]
            /\ UNCHANGED <<pc, reply, lockVars>>
  /\ UNCHANGED <<inserted, raftVars, driveVars, result>>

\* The client has closed its side of the stream.
EndOfStream(u) ==
  /\ pc[u] = "receiving"
  /\ IF received[u] = <<>>
       THEN Goto(u, "closing")
       ELSE Goto(u, "proposing")
  /\ UNCHANGED <<reply, received, inserted, lockVars, raftVars, driveVars, result>>

\* Recv reports an error, at any time before the end of the stream.
StreamBreaks(u) ==
  /\ pc[u] = "receiving"
  /\ Return(u, "broken")
  /\ UNCHANGED <<received, inserted, raftVars, driveVars, result>>

\* Everything is proposed; the answer is sent, or that fails.
SendAndClose(u) ==
  /\ pc[u] = "closing"
  /\ \E answer \in {"accepted", "unsent"} : Return(u, answer)
  /\ UNCHANGED <<received, inserted, raftVars, driveVars, result>>

-----------------------------------------------------------------------------
(* Host.Propose and driveLocked.                                           *)

\* The mutation a call proposes next.
NextEntry(c) ==
  IF c \in Upserts
    THEN Mutation(c, received[c][inserted[c] + 1].id, TRUE)
    ELSE Mutation(c, Target[c], FALSE)

\* The drive begins with the first entry that is committed and not applied.
Drive(c) == IF applied < c THEN applied + 1 ELSE 0

\* A leader takes the mutation into its log and drives.
Propose(c) ==
  /\ pc[c] = "proposing"
  /\ hostLock = NoOne
  /\ leader
  /\ log' = Append(log, NextEntry(c))
  /\ proposals' = Append(proposals, NextEntry(c))
  /\ hostLock' = c
  /\ at' = Drive(committed)
  /\ Goto(c, "driving")
  /\ UNCHANGED <<reply, received, inserted, lockVars, leader, committed, turns,
                 mutating, applied, graph, result>>

\* A leader takes the mutation into its log, but Persist reports an error:
\* the call fails, and a later drive saves and sends the entry all the same.
ProposeUnsaved(c) ==
  /\ pc[c] = "proposing"
  /\ hostLock = NoOne
  /\ leader
  /\ log' = Append(log, NextEntry(c))
  /\ proposals' = Append(proposals, NextEntry(c))
  /\ Return(c, "failed")
  /\ UNCHANGED <<received, inserted, leader, committed, turns, driveVars, result>>

\* Nobody else does: the call fails, and what it has proposed stays.
ProposeRefused(c) ==
  /\ pc[c] = "proposing"
  /\ hostLock = NoOne
  /\ ~leader
  /\ Return(c, "failed")
  /\ UNCHANGED <<received, inserted, raftVars, driveVars, result>>

\* Deleting an ID the graph does not hold is an error.
Accepted(entry) == entry.insert \/ \E e \in graph : e.id = entry.id

\* apply takes DurableNode.mu; an insert of a known ID deletes it first.
BeginApply ==
  /\ at # 0 /\ ~mutating
  /\ Accepted(log[at])
  /\ mutating' = TRUE
  /\ graph' = {e \in graph : e.id # log[at].id}
  /\ UNCHANGED <<callVars, lockVars, raftVars, hostLock, at, applied, result>>

\* The mutation is complete and the lock is free; after the last entry of the
\* drive the node advances.
EndApply ==
  /\ mutating
  /\ mutating' = FALSE
  /\ graph' = IF log[at].insert THEN graph \cup {log[at]} ELSE graph
  /\ at' = IF at = committed THEN 0 ELSE at + 1
  /\ applied' = IF at = committed THEN committed ELSE applied
  /\ UNCHANGED <<callVars, lockVars, raftVars, hostLock, result>>

\* After the drive the lock is free again: a proposal has succeeded. A delete
\* returns; an upsert proposes its next request or comes to its answer.
EndDrive ==
  /\ hostLock # NoOne /\ at = 0
  /\ hostLock' = NoOne
  /\ CASE hostLock = Peer -> UNCHANGED <<callVars, lockVars>>
       [] hostLock \in Upserts ->
            /\ inserted' = [inserted EXCEPT ![hostLock] = @ + 1]
            /\ Goto(hostLock, IF inserted'[hostLock] < Len(received[hostLock])
                                THEN "proposing" ELSE "closing")
            /\ UNCHANGED <<reply, received, lockVars>>
       [] OTHER -> Return(hostLock, "accepted") /\ UNCHANGED <<received, inserted>>
  /\ UNCHANGED <<raftVars, at, mutating, applied, graph, result>>

\* The graph refuses an entry: the drive ends before Advance, with an error,
\* also for the proposal that is in the log already.
RefuseApply ==
  /\ at # 0 /\ ~mutating
  /\ ~Accepted(log[at])
  /\ at' = 0
  /\ hostLock' = NoOne
  /\ IF hostLock = Peer THEN UNCHANGED <<callVars, lockVars>>
     ELSE Return(hostLock, "failed") /\ UNCHANGED <<received, inserted>>
  /\ UNCHANGED <<raftVars, mutating, applied, graph, result>>

-----------------------------------------------------------------------------
(* What comes from the peers and the ticker.                               *)

\* The drive of such a step, over what is committed up to c, unless Persist
\* reports an error: then a later one makes up for it.
PeerDrive(c) ==
  \/ hostLock' = (IF applied < c THEN Peer ELSE NoOne) /\ at' = Drive(c)
  \/ UNCHANGED <<hostLock, at>>

\* A message commits more, or a tick retries what was refused or not saved.
PeerDrives(c) ==
  /\ hostLock = NoOne
  /\ committed <= c /\ c <= Len(log) /\ applied < c
  /\ committed' = c
  /\ PeerDrive(c)
  /\ UNCHANGED <<callVars, lockVars, leader, log, turns, proposals,
                 mutating, applied, graph, result>>

\* An append of another leader: this node follows it. An entry that comes with
\* it cuts what is not committed from k on, and more may be committed.
HandleAppend(k, entries) ==
  /\ hostLock = NoOne
  /\ turns < MaxTurns
  /\ committed <= k /\ k <= Len(log)
  /\ leader' = FALSE
  /\ log' = IF entries = <<>> THEN log ELSE SubSeq(log, 1, k) \o entries
  /\ \E c \in committed..Len(log') : committed' = c /\ PeerDrive(c)
  /\ turns' = turns + 1
  /\ UNCHANGED <<callVars, lockVars, proposals, mutating, applied, graph, result>>

\* A vote makes this node the leader.
BecomeLeader ==
  /\ hostLock = NoOne
  /\ ~leader /\ turns < MaxTurns
  /\ leader' = TRUE
  /\ turns' = turns + 1
  /\ UNCHANGED <<callVars, lockVars, log, committed, proposals, driveVars, result>>

-----------------------------------------------------------------------------
(* Search.                                                                 *)

\* Seeded mistake: the graph is read without its lock.
SearchUnlocked(s) ==
  /\ pc[s] = "searching"
  /\ result' = [result EXCEPT ![s] = graph]
  /\ Goto(s, "sending")
  /\ UNCHANGED <<reply, received, inserted, lockVars, raftVars, driveVars>>

\* The graph is read under DurableNode.mu.
Search(s) ==
  /\ pc[s] = "searching"
  /\ ~mutating
  /\ result' = [result EXCEPT ![s] = graph]
  /\ Goto(s, "sending")
  /\ UNCHANGED <<reply, received, inserted, lockVars, raftVars, driveVars>>

\* The client has taken the results, or sending them has failed.
Sent(s) ==
  /\ pc[s] = "sending"
  /\ readers' = readers \ {s}
  /\ Goto(s, "done")
  /\ \E answer \in {"accepted", "unsent"} : reply' = [reply EXCEPT ![s] = answer]
  /\ UNCHANGED <<received, inserted, writer, raftVars, driveVars, result>>

-----------------------------------------------------------------------------

Stream(u) ==
  (\E request \in Request : Receive(u, request)) \/ EndOfStream(u) \/ StreamBreaks(u)

HostPropose(c) == Propose(c) \/ ProposeUnsaved(c) \/ ProposeRefused(c)

\* What an append of another leader carries: nothing or a mutation.
ForeignEntries ==
  {<<>>} \cup {<<Mutation(Peer, f.id, f.insert)>> : f \in Foreign}

HostStep == BeginApply \/ EndApply \/ EndDrive \/ RefuseApply

\* A tick that finds nothing to do.
IdleTick == hostLock = NoOne /\ applied = committed /\ UNCHANGED vars

Next ==
  \/ \E c \in Calls : Call(c) \/ Lock(c) \/ HostPropose(c)
  \/ \E u \in Upserts : Stream(u) \/ SendAndClose(u)
  \/ \E s \in Searches : RLock(s) \/ Search(s) \/ Sent(s)
  \/ HostStep
  \/ \E k \in 0..Len(log) :
       PeerDrives(k) \/ \E entries \in ForeignEntries : HandleAppend(k, entries)
  \/ BecomeLeader
  \/ IdleTick

\* A goroutine that can go on does, clients send and read in the end, and no
\* waiter is passed over for ever (a sync.Mutex hands itself to the one that
\* has waited for a millisecond). Service.mu lets one call at a time receive
\* or propose.
Fairness ==
  /\ WF_vars(HostStep)
  /\ WF_vars(\E c \in Calls : Lock(c))
  /\ WF_vars(\E u \in Upserts : Stream(u))
  /\ WF_vars(\E u \in Upserts : SendAndClose(u))
  /\ SF_vars(\E c \in Calls : HostPropose(c))
  /\ WF_vars(\E s \in Searches : RLock(s))
  /\ SF_vars(\E s \in Searches : Search(s))
  /\ WF_vars(\E s \in Searches : Sent(s))

Spec == Init /\ [][Next]_vars /\ Fairness

-----------------------------------------------------------------------------
(* What the service promises.                                              *)

Positions(c) == {i \in DOMAIN proposals : proposals[i].call = c}

\* "Rejects malformed vectors before any of it is indexed": a batch of which
\* any part is malformed, or that cannot be read to its end, proposes nothing.
\* Once it was read only a failed proposal can split it: a client that gets no
\* answer because sending it failed has all of its batch proposed.
AllOrNothing ==
  \A u \in Upserts :
    /\ reply[u] \in {"malformed", "broken"} => Positions(u) = {}
    /\ reply[u] \in {"accepted", "unsent"} =>
         Cardinality(Positions(u)) = Len(received[u])

\* What an upsert has proposed stands together, in its order: no other call of
\* this node gets between its entries. A failed one leaves its beginning.
BatchIsContiguous ==
  \A u \in Upserts :
    LET count == Cardinality(Positions(u))
    IN \E first \in 0..Len(proposals) :
         /\ Positions(u) = first + 1..first + count
         /\ \A k \in 1..count : proposals[first + k].id = received[u][k].id

\* The entries whose vectors the first n entries of the log leave.
Contents(n) ==
  {log[i] : i \in {j \in 1..n :
     log[j].insert /\ \A k \in j + 1..n : log[k].id # log[j].id}}

\* No committed entry is a delete of an ID that is not there.
NothingRefused ==
  \A i \in 1..committed : log[i].insert \/ \E e \in Contents(i - 1) : e.id = log[i].id

\* A search sees the graph as some committed entry leaves it: never a
\* replacement half done, never entries out of order. (While an entry is
\* refused, those before it are applied over and over.)
SearchSeesWholeEntries ==
  NothingRefused =>
    \A s \in Searches :
      pc[s] \in {"sending", "done"} => \E n \in 0..committed : result[s] = Contents(n)

\* Every call returns, whatever the others wait for, and whatever happens to
\* the leadership meanwhile, as long as clients do not stop in mid-stream. (A
\* call is made once, so it is enough that again and again none is under way.)
EveryCallReturns == []<>(\A c \in Calls : pc[c] \in {"idle", "done"})

=============================================================================
