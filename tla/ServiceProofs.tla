---------------------------- MODULE ServiceProofs ----------------------------
(***************************************************************************)
(* Theorems about module Service: what a batch of vectors leaves in the log*)
(* of the leader, and what a search sees of the graph, for any number of   *)
(* calls and any length of stream.                                         *)
(***************************************************************************)
EXTENDS Service, FiniteSetTheorems, TLAPS

Writers == Upserts \cup Deletes

PCs == {"idle", "locking", "receiving", "proposing", "driving", "searching",
        "sending", "closing", "done"}
Answers == {"none", "accepted", "malformed", "failed", "broken", "unsent"}
Entries == [call : Writers \cup {Peer},
            id : {r.id : r \in Request} \cup {Target[d] : d \in Deletes} \cup {f.id : f \in Foreign},
            insert : BOOLEAN]

\* Before an upsert proposes anything; and while it may.
Early == {"idle", "locking", "receiving"}
Active == {"receiving", "proposing", "driving", "closing"}

TypeInv ==
  /\ pc \in [Calls -> PCs]
  /\ reply \in [Calls -> Answers]
  /\ received \in [Upserts -> Seq(Request)]
  /\ inserted \in [Upserts -> Nat]
  /\ proposals \in Seq(Entries)
  /\ hostLock \in Calls \cup {Peer, NoOne}

\* Only the holder of Service.mu is between its lock and its return; only the
\* holder of Host.mu drives, and an entry is applied only in a drive.
LockInv ==
  /\ \A c \in Calls : pc[c] \in Active => writer = c /\ c \notin Searches
  /\ mutating => at # 0
  /\ at # 0 => hostLock # NoOne
  /\ hostLock \in Calls => pc[hostLock] = "driving"

\* How far a call has come: an answer is its last step, and an upsert stops
\* proposing with the end of what it has received.
CallInv ==
  /\ \A c \in Calls : pc[c] # "done" => reply[c] = "none"
  /\ \A u \in Upserts :
       /\ pc[u] \in Early => inserted[u] = 0
       /\ pc[u] \in {"proposing", "driving"} => inserted[u] < Len(received[u])

\* The entries of upsert u are the n after the first ones, in the order of its
\* stream; while it goes on they are the newest of the log.
Batch(u, first, n) ==
  /\ first + n <= Len(proposals)
  /\ n <= Len(received[u])
  /\ Positions(u) = first + 1..first + n
  /\ \A k \in 1..n : proposals[first + k].id = received[u][k].id
  /\ pc[u] \in Early \/ reply[u] \in {"malformed", "broken"} => n = 0
  /\ pc[u] = "proposing" => n = inserted[u] /\ (n > 0 => first + n = Len(proposals))
  /\ pc[u] = "driving" => n = inserted[u] + 1 /\ first + n = Len(proposals)
  /\ pc[u] = "closing" \/ reply[u] \in {"accepted", "unsent"} => n = Len(received[u])

BatchInv == \A u \in Upserts : \E first, n \in Nat : Batch(u, first, n)

IInv == TypeInv /\ LockInv /\ CallInv /\ BatchInv

-----------------------------------------------------------------------------
(* How calls begin and return.                                             *)

LEMMA InitIInv == Init => IInv
<1> SUFFICES ASSUME Init PROVE IInv
  OBVIOUS
<1>1. TypeInv
  BY DEF Init, TypeInv, PCs, Answers
<1>2. LockInv
  BY ServiceAssumption DEF Init, LockInv, Active
<1>3. CallInv
  BY DEF Init, CallInv, Calls
<1>4. BatchInv
  <2> SUFFICES ASSUME NEW u \in Upserts PROVE Batch(u, 0, 0)
    BY DEF BatchInv
  <2> QED
    BY DEF Init, Batch, Positions, Calls
<1> QED
  BY <1>1, <1>2, <1>3, <1>4 DEF IInv

\* What a return changes: the call is over, its lock free, and of the other
\* calls only searches go on.
LEMMA ReturnEffect ==
  ASSUME TypeInv, NEW c \in Writers, NEW answer \in Answers, Return(c, answer)
  PROVE  /\ pc' \in [Calls -> PCs] /\ reply' \in [Calls -> Answers]
         /\ pc'[c] = "done" /\ reply'[c] = answer
         /\ \A p \in Calls \ {c} : reply'[p] = reply[p]
         /\ \A p \in Writers \ {c} : pc'[p] = pc[p]
         /\ \A s \in Searches : pc'[s] \in {pc[s], "searching"}
         /\ \A s \in Searches : pc[s] # "locking" => pc'[s] = pc[s]
<1> USE ServiceAssumption DEF Writers, Calls
<1>1. \A p \in Calls : pc'[p] = IF p = c THEN "done"
                                ELSE IF p \in {s \in Searches : pc[s] = "locking"}
                                  THEN "searching" ELSE pc[p]
  BY DEF Return
<1>2. pc' \in [Calls -> PCs]
  BY DEF Return, TypeInv, PCs
<1>3. reply' = [reply EXCEPT ![c] = answer] /\ reply \in [Calls -> Answers]
  BY DEF Return, TypeInv
<1> QED
  BY <1>1, <1>2, <1>3

\* A return keeps the invariant: an upsert that is rejected has proposed
\* nothing yet, and one that is accepted has proposed all it received.
LEMMA ReturnIInv ==
  ASSUME IInv, NEW c \in Writers, NEW answer \in Answers, answer # "none",
         pc[c] \in Active, Return(c, answer),
         UNCHANGED <<received, proposals>>, inserted' \in [Upserts -> Nat],
         \A u \in Upserts \ {c} : inserted'[u] = inserted[u],
         hostLock' \in {hostLock, NoOne}, hostLock' # c,
         mutating' = mutating, at' # 0 => hostLock' # NoOne, mutating => at' # 0,
         c \in Upserts /\ answer \in {"malformed", "broken"} => pc[c] = "receiving",
         c \in Upserts /\ answer \in {"accepted", "unsent"} => pc[c] = "closing"
  PROVE  IInv'
<1> USE ServiceAssumption DEF Writers, Calls
<1>1. TypeInv
  BY DEF IInv
<1>2. /\ pc' \in [Calls -> PCs] /\ reply' \in [Calls -> Answers]
      /\ pc'[c] = "done" /\ reply'[c] = answer
      /\ \A p \in Calls \ {c} : reply'[p] = reply[p]
      /\ \A p \in Writers \ {c} : pc'[p] = pc[p]
      /\ \A s \in Searches : pc'[s] \in {pc[s], "searching"}
      /\ \A s \in Searches : pc[s] # "locking" => pc'[s] = pc[s]
  BY <1>1, ReturnEffect
<1>3. TypeInv'
  BY <1>1, <1>2 DEF TypeInv
<1>4. LockInv'
  BY <1>1, <1>2 DEF IInv, LockInv, Active, TypeInv
<1>5. CallInv'
  BY <1>2 DEF IInv, CallInv, Early
<1>6. BatchInv'
  <2> SUFFICES ASSUME NEW u \in Upserts PROVE \E first, n \in Nat : Batch(u, first, n)'
    BY DEF BatchInv
  <2>1. PICK first \in Nat, n \in Nat : Batch(u, first, n)
    BY DEF IInv, BatchInv
  <2>2. CASE u # c
    <3>1. Batch(u, first, n)'
      BY <1>2, <2>1, <2>2 DEF Batch, Positions
    <3> QED
      BY <3>1
  <2>3. CASE u = c
    <3>1. Batch(u, first, n)'
      BY <1>2, <2>1, <2>3 DEF Batch, Positions, Early
    <3> QED
      BY <3>1
  <2> QED
    BY <2>2, <2>3
<1> QED
  BY <1>3, <1>4, <1>5, <1>6 DEF IInv

-----------------------------------------------------------------------------
(* The steps.                                                              *)

\* Steps that move no call and propose nothing: those of a drive, and what
\* comes from the other nodes.
LEMMA QuietIInv ==
  ASSUME IInv, UNCHANGED <<pc, reply, received, inserted, writer, proposals>>,
         hostLock' \in {hostLock, Peer, NoOne},
         mutating' => at' # 0, at' # 0 => hostLock' # NoOne
  PROVE  IInv'
<1>1. TypeInv'
  BY DEF IInv, TypeInv
<1>2. LockInv'
  BY ServiceAssumption DEF IInv, LockInv
<1>3. CallInv'
  BY DEF IInv, CallInv
<1>4. BatchInv'
  <2> SUFFICES ASSUME NEW u \in Upserts PROVE \E first, n \in Nat : Batch(u, first, n)'
    BY DEF BatchInv
  <2>1. PICK first \in Nat, n \in Nat : Batch(u, first, n)
    BY DEF IInv, BatchInv
  <2>2. Batch(u, first, n)'
    BY <2>1 DEF Batch, Positions
  <2> QED
    BY <2>2
<1> QED
  BY <1>1, <1>2, <1>3, <1>4 DEF IInv

\* Steps of one call c that stay before its first proposal, or of a search:
\* only its own place and its answer change, and perhaps what it received.
LEMMA EarlyIInv ==
  ASSUME IInv, NEW c \in Calls, NEW to \in PCs,
         pc' = [pc EXCEPT ![c] = to],
         IF c \in Searches
           THEN /\ to \in {"locking", "searching", "sending", "done"}
                /\ reply' \in [Calls -> Answers]
                /\ \A p \in Calls \ {c} : reply'[p] = reply[p]
                /\ to # "done" => reply' = reply
           ELSE pc[c] \in Early /\ to \in {"locking", "receiving"} /\ reply' = reply,
         pc[c] # "done", pc[c] # "driving",
         to \in Active => writer' = c,
         writer' # writer => writer = NoOne,
         UNCHANGED <<received, inserted, proposals, hostLock, at, mutating>>
  PROVE  IInv'
<1> USE ServiceAssumption DEF Calls
<1>1. /\ pc' \in [Calls -> PCs] /\ pc'[c] = to
      /\ \A p \in Calls \ {c} : pc'[p] = pc[p]
  BY DEF IInv, TypeInv
<1>2. TypeInv'
  BY <1>1 DEF IInv, TypeInv
<1>3. LockInv'
  BY <1>1 DEF IInv, LockInv, Active, TypeInv
<1>4. CallInv'
  BY <1>1 DEF IInv, CallInv, Early
<1>5. BatchInv'
  <2> SUFFICES ASSUME NEW u \in Upserts PROVE \E first, n \in Nat : Batch(u, first, n)'
    BY DEF BatchInv
  <2>1. PICK first \in Nat, n \in Nat : Batch(u, first, n)
    BY DEF IInv, BatchInv
  <2>2. reply'[u] = reply[u]
    OBVIOUS
  <2>3. Batch(u, first, n)'
    BY <1>1, <2>1, <2>2 DEF Batch, Positions, Early
  <2> QED
    BY <2>3
<1> QED
  BY <1>2, <1>3, <1>4, <1>5 DEF IInv

\* An upsert that a step leaves alone keeps its entries, as long as the step
\* proposes nothing.
LEMMA BatchKept ==
  ASSUME IInv, NEW u \in Upserts, UNCHANGED proposals,
         pc'[u] = pc[u], reply'[u] = reply[u],
         received'[u] = received[u], inserted'[u] = inserted[u]
  PROVE  \E first, n \in Nat : Batch(u, first, n)'
<1>1. PICK first \in Nat, n \in Nat : Batch(u, first, n)
  BY DEF IInv, BatchInv
<1>2. Batch(u, first, n)'
  BY <1>1 DEF Batch, Positions
<1> QED
  BY <1>2

\* Taking Service.mu: nobody else is between its lock and its return.
LEMMA LockIInv ==
  ASSUME IInv, NEW c \in Calls, Lock(c)
  PROVE  IInv'
<1> DEFINE to == IF c \in Upserts THEN "receiving" ELSE "proposing"
<1> USE ServiceAssumption DEF Calls
<1>1. /\ pc' = [pc EXCEPT ![c] = to] /\ pc[c] = "locking" /\ c \notin Searches
      /\ writer = NoOne /\ writer' = c
      /\ UNCHANGED <<reply, received, inserted, proposals, hostLock, at, mutating>>
  BY DEF Lock, Goto, raftVars, driveVars
<1>2. CASE c \in Upserts
  BY <1>1, <1>2, EarlyIInv DEF PCs, Early, Active
<1>3. CASE c \notin Upserts
  <2>1. /\ pc' \in [Calls -> PCs] /\ pc'[c] = "proposing"
        /\ \A p \in Calls \ {c} : pc'[p] = pc[p]
    BY <1>1, <1>3 DEF IInv, TypeInv, PCs
  <2>2. TypeInv'
    BY <1>1, <2>1 DEF IInv, TypeInv
  <2>3. LockInv'
    BY <1>1, <2>1 DEF IInv, LockInv, Active
  <2>4. CallInv'
    BY <1>1, <1>3, <2>1 DEF IInv, CallInv
  <2>5. BatchInv'
    <3> SUFFICES ASSUME NEW u \in Upserts PROVE \E first, n \in Nat : Batch(u, first, n)'
      BY DEF BatchInv
    <3>1. pc'[u] = pc[u]
      BY <1>3, <2>1
    <3> QED
      BY <1>1, <3>1, BatchKept
  <2> QED
    BY <2>2, <2>3, <2>4, <2>5 DEF IInv
<1> QED
  BY <1>2, <1>3

\* Reading from the stream proposes nothing.
LEMMA ReceiveIInv ==
  ASSUME IInv, NEW u \in Upserts, NEW request \in Request, Receive(u, request)
  PROVE  IInv'
<1> USE ServiceAssumption DEF Calls
<1>1. /\ pc[u] = "receiving"
      /\ UNCHANGED <<inserted, proposals, hostLock, at, mutating>>
  BY DEF Receive, raftVars, driveVars
<1>2. CASE Malformed(u, request)
  <2>1. Return(u, "malformed") /\ UNCHANGED received
    BY <1>2 DEF Receive
  <2>2. hostLock # u
    BY <1>1 DEF IInv, LockInv
  <2> QED
    BY <1>1, <2>1, <2>2, ReturnIInv
       DEF IInv, TypeInv, LockInv, Answers, Active, Writers
<1>3. CASE ~Malformed(u, request)
  <2>1. /\ received' = [received EXCEPT ![u] = Append(@, request)]
        /\ UNCHANGED <<pc, reply, writer>>
    BY <1>3 DEF Receive, lockVars
  <2>2. /\ received' \in [Upserts -> Seq(Request)]
        /\ \A v \in Upserts \ {u} : received'[v] = received[v]
    BY <2>1 DEF IInv, TypeInv
  <2>3. TypeInv'
    BY <1>1, <2>1, <2>2 DEF IInv, TypeInv
  <2>4. LockInv'
    BY <1>1, <2>1 DEF IInv, LockInv
  <2>5. CallInv'
    BY <1>1, <2>1, <2>2 DEF IInv, CallInv, Early
  <2>6. BatchInv'
    <3> SUFFICES ASSUME NEW v \in Upserts
                 PROVE  \E first, n \in Nat : Batch(v, first, n)'
      BY DEF BatchInv
    <3>1. PICK first \in Nat, n \in Nat : Batch(v, first, n)
      BY DEF IInv, BatchInv
    <3>2. CASE v # u
      BY <1>1, <2>1, <2>2, <3>2, BatchKept
    <3>3. CASE v = u
      <4>1. n = 0 /\ reply[u] = "none"
        BY <1>1, <3>1, <3>3 DEF Batch, Early, IInv, CallInv
      <4>2. Len(received'[u]) \in Nat
        BY <2>2
      <4>3. Batch(u, first, 0)'
        BY <1>1, <2>1, <3>1, <3>3, <4>1, <4>2 DEF Batch, Positions
      <4> QED
        BY <3>3, <4>3
    <3> QED
      BY <3>2, <3>3
  <2> QED
    BY <2>3, <2>4, <2>5, <2>6 DEF IInv
<1> QED
  BY <1>2, <1>3

\* At the end of the stream an upsert begins to propose, from its first request.
LEMMA EndOfStreamIInv ==
  ASSUME IInv, NEW u \in Upserts, EndOfStream(u)
  PROVE  IInv'
<1> USE ServiceAssumption DEF Calls
<1>1. /\ pc[u] = "receiving"
      /\ UNCHANGED <<received, inserted, proposals, hostLock, at, mutating>>
  BY DEF EndOfStream, raftVars, driveVars
<1>2. PICK to \in {"proposing", "closing"} :
        /\ to = IF received[u] = <<>> THEN "closing" ELSE "proposing"
        /\ pc' = [pc EXCEPT ![u] = to] /\ UNCHANGED <<reply, writer>>
  BY DEF EndOfStream, Goto, lockVars
<1>3. /\ pc' \in [Calls -> PCs] /\ pc'[u] = to
      /\ \A p \in Calls \ {u} : pc'[p] = pc[p]
  BY <1>2 DEF IInv, TypeInv, PCs
<1>4. TypeInv'
  BY <1>1, <1>2, <1>3 DEF IInv, TypeInv
<1>5. LockInv'
  BY <1>1, <1>2, <1>3 DEF IInv, LockInv, Active
<1>6. to = "proposing" => Len(received[u]) > 0
  BY <1>2 DEF IInv, TypeInv
<1>7. inserted[u] = 0 /\ reply[u] = "none"
  BY <1>1 DEF IInv, CallInv, Early
<1>8. CallInv'
  BY <1>1, <1>2, <1>3, <1>6, <1>7 DEF IInv, CallInv, Early
<1>9. BatchInv'
  <2> SUFFICES ASSUME NEW v \in Upserts
               PROVE  \E first, n \in Nat : Batch(v, first, n)'
    BY DEF BatchInv
  <2>1. CASE v # u
    BY <1>1, <1>2, <1>3, <2>1, BatchKept
  <2>2. CASE v = u
    <3>1. PICK first \in Nat, n \in Nat : Batch(u, first, n)
      BY DEF IInv, BatchInv
    <3>2. n = 0
      BY <1>1, <3>1 DEF Batch, Early
    <3>3. to = "closing" => Len(received[u]) = 0
      BY <1>2
    <3>4. Batch(u, first, n)'
      BY <1>1, <1>2, <1>3, <1>7, <3>1, <3>2, <3>3 DEF Batch, Positions, Early
    <3> QED
      BY <2>2, <3>4
  <2> QED
    BY <2>1, <2>2
<1> QED
  BY <1>4, <1>5, <1>8, <1>9 DEF IInv

\* With everything proposed, the answer ends the call, sent or not.
LEMMA SendAndCloseIInv ==
  ASSUME IInv, NEW u \in Upserts, SendAndClose(u)
  PROVE  IInv'
<1> USE ServiceAssumption DEF Calls
<1>1. PICK answer \in {"accepted", "unsent"} :
        /\ pc[u] = "closing" /\ Return(u, answer)
        /\ UNCHANGED <<received, inserted, proposals, hostLock, at, mutating>>
  BY DEF SendAndClose, raftVars, driveVars
<1>2. hostLock # u
  BY <1>1 DEF IInv, LockInv
<1> QED
  BY <1>1, <1>2, ReturnIInv DEF IInv, TypeInv, LockInv, Answers, Active, Writers

LEMMA StreamBreaksIInv ==
  ASSUME IInv, NEW u \in Upserts, StreamBreaks(u)
  PROVE  IInv'
<1> USE ServiceAssumption DEF Calls
<1>1. /\ pc[u] = "receiving" /\ Return(u, "broken")
      /\ UNCHANGED <<received, inserted, proposals, hostLock, at, mutating>>
  BY DEF StreamBreaks, raftVars, driveVars
<1>2. hostLock # u
  BY <1>1 DEF IInv, LockInv
<1> QED
  BY <1>1, <1>2, ReturnIInv DEF IInv, TypeInv, LockInv, Answers, Active, Writers

LEMMA ProposeRefusedIInv ==
  ASSUME IInv, NEW c \in Calls, ProposeRefused(c)
  PROVE  IInv'
<1> USE ServiceAssumption DEF Calls
<1>1. /\ pc[c] = "proposing" /\ Return(c, "failed")
      /\ UNCHANGED <<received, inserted, proposals, hostLock, at, mutating>>
  BY DEF ProposeRefused, raftVars, driveVars
<1>2. c \in Writers /\ hostLock # c
  BY <1>1 DEF IInv, LockInv, Active, Writers
<1> QED
  BY <1>1, <1>2, ReturnIInv DEF IInv, TypeInv, LockInv, Answers, Active

\* An entry that a call proposes.
LEMMA NextEntryType ==
  ASSUME IInv, NEW c \in Calls, pc[c] = "proposing"
  PROVE  NextEntry(c) \in Entries
<1>1. c \in Writers
  BY DEF IInv, LockInv, Active, Writers, Calls
<1>2. CASE c \in Upserts
  <2>1. /\ received[c] \in Seq(Request) /\ inserted[c] \in Nat
        /\ inserted[c] < Len(received[c])
    BY <1>2 DEF IInv, TypeInv, CallInv
  <2>2. received[c][inserted[c] + 1] \in Request
    BY <2>1
  <2> QED
    BY <1>1, <1>2, <2>2 DEF NextEntry, Entries, Mutation
<1>3. CASE c \notin Upserts
  BY <1>1, <1>3 DEF NextEntry, Entries, Writers, Mutation
<1> QED
  BY <1>2, <1>3

\* Only the holder of Service.mu proposes, so the entries of every other call
\* stay as they are and its own stay together, whether the drive after the
\* proposal begins or fails to save it.
LEMMA ProposalBatch ==
  ASSUME IInv, NEW c \in Calls, pc[c] = "proposing",
         proposals' = Append(proposals, NextEntry(c)),
         UNCHANGED <<received, inserted>>,
         \A u \in Upserts \ {c} : pc'[u] = pc[u] /\ reply'[u] = reply[u],
         \/ pc'[c] = "driving" /\ reply'[c] = "none"
         \/ pc'[c] = "done" /\ reply'[c] = "failed"
  PROVE  proposals' \in Seq(Entries) /\ BatchInv'
<1> USE ServiceAssumption DEF Calls
<1> DEFINE entry == NextEntry(c)
<1>1. proposals' = Append(proposals, entry) /\ pc[c] = "proposing"
  OBVIOUS
<1>2. c \in Writers /\ writer = c
  BY <1>1 DEF IInv, LockInv, Active, Writers
<1>3. \A p \in Calls \ {c} : pc[p] \notin Active
  BY <1>1, <1>2 DEF IInv, TypeInv, LockInv
<1>4. entry.call = c /\ entry \in Entries
  BY <1>1, NextEntryType DEF NextEntry, Mutation
<1>5. /\ proposals \in Seq(Entries) /\ proposals' \in Seq(Entries)
      /\ Len(proposals) \in Nat /\ Len(proposals') = Len(proposals) + 1
      /\ proposals'[Len(proposals) + 1] = entry
      /\ \A i \in 1..Len(proposals) : proposals'[i] = proposals[i]
  BY <1>1, <1>4 DEF IInv, TypeInv
<1>6. BatchInv'
  <2> SUFFICES ASSUME NEW u \in Upserts PROVE \E first, n \in Nat : Batch(u, first, n)'
    BY DEF BatchInv
  <2>1. PICK first \in Nat, n \in Nat : Batch(u, first, n)
    BY DEF IInv, BatchInv
  <2>2. CASE u # c
    <3>1. Positions(u)' = Positions(u)
      BY <1>4, <1>5, <2>2 DEF Positions
    <3>2. \A k \in 1..n : proposals'[first + k].id = received[u][k].id
      <4> TAKE k \in 1..n
      <4>1. first + k \in 1..Len(proposals)
        BY <1>5, <2>1 DEF Batch
      <4>2. proposals[first + k].id = received[u][k].id
        BY <2>1 DEF Batch
      <4> QED
        BY <1>5, <4>1, <4>2
    <3>3. Batch(u, first, n)'
      BY <1>1, <1>3, <1>5, <2>1, <2>2, <3>1, <3>2 DEF Batch, Active
    <3> QED
      BY <3>3
  <2>3. CASE u = c
    <3>0. PICK begin \in Nat : begin = IF n = 0 THEN Len(proposals) ELSE first
      BY <1>5
    <3>1. /\ n = inserted[u] /\ begin + n = Len(proposals)
          /\ received[u] \in Seq(Request) /\ n < Len(received[u])
          /\ reply[u] = "none"
      BY <1>1, <1>5, <2>1, <2>3, <3>0 DEF Batch, IInv, CallInv, TypeInv
    <3>2. Positions(u) = begin + 1..begin + n
      BY <1>5, <2>1, <3>0, <3>1 DEF Batch
    <3>3. Positions(u)' = Positions(u) \cup {Len(proposals) + 1}
      BY <1>4, <1>5, <2>3 DEF Positions
    <3>4. Positions(u)' = begin + 1..begin + (n + 1)
      BY <3>1, <3>2, <3>3
    <3>5. \A k \in 1..n + 1 : proposals'[begin + k].id = received[u][k].id
      <4> TAKE k \in 1..n + 1
      <4>1. CASE k = n + 1
        <5>1. entry.id = received[u][n + 1].id
          BY <2>3, <3>1 DEF NextEntry, Mutation
        <5> HIDE DEF entry
        <5> QED
          BY <1>5, <3>1, <4>1, <5>1
      <4>2. CASE k # n + 1
        <5>1. k \in 1..n /\ begin = first
          BY <3>0, <4>2
        <5>2. begin + k \in 1..Len(proposals)
          BY <1>5, <3>1, <5>1
        <5>3. proposals[begin + k].id = received[u][k].id
          BY <2>1, <5>1 DEF Batch
        <5> QED
          BY <1>5, <5>2, <5>3
      <4> QED
        BY <4>1, <4>2
    <3>6. /\ received'[u] = received[u] /\ inserted'[u] = inserted[u]
          /\ \/ pc'[u] = "driving" /\ reply'[u] = "none"
             \/ pc'[u] = "done" /\ reply'[u] = "failed"
          /\ begin + (n + 1) = Len(proposals') /\ n + 1 <= Len(received[u])
      BY <1>1, <1>3, <1>5, <2>3, <3>1
    <3>7. Batch(u, begin, n + 1)'
      <4> HIDE DEF entry
      <4>1. \A k \in 1..n + 1 : proposals'[begin + k].id = received'[u][k].id
        BY <3>5, <3>6
      <4>2. /\ begin + (n + 1) <= Len(proposals') /\ n + 1 <= Len(received'[u])
            /\ Positions(u)' = begin + 1..begin + (n + 1)
        BY <1>5, <3>4, <3>6
      <4>3. pc'[u] = "driving" => n + 1 = inserted'[u] + 1 /\ begin + (n + 1) = Len(proposals')
        BY <3>1, <3>6
      <4>4. /\ pc'[u] \in {"driving", "done"}
            /\ reply'[u] \in {"none", "failed"}
        BY <3>6
      <4> QED
        BY <4>1, <4>2, <4>3, <4>4 DEF Batch, Early
    <3> QED
      BY <3>7
  <2> QED
    BY <2>2, <2>3
<1> QED
  BY <1>5, <1>6

LEMMA ProposeIInv ==
  ASSUME IInv, NEW c \in Calls, Propose(c)
  PROVE  IInv'
<1> USE ServiceAssumption DEF Calls
<1>1. /\ pc[c] = "proposing" /\ pc' = [pc EXCEPT ![c] = "driving"]
      /\ hostLock = NoOne /\ hostLock' = c
      /\ proposals' = Append(proposals, NextEntry(c))
      /\ UNCHANGED <<reply, received, inserted, writer, mutating>>
  BY DEF Propose, Goto, lockVars
<1>2. c \in Writers /\ writer = c
  BY <1>1 DEF IInv, LockInv, Active, Writers
<1>3. /\ pc' \in [Calls -> PCs] /\ pc'[c] = "driving"
      /\ \A p \in Calls \ {c} : pc'[p] = pc[p] /\ pc[p] \notin Active
  BY <1>1, <1>2 DEF IInv, TypeInv, LockInv, PCs
<1>4. reply'[c] = "none"
  BY <1>1 DEF IInv, CallInv
<1>5. proposals' \in Seq(Entries) /\ BatchInv'
  BY <1>1, <1>3, <1>4, ProposalBatch
<1>6. TypeInv'
  BY <1>1, <1>3, <1>5 DEF IInv, TypeInv
<1>7. LockInv'
  BY <1>1, <1>2, <1>3 DEF IInv, LockInv, Active, Writers
<1>8. CallInv'
  BY <1>1, <1>3 DEF IInv, CallInv, Early
<1> QED
  BY <1>5, <1>6, <1>7, <1>8 DEF IInv

\* A proposal that is not saved stands in the log all the same.
LEMMA ProposeUnsavedIInv ==
  ASSUME IInv, NEW c \in Calls, ProposeUnsaved(c)
  PROVE  IInv'
<1> USE ServiceAssumption DEF Calls
<1>1. /\ pc[c] = "proposing" /\ Return(c, "failed") /\ hostLock = NoOne
      /\ proposals' = Append(proposals, NextEntry(c))
      /\ UNCHANGED <<received, inserted, hostLock, at, mutating>>
  BY DEF ProposeUnsaved, driveVars
<1>2. c \in Writers
  BY <1>1 DEF IInv, LockInv, Active, Writers
<1>3. /\ pc' \in [Calls -> PCs] /\ reply' \in [Calls -> Answers]
      /\ pc'[c] = "done" /\ reply'[c] = "failed"
      /\ \A p \in Calls \ {c} : reply'[p] = reply[p]
      /\ \A p \in Writers \ {c} : pc'[p] = pc[p]
      /\ \A s \in Searches : pc'[s] \in {pc[s], "searching"}
      /\ \A s \in Searches : pc[s] # "locking" => pc'[s] = pc[s]
  BY <1>1, <1>2, ReturnEffect DEF IInv, Answers
<1>4. proposals' \in Seq(Entries) /\ BatchInv'
  BY <1>1, <1>3, ProposalBatch DEF Writers
<1>5. TypeInv'
  BY <1>1, <1>3, <1>4 DEF IInv, TypeInv
<1>6. LockInv'
  BY <1>1, <1>3 DEF IInv, LockInv, Active, TypeInv, Writers
<1>7. CallInv'
  BY <1>1, <1>3 DEF IInv, CallInv, Early, Writers
<1> QED
  BY <1>4, <1>5, <1>6, <1>7 DEF IInv

\* After a drive its proposal counts: the upsert goes on with the next request,
\* or returns after the last one.
LEMMA EndDriveIInv ==
  ASSUME IInv, EndDrive
  PROVE  IInv'
<1> USE ServiceAssumption DEF Calls
<1>1. /\ hostLock # NoOne /\ hostLock' = NoOne /\ at = 0
      /\ UNCHANGED <<proposals, at, mutating>>
  BY DEF EndDrive, raftVars
<1>2. ~mutating
  BY <1>1 DEF IInv, LockInv
<1>3. CASE hostLock = Peer
  <2>1. UNCHANGED <<pc, reply, received, inserted, writer>>
    BY <1>3 DEF EndDrive, callVars, lockVars
  <2> QED
    BY <1>1, <1>2, <2>1, QuietIInv
<1>4. CASE hostLock # Peer
  <2>1. hostLock \in Calls /\ pc[hostLock] = "driving"
    BY <1>1, <1>4 DEF IInv, TypeInv, LockInv
  <2>2. hostLock \in Writers /\ writer = hostLock
    BY <2>1 DEF IInv, LockInv, Active, Writers
  <2>3. CASE hostLock \in Upserts
    <3>1. PICK to \in {"proposing", "closing"} :
            /\ to = IF inserted'[hostLock] < Len(received[hostLock])
                      THEN "proposing" ELSE "closing"
            /\ pc' = [pc EXCEPT ![hostLock] = to]
            /\ inserted' = [inserted EXCEPT ![hostLock] = @ + 1]
            /\ UNCHANGED <<reply, received, writer>>
      BY <1>4, <2>3 DEF EndDrive, Goto, lockVars
    <3>2. /\ inserted' \in [Upserts -> Nat]
          /\ \A u \in Upserts \ {hostLock} : inserted'[u] = inserted[u]
          /\ inserted'[hostLock] = inserted[hostLock] + 1
      BY <2>3, <3>1 DEF IInv, TypeInv
    <3>3. /\ pc' \in [Calls -> PCs] /\ pc'[hostLock] = to
          /\ \A p \in Calls \ {hostLock} : pc'[p] = pc[p]
      BY <2>1, <3>1 DEF IInv, TypeInv, PCs
    <3>4. /\ inserted[hostLock] \in Nat /\ Len(received[hostLock]) \in Nat
          /\ inserted[hostLock] < Len(received[hostLock])
      BY <2>1, <2>3 DEF IInv, TypeInv, CallInv
    <3>5. TypeInv'
      BY <1>1, <3>1, <3>2, <3>3 DEF IInv, TypeInv
    <3>6. LockInv'
      BY <1>1, <1>2, <2>2, <3>1, <3>3 DEF IInv, LockInv, Active, Writers
    <3>7. CallInv'
      BY <2>1, <3>1, <3>2, <3>3 DEF IInv, CallInv, Early
    <3>8. BatchInv'
      <4> SUFFICES ASSUME NEW u \in Upserts
                   PROVE  \E first, n \in Nat : Batch(u, first, n)'
        BY DEF BatchInv
      <4>1. CASE u # hostLock
        BY <1>1, <3>1, <3>2, <3>3, <4>1, BatchKept
      <4>2. CASE u = hostLock
        <5>1. PICK first \in Nat, n \in Nat : Batch(u, first, n)
          BY DEF IInv, BatchInv
        <5>2. reply[u] = "none"
          BY <2>1, <4>2 DEF IInv, CallInv
        <5>3. n = inserted'[u] /\ first + n = Len(proposals)
          BY <2>1, <3>2, <4>2, <5>1 DEF Batch
        <5>4. to = "closing" => n = Len(received[u])
          BY <3>1, <3>2, <3>4, <4>2, <5>3
        <5>5. /\ pc'[u] = to /\ reply'[u] = "none" /\ received'[u] = received[u]
          BY <3>1, <3>3, <4>2, <5>2
        <5>6. Batch(u, first, n)'
          BY <1>1, <3>1, <4>2, <5>1, <5>3, <5>4, <5>5 DEF Batch, Positions, Early
        <5> QED
          BY <5>6
      <4> QED
        BY <4>1, <4>2
    <3> QED
      BY <3>5, <3>6, <3>7, <3>8 DEF IInv
  <2>4. CASE hostLock \notin Upserts
    <3>1. Return(hostLock, "accepted") /\ UNCHANGED <<received, inserted>>
      BY <1>4, <2>4 DEF EndDrive
    <3>2. inserted \in [Upserts -> Nat]
      BY DEF IInv, TypeInv
    <3> QED
      BY <1>1, <1>2, <2>1, <2>2, <2>4, <3>1, <3>2, ReturnIInv DEF Answers, Active
  <2> QED
    BY <2>3, <2>4
<1> QED
  BY <1>3, <1>4

LEMMA RefuseApplyIInv ==
  ASSUME IInv, RefuseApply
  PROVE  IInv'
<1> USE ServiceAssumption DEF Calls
<1>1. /\ at # 0 /\ ~mutating /\ at' = 0 /\ hostLock' = NoOne
      /\ UNCHANGED <<proposals, mutating>>
  BY DEF RefuseApply, raftVars
<1>2. CASE hostLock = Peer
  <2>1. UNCHANGED <<pc, reply, received, inserted, writer>>
    BY <1>2 DEF RefuseApply, callVars, lockVars
  <2> QED
    BY <1>1, <2>1, QuietIInv
<1>3. CASE hostLock # Peer
  <2>1. hostLock \in Calls /\ pc[hostLock] = "driving"
    BY <1>1, <1>3 DEF IInv, TypeInv, LockInv
  <2>2. hostLock \in Writers
    BY <2>1 DEF IInv, LockInv, Active, Writers
  <2>3. Return(hostLock, "failed") /\ UNCHANGED <<received, inserted>>
    BY <1>3 DEF RefuseApply
  <2> QED
    BY <1>1, <2>1, <2>2, <2>3, ReturnIInv DEF IInv, TypeInv, Answers, Active
<1> QED
  BY <1>2, <1>3

\* The steps of a search, and the start of a call.
LEMMA CallAndSearchIInv ==
  ASSUME IInv,
         \/ \E c \in Calls : Call(c)
         \/ \E s \in Searches : RLock(s) \/ Search(s) \/ Sent(s)
  PROVE  IInv'
<1> USE ServiceAssumption DEF Calls
<1>1. ASSUME NEW c \in Calls, Call(c) PROVE IInv'
  <2>1. /\ pc[c] = "idle" /\ pc' = [pc EXCEPT ![c] = "locking"]
        /\ UNCHANGED <<reply, received, inserted, writer, proposals, hostLock, at, mutating>>
    BY <1>1 DEF Call, Goto, lockVars, raftVars, driveVars
  <2>2. reply \in [Calls -> Answers]
    BY DEF IInv, TypeInv
  <2> QED
    BY <2>1, <2>2, EarlyIInv DEF PCs, Early, Active
<1>2. ASSUME NEW s \in Searches, RLock(s) \/ Search(s) PROVE IInv'
  <2>1. PICK to \in {"searching", "sending"} :
          /\ pc[s] \in {"locking", "searching"} /\ pc' = [pc EXCEPT ![s] = to]
          /\ UNCHANGED <<reply, received, inserted, writer, proposals, hostLock, at, mutating>>
    BY <1>2 DEF RLock, Search, Goto, lockVars, raftVars, driveVars
  <2>2. reply \in [Calls -> Answers]
    BY DEF IInv, TypeInv
  <2> QED
    BY <2>1, <2>2, EarlyIInv DEF PCs, Active
<1>3. ASSUME NEW s \in Searches, Sent(s) PROVE IInv'
  <2>1. /\ pc[s] = "sending" /\ pc' = [pc EXCEPT ![s] = "done"]
        /\ UNCHANGED <<received, inserted, writer, proposals, hostLock, at, mutating>>
    BY <1>3 DEF Sent, Goto, raftVars, driveVars
  <2>2. /\ reply' \in [Calls -> Answers]
        /\ \A p \in Calls \ {s} : reply'[p] = reply[p]
    BY <1>3 DEF Sent, IInv, TypeInv, Answers
  <2> QED
    BY <2>1, <2>2, EarlyIInv DEF PCs, Active
<1> QED
  BY <1>1, <1>2, <1>3

\* Every step keeps the invariant.
LEMMA NextIInv == IInv /\ [Next]_vars => IInv'
<1> SUFFICES ASSUME IInv, [Next]_vars PROVE IInv'
  OBVIOUS
<1>1. CASE \E c \in Calls : Call(c) \/ Lock(c) \/ HostPropose(c)
  BY <1>1, CallAndSearchIInv, LockIInv, ProposeIInv, ProposeUnsavedIInv,
     ProposeRefusedIInv DEF HostPropose
<1>2. CASE \E u \in Upserts : Stream(u) \/ SendAndClose(u)
  BY <1>2, ReceiveIInv, EndOfStreamIInv, StreamBreaksIInv, SendAndCloseIInv DEF Stream
<1>3. CASE \E s \in Searches : RLock(s) \/ Search(s) \/ Sent(s)
  BY <1>3, CallAndSearchIInv
<1>4. CASE HostStep
  <2>1. CASE BeginApply
    <3>1. /\ at # 0
          /\ UNCHANGED <<pc, reply, received, inserted, writer, proposals, hostLock, at>>
      BY <2>1 DEF BeginApply, callVars, lockVars, raftVars
    <3> QED
      BY <3>1, QuietIInv DEF IInv, LockInv
  <2>2. CASE EndApply
    <3>1. /\ mutating /\ ~mutating'
          /\ UNCHANGED <<pc, reply, received, inserted, writer, proposals, hostLock>>
      BY <2>2 DEF EndApply, callVars, lockVars, raftVars
    <3> QED
      BY <3>1, QuietIInv DEF IInv, LockInv
  <2> QED
    BY <1>4, <2>1, <2>2, EndDriveIInv, RefuseApplyIInv DEF HostStep
<1>5. CASE \E k \in 0..Len(log) :
             PeerDrives(k) \/ \E entries \in ForeignEntries : HandleAppend(k, entries)
  <2>1. /\ hostLock = NoOne /\ \E c : PeerDrive(c)
        /\ UNCHANGED <<pc, reply, received, inserted, writer, proposals, mutating>>
    BY <1>5 DEF PeerDrives, HandleAppend, callVars, lockVars
  <2>2. ~mutating /\ at = 0
    BY <2>1 DEF IInv, LockInv
  <2>3. hostLock' \in {Peer, NoOne} /\ (at' # 0 => hostLock' # NoOne)
    BY <2>1, <2>2, ServiceAssumption DEF PeerDrive, Drive
  <2> QED
    BY <2>1, <2>2, <2>3, QuietIInv
<1>6. CASE BecomeLeader \/ IdleTick \/ UNCHANGED vars
  <2>1. UNCHANGED <<pc, reply, received, inserted, writer, proposals, hostLock, at, mutating>>
    BY <1>6 DEF BecomeLeader, IdleTick, vars, callVars, lockVars, raftVars, driveVars
  <2> QED
    BY <2>1, QuietIInv DEF IInv, LockInv
<1> QED
  BY <1>1, <1>2, <1>3, <1>4, <1>5, <1>6 DEF Next

-----------------------------------------------------------------------------
(* What a batch leaves.                                                    *)

\* By induction over the steps; fairness plays no part.
LEMMA ServiceInvariance == Spec => []IInv
<1> QED
  BY InitIInv, NextIInv, PTL DEF Spec

\* The part of the log that an upsert has filled, and how much it is.
LEMMA BatchCount ==
  ASSUME IInv, NEW u \in Upserts
  PROVE  \E first \in 0..Len(proposals), n \in Nat :
           Batch(u, first, n) /\ Cardinality(Positions(u)) = n
<1>1. PICK first \in Nat, n \in Nat : Batch(u, first, n)
  BY DEF IInv, BatchInv
<1>2. Positions(u) = first + 1..first + n
  BY <1>1 DEF Batch
<1>3. Cardinality(Positions(u)) = n
  <2>1. Cardinality(first + 1..first + n) =
          IF first + 1 > first + n THEN 0 ELSE (first + n) - (first + 1) + 1
    BY FS_Interval
  <2> QED
    BY <1>2, <2>1
<1>4. Len(proposals) \in Nat
  BY DEF IInv, TypeInv
<1>5. first \in 0..Len(proposals)
  BY <1>1, <1>4 DEF Batch
<1> QED
  BY <1>1, <1>3, <1>5

\* An upsert that Service.Upsert rejects as malformed, or whose stream cannot be
\* read to its end, leaves no entry in the log; one that comes to its answer has
\* proposed all of its batch, also if sending the answer fails. With any number
\* of calls, any length of stream, and whatever the leadership does meanwhile.
THEOREM UpsertsAreAllOrNothing == Spec => []AllOrNothing
<1>1. IInv => AllOrNothing
  <2> SUFFICES ASSUME IInv, NEW u \in Upserts
               PROVE  /\ reply[u] \in {"malformed", "broken"} => Positions(u) = {}
                      /\ reply[u] \in {"accepted", "unsent"} =>
                           Cardinality(Positions(u)) = Len(received[u])
    BY DEF AllOrNothing
  <2>1. PICK first \in 0..Len(proposals), n \in Nat :
          Batch(u, first, n) /\ Cardinality(Positions(u)) = n
    BY BatchCount
  <2>2. reply[u] \in {"malformed", "broken"} => n = 0 /\ Positions(u) = first + 1..first + n
    BY <2>1 DEF Batch
  <2>3. first + 1..first + 0 = {}
    OBVIOUS
  <2> QED
    BY <2>1, <2>2, <2>3 DEF Batch
<1> QED
  BY <1>1, ServiceInvariance, PTL

\* The entries of an upsert stand together in the log, in the order of its
\* stream: Service.mu keeps every other Upsert and Delete of the node out, for
\* batches of any length, proposals that fail in the middle included.
THEOREM BatchesAreContiguous == Spec => []BatchIsContiguous
<1>1. IInv => BatchIsContiguous
  <2> SUFFICES ASSUME IInv, NEW u \in Upserts
               PROVE  LET count == Cardinality(Positions(u))
                      IN \E first \in 0..Len(proposals) :
                           /\ Positions(u) = first + 1..first + count
                           /\ \A k \in 1..count :
                                proposals[first + k].id = received[u][k].id
    BY DEF BatchIsContiguous
  <2>1. PICK first \in 0..Len(proposals), n \in Nat :
          Batch(u, first, n) /\ Cardinality(Positions(u)) = n
    BY BatchCount
  <2> QED
    BY <2>1 DEF Batch
<1> QED
  BY <1>1, ServiceInvariance, PTL

-----------------------------------------------------------------------------
(* The drive, and what a search sees of the graph.                         *)

\* What is applied is committed, and a drive applies what is committed.
DriveType ==
  /\ log \in Seq(Entries) /\ graph \in SUBSET Entries
  /\ result \in [Searches -> SUBSET Entries]
  /\ applied \in Nat /\ committed \in Nat /\ at \in Nat
  /\ applied <= committed /\ committed <= Len(log)
  /\ at # 0 => applied < at /\ at <= committed

\* Contents(i - 1) as the mutation of entry i leaves it half done.
Half(i) == {e \in Contents(i - 1) : e.id # log[i].id}

\* The graph is what the entries before the one being applied leave, less, in
\* the middle of it, the entry of its ID.
GraphInv ==
  NothingRefused =>
    graph = IF at = 0 THEN Contents(applied)
            ELSE IF mutating THEN Half(at) ELSE Contents(at - 1)

DriveInv == IInv /\ DriveType /\ GraphInv /\ SearchSeesWholeEntries

\* The entries up to n, and so their contents, stay.
LEMMA ContentsKept ==
  ASSUME NEW n \in Nat, NEW m \in Nat, n <= m,
         \A i \in 1..m : log'[i] = log[i]
  PROVE  Contents(n)' = Contents(n)
<1>1. \A i \in 1..n : log'[i] = log[i]
  OBVIOUS
<1> QED
  BY <1>1, \A j \in 1..n : \A k \in j + 1..n : k \in 1..n DEF Contents

\* A mutation turns the contents before its entry into those after it.
LEMMA ContentsStep ==
  ASSUME NEW i \in Nat, i # 0
  PROVE  Contents(i) = IF log[i].insert THEN Half(i) \cup {log[i]} ELSE Half(i)
<1> DEFINE Lasts(j, n) == log[j].insert /\ \A k \in j + 1..n : log[k].id # log[j].id
<1>1. \A n \in Nat : \A e : e \in Contents(n) <=> \E j \in 1..n : e = log[j] /\ Lasts(j, n)
  BY DEF Contents
<1>2. ASSUME NEW j \in 1..i - 1
      PROVE  Lasts(j, i) <=> Lasts(j, i - 1) /\ log[j].id # log[i].id
  <2>1. j + 1..i = (j + 1..i - 1) \cup {i}
    OBVIOUS
  <2> QED
    BY <2>1
<1>3. Lasts(i, i) <=> log[i].insert
  <2>1. i + 1..i = {}
    OBVIOUS
  <2> QED
    BY <2>1
<1>4. 1..i = (1..i - 1) \cup {i} /\ i - 1 \in Nat
  OBVIOUS
<1> HIDE DEF Lasts
<1>5. \A e : e \in Half(i) <=> \E j \in 1..i - 1 : e = log[j] /\ Lasts(j, i)
  BY <1>1, <1>2, <1>4 DEF Half
<1>6. \A e : e \in Contents(i) <=> e \in Half(i) \/ (e = log[i] /\ log[i].insert)
  BY <1>1, <1>3, <1>4, <1>5
<1> QED
  BY <1>6

\* An entry that is committed stays, so nothing that was refused is accepted
\* later, and what a search has seen is still what a committed entry left.
LEMMA CommittedKept ==
  ASSUME DriveType, committed' \in Nat, committed <= committed',
         \A i \in 1..committed : log'[i] = log[i]
  PROVE  /\ NothingRefused' => NothingRefused
         /\ \A n \in 0..committed : Contents(n)' = Contents(n) /\ n \in 0..committed'
<1>1. \A n \in 0..committed : Contents(n)' = Contents(n)
  BY ContentsKept DEF DriveType
<1>2. \A n \in 0..committed : n \in 0..committed'
  BY DEF DriveType
<1>3. ASSUME NothingRefused' PROVE NothingRefused
  <2> SUFFICES ASSUME NEW i \in 1..committed
               PROVE  log[i].insert \/ \E e \in Contents(i - 1) : e.id = log[i].id
    BY DEF NothingRefused
  <2>1. i \in 1..committed' /\ i - 1 \in 0..committed
    BY DEF DriveType
  <2>2. log'[i].insert \/ \E e \in Contents(i - 1)' : e.id = log'[i].id
    BY <1>3, <2>1 DEF NothingRefused
  <2> QED
    BY <1>1, <2>1, <2>2
<1> QED
  BY <1>1, <1>2, <1>3

\* Steps that make no search see anything keep what the others have seen.
LEMMA ResultsKept ==
  ASSUME DriveInv, committed' \in Nat, committed <= committed',
         \A i \in 1..committed : log'[i] = log[i],
         result' = result,
         \A s \in Searches : pc'[s] \in {"sending", "done"} => pc[s] \in {"sending", "done"}
  PROVE  SearchSeesWholeEntries'
<1> SUFFICES ASSUME NothingRefused', NEW s \in Searches, pc'[s] \in {"sending", "done"}
             PROVE  \E n \in 0..committed' : result'[s] = Contents(n)'
  BY DEF SearchSeesWholeEntries
<1>1. NothingRefused
  BY CommittedKept DEF DriveInv
<1>2. PICK n \in 0..committed : result[s] = Contents(n)
  BY <1>1 DEF DriveInv, SearchSeesWholeEntries
<1> QED
  BY <1>2, CommittedKept DEF DriveInv

\* Steps that leave the graph and the drive alone, and keep what is committed.
LEMMA GraphKept ==
  ASSUME DriveInv, log' \in Seq(Entries), committed' \in Nat,
         committed <= committed', committed' <= Len(log'), \A i \in 1..committed : log'[i] = log[i],
         UNCHANGED <<at, mutating, applied, graph>>
  PROVE  GraphInv' /\ (result' \in [Searches -> SUBSET Entries] => DriveType')
<1>1. DriveType
  BY DEF DriveInv
<1>2. result' \in [Searches -> SUBSET Entries] => DriveType'
  BY <1>1 DEF DriveType
<1>3. GraphInv'
  <2> SUFFICES ASSUME NothingRefused'
               PROVE  graph = IF at = 0 THEN Contents(applied)'
                              ELSE IF mutating THEN Half(at)' ELSE Contents(at - 1)'
    BY DEF GraphInv
  <2>1. NothingRefused /\ \A n \in 0..committed : Contents(n)' = Contents(n)
    BY <1>1, CommittedKept
  <2>2. applied \in 0..committed
    BY <1>1 DEF DriveType
  <2>3. CASE at = 0
    <3>1. Contents(applied)' = Contents(applied)
      <4>1. PICK n \in 0..committed : n = applied
        BY <2>2
      <4>2. Contents(applied)' = Contents(n)'
        BY <4>1
      <4> QED
        BY <2>1, <4>1, <4>2
    <3> QED
      BY <2>1, <2>3, <3>1 DEF DriveInv, GraphInv
  <2>4. CASE at # 0
    <3>1. PICK i \in 1..committed : i = at
      BY <1>1, <2>4 DEF DriveType
    <3>2. i - 1 \in 0..committed /\ log'[i] = log[i]
      BY <1>1 DEF DriveType
    <3>3. Contents(i - 1)' = Contents(i - 1) /\ Half(i)' = Half(i)
      BY <2>1, <3>2 DEF Half
    <3> QED
      BY <2>1, <2>4, <3>1, <3>3 DEF DriveInv, GraphInv
  <2> QED
    BY <2>3, <2>4
<1> QED
  BY <1>2, <1>3

\* The calls, the leadership and the end of a drive.
LEMMA KeptDriveInv ==
  ASSUME DriveInv, IInv', log' \in Seq(Entries), committed' \in Nat,
         committed <= committed', committed' <= Len(log'), \A i \in 1..committed : log'[i] = log[i],
         UNCHANGED <<at, mutating, applied, graph, result>>,
         \A s \in Searches : pc'[s] \in {"sending", "done"} => pc[s] \in {"sending", "done"}
  PROVE  DriveInv'
<1>1. DriveType
  BY DEF DriveInv
<1>2. GraphInv' /\ DriveType'
  BY <1>1, GraphKept DEF DriveType
<1>3. SearchSeesWholeEntries'
  BY ResultsKept
<1> QED
  BY <1>2, <1>3 DEF DriveInv

\* A drive begins with the first entry that is not applied, on a graph that
\* holds what the entries before it leave.
LEMMA DriveBegins ==
  ASSUME DriveInv, IInv', log' \in Seq(Entries), committed' \in Nat,
         committed <= committed', committed' <= Len(log'),
         \A i \in 1..committed : log'[i] = log[i],
         at = 0, at' = Drive(committed'), ~mutating,
         UNCHANGED <<mutating, applied, graph, result>>,
         \A s \in Searches : pc'[s] \in {"sending", "done"} => pc[s] \in {"sending", "done"}
  PROVE  DriveInv'
<1>1. DriveType
  BY DEF DriveInv
<1>2. applied \in Nat /\ committed \in Nat /\ applied <= committed
  BY <1>1 DEF DriveType
<1>3. at' \in Nat /\ (at' # 0 => at' = applied + 1 /\ applied < at' /\ at' <= committed')
  BY <1>2 DEF Drive
<1>4. DriveType'
  BY <1>1, <1>2, <1>3 DEF DriveType
<1>5. GraphInv'
  <2> SUFFICES ASSUME NothingRefused'
               PROVE  graph' = IF at' = 0 THEN Contents(applied)' ELSE Contents(at - 1)'
    <3>1. ~mutating'
      OBVIOUS
    <3> QED
      BY <3>1 DEF GraphInv
  <2>1. PICK n \in 0..committed : n = applied
    BY <1>2
  <2>2. NothingRefused /\ Contents(n)' = Contents(n)
    BY <1>1, CommittedKept
  <2>3. graph = Contents(n)'
    BY <2>1, <2>2 DEF DriveInv, GraphInv
  <2>4. applied' = n /\ (at' # 0 => (at - 1)' = n)
    BY <1>2, <1>3, <2>1
  <2>5. Contents(applied)' = Contents(n)' /\ (at' # 0 => Contents(at - 1)' = Contents(n)')
    BY <2>4
  <2> QED
    BY <2>3, <2>5
<1>6. SearchSeesWholeEntries'
  BY ResultsKept
<1> QED
  BY <1>4, <1>5, <1>6 DEF DriveInv

\* What a return does to the searches: some get Service.mu, none a result.
LEMMA ReturnSearches ==
  ASSUME DriveInv, NEW c \in Writers, NEW answer \in Answers, Return(c, answer)
  PROVE  \A s \in Searches : pc'[s] \in {"sending", "done"} => pc[s] \in {"sending", "done"}
BY ReturnEffect DEF DriveInv, IInv

LEMMA CallDrive ==
  ASSUME DriveInv, IInv', NEW c \in Calls, Call(c) \/ Lock(c) \/ HostPropose(c)
  PROVE  DriveInv'
<1> USE ServiceAssumption DEF Calls
<1>1. IInv /\ DriveType /\ pc \in [Calls -> PCs] /\ log \in Seq(Entries)
  BY DEF DriveInv, IInv, TypeInv, DriveType
<1>2. CASE Call(c) \/ Lock(c)
  <2>1. PICK to \in {"locking", "receiving", "proposing"} : pc' = [pc EXCEPT ![c] = to]
    BY <1>2 DEF Call, Lock, Goto
  <2>2. \A s \in Searches : pc'[s] \in {"sending", "done"} => pc[s] \in {"sending", "done"}
    BY <1>1, <2>1
  <2>3. UNCHANGED <<log, committed, at, mutating, applied, graph, result>>
    BY <1>2 DEF Call, Lock, raftVars, driveVars
  <2> QED
    BY <1>1, <2>2, <2>3, KeptDriveInv DEF DriveType
<1>3. CASE ProposeRefused(c)
  <2>1. c \in Writers
    BY <1>1, <1>3 DEF ProposeRefused, IInv, LockInv, Active, Writers
  <2>2. \A s \in Searches : pc'[s] \in {"sending", "done"} => pc[s] \in {"sending", "done"}
    BY <1>3, <2>1, ReturnSearches DEF ProposeRefused, Answers
  <2>3. UNCHANGED <<log, committed, at, mutating, applied, graph, result>>
    BY <1>3 DEF ProposeRefused, raftVars, driveVars
  <2> QED
    BY <1>1, <2>2, <2>3, KeptDriveInv DEF DriveType
<1>4. ASSUME pc[c] = "proposing", log' = Append(log, NextEntry(c)), committed' = committed
      PROVE  /\ log' \in Seq(Entries) /\ committed' \in Nat
             /\ committed <= committed' /\ committed' <= Len(log')
             /\ \A i \in 1..committed : log'[i] = log[i]
  <2>1. NextEntry(c) \in Entries
    BY <1>1, <1>4, NextEntryType
  <2>2. /\ log' \in Seq(Entries) /\ Len(log') = Len(log) + 1
        /\ \A i \in 1..Len(log) : log'[i] = log[i]
    BY <1>1, <1>4, <2>1
  <2> QED
    BY <1>1, <1>4, <2>2 DEF DriveType
<1>5. CASE Propose(c)
  <2>1. /\ pc[c] = "proposing" /\ pc' = [pc EXCEPT ![c] = "driving"]
        /\ hostLock = NoOne /\ log' = Append(log, NextEntry(c)) /\ at' = Drive(committed)
        /\ UNCHANGED <<committed, mutating, applied, graph, result>>
    BY <1>5 DEF Propose, Goto
  <2>2. at = 0 /\ ~mutating
    BY <1>1, <2>1 DEF IInv, LockInv
  <2>3. \A s \in Searches : pc'[s] \in {"sending", "done"} => pc[s] \in {"sending", "done"}
    BY <1>1, <2>1
  <2>4. at' = Drive(committed')
    BY <2>1
  <2> QED
    BY <1>4, <2>1, <2>2, <2>3, <2>4, DriveBegins
<1>6. CASE ProposeUnsaved(c)
  <2>1. /\ pc[c] = "proposing" /\ Return(c, "failed") /\ log' = Append(log, NextEntry(c))
        /\ UNCHANGED <<committed, at, mutating, applied, graph, result>>
    BY <1>6 DEF ProposeUnsaved, driveVars
  <2>2. c \in Writers
    BY <1>1, <2>1 DEF IInv, LockInv, Active, Writers
  <2>3. \A s \in Searches : pc'[s] \in {"sending", "done"} => pc[s] \in {"sending", "done"}
    BY <2>1, <2>2, ReturnSearches DEF Answers
  <2> QED
    BY <1>4, <2>1, <2>3, KeptDriveInv
<1> QED
  BY <1>2, <1>3, <1>5, <1>6 DEF HostPropose

LEMMA StreamDrive ==
  ASSUME DriveInv, IInv', NEW u \in Upserts, Stream(u) \/ SendAndClose(u)
  PROVE  DriveInv'
<1> USE ServiceAssumption DEF Calls
<1>1. DriveType /\ pc \in [Calls -> PCs]
  BY DEF DriveInv, IInv, TypeInv
<1>2. UNCHANGED <<log, committed, at, mutating, applied, graph, result>>
  BY DEF Stream, Receive, EndOfStream, StreamBreaks, SendAndClose, raftVars, driveVars
<1>3. \/ \E answer \in Answers : Return(u, answer)
      \/ \E to \in {"proposing", "closing"} : Goto(u, to)
      \/ pc' = pc
  BY DEF Stream, Receive, EndOfStream, StreamBreaks, SendAndClose, Answers
<1>4. u \in Writers
  BY DEF Writers
<1>5. \A s \in Searches : pc'[s] \in {"sending", "done"} => pc[s] \in {"sending", "done"}
  <2>1. CASE \E answer \in Answers : Return(u, answer)
    BY <1>4, <2>1, ReturnSearches
  <2>2. CASE (\E to \in {"proposing", "closing"} : Goto(u, to)) \/ pc' = pc
    BY <1>1, <2>2 DEF Goto
  <2> QED
    BY <1>3, <2>1, <2>2
<1> QED
  BY <1>1, <1>2, <1>5, KeptDriveInv DEF DriveType

\* One step of applying an entry: its mutation begins, or is complete.
LEMMA ApplyDrive ==
  ASSUME DriveInv, IInv', BeginApply \/ EndApply
  PROVE  DriveInv'
<1>1. IInv /\ DriveType /\ UNCHANGED <<pc, log, committed, result>>
  BY DEF DriveInv, BeginApply, EndApply, callVars, raftVars
<1>2. at # 0
  BY <1>1 DEF BeginApply, EndApply, IInv, LockInv
<1>3. PICK i \in 1..committed : i = at
  BY <1>1, <1>2 DEF DriveType
<1>4. log[i] \in Entries /\ applied < i /\ i <= committed /\ committed \in Nat /\ applied \in Nat
  BY <1>1, <1>3 DEF DriveType
<1>5. SearchSeesWholeEntries'
  BY <1>1, ResultsKept DEF DriveType
<1>6. (NothingRefused' <=> NothingRefused) /\ \A n \in Nat : Contents(n)' = Contents(n)
  BY <1>1 DEF NothingRefused, Contents
<1>7. CASE BeginApply
  <2>1. /\ ~mutating /\ mutating' /\ UNCHANGED <<at, applied>>
        /\ graph' = {e \in graph : e.id # log[i].id}
    BY <1>3, <1>7 DEF BeginApply
  <2>2. DriveType'
    BY <1>1, <2>1 DEF DriveType
  <2>3. NothingRefused => graph = Contents(i - 1)
    BY <1>2, <1>3, <2>1 DEF DriveInv, GraphInv
  <2>4. NothingRefused => graph' = Half(i)
    BY <2>1, <2>3 DEF Half
  <2>5. Half(at)' = Half(i)
    BY <1>1, <1>3, <2>1 DEF Half, Contents
  <2>6. GraphInv'
    BY <1>2, <1>6, <2>1, <2>4, <2>5 DEF GraphInv
  <2> QED
    BY <1>5, <2>2, <2>6 DEF DriveInv
<1>8. CASE EndApply
  <2>1. /\ mutating /\ ~mutating'
        /\ graph' = IF log[i].insert THEN graph \cup {log[i]} ELSE graph
        /\ at' = IF i = committed THEN 0 ELSE i + 1
        /\ applied' = IF i = committed THEN committed ELSE applied
    BY <1>3, <1>8 DEF EndApply
  <2>2. DriveType'
    BY <1>1, <1>4, <2>1 DEF DriveType
  <2>3. NothingRefused => graph = Half(i)
    BY <1>2, <1>3, <2>1 DEF DriveInv, GraphInv
  <2>4. NothingRefused => graph' = Contents(i)
    BY <2>1, <2>3, ContentsStep
  <2>5. IF at' = 0 THEN applied' = i ELSE (at - 1)' = i
    BY <1>4, <2>1
  <2>6. Contents(i)' = Contents(i)
    BY <1>6
  <2>7. IF at' = 0 THEN Contents(applied)' = Contents(i)' ELSE Contents(at - 1)' = Contents(i)'
    BY <2>5
  <2>8. GraphInv'
    BY <1>6, <2>1, <2>4, <2>6, <2>7 DEF GraphInv
  <2> QED
    BY <1>5, <2>2, <2>8 DEF DriveInv
<1> QED
  BY <1>7, <1>8

LEMMA EndDriveDrive ==
  ASSUME DriveInv, IInv', EndDrive
  PROVE  DriveInv'
<1> USE ServiceAssumption DEF Calls
<1>1. /\ IInv /\ DriveType /\ hostLock # NoOne
      /\ UNCHANGED <<log, committed, at, mutating, applied, graph, result>>
  BY DEF DriveInv, EndDrive, raftVars
<1>2. \A s \in Searches : pc'[s] \in {"sending", "done"} => pc[s] \in {"sending", "done"}
  <2>1. CASE hostLock = Peer
    BY <2>1 DEF EndDrive, callVars
  <2>2. CASE hostLock # Peer
    <3>1. hostLock \in Writers /\ pc \in [Calls -> PCs]
      BY <1>1, <2>2 DEF IInv, TypeInv, LockInv, Active, Writers
    <3>2. \/ \E to \in {"proposing", "closing"} : Goto(hostLock, to)
          \/ Return(hostLock, "accepted")
      BY <2>2 DEF EndDrive
    <3> QED
      BY <3>1, <3>2, ReturnSearches DEF Goto, Answers
  <2> QED
    BY <2>1, <2>2
<1> QED
  BY <1>1, <1>2, KeptDriveInv DEF DriveType

\* The graph refuses an entry only if that is one of those that NothingRefused
\* rules out.
LEMMA RefuseApplyDrive ==
  ASSUME DriveInv, IInv', RefuseApply
  PROVE  DriveInv'
<1> USE ServiceAssumption DEF Calls
<1>1. /\ IInv /\ DriveType /\ at # 0 /\ ~mutating /\ at' = 0
      /\ UNCHANGED <<log, committed, mutating, applied, graph, result>>
  BY DEF DriveInv, RefuseApply, raftVars
<1>2. PICK i \in 1..committed : i = at
  BY <1>1 DEF DriveType
<1>3. ~NothingRefused
  <2> SUFFICES ASSUME NothingRefused PROVE FALSE
    OBVIOUS
  <2>1. graph = Contents(i - 1)
    BY <1>1, <1>2 DEF DriveInv, GraphInv
  <2> QED
    BY <1>2, <2>1 DEF RefuseApply, Accepted, NothingRefused
<1>4. ~NothingRefused'
  BY <1>1, <1>3 DEF NothingRefused, Contents
<1>5. DriveType'
  BY <1>1 DEF DriveType
<1> QED
  BY <1>4, <1>5 DEF DriveInv, GraphInv, SearchSeesWholeEntries

LEMMA SearchDrive ==
  ASSUME DriveInv, IInv', NEW s \in Searches, RLock(s) \/ Search(s) \/ Sent(s)
  PROVE  DriveInv'
<1> USE ServiceAssumption DEF Calls
<1>1. /\ DriveType /\ pc \in [Calls -> PCs]
      /\ UNCHANGED <<log, committed, at, mutating, applied, graph>>
  BY DEF DriveInv, IInv, TypeInv, RLock, Search, Sent, raftVars, driveVars
<1>2. CASE RLock(s) \/ Sent(s)
  <2>1. result' = result
    BY <1>2 DEF RLock, Sent
  <2>2. \A q \in Searches : pc'[q] \in {"sending", "done"} => pc[q] \in {"sending", "done"}
    BY <1>1, <1>2 DEF RLock, Sent, Goto
  <2> QED
    BY <1>1, <2>1, <2>2, KeptDriveInv DEF DriveType
<1>3. CASE Search(s)
  <2>1. /\ ~mutating /\ result' = [result EXCEPT ![s] = graph]
        /\ pc' = [pc EXCEPT ![s] = "sending"]
    BY <1>3 DEF Search, Goto
  <2>2. result' \in [Searches -> SUBSET Entries] /\ result'[s] = graph
    BY <1>1, <2>1 DEF DriveType
  <2>3. GraphInv' /\ DriveType'
    BY <1>1, <2>2, GraphKept DEF DriveType
  <2>4. (NothingRefused' <=> NothingRefused) /\ \A n \in Nat : Contents(n)' = Contents(n)
    BY <1>1 DEF NothingRefused, Contents
  <2>5. SearchSeesWholeEntries'
    <3> SUFFICES ASSUME NothingRefused, NEW q \in Searches, pc'[q] \in {"sending", "done"}
                 PROVE  \E n \in 0..committed : result'[q] = Contents(n)
      BY <1>1, <2>4 DEF SearchSeesWholeEntries, DriveType
    <3>1. CASE q = s
      <4>1. PICK n \in 0..committed : n = IF at = 0 THEN applied ELSE at - 1
        BY <1>1 DEF DriveType
      <4>2. graph = Contents(n)
        BY <2>1, <4>1 DEF DriveInv, GraphInv
      <4> QED
        BY <2>2, <3>1, <4>2
    <3>2. CASE q # s
      <4>1. result'[q] = result[q] /\ pc[q] \in {"sending", "done"}
        BY <1>1, <2>1, <3>2 DEF DriveType
      <4> QED
        BY <4>1 DEF DriveInv, SearchSeesWholeEntries
    <3> QED
      BY <3>1, <3>2
  <2> QED
    BY <2>3, <2>5 DEF DriveInv
<1> QED
  BY <1>2, <1>3

\* What comes from the peers: entries of another leader cut what is not
\* committed, more is committed, and a drive begins or fails to.
LEMMA PeerDriveInv ==
  ASSUME DriveInv, IInv', NEW k \in 0..Len(log),
         PeerDrives(k) \/ \E entries \in ForeignEntries : HandleAppend(k, entries)
  PROVE  DriveInv'
<1>1. /\ IInv /\ DriveType /\ log \in Seq(Entries) /\ pc' = pc /\ hostLock = NoOne
      /\ UNCHANGED <<mutating, applied, graph, result>>
  BY DEF DriveInv, DriveType, PeerDrives, HandleAppend, callVars
<1>2. at = 0 /\ ~mutating
  BY <1>1 DEF IInv, LockInv
<1>3. committed \in Nat /\ committed <= Len(log) /\ Len(log) \in Nat
  BY <1>1 DEF DriveType
<1>4. /\ log' \in Seq(Entries) /\ committed' \in Nat
      /\ committed <= committed' /\ committed' <= Len(log') /\ PeerDrive(committed')
      /\ \A i \in 1..committed : log'[i] = log[i]
  <2>1. CASE PeerDrives(k)
    BY <1>1, <1>3, <2>1 DEF PeerDrives
  <2>2. CASE \E entries \in ForeignEntries : HandleAppend(k, entries)
    <3>1. PICK entries \in ForeignEntries : HandleAppend(k, entries)
      BY <2>2
    <3>2. committed <= k /\ log' = IF entries = <<>> THEN log ELSE SubSeq(log, 1, k) \o entries
      BY <3>1 DEF HandleAppend
    <3>3. entries \in Seq(Entries)
      <4>1. ASSUME NEW f \in Foreign
            PROVE  Mutation(Peer, f.id, f.insert) \in Entries
        BY ServiceAssumption DEF Mutation, Entries
      <4>2. entries = <<>> \/ \E f \in Foreign : entries = <<Mutation(Peer, f.id, f.insert)>>
        BY DEF ForeignEntries
      <4>3. \A e \in Entries : <<e>> \in Seq(Entries)
        OBVIOUS
      <4>4. <<>> \in Seq(Entries)
        OBVIOUS
      <4> HIDE DEF Entries
      <4> QED
        BY <4>1, <4>2, <4>3, <4>4, Zenon
    <3>4. log' \in Seq(Entries) /\ k <= Len(log') /\ \A i \in 1..k : log'[i] = log[i]
      <4>1. CASE entries = <<>>
        BY <1>1, <1>3, <3>2, <4>1
      <4>2. CASE entries # <<>>
        <5>0. SubSeq(log, 1, k) \in Seq(Entries)
          BY <1>1, <1>3
        <5>1. PICK part \in Seq(Entries) : part = SubSeq(log, 1, k)
          BY <5>0
        <5>2. Len(part) = k /\ \A i \in 1..k : part[i] = log[i]
          BY <1>1, <1>3, <5>1
        <5>3. log' = part \o entries
          BY <3>2, <4>2, <5>1
        <5> QED
          BY <1>3, <3>3, <5>2, <5>3
      <4> QED
        BY <4>1, <4>2
    <3>5. \E c \in committed..Len(log') : committed' = c /\ PeerDrive(c)
      BY <3>1 DEF HandleAppend
    <3> QED
      BY <1>3, <3>2, <3>4, <3>5
  <2> QED
    BY <2>1, <2>2
<1>5. CASE at' = Drive(committed')
  BY <1>1, <1>2, <1>4, <1>5, DriveBegins
<1>6. CASE at' = at
  BY <1>1, <1>4, <1>6, KeptDriveInv
<1> QED
  BY <1>4, <1>5, <1>6 DEF PeerDrive

LEMMA NextDriveInv == DriveInv /\ [Next]_vars => DriveInv'
<1> SUFFICES ASSUME DriveInv, [Next]_vars PROVE DriveInv'
  OBVIOUS
<1>1. IInv'
  BY NextIInv DEF DriveInv
<1>2. CASE BecomeLeader \/ IdleTick \/ UNCHANGED vars
  <2>1. UNCHANGED <<pc, log, committed, at, mutating, applied, graph, result>>
    BY <1>2 DEF BecomeLeader, IdleTick, vars, callVars, raftVars, driveVars
  <2>2. DriveType
    BY DEF DriveInv
  <2> QED
    BY <1>1, <2>1, <2>2, KeptDriveInv DEF DriveType
<1> QED
  BY <1>1, <1>2, CallDrive, StreamDrive, SearchDrive, ApplyDrive, EndDriveDrive,
     RefuseApplyDrive, PeerDriveInv DEF Next, HostStep

\* A search sees the graph as some committed entry leaves it, for any number of
\* calls and entries: DurableNode.mu keeps it out of a mutation half done, and
\* Host.mu the drives apart. The hypothesis is the property's own: as long as
\* no committed entry deletes an ID that is not there.
THEOREM SearchesSeeWholeEntries == Spec => []SearchSeesWholeEntries
<1>1. Init => DriveInv
  <2> SUFFICES ASSUME Init PROVE DriveInv
    OBVIOUS
  <2>1. DriveType
    BY DEF Init, DriveType
  <2>2. GraphInv
    BY DEF Init, GraphInv, Contents
  <2>3. SearchSeesWholeEntries
    BY DEF Init, SearchSeesWholeEntries, Calls
  <2> QED
    BY InitIInv, <2>1, <2>2, <2>3 DEF DriveInv
<1>2. DriveInv => SearchSeesWholeEntries
  BY DEF DriveInv
<1> QED
  BY <1>1, <1>2, NextDriveInv, PTL DEF Spec

=============================================================================
