------------------------------ MODULE Storage ------------------------------
(***************************************************************************)
(* The storage engine under every Raft host (internal/storage): a map in   *)
(* memory and a write-ahead log that is replayed when the store is opened. *)
(* The bytes of the log file are abstracted to whole records and torn      *)
(* ones (a header or a payload that was not written to its end).           *)
(***************************************************************************)
EXTENDS Integers, Sequences

CONSTANTS
  Key, Value,
  Missing,         \* what Get finds for a key never written (ErrNotFound)
  SyncEvery,       \* Options.SyncEvery: 0 leaves it to the caller's Sync
  FaultSets,       \* what may go wrong in one behaviour: sets of Fault
  MaxFile          \* no put is made with as many records in the file

\* A write or an fsync reports an error, the process dies, or the machine dies
\* with what was not fsynced.
Fault == {"write", "fsync", "process", "power"}

ASSUME StorageAssumption ==
  /\ Missing \notin Value
  /\ {SyncEvery, MaxFile} \subseteq Nat
  /\ FaultSets \subseteq SUBSET Fault

VARIABLES
  faults,    \* what may go wrong, never changed
  file,      \* wal.log: records and torn records
  durable,   \* how many of them an fsync has covered
  pending,   \* wal.pending: the appends since the last fsync
  data,      \* DB.data: the current value of every key
  running,   \* whether the store is open
  promised   \* what is acknowledged as being on the disk: the log of then

vars == <<faults, file, durable, pending, data, running, promised>>

Write == [key : Key, value : Value]
Torn == [torn |-> TRUE]

\* The records before the first torn one: what replay hands out.
Replayed(f) ==
  LET whole == {i \in 0..Len(f) : \A j \in 1..i : f[j] # Torn}
  IN SubSeq(f, 1, CHOOSE i \in whole : \A j \in whole : j <= i)

\* The map after a sequence of writes.
Latest(ws) ==
  [k \in Key |->
     LET of == {i \in 1..Len(ws) : ws[i].key = k}
     IN IF of = {} THEN Missing
                   ELSE ws[CHOOSE i \in of : \A j \in of : j <= i].value]

Init ==
  /\ faults \in FaultSets
  /\ file = <<>>
  /\ durable = 0
  /\ pending = 0
  /\ data = Latest(<<>>)
  /\ running = FALSE
  /\ promised = <<>>

-----------------------------------------------------------------------------
(* wal.append and wal.sync.                                                *)

SyncDue == SyncEvery > 0 /\ pending + 1 >= SyncEvery

\* An fsync of the file f: everything written so far is on the disk.
Synced(f) ==
  /\ durable' = Len(f)
  /\ pending' = 0
  /\ promised' = f

\* Seeded mistake: the map before the log, with the write failing after it.
PutMapFirst(k, v) ==
  /\ running
  /\ Len(file) < MaxFile
  /\ file' \in {Append(file, [key |-> k, value |-> v]),
               IF "write" \in faults THEN Append(file, Torn)
                 ELSE Append(file, [key |-> k, value |-> v])}
  /\ data' = [data EXCEPT ![k] = v]
  /\ IF SyncDue THEN Synced(file')
                ELSE pending' = pending + 1 /\ UNCHANGED <<durable, promised>>
  /\ UNCHANGED running

\* Put: the log first, then the map.
Put(k, v) ==
  /\ running
  /\ Len(file) < MaxFile
  /\ file' = Append(file, [key |-> k, value |-> v])
  /\ data' = [data EXCEPT ![k] = v]
  /\ IF SyncDue THEN Synced(file')
                ELSE pending' = pending + 1 /\ UNCHANGED <<durable, promised>>
  /\ UNCHANGED running

\* The record is written but the fsync reports an error: Put fails and the
\* map does not change. The counter stays, for the next put or Sync to retry.
PutUnsynced(k, v) ==
  /\ running
  /\ "fsync" \in faults
  /\ SyncDue
  /\ Len(file) < MaxFile
  /\ file' = Append(file, [key |-> k, value |-> v])
  /\ pending' = pending + 1
  /\ UNCHANGED <<durable, data, running, promised>>

\* A write reports an error after a part of the record: Put fails.
PutTorn ==
  /\ running
  /\ "write" \in faults
  /\ Len(file) < MaxFile
  /\ file' = Append(file, Torn)
  /\ UNCHANGED <<durable, pending, data, running, promised>>

\* Seeded mistake: with nothing left to sync, the counter is off by one.
SyncFromOne ==
  /\ running
  /\ IF pending <= 1
       THEN promised' = file /\ UNCHANGED <<durable, pending>>
       ELSE Synced(file)
  /\ UNCHANGED <<file, data, running>>

\* Sync skips the fsync if nothing was appended since the last one. (With an
\* error from the fsync it fails and changes nothing.)
Sync ==
  /\ running
  /\ IF pending = 0
       THEN promised' = file /\ UNCHANGED <<durable, pending>>
       ELSE Synced(file)
  /\ UNCHANGED <<file, data, running>>

-----------------------------------------------------------------------------
(* Closing, crashing, opening.                                             *)

\* Seeded mistake: the counter of a process outlives it.
StoppedWithPending == running' = FALSE /\ data' = Latest(<<>>) /\ UNCHANGED pending

\* What is in memory is gone. (pending is that of the wal openWAL will make.)
Stopped == running' = FALSE /\ pending' = 0 /\ data' = Latest(<<>>)

\* Close syncs first. If the fsync fails the store is closed all the same.
Close ==
  /\ running
  /\ \/ pending # 0 /\ durable' = Len(file) /\ promised' = file
     \/ /\ pending = 0 \/ "fsync" \in faults
        /\ UNCHANGED <<durable, promised>>
  /\ Stopped
  /\ UNCHANGED file

\* The process dies, possibly between the writes of one record. What it wrote
\* stays in the file.
ProcessCrash ==
  /\ "process" \in faults
  /\ running
  /\ file' \in {file, Append(file, Torn)}
  /\ Stopped
  /\ UNCHANGED <<durable, promised>>

\* The machine dies: of what no fsync covered a part is on the disk, and the
\* record after it may be there in part.
PowerLoss ==
  /\ "power" \in faults
  /\ running
  /\ \E k \in durable..Len(file) :
       file' \in {SubSeq(file, 1, k), Append(SubSeq(file, 1, k), Torn)}
  /\ durable' = Len(file')
  /\ Stopped
  /\ UNCHANGED promised

\* Seeded mistake: a torn record at the end is skipped but not cut off.
OpenWithoutCut ==
  /\ ~running
  /\ data' = Latest(Replayed(file))
  /\ running' = TRUE
  /\ UNCHANGED <<file, durable, pending, promised>>

\* Open replays the file and cuts it at a torn record. If more was written
\* after the torn record, its bytes are read as the rest of it: a checksum
\* mismatch, with which Open fails and nothing changes, or too few bytes, and
\* the file is cut there as well.
Open ==
  /\ ~running
  /\ file' = Replayed(file)
  /\ durable' = IF durable <= Len(file') THEN durable ELSE Len(file')
  /\ data' = Latest(file')
  /\ running' = TRUE
  /\ UNCHANGED <<pending, promised>>

Next ==
  \/ \E k \in Key, v \in Value : Put(k, v) \/ PutUnsynced(k, v)
  \/ PutTorn
  \/ Sync
  \/ Close
  \/ ProcessCrash
  \/ PowerLoss
  \/ Open

Spec == Init /\ [][Next /\ UNCHANGED faults]_vars

-----------------------------------------------------------------------------
(* What the engine promises.                                               *)

\* The counters never claim more than the file holds, and replay is only ever
\* asked to read records and torn records.
TypeOK ==
  /\ file \in Seq(Write \cup {Torn})
  /\ durable \in 0..Len(file)
  /\ pending \in 0..Len(file)
  /\ data \in [Key -> Value \cup {Missing}]
  /\ running \in BOOLEAN
  /\ promised \in Seq(Write \cup {Torn})

\* Whatever Get answers has been logged: a value that a failed put left
\* nowhere but in memory would be gone after the next restart.
NothingUnlogged ==
  running => \A k \in Key : data[k] # Missing =>
               \E i \in DOMAIN file : file[i] = [key |-> k, value |-> data[k]]

\* The faults the engine recovers from: crashes of the process, or of the
\* machine. (With both, openWAL does not count what it replays as unsynced;
\* after an error, the file and the map may differ.)
Tolerated == faults \in {{}, {"process"}, {"power"}}

\* "A crash cannot lose an acknowledged write (once synced)": what a Sync has
\* acknowledged is what a replay would return, up to later writes.
PromisedSurvives ==
  Tolerated =>
    /\ Len(promised) <= Len(Replayed(file))
    /\ SubSeq(Replayed(file), 1, Len(promised)) = promised

\* Get answers what a restart would find: the map in memory is the replay of
\* the log, after every put, close, crash and reopening.
MemoryMatchesLog == Tolerated /\ running => data = Latest(Replayed(file))

\* The engine is the key-value store it promises to be, under the faults it
\* tolerates; under others the mapping says nothing.
Store == INSTANCE KeyValueStore WITH
           writes <- IF Tolerated THEN Replayed(file) ELSE <<>>,
           kept <- IF Tolerated THEN Len(promised) ELSE 0,
           running <- Tolerated /\ running
ImplementsStore == Store!Spec

=============================================================================
