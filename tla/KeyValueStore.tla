--------------------------- MODULE KeyValueStore ---------------------------
(***************************************************************************)
(* What the storage engine promises: "a crash cannot lose an acknowledged  *)
(* write (once synced)" (engine.go). A store is the sequence of the writes *)
(* that took effect; a crash drops some of the last ones, but none that a  *)
(* Sync has acknowledged.                                                  *)
(***************************************************************************)
EXTENDS Integers, Sequences

CONSTANTS Key, Value

VARIABLES
  writes,   \* the writes that took effect, in order
  kept,     \* how many of them are acknowledged to be durable
  running   \* whether the store is open

kvVars == <<writes, kept, running>>

Init ==
  /\ writes = <<>>
  /\ kept = 0
  /\ running = FALSE

\* A write, with SyncEvery also a synced one.
Put(k, v) ==
  /\ running
  /\ writes' = Append(writes, [key |-> k, value |-> v])
  /\ kept' \in {kept, Len(writes')}
  /\ UNCHANGED running

Sync ==
  /\ running
  /\ kept' = Len(writes)
  /\ UNCHANGED <<writes, running>>

Open ==
  /\ ~running
  /\ running' = TRUE
  /\ UNCHANGED <<writes, kept>>

\* The store closes or crashes.
Stop ==
  /\ \E k \in kept..Len(writes) : writes' = SubSeq(writes, 1, k)
  /\ kept' \in {kept, Len(writes')}
  /\ running' = FALSE

Next ==
  \/ \E k \in Key, v \in Value : Put(k, v)
  \/ Sync
  \/ Open
  \/ Stop

Spec == Init /\ [][Next]_kvVars

=============================================================================
