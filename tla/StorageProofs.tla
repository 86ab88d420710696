--------------------------- MODULE StorageProofs ---------------------------
(***************************************************************************)
(* Theorems about module Storage, for every set of keys and values, every  *)
(* SyncEvery and a log of any length: the map never holds what was not     *)
(* logged, whatever fails, and under the crashes the engine tolerates it   *)
(* is the key-value store of module KeyValueStore.                         *)
(***************************************************************************)
EXTENDS Storage, IndexProofs, SequenceTheorems, TLAPS

Whole(f) == \A i \in 1..Len(f) : f[i] # Torn

\* A store that is closed has a new counter to start with.
ClosedInv == ~running => pending = 0

\* A crash may leave a torn record, but only as the last one, and an open
\* store has cut it off: its map is that of the records of the file.
LogInv ==
  /\ \A i \in 1..Len(file) - 1 : file[i] # Torn
  /\ running => Whole(file) /\ data = Latest(file)

\* What is acknowledged is the beginning of the file, and if the machine may
\* die it lies in what an fsync has covered: nothing counted as unsynced means
\* that all of it does.
PromiseInv ==
  /\ Len(promised) <= Len(file)
  /\ \A i \in 1..Len(promised) : promised[i] = file[i] /\ file[i] # Torn
  /\ "power" \in faults =>
       /\ Len(promised) <= durable
       /\ pending = 0 => durable = Len(file)

IInv ==
  /\ TypeOK
  /\ ClosedInv
  /\ NothingUnlogged
  /\ Tolerated => LogInv /\ PromiseInv

-----------------------------------------------------------------------------
(* What replay makes of a file.                                            *)

Files == Seq(Write \cup {Torn})

\* A torn record is none of the records a put writes.
LEMMA TornIsNoWrite == Torn \notin Write
<1> SUFFICES ASSUME Torn \in Write PROVE FALSE
  OBVIOUS
<1>1. PICK k \in Key, v \in Value : [torn |-> TRUE] = [key |-> k, value |-> v]
  BY DEF Torn, Write
<1>2. DOMAIN [torn |-> TRUE] = {"torn"}
  OBVIOUS
<1>3. DOMAIN [key |-> 0, value |-> 0] = {"key", "value"}
  OBVIOUS
<1> QED
  BY <1>1, <1>2

\* Replay hands out the records before the first torn one.
LEMMA ReplayedIsPrefix ==
  ASSUME NEW f \in Files
  PROVE  /\ Replayed(f) \in Seq(Write)
         /\ \E n \in 0..Len(f) :
              /\ Replayed(f) = SubSeq(f, 1, n)
              /\ Len(Replayed(f)) = n
              /\ \A i \in 1..n : Replayed(f)[i] = f[i] /\ f[i] # Torn
              /\ n < Len(f) => f[n + 1] = Torn
<1> DEFINE whole == {i \in 0..Len(f) : \A j \in 1..i : f[j] # Torn}
           n == CHOOSE i \in whole : \A j \in whole : j <= i
<1>1. Len(f) \in Nat /\ \A i \in 1..Len(f) : f[i] \in Write \cup {Torn}
  BY LenProperties, ElementOfSeq DEF Files
<1>2. whole \in SUBSET (0..Len(f)) /\ 0 \in whole
  BY <1>1
<1>3. n \in whole /\ \A j \in whole : j <= n
  <2>1. \E i \in whole : \A j \in whole : j <= i
    <3> HIDE DEF whole
    <3> QED
      BY <1>1, <1>2, MaximumExists
  <2> HIDE DEF whole
  <2> QED
    BY <2>1
<1>4. Replayed(f) = SubSeq(f, 1, n)
  BY DEF Replayed
<1>5. n \in 0..Len(f) /\ \A i \in 1..n : f[i] # Torn
  BY <1>3
<1>6. n < Len(f) => f[n + 1] = Torn
  <2> SUFFICES ASSUME n < Len(f), f[n + 1] # Torn PROVE FALSE
    OBVIOUS
  <2> HIDE DEF n
  <2>1. n + 1 \in whole
    BY <1>1, <1>5
  <2> QED
    BY <1>1, <1>3, <1>5, <2>1
<1> HIDE DEF n, whole
<1>7. \A i \in 1..n : f[i] \in Write
  BY <1>1, <1>5
<1>8. /\ SubSeq(f, 1, n) \in Seq(Write)
      /\ Len(SubSeq(f, 1, n)) = n
      /\ \A i \in 1..n : SubSeq(f, 1, n)[i] = f[i]
  BY <1>1, <1>5, <1>7, SubSeqProperties
<1> QED
  BY <1>4, <1>5, <1>6, <1>8

\* Replay hands out a file with no torn record as it is.
LEMMA ReplayedWhole ==
  ASSUME NEW f \in Files, Whole(f)
  PROVE  Replayed(f) = f
<1>1. PICK n \in 0..Len(f) : /\ Replayed(f) = SubSeq(f, 1, n)
                             /\ n < Len(f) => f[n + 1] = Torn
  BY ReplayedIsPrefix
<1>2. Len(f) \in Nat
  BY LenProperties DEF Files
<1>3. n = Len(f)
  BY <1>1, <1>2 DEF Whole
<1> QED
  BY <1>1, <1>3, SubSeqFull DEF Files

\* A torn record at the end is all that replay leaves out.
LEMMA ReplayedTornEnd ==
  ASSUME NEW f \in Files, Whole(f)
  PROVE  Append(f, Torn) \in Files /\ Replayed(Append(f, Torn)) = f
<1> DEFINE g == Append(f, Torn)
<1>1. Len(f) \in Nat
  BY LenProperties DEF Files
<1>2. /\ g \in Files
      /\ Len(g) = Len(f) + 1
      /\ \A i \in 1..Len(f) : g[i] = f[i]
      /\ g[Len(f) + 1] = Torn
  BY AppendProperties DEF Files
<1> HIDE DEF g
<1>3. PICK n \in 0..Len(g) : /\ Replayed(g) \in Seq(Write)
                             /\ Len(Replayed(g)) = n
                             /\ \A i \in 1..n : Replayed(g)[i] = g[i] /\ g[i] # Torn
                             /\ n < Len(g) => g[n + 1] = Torn
  BY <1>2, ReplayedIsPrefix
<1>4. n = Len(f)
  BY <1>1, <1>2, <1>3 DEF Whole
<1>5. Replayed(g) \in Files
  BY <1>3, SeqMonotonic DEF Files
<1>6. \A i \in 1..Len(Replayed(g)) : Replayed(g)[i] = f[i]
  BY <1>1, <1>2, <1>3, <1>4
<1>7. Replayed(g) = f
  BY <1>3, <1>4, <1>5, <1>6, SeqEqual DEF Files
<1> QED
  BY <1>2, <1>7 DEF g

\* The first records of a file are a file.
LEMMA FirstRecords ==
  ASSUME NEW f \in Files, NEW k \in 0..Len(f)
  PROVE  /\ SubSeq(f, 1, k) \in Files
         /\ Len(SubSeq(f, 1, k)) = k
         /\ \A i \in 1..k : SubSeq(f, 1, k)[i] = f[i]
<1>1. Len(f) \in Nat /\ \A i \in 1..k : f[i] \in Write \cup {Torn}
  BY LenProperties, ElementOfSeq DEF Files
<1> QED
  BY <1>1, SubSeqProperties DEF Files

-----------------------------------------------------------------------------
(* The map after a sequence of writes.                                     *)

\* The positions at which key k is written.
Puts(ws, k) == {i \in 1..Len(ws) : ws[i].key = k}

\* A key has the value of the last write of it.
LEMMA LatestIsLastPut ==
  ASSUME NEW ws \in Seq(Write), NEW k \in Key
  PROVE  /\ Puts(ws, k) = {} => Latest(ws)[k] = Missing
         /\ \A i \in Puts(ws, k) :
              (\A j \in Puts(ws, k) : j <= i) => Latest(ws)[k] = ws[i].value
         /\ Puts(ws, k) # {} => \E i \in Puts(ws, k) : \A j \in Puts(ws, k) : j <= i
<1>1. Len(ws) \in Nat
  BY LenProperties
<1>2. Latest(ws)[k] = IF Puts(ws, k) = {} THEN Missing
        ELSE ws[CHOOSE i \in Puts(ws, k) : \A j \in Puts(ws, k) : j <= i].value
  BY DEF Latest, Puts
<1>3. ASSUME NEW i \in Puts(ws, k), \A j \in Puts(ws, k) : j <= i
      PROVE  i = CHOOSE m \in Puts(ws, k) : \A j \in Puts(ws, k) : j <= m
  <2> DEFINE m == CHOOSE m \in Puts(ws, k) : \A j \in Puts(ws, k) : j <= m
  <2>1. m \in Puts(ws, k) /\ \A j \in Puts(ws, k) : j <= m
    BY <1>3
  <2>2. i <= m /\ m <= i
    BY <1>3, <2>1
  <2>3. i \in Nat /\ m \in Nat
    BY <2>1 DEF Puts
  <2> HIDE DEF m
  <2>4. i = m
    BY <2>2, <2>3
  <2> QED
    BY <2>4 DEF m
<1>4. Puts(ws, k) # {} => \E i \in Puts(ws, k) : \A j \in Puts(ws, k) : j <= i
  <2>1. Puts(ws, k) \in SUBSET (0..Len(ws))
    BY <1>1 DEF Puts
  <2> QED
    BY <1>1, <2>1, MaximumExists
<1> QED
  BY <1>2, <1>3, <1>4

\* The map holds values, and only values that were written.
LEMMA LatestType ==
  ASSUME NEW ws \in Seq(Write)
  PROVE  /\ Latest(ws) \in [Key -> Value \cup {Missing}]
         /\ \A k \in Key : Latest(ws)[k] # Missing =>
              \E i \in 1..Len(ws) : ws[i] = [key |-> k, value |-> Latest(ws)[k]]
<1>1. ASSUME NEW k \in Key
      PROVE  \/ Latest(ws)[k] = Missing
             \/ /\ Latest(ws)[k] \in Value
                /\ \E i \in 1..Len(ws) : ws[i] = [key |-> k, value |-> Latest(ws)[k]]
  <2>1. CASE Puts(ws, k) = {}
    BY <2>1, LatestIsLastPut
  <2>2. CASE Puts(ws, k) # {}
    <3>1. PICK i \in Puts(ws, k) : Latest(ws)[k] = ws[i].value
      BY <2>2, LatestIsLastPut
    <3>2. i \in 1..Len(ws) /\ ws[i].key = k
      BY <3>1 DEF Puts
    <3>3. ws[i] \in Write
      BY <3>2, ElementOfSeq
    <3>4. ws[i].value \in Value /\ ws[i] = [key |-> ws[i].key, value |-> ws[i].value]
      BY <3>3 DEF Write
    <3> QED
      BY <3>1, <3>2, <3>4
  <2> QED
    BY <2>1, <2>2
<1>2. Latest(ws) = [k \in Key |-> Latest(ws)[k]]
  BY DEF Latest
<1> QED
  BY <1>1, <1>2

\* A write at the end changes the value of its key and no other.
LEMMA LatestOfAppend ==
  ASSUME NEW ws \in Seq(Write), NEW key \in Key, NEW value \in Value
  PROVE  LET w == [key |-> key, value |-> value]
         IN  Latest(Append(ws, w)) = [Latest(ws) EXCEPT ![key] = value]
<1> DEFINE w == [key |-> key, value |-> value]
           g == Append(ws, w)
<1>1. Len(ws) \in Nat
  BY LenProperties
<1>2. w \in Write /\ w.key = key /\ w.value = value
  BY DEF Write
<1> HIDE DEF w
<1>3. /\ g \in Seq(Write)
      /\ Len(g) = Len(ws) + 1
      /\ \A i \in 1..Len(ws) : g[i] = ws[i]
      /\ g[Len(ws) + 1] = w
  BY <1>2, AppendProperties
<1> HIDE DEF g
<1>4. Latest(g)[key] = value
  <2>1. Len(ws) + 1 \in Puts(g, key) /\ \A j \in Puts(g, key) : j <= Len(ws) + 1
    BY <1>1, <1>2, <1>3 DEF Puts
  <2> QED
    BY <1>2, <1>3, <2>1, LatestIsLastPut
<1>5. ASSUME NEW k \in Key, k # key
      PROVE  Latest(g)[k] = Latest(ws)[k]
  <2>1. Puts(g, k) = Puts(ws, k)
    BY <1>1, <1>2, <1>3, <1>5 DEF Puts
  <2>2. CASE Puts(ws, k) = {}
    BY <1>3, <2>1, <2>2, LatestIsLastPut
  <2>3. CASE Puts(ws, k) # {}
    <3>1. PICK i \in Puts(ws, k) : \A j \in Puts(ws, k) : j <= i
      BY <2>3, LatestIsLastPut
    <3>2. Latest(ws)[k] = ws[i].value
      BY <3>1, LatestIsLastPut
    <3>3. Latest(g)[k] = g[i].value
      BY <1>3, <2>1, <3>1, LatestIsLastPut
    <3>4. g[i] = ws[i]
      BY <1>3, <3>1 DEF Puts
    <3> QED
      BY <3>2, <3>3, <3>4
  <2> QED
    BY <2>2, <2>3
<1>6. Latest(g) = [k \in Key |-> Latest(g)[k]] /\ Latest(ws) = [k \in Key |-> Latest(ws)[k]]
  BY DEF Latest
<1>7. Latest(g) = [Latest(ws) EXCEPT ![key] = value]
  BY <1>4, <1>5, <1>6
<1> QED
  BY <1>7 DEF g, w

-----------------------------------------------------------------------------
(* Every step keeps the invariant.                                         *)

LEMMA InitIInv == Init => IInv
<1> SUFFICES ASSUME Init PROVE IInv
  OBVIOUS
<1>1. <<>> \in Seq(Write) /\ <<>> \in Files /\ Len(<<>>) = 0
  BY EmptySeq DEF Files
<1>2. data \in [Key -> Value \cup {Missing}]
  BY <1>1, LatestType DEF Init
<1>3. TypeOK
  <2>1. file = <<>> /\ promised = <<>> /\ durable = 0 /\ pending = 0 /\ running = FALSE
    BY DEF Init
  <2>2. file \in Seq(Write \cup {Torn}) /\ promised \in Seq(Write \cup {Torn})
    BY <1>1, <2>1 DEF Files
  <2>3. durable \in 0..Len(file) /\ pending \in 0..Len(file)
    BY <1>1, <2>1
  <2> QED
    BY <1>2, <2>1, <2>2, <2>3 DEF TypeOK
<1> QED
  BY <1>1, <1>3 DEF Init, IInv, ClosedInv, NothingUnlogged, LogInv, PromiseInv, Whole

\* The record a put appends, and what becomes of the file.
LEMMA AppendRecord ==
  ASSUME TypeOK, NEW k \in Key, NEW v \in Value,
         file' = Append(file, [key |-> k, value |-> v])
  PROVE  /\ [key |-> k, value |-> v] \in Write
         /\ [key |-> k, value |-> v] # Torn
         /\ file' \in Files
         /\ Len(file) \in Nat
         /\ Len(file') = Len(file) + 1
         /\ \A i \in 1..Len(file) : file'[i] = file[i]
         /\ file'[Len(file) + 1] = [key |-> k, value |-> v]
<1> DEFINE w == [key |-> k, value |-> v]
<1>1. w \in Write
  BY DEF Write
<1>2. file \in Files
  BY DEF TypeOK, Files
<1> HIDE DEF w
<1>3. Len(file) \in Nat /\ w \in Write \cup {Torn} /\ w # Torn
  BY <1>1, <1>2, LenProperties, TornIsNoWrite DEF Files
<1>4. /\ Append(file, w) \in Files
      /\ Len(Append(file, w)) = Len(file) + 1
      /\ \A i \in 1..Len(file) : Append(file, w)[i] = file[i]
      /\ Append(file, w)[Len(file) + 1] = w
  BY <1>2, <1>3, AppendProperties DEF Files
<1> QED
  BY <1>1, <1>3, <1>4 DEF w

\* Put: the record is in the log before its value is in the map.
LEMMA PutStep ==
  ASSUME IInv, UNCHANGED faults, NEW k \in Key, NEW v \in Value, Put(k, v)
  PROVE  IInv'
<1> DEFINE w == [key |-> k, value |-> v]
<1>1. /\ w \in Write /\ w # Torn
      /\ file' \in Files
      /\ Len(file) \in Nat
      /\ Len(file') = Len(file) + 1
      /\ \A i \in 1..Len(file) : file'[i] = file[i]
      /\ file'[Len(file) + 1] = w
  BY AppendRecord DEF IInv, Put
<1>2. running /\ running' /\ data' = [data EXCEPT ![k] = v] /\ file' = Append(file, w)
  BY DEF Put, IInv, TypeOK
<1>3. \/ durable' = Len(file') /\ pending' = 0 /\ promised' = file'
      \/ durable' = durable /\ pending' = pending + 1 /\ promised' = promised
  BY DEF Put, Synced
<1> HIDE DEF w
<1>4. TypeOK'
  <2>1. TypeOK
    BY DEF IInv
  <2>2. data' \in [Key -> Value \cup {Missing}]
    BY <1>2, <2>1 DEF TypeOK
  <2>3. durable' \in 0..Len(file') /\ pending' \in 0..Len(file')
    BY <1>1, <1>3, <2>1 DEF TypeOK
  <2>4. promised' \in Files
    BY <1>1, <1>3, <2>1 DEF TypeOK, Files
  <2> QED
    BY <1>1, <1>2, <2>2, <2>3, <2>4 DEF TypeOK, Files
<1>5. ClosedInv'
  BY <1>2 DEF ClosedInv
<1>6. NothingUnlogged'
  <2> SUFFICES ASSUME NEW q \in Key, data'[q] # Missing
               PROVE  \E i \in DOMAIN file' : file'[i] = [key |-> q, value |-> data'[q]]
    BY DEF NothingUnlogged
  <2>0. DOMAIN file' = 1..Len(file') /\ DOMAIN file = 1..Len(file)
    BY <1>1, LenProperties DEF IInv, TypeOK, Files
  <2>1. CASE q = k
    BY <1>1, <1>2, <2>0, <2>1 DEF IInv, TypeOK, w
  <2>2. CASE q # k
    <3>1. data'[q] = data[q]
      BY <1>2, <2>2 DEF IInv, TypeOK
    <3>2. PICK i \in DOMAIN file : file[i] = [key |-> q, value |-> data[q]]
      BY <1>2, <3>1 DEF IInv, NothingUnlogged
    <3> QED
      BY <1>1, <2>0, <3>1, <3>2
  <2> QED
    BY <2>1, <2>2
<1>7. ASSUME Tolerated PROVE LogInv'
  <2>1. Whole(file) /\ data = Latest(file)
    BY <1>2, <1>7 DEF IInv, LogInv
  <2>2. Whole(file')
    BY <1>1, <2>1 DEF Whole
  <2>3. file \in Seq(Write)
    BY <2>1, ReplayedIsPrefix, ReplayedWhole DEF IInv, TypeOK, Files
  <2>4. data' = Latest(file')
    BY <1>2, <2>1, <2>3, LatestOfAppend DEF w
  <2> QED
    BY <1>1, <2>2, <2>4 DEF LogInv, Whole
<1>8. ASSUME Tolerated PROVE PromiseInv'
  <2>1. Whole(file')
    BY <1>1, <1>2, <1>7, <1>8 DEF LogInv
  <2>2. faults' = faults
    OBVIOUS
  <2>3. CASE durable' = Len(file') /\ pending' = 0 /\ promised' = file'
    BY <1>1, <2>1, <2>3 DEF PromiseInv, Whole
  <2>4. CASE durable' = durable /\ pending' = pending + 1 /\ promised' = promised
    <3>1. PromiseInv /\ TypeOK
      BY <1>8 DEF IInv
    <3>2. Len(promised) \in Nat /\ pending + 1 # 0
      BY <3>1, LenProperties DEF TypeOK
    <3> QED
      BY <1>1, <2>2, <2>4, <3>1, <3>2 DEF PromiseInv
  <2> QED
    BY <1>3, <2>3, <2>4
<1> QED
  BY <1>4, <1>5, <1>6, <1>7, <1>8 DEF IInv, Tolerated

\* A put whose fsync fails has written its record: the log is ahead of the map.
LEMMA PutUnsyncedStep ==
  ASSUME IInv, UNCHANGED faults, NEW k \in Key, NEW v \in Value, PutUnsynced(k, v)
  PROVE  IInv'
<1>1. /\ file' \in Files
      /\ Len(file) \in Nat
      /\ Len(file') = Len(file) + 1
      /\ \A i \in 1..Len(file) : file'[i] = file[i]
  BY AppendRecord DEF IInv, PutUnsynced
<1>2. TypeOK'
  BY <1>1 DEF PutUnsynced, IInv, TypeOK, Files
<1>3. ClosedInv' /\ ~Tolerated'
  BY DEF PutUnsynced, ClosedInv, Tolerated
<1>4. NothingUnlogged'
  <2>1. DOMAIN file' = 1..Len(file') /\ DOMAIN file = 1..Len(file)
    BY <1>1, LenProperties DEF IInv, TypeOK, Files
  <2>2. NothingUnlogged /\ data' = data /\ running' = running
    BY DEF PutUnsynced, IInv
  <2> QED
    BY <1>1, <2>1, <2>2 DEF NothingUnlogged
<1> QED
  BY <1>2, <1>3, <1>4 DEF IInv

\* A torn record at the end takes nothing away from the log.
LEMMA AppendTorn ==
  ASSUME NEW f \in Files
  PROVE  /\ Append(f, Torn) \in Files
         /\ Len(f) \in Nat
         /\ Len(Append(f, Torn)) = Len(f) + 1
         /\ \A i \in 1..Len(f) : Append(f, Torn)[i] = f[i]
         /\ Append(f, Torn)[Len(f) + 1] = Torn
BY LenProperties, AppendProperties DEF Files

LEMMA PutTornStep ==
  ASSUME IInv, UNCHANGED faults, PutTorn
  PROVE  IInv'
<1>1. /\ file' \in Files
      /\ Len(file) \in Nat
      /\ Len(file') = Len(file) + 1
      /\ \A i \in 1..Len(file) : file'[i] = file[i]
  BY AppendTorn DEF IInv, PutTorn, TypeOK, Files
<1>2. TypeOK'
  BY <1>1 DEF PutTorn, IInv, TypeOK, Files
<1>3. ClosedInv' /\ ~Tolerated'
  BY DEF PutTorn, ClosedInv, Tolerated
<1>4. NothingUnlogged'
  <2>1. DOMAIN file' = 1..Len(file') /\ DOMAIN file = 1..Len(file)
    BY <1>1, LenProperties DEF IInv, TypeOK, Files
  <2>2. NothingUnlogged /\ data' = data /\ running' = running
    BY DEF PutTorn, IInv
  <2> QED
    BY <1>1, <2>1, <2>2 DEF NothingUnlogged
<1> QED
  BY <1>2, <1>3, <1>4 DEF IInv

\* Sync acknowledges the whole file: what is not counted is synced already.
LEMMA SyncStep ==
  ASSUME IInv, UNCHANGED faults, Sync
  PROVE  IInv'
<1>1. /\ file' = file /\ data' = data /\ running' = running /\ running
      /\ promised' = file
      /\ \/ pending = 0 /\ durable' = durable /\ pending' = pending
         \/ durable' = Len(file) /\ pending' = 0
  BY DEF Sync, Synced
<1>2. TypeOK /\ Len(file) \in Nat
  BY LenProperties DEF IInv, TypeOK
<1>3. TypeOK' /\ ClosedInv' /\ NothingUnlogged'
  BY <1>1, <1>2 DEF IInv, TypeOK, ClosedInv, NothingUnlogged
<1>4. ASSUME Tolerated PROVE LogInv' /\ PromiseInv'
  <2>1. LogInv /\ PromiseInv
    BY <1>4 DEF IInv
  <2>2. LogInv'
    BY <1>1, <2>1 DEF LogInv, Whole
  <2>3. Whole(file)
    BY <1>1, <2>1 DEF LogInv
  <2>4. PromiseInv'
    BY <1>1, <1>2, <2>1, <2>3 DEF PromiseInv, Whole
  <2> QED
    BY <2>2, <2>4
<1> QED
  BY <1>3, <1>4 DEF IInv, Tolerated

\* A store that has stopped makes no promise about its memory.
LEMMA StoppedInv ==
  ASSUME Stopped
  PROVE  /\ ClosedInv' /\ NothingUnlogged'
         /\ running' = FALSE /\ pending' = 0
         /\ data' \in [Key -> Value \cup {Missing}]
<1>1. Latest(<<>>) \in [Key -> Value \cup {Missing}]
  BY EmptySeq, LatestType
<1> QED
  BY <1>1 DEF Stopped, ClosedInv, NothingUnlogged

\* Close syncs what is not on the disk, unless the fsync fails.
LEMMA CloseStep ==
  ASSUME IInv, UNCHANGED faults, Close
  PROVE  IInv'
<1>1. /\ file' = file /\ running
      /\ \/ durable' = Len(file) /\ promised' = file
         \/ /\ durable' = durable /\ promised' = promised
            /\ pending = 0 \/ "fsync" \in faults
  BY DEF Close
<1>2. TypeOK /\ Len(file) \in Nat
  BY LenProperties DEF IInv, TypeOK
<1>3. /\ ClosedInv' /\ NothingUnlogged'
      /\ running' = FALSE /\ pending' = 0
      /\ data' \in [Key -> Value \cup {Missing}]
  BY StoppedInv DEF Close
<1>4. TypeOK'
  <2>1. file' \in Files /\ promised' \in Files
    BY <1>1, <1>2 DEF TypeOK, Files
  <2>2. durable' \in 0..Len(file') /\ pending' \in 0..Len(file')
    BY <1>1, <1>2, <1>3 DEF TypeOK
  <2> QED
    BY <1>3, <2>1, <2>2 DEF TypeOK, Files
<1>5. ASSUME Tolerated PROVE LogInv' /\ PromiseInv'
  <2>1. LogInv /\ PromiseInv
    BY <1>5 DEF IInv
  <2>2. LogInv'
    BY <1>1, <1>3, <2>1 DEF LogInv
  <2>3. Whole(file) /\ "fsync" \notin faults
    BY <1>1, <1>5, <2>1 DEF LogInv, Tolerated
  <2>4. PromiseInv'
    BY <1>1, <1>2, <1>3, <2>1, <2>3 DEF PromiseInv, Whole
  <2> QED
    BY <2>2, <2>4
<1> QED
  BY <1>3, <1>4, <1>5 DEF IInv, Tolerated

\* What a process had written stays in the file when it dies.
LEMMA ProcessCrashStep ==
  ASSUME IInv, UNCHANGED faults, ProcessCrash
  PROVE  IInv'
<1>1. TypeOK /\ Len(file) \in Nat
  BY LenProperties DEF IInv, TypeOK
<1>2. /\ file' \in Files
      /\ Len(file') \in Len(file)..Len(file) + 1
      /\ \A i \in 1..Len(file) : file'[i] = file[i]
  <2>1. CASE file' = file
    BY <1>1, <2>1 DEF TypeOK, Files
  <2>2. CASE file' = Append(file, Torn)
    BY <1>1, <2>2, AppendTorn DEF TypeOK, Files
  <2> QED
    BY <2>1, <2>2 DEF ProcessCrash
<1>3. /\ ClosedInv' /\ NothingUnlogged'
      /\ running' = FALSE /\ pending' = 0
      /\ data' \in [Key -> Value \cup {Missing}]
  BY StoppedInv DEF ProcessCrash
<1>4. durable' = durable /\ promised' = promised /\ running /\ "process" \in faults
  BY DEF ProcessCrash
<1>5. TypeOK'
  <2>1. promised' \in Files
    BY <1>1, <1>4 DEF TypeOK, Files
  <2>2. durable' \in 0..Len(file') /\ pending' \in 0..Len(file')
    BY <1>1, <1>2, <1>3, <1>4 DEF TypeOK
  <2> QED
    BY <1>2, <1>3, <2>1, <2>2 DEF TypeOK, Files
<1>6. ASSUME Tolerated PROVE LogInv' /\ PromiseInv'
  <2>1. LogInv /\ PromiseInv /\ "power" \notin faults
    BY <1>4, <1>6 DEF IInv, Tolerated
  <2>2. Whole(file)
    BY <1>4, <2>1 DEF LogInv
  <2>3. LogInv'
    BY <1>1, <1>2, <1>3, <2>2 DEF LogInv, Whole
  <2>4. Len(promised) \in Nat
    BY <1>1, LenProperties DEF TypeOK
  <2>5. PromiseInv'
    BY <1>1, <1>2, <1>4, <2>1, <2>4 DEF PromiseInv
  <2> QED
    BY <2>3, <2>5
<1> QED
  BY <1>3, <1>5, <1>6 DEF IInv, Tolerated

\* What is left of a file when the machine dies.
LEMMA LeftOnDisk ==
  ASSUME TypeOK, PowerLoss
  PROVE  \E k \in durable..Len(file) :
           /\ \/ file' = SubSeq(file, 1, k)
              \/ file' = Append(SubSeq(file, 1, k), Torn)
           /\ SubSeq(file, 1, k) \in Files
           /\ file' \in Files
           /\ Len(file') \in k..k + 1
           /\ \A i \in 1..k : file'[i] = file[i]
<1>1. PICK k \in durable..Len(file) :
        file' \in {SubSeq(file, 1, k), Append(SubSeq(file, 1, k), Torn)}
  BY DEF PowerLoss
<1> DEFINE f == SubSeq(file, 1, k)
<1>2. Len(file) \in Nat /\ k \in 0..Len(file) /\ k \in Nat
  BY <1>1, LenProperties DEF TypeOK
<1>3. f \in Files /\ Len(f) = k /\ \A i \in 1..k : f[i] = file[i]
  BY <1>2, FirstRecords DEF TypeOK, Files
<1>4. file' = f \/ file' = Append(f, Torn)
  BY <1>1
<1> HIDE DEF f
<1>5. CASE file' = f
  BY <1>2, <1>3, <1>5 DEF f
<1>6. CASE file' = Append(f, Torn)
  <2>1. /\ file' \in Files /\ Len(file') = k + 1
        /\ \A i \in 1..k : file'[i] = file[i]
    BY <1>3, <1>6, AppendTorn
  <2> QED
    BY <1>2, <1>3, <1>6, <2>1 DEF f
<1> QED
  BY <1>4, <1>5, <1>6

\* The machine dies: what an fsync has covered stays.
LEMMA PowerLossStep ==
  ASSUME IInv, UNCHANGED faults, PowerLoss
  PROVE  IInv'
<1>1. TypeOK /\ Len(file) \in Nat
  BY LenProperties DEF IInv, TypeOK
<1>2. PICK k \in durable..Len(file) :
        /\ file' \in Files
        /\ Len(file') \in k..k + 1
        /\ \A i \in 1..k : file'[i] = file[i]
  BY <1>1, LeftOnDisk
<1>3. /\ ClosedInv' /\ NothingUnlogged'
      /\ running' = FALSE /\ pending' = 0
      /\ data' \in [Key -> Value \cup {Missing}]
  BY StoppedInv DEF PowerLoss
<1>4. durable' = Len(file') /\ promised' = promised /\ running /\ "power" \in faults
  BY DEF PowerLoss
<1>5. k \in Nat /\ k <= Len(file) /\ durable <= k /\ Len(file') \in Nat
  BY <1>1, <1>2 DEF TypeOK
<1>6. TypeOK'
  <2>1. promised' \in Files
    BY <1>1, <1>4 DEF TypeOK, Files
  <2>2. durable' \in 0..Len(file') /\ pending' \in 0..Len(file')
    BY <1>1, <1>2, <1>3, <1>4, <1>5 DEF TypeOK
  <2> QED
    BY <1>2, <1>3, <2>1, <2>2 DEF TypeOK, Files
<1>7. ASSUME Tolerated PROVE LogInv' /\ PromiseInv'
  <2>1. LogInv /\ PromiseInv
    BY <1>7 DEF IInv
  <2>2. Whole(file)
    BY <1>4, <2>1 DEF LogInv
  <2>3. LogInv'
    BY <1>2, <1>3, <1>5, <2>2 DEF LogInv, Whole
  <2>4. Len(promised) \in Nat /\ Len(promised) <= durable /\ durable \in Nat
    BY <1>1, <1>4, <2>1, LenProperties DEF TypeOK, PromiseInv
  <2>5. PromiseInv'
    BY <1>1, <1>2, <1>4, <1>5, <2>1, <2>4 DEF PromiseInv
  <2> QED
    BY <2>3, <2>5
<1> QED
  BY <1>3, <1>6, <1>7 DEF IInv, Tolerated

\* Open cuts the file at a torn record, and nothing that was promised with it.
LEMMA OpenStep ==
  ASSUME IInv, UNCHANGED faults, Open
  PROVE  IInv'
<1>1. /\ ~running /\ running' /\ running' = TRUE
      /\ file' = Replayed(file)
      /\ durable' = IF durable <= Len(file') THEN durable ELSE Len(file')
      /\ data' = Latest(file')
      /\ pending' = pending /\ promised' = promised
  BY DEF Open
<1>2. TypeOK /\ Len(file) \in Nat /\ pending = 0 /\ file \in Files
  BY <1>1, LenProperties DEF IInv, TypeOK, ClosedInv, Files
<1>3. PICK n \in 0..Len(file) :
        /\ file' \in Seq(Write)
        /\ Len(file') = n
        /\ \A i \in 1..n : file'[i] = file[i] /\ file[i] # Torn
        /\ n < Len(file) => file[n + 1] = Torn
  BY <1>1, <1>2, ReplayedIsPrefix
<1>4. n \in Nat /\ n <= Len(file)
  BY <1>2
<1>5. TypeOK'
  <2>1. file' \in Files
    BY <1>3, SeqMonotonic DEF Files
  <2>2. data' \in [Key -> Value \cup {Missing}]
    BY <1>1, <1>3, LatestType
  <2>3. durable' \in 0..Len(file') /\ pending' \in 0..Len(file')
    BY <1>1, <1>2, <1>3, <1>4 DEF TypeOK
  <2> QED
    BY <1>1, <1>2, <2>1, <2>2, <2>3 DEF TypeOK, Files
<1>6. ClosedInv'
  BY <1>1 DEF ClosedInv
<1>7. NothingUnlogged'
  <2>1. DOMAIN file' = 1..Len(file')
    BY <1>3, LenProperties
  <2> QED
    BY <1>1, <1>3, <2>1, LatestType DEF NothingUnlogged
<1>8. ASSUME Tolerated PROVE LogInv' /\ PromiseInv'
  <2>1. LogInv /\ PromiseInv
    BY <1>8 DEF IInv
  <2>2. LogInv'
    BY <1>1, <1>3, <1>4 DEF LogInv, Whole
  <2>3. Len(promised) \in Nat
    BY <1>2, LenProperties DEF TypeOK
  <2>4. Len(promised) <= n
    BY <1>3, <1>4, <2>1, <2>3 DEF PromiseInv
  <2>5. PromiseInv'
    BY <1>1, <1>2, <1>3, <1>4, <2>1, <2>3, <2>4 DEF PromiseInv, TypeOK
  <2> QED
    BY <2>2, <2>5
<1> QED
  BY <1>5, <1>6, <1>7, <1>8 DEF IInv, Tolerated

\* Every step of the engine, and the steps that change nothing.
LEMMA NextIInv ==
  ASSUME IInv, [Next /\ UNCHANGED faults]_vars
  PROVE  IInv'
<1>1. CASE UNCHANGED vars
  BY <1>1 DEF vars, IInv, TypeOK, ClosedInv, NothingUnlogged, Tolerated,
              LogInv, PromiseInv, Whole
<1>2. CASE Next /\ UNCHANGED faults
  BY <1>2, PutStep, PutUnsyncedStep, PutTornStep, SyncStep, CloseStep,
     ProcessCrashStep, PowerLossStep, OpenStep DEF Next
<1> QED
  BY <1>1, <1>2

LEMMA Invariance == Spec => []IInv
<1>1. Init => IInv
  BY InitIInv
<1>2. IInv /\ [Next /\ UNCHANGED faults]_vars => IInv'
  BY NextIInv
<1> QED
  BY <1>1, <1>2, PTL DEF Spec

-----------------------------------------------------------------------------
(* What the engine promises.                                               *)

\* The counters stay within the file, and replay is only asked to read records
\* and torn records (wal.append, wal.replay).
THEOREM TypeCorrect == Spec => []TypeOK
<1>1. IInv => TypeOK
  BY DEF IInv
<1> QED
  BY <1>1, Invariance, PTL

\* Whatever fails, what Get answers is in the log: DB.Put changes the map only
\* after wal.append has returned without an error.
THEOREM MapIsLogged == Spec => []NothingUnlogged
<1>1. IInv => NothingUnlogged
  BY DEF IInv
<1> QED
  BY <1>1, Invariance, PTL

\* A replay finds what is promised.
LEMMA ReplayFindsPromised ==
  ASSUME IInv, Tolerated
  PROVE  /\ Replayed(file) \in Seq(Write)
         /\ promised \in Seq(Write)
         /\ Len(promised) <= Len(Replayed(file))
         /\ SubSeq(Replayed(file), 1, Len(promised)) = promised
<1>1. TypeOK /\ PromiseInv /\ file \in Files
  BY DEF IInv, TypeOK, Files
<1>2. Len(file) \in Nat /\ Len(promised) \in Nat
  BY <1>1, LenProperties DEF TypeOK
<1>3. PICK n \in 0..Len(file) :
        /\ Replayed(file) \in Seq(Write)
        /\ Len(Replayed(file)) = n
        /\ \A i \in 1..n : Replayed(file)[i] = file[i]
        /\ n < Len(file) => file[n + 1] = Torn
  BY <1>1, ReplayedIsPrefix
<1>4. Len(promised) <= n
  BY <1>1, <1>2, <1>3 DEF PromiseInv
<1>5. \A i \in 1..Len(promised) : Replayed(file)[i] = promised[i]
  BY <1>1, <1>2, <1>3, <1>4 DEF PromiseInv
<1>6. \A i \in 1..Len(promised) : Replayed(file)[i] \in Write
  BY <1>2, <1>3, <1>4, ElementOfSeq
<1> DEFINE kept == SubSeq(Replayed(file), 1, Len(promised))
<1>7. /\ kept \in Seq(Write)
      /\ Len(kept) = Len(promised)
      /\ \A i \in 1..Len(promised) : kept[i] = promised[i]
  BY <1>2, <1>5, <1>6, SubSeqProperties
<1> HIDE DEF kept
<1>8. kept \in Files /\ promised \in Files
  BY <1>1, <1>7, SeqMonotonic DEF TypeOK, Files
<1>9. kept = promised
  BY <1>7, <1>8, SeqEqual DEF Files
<1> QED
  BY <1>3, <1>4, <1>7, <1>9 DEF kept

\* "A crash cannot lose an acknowledged write (once synced)": what Sync has
\* acknowledged is the beginning of what wal.replay hands out, ever after.
THEOREM SyncedWritesSurvive == Spec => []PromisedSurvives
<1>1. IInv => PromisedSurvives
  BY ReplayFindsPromised DEF PromisedSurvives
<1> QED
  BY <1>1, Invariance, PTL

\* The map of an open store is what Open would read out of its log.
THEOREM MapIsReplay == Spec => []MemoryMatchesLog
<1>1. IInv => MemoryMatchesLog
  <2> SUFFICES ASSUME IInv, Tolerated, running PROVE data = Latest(Replayed(file))
    BY DEF MemoryMatchesLog
  <2>1. Whole(file) /\ data = Latest(file) /\ file \in Files
    BY DEF IInv, LogInv, TypeOK, Files
  <2> QED
    BY <2>1, ReplayedWhole
<1> QED
  BY <1>1, Invariance, PTL

-----------------------------------------------------------------------------
(* The engine implements the key-value store: each of its steps is a step  *)
(* of the store, or none.                                                  *)

\* An empty file is an empty store.
LEMMA InitIsStoreInit == Init => Store!Init
<1>1. ASSUME Init PROVE Replayed(file) = <<>> /\ Len(promised) = 0 /\ ~running
  <2>1. <<>> \in Files /\ Len(<<>>) = 0
    BY EmptySeq DEF Files
  <2>2. Replayed(<<>>) = <<>>
    BY <2>1, ReplayedWhole DEF Whole
  <2> QED
    BY <1>1, <2>1, <2>2 DEF Init
<1> QED
  BY <1>1 DEF Store!Init

\* A file with no torn record but perhaps at its end, before and after a step.
LEMMA ReplayedOpen ==
  ASSUME IInv, Tolerated, running
  PROVE  Replayed(file) = file /\ Whole(file) /\ file \in Files /\ file \in Seq(Write)
<1>1. Whole(file) /\ file \in Files
  BY DEF IInv, LogInv, TypeOK, Files
<1> QED
  BY <1>1, ReplayedWhole, ReplayedIsPrefix

\* Put is a put, synced or not.
LEMMA PutIsPut ==
  ASSUME IInv, IInv', Tolerated, UNCHANGED faults,
         NEW k \in Key, NEW v \in Value, Put(k, v)
  PROVE  Store!Put(k, v)
<1>1. Tolerated' /\ running /\ running'
  BY DEF Tolerated, Put
<1>2. /\ Replayed(file) = file
      /\ Whole(file') /\ file' \in Files
  BY <1>1, ReplayedOpen DEF IInv, LogInv, TypeOK, Files
<1>3. Replayed(file') = file'
  BY <1>2, ReplayedWhole
<1>4. /\ file' = Append(file, [key |-> k, value |-> v])
      /\ promised' = promised \/ promised' = file'
  BY DEF Put, Synced
<1> QED
  BY <1>1, <1>2, <1>3, <1>4 DEF Store!Put

LEMMA SyncIsSync ==
  ASSUME IInv, Tolerated, UNCHANGED faults, Sync
  PROVE  Store!Sync
<1>1. Tolerated' /\ running /\ file' = file /\ running' = running /\ promised' = file
  BY DEF Tolerated, Sync, Synced
<1>2. Replayed(file) = file
  BY <1>1, ReplayedOpen
<1> QED
  BY <1>1, <1>2 DEF Store!Sync

\* Close keeps every write, synced or not.
LEMMA CloseIsStop ==
  ASSUME IInv, Tolerated, UNCHANGED faults, Close
  PROVE  Store!Stop
<1>1. /\ Tolerated' /\ running /\ running' = FALSE /\ file' = file
      /\ promised' = promised \/ promised' = file
  BY DEF Tolerated, Close, Stopped
<1>2. Replayed(file) = file /\ file \in Files /\ Len(promised) <= Len(file)
  BY <1>1, ReplayedOpen, ReplayFindsPromised
<1>3. Len(file) \in Nat /\ Len(promised) \in Nat /\ SubSeq(file, 1, Len(file)) = file
  BY <1>2, LenProperties, SubSeqFull DEF IInv, TypeOK, Files
<1>4. Len(file) \in Len(promised)..Len(file)
  BY <1>2, <1>3
<1> QED
  BY <1>1, <1>2, <1>3, <1>4 DEF Store!Stop

\* A crash of the process keeps every write: the torn record was none.
LEMMA ProcessCrashIsStop ==
  ASSUME IInv, Tolerated, UNCHANGED faults, ProcessCrash
  PROVE  Store!Stop
<1>1. /\ Tolerated' /\ running /\ running' = FALSE /\ promised' = promised
      /\ file' = file \/ file' = Append(file, Torn)
  BY DEF Tolerated, ProcessCrash, Stopped
<1>2. /\ Replayed(file) = file /\ Whole(file) /\ file \in Files
      /\ Len(promised) <= Len(file)
  BY <1>1, ReplayedOpen, ReplayFindsPromised
<1>3. Replayed(file') = file
  BY <1>1, <1>2, ReplayedTornEnd
<1>4. Len(file) \in Nat /\ Len(promised) \in Nat /\ SubSeq(file, 1, Len(file)) = file
  BY <1>2, LenProperties, SubSeqFull DEF IInv, TypeOK, Files
<1>5. Len(file) \in Len(promised)..Len(file)
  BY <1>2, <1>4
<1> QED
  BY <1>1, <1>2, <1>3, <1>4, <1>5 DEF Store!Stop

\* A crash of the machine keeps at least the writes an fsync has covered.
LEMMA PowerLossIsStop ==
  ASSUME IInv, Tolerated, UNCHANGED faults, PowerLoss
  PROVE  Store!Stop
<1>1. /\ Tolerated' /\ running /\ running' = FALSE /\ promised' = promised
      /\ "power" \in faults
  BY DEF Tolerated, PowerLoss, Stopped
<1>2. /\ Replayed(file) = file /\ Whole(file) /\ file \in Files
  BY <1>1, ReplayedOpen
<1>3. TypeOK /\ Len(file) \in Nat /\ Len(promised) \in Nat /\ Len(promised) <= durable
  BY <1>1, <1>2, LenProperties DEF IInv, PromiseInv, TypeOK, Files
<1>4. PICK k \in durable..Len(file) :
        file' = SubSeq(file, 1, k) \/ file' = Append(SubSeq(file, 1, k), Torn)
  BY <1>3, LeftOnDisk
<1> DEFINE f == SubSeq(file, 1, k)
<1>5. k \in Len(promised)..Len(file) /\ k \in 0..Len(file)
  BY <1>3, <1>4 DEF TypeOK
<1>6. f \in Files /\ Len(f) = k /\ \A i \in 1..k : f[i] = file[i]
  BY <1>2, <1>5, FirstRecords
<1>7. file' = f \/ file' = Append(f, Torn)
  BY <1>4
<1> HIDE DEF f
<1>8. Whole(f)
  BY <1>2, <1>3, <1>5, <1>6 DEF Whole
<1>9. Replayed(file') = f
  BY <1>6, <1>7, <1>8, ReplayedWhole, ReplayedTornEnd
<1> QED
  BY <1>1, <1>2, <1>5, <1>9 DEF Store!Stop, f

\* Replaying what a replay has left changes nothing.
LEMMA OpenIsOpen ==
  ASSUME IInv, IInv', Tolerated, UNCHANGED faults, Open
  PROVE  Store!Open
<1>1. /\ Tolerated' /\ ~running /\ running' = TRUE /\ promised' = promised
      /\ file' = Replayed(file)
  BY DEF Tolerated, Open
<1>2. file' \in Files /\ Whole(file')
  BY <1>1 DEF IInv, LogInv, TypeOK, Files
<1>3. Replayed(file') = Replayed(file)
  BY <1>1, <1>2, ReplayedWhole
<1> QED
  BY <1>1, <1>3 DEF Store!Open

\* A put that fails is not possible under the faults that are tolerated.
LEMMA StepIsStoreStep ==
  ASSUME IInv, IInv', [Next /\ UNCHANGED faults]_vars
  PROVE  [Store!Next]_(Store!kvVars)
<1>1. CASE UNCHANGED vars
  <2>1. UNCHANGED <<faults, file, running, promised>>
    BY <1>1 DEF vars
  <2> QED
    BY <2>1 DEF Store!kvVars, Tolerated
<1>2. CASE ~Tolerated /\ Next /\ UNCHANGED faults
  <2>1. ~Tolerated /\ ~Tolerated'
    BY <1>2 DEF Tolerated
  <2> QED
    BY <2>1 DEF Store!kvVars
<1>3. CASE Tolerated /\ Next /\ UNCHANGED faults
  <2>1. ASSUME NEW k \in Key, NEW v \in Value, PutUnsynced(k, v) PROVE FALSE
    BY <1>3, <2>1 DEF PutUnsynced, Tolerated
  <2>2. ~PutTorn
    BY <1>3 DEF PutTorn, Tolerated
  <2>3. Store!Next
    BY <1>3, <2>1, <2>2, PutIsPut, SyncIsSync, CloseIsStop, ProcessCrashIsStop,
       PowerLossIsStop, OpenIsOpen DEF Next, Store!Next
  <2> QED
    BY <2>3
<1> QED
  BY <1>1, <1>2, <1>3

\* Under the crashes it tolerates the engine is a sequence of writes of which
\* a crash drops some of the last, and none that a Sync has acknowledged.
THEOREM EngineImplementsStore == Spec => ImplementsStore
<1>1. Init => Store!Init
  BY InitIsStoreInit
<1>2. IInv /\ IInv' /\ [Next /\ UNCHANGED faults]_vars => [Store!Next]_(Store!kvVars)
  BY StepIsStoreStep
<1> QED
  BY <1>1, <1>2, Invariance, PTL DEF Spec, Store!Spec, ImplementsStore

=============================================================================
