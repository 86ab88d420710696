------------------------------ MODULE RaftLog ------------------------------
(***************************************************************************)
(* The log of one replica (log.go). The placeholder entries[0] has index 0 *)
(* and term 0 and never changes, so a log is the sequence of the entries   *)
(* after it, and the entry of index i is log[i].                           *)
(***************************************************************************)
EXTENDS Integers, Sequences

LastIndex(log) == Len(log)

\* raftLog.term: HasIndex is its boolean result, TermAt its first one
\* (0 for the placeholder and for every index the log does not hold).
HasIndex(log, i) == i \in 0..Len(log)
TermAt(log, i) == IF i \in 1..Len(log) THEN log[i].term ELSE 0

LastTerm(log) == TermAt(log, LastIndex(log))

\* The entries from index i >= 1 to the end, empty beyond the end.
EntriesFrom(log, i) == SubSeq(log, i, Len(log))

\* The first k of the entries es, which start at index prev + 1, are already
\* in the log with the same terms.
AlreadyHas(log, prev, es, k) ==
  \A j \in 1..k : prev + j <= Len(log) /\ log[prev + j].term = es[j].term

\* Seeded mistake: a conflicting suffix is not cut.
AppendWithoutCut(log, prev, es) ==
  log \o SubSeq(es, Len(log) - prev + 1, Len(es))

\* raftLog.append of the contiguous entries es that start at prev + 1, with
\* prev <= Len(log): entries the log already has are skipped, the first one
\* that conflicts cuts the log there, and the rest is appended.
AppendEntries(log, prev, es) ==
  IF AlreadyHas(log, prev, es, Len(es))
    THEN log
    ELSE [i \in 1..(prev + Len(es)) |->
            IF i <= prev \/ AlreadyHas(log, prev, es, i - prev)
              THEN log[i]
              ELSE es[i - prev]]

=============================================================================
