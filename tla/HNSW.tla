-------------------------------- MODULE HNSW --------------------------------
(***************************************************************************)
(* The graph of the vector index (internal/ann/hnsw.go) as a pure value: a *)
(* record h with the fields of struct HNSW, and one operator per function, *)
(* from the graph to the graph it leaves behind.                           *)
(*                                                                         *)
(* IDs are natural numbers, ordered like the strings of the code. Vectors  *)
(* are tuples of integers, so distances are exact. The random generator is *)
(* the sequence rng of the levels it draws next, over and over: the same   *)
(* Seed is the same sequence. Lists of neighbours keep the order of slices.*)
(***************************************************************************)
EXTENDS Integers, SequencesExt

NoID == 0   \* entry of an empty graph

\* NewHNSW: cfg has the fields M, EFConstruction and EFSearch.
NewHNSW(cfg, rng) ==
  [cfg |-> cfg, rng |-> rng, nodes |-> <<>>, entry |-> NoID, maxLevel |-> -1]

\* The condition under which NewHNSW accepts a configuration. M = 1 passes it
\* too, but then the logarithm in level divides by zero: not modelled.
ValidConfig(cfg) ==
  cfg.M > 0 /\ cfg.EFConstruction >= cfg.M /\ cfg.EFSearch > 0

L2Squared(v, w) == SumFunction([i \in DOMAIN v |-> (v[i] - w[i]) * (v[i] - w[i])])

Distance(h, q, id) == L2Squared(q, h.nodes[id].v)

IDs(h) == DOMAIN h.nodes
Neighbors(h, id, l) == h.nodes[id].neighbors[l]

\* sortResults: closest to q first, ties broken by ID.
Before(h, q, a, b) ==
  \/ Distance(h, q, a) < Distance(h, q, b)
  \/ Distance(h, q, a) = Distance(h, q, b) /\ a < b

\* The list s in the order op: each member in turn takes its place among those
\* before it.
Sorted(s, op(_, _)) ==
  LET insert(out, x) ==
        InsertAt(out, Cardinality({i \in DOMAIN out : op(out[i], x)}) + 1, x)
  IN FoldLeft(insert, <<>>, s)

Ascending(S) == Sorted(SetToSeq(S), <)

\* The members of the list s, or of S, closest to q first.
SortedList(h, q, s) == Sorted(s, LAMBDA a, b : Before(h, q, a, b))
SortedSet(h, q, S) == SortedList(h, q, SetToSeq(S))

Smaller(a, b) == IF a < b THEN a ELSE b
FirstOf(s, n) == SubSeq(s, 1, Smaller(n, Len(s)))

\* The nodes of level l or higher closest to q, without those of skip.
Closest(h, q, l, limit, skip) ==
  FirstOf(SortedSet(h, q, {id \in IDs(h) \ skip : h.nodes[id].level >= l}), limit)

\* selectDiverse: up to m candidates, none closer to one picked before than to q.
SelectDiverse(h, q, candidates, m) ==
  LET pick(out, c) ==
        IF \/ Len(out) = m
           \/ \E s \in ToSet(out) : Distance(h, h.nodes[c].v, s) < Distance(h, q, c)
          THEN out
          ELSE Append(out, c)
  IN FoldLeft(pick, <<>>, candidates)

Trim(h, n, l) ==
  [h EXCEPT !.nodes[n].neighbors[l] = FirstOf(SortedList(h, h.nodes[n].v, @), h.cfg.M)]

\* Seeded mistake: the other node's list is not cut back.
LinkUntrimmed(h, a, b, l) ==
  [h EXCEPT !.nodes[a].neighbors[l] = Append(@, b),
            !.nodes[b].neighbors[l] = Append(@, a)]

\* link: a and b on level l, in both directions; only b's list is cut back.
Link(h, a, b, l) ==
  Trim([h EXCEPT !.nodes[a].neighbors[l] = Append(@, b),
                 !.nodes[b].neighbors[l] = Append(@, a)], b, l)

\* Node n gets up to m new links on level l, to diverse nodes not in skip.
Connect(h, n, l, m, skip) ==
  LET v == h.nodes[n].v
      others == SelectDiverse(h, v, Closest(h, v, l, h.cfg.EFConstruction, skip), m)
  IN FoldLeft(LAMBDA g, other : Link(g, n, other, l), h, others)

-----------------------------------------------------------------------------
(* Delete.                                                                 *)

SortedIDs(h) == Ascending(IDs(h))

\* The levels of node n, from the lowest.
Levels(h, n) == [k \in 1..h.nodes[n].level + 1 |-> k - 1]

\* The list s without id.
Without(s, id) ==
  FoldLeft(LAMBDA kept, o : IF o = id THEN kept ELSE Append(kept, o), <<>>, s)

\* id leaves the list of node n on level l, or all its lists, which are trimmed.
DropLink(h, n, l, id) == Trim([h EXCEPT !.nodes[n].neighbors[l] = Without(@, id)], n, l)
DropLinks(h, n, id) == FoldLeft(LAMBDA g, l : DropLink(g, n, l, id), h, Levels(h, n))

\* The graph without id, which leaves every list.
Removed(h, id) ==
  LET rest == IDs(h) \ {id}
      unlinked == FoldLeft(LAMBDA g, n : DropLinks(g, n, id), h, Ascending(rest))
  IN [unlinked EXCEPT !.nodes = [n \in rest |-> @[n]]]

\* Node n looks for new links on level l, if it has fewer than M there, or on
\* every level.
RepairLevel(h, n, l) ==
  LET own == Neighbors(h, n, l)
  IN IF Len(own) >= h.cfg.M
       THEN h
       ELSE Connect(h, n, l, h.cfg.M - Len(own), {n} \cup ToSet(own))
Repair(h, n) == FoldLeft(LAMBDA g, l : RepairLevel(g, n, l), h, Levels(h, n))

\* A node higher than all others (or the first one) becomes the entry.
Raised(h, n) ==
  IF h.nodes[n].level > h.maxLevel
    THEN [h EXCEPT !.entry = n, !.maxLevel = h.nodes[n].level]
    ELSE h

\* The node of the highest level, the lowest ID on ties.
WithNewEntry(h) ==
  FoldLeft(Raised, [h EXCEPT !.entry = NoID, !.maxLevel = -1], SortedIDs(h))

\* Seeded mistake: the entry node is not replaced when it is deleted.
DeleteKeepingEntry(h, id) ==
  LET removed == Removed(h, id) IN FoldLeft(Repair, removed, SortedIDs(removed))

\* Seeded mistake: the nodes that lost a link are not repaired.
DeleteUnrepaired(h, id) ==
  LET removed == Removed(h, id) IN IF h.entry = id THEN WithNewEntry(removed) ELSE removed

Delete(h, id) ==
  LET removed == Removed(h, id)
      repaired == FoldLeft(Repair, removed, SortedIDs(removed))
  IN IF h.entry = id THEN WithNewEntry(repaired) ELSE repaired

-----------------------------------------------------------------------------
(* Insert.                                                                 *)

\* The new node id with the next level of the generator, not linked yet.
Added(h, id, v) ==
  LET node == [v |-> v, level |-> Head(h.rng),
               neighbors |-> [l \in 0..Head(h.rng) |-> <<>>]]
  IN [h EXCEPT !.rng = Append(Tail(@), Head(@)),
             !.nodes = [n \in IDs(h) \cup {id} |-> IF n = id THEN node ELSE @[n]]]

\* Its links, from its own level (or the highest there is) down to 0.
Linked(h, id) ==
  LET top == Smaller(h.nodes[id].level, h.maxLevel)
  IN FoldLeft(LAMBDA g, l : Connect(g, id, l, g.cfg.M, {id}),
              h, [k \in 1..top + 1 |-> top + 1 - k])

\* Seeded mistake: an ID that is known is not replaced.
InsertOnce(h, id, v) ==
  IF id \in IDs(h) THEN h ELSE Raised(Linked(Added(h, id, v), id), id)

\* Insert of a valid ID and vector; a known ID is deleted first.
Insert(h, id, v) ==
  LET without == IF id \in IDs(h) THEN Delete(h, id) ELSE h
  IN Raised(Linked(Added(without, id, v), id), id)

-----------------------------------------------------------------------------
(* Search.                                                                 *)

Nearest(h, q, S) == CHOOSE a \in S : \A b \in S \ {a} : Before(h, q, a, b)
Farthest(h, q, S) == CHOOSE a \in S : \A b \in S \ {a} : Before(h, q, b, a)

\* One neighbour of the expanded candidate: unless it was visited, it joins
\* the frontier and the ef best, if it is among them.
Visit(h, q, ef, walk, id) ==
  LET seen == [walk EXCEPT !.visited = @ \cup {id}]
      best == walk.best \cup {id}
  IN IF id \in walk.visited
       THEN walk
       ELSE IF /\ Cardinality(walk.best) >= ef
               /\ Distance(h, q, id) >= Distance(h, q, Farthest(h, q, walk.best))
              THEN seen
              ELSE [seen EXCEPT
                      !.frontier = @ \cup {id},
                      !.best = IF Cardinality(best) > ef
                                 THEN best \ {Farthest(h, q, best)}
                                 ELSE best]

\* From entry on, expand the closest unexplored candidate until it is farther
\* than the worst of the ef results.
SearchLayer(h, q, entry, level, ef) ==
  LET Walk == [frontier : SUBSET IDs(h), best : SUBSET IDs(h), visited : SUBSET IDs(h)]
      explore[walk \in Walk] ==
        LET c == Nearest(h, q, walk.frontier)
            popped == [walk EXCEPT !.frontier = @ \ {c}]
            worst == Farthest(h, q, walk.best)
        IN IF \/ walk.frontier = {}
              \/ Cardinality(walk.best) >= ef /\ Distance(h, q, c) > Distance(h, q, worst)
             THEN walk.best
             ELSE explore[FoldLeft(LAMBDA w, id : Visit(h, q, ef, w, id),
                                   popped, Neighbors(h, c, level))]
  IN explore[[frontier |-> {entry}, best |-> {entry}, visited |-> {entry}]]

\* Search with k > 0 and a query of the right dimension; ef = 0 is EFSearch.
Search(h, q, k, ef) ==
  LET width == IF ef <= 0 THEN h.cfg.EFSearch ELSE ef
      descend(entry, level) ==
        Nearest(h, q, SearchLayer(h, q, entry, level, 1))
      entry == FoldLeft(descend, h.entry, [i \in 1..h.maxLevel |-> h.maxLevel + 1 - i])
  IN IF IDs(h) = {}
       THEN <<>>
       ELSE FirstOf(SortedSet(h, q, SearchLayer(h, q, entry, 0, width)), k)

=============================================================================
