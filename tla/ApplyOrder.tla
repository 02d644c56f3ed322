----------------------------- MODULE ApplyOrder -----------------------------
(* The order in which pending changes are applied                          *)
(* (orderPendingChangesForApply), from the foreign keys of their tables    *)
(* (DependencySorter).  A change is a record with a kind, "cell", "insert" *)
(* or "delete", and a table; a foreign key is a pair <<child, parent>>.    *)
EXTENDS Integers, FiniteSets, SequencesExt

(* What a loop visits it visits in the order of its places.  A place is a  *)
(* triple: the turns of up to three loops, the outermost first.            *)
Before(p, q) ==
    \/ p[1] < q[1]
    \/ p[1] = q[1] /\ p[2] < q[2]
    \/ p[1] = q[1] /\ p[2] = q[2] /\ p[3] < q[3]

\* The places of a finite set, from the first to the last.
InOrder(places) ==
    CHOOSE s \in [1..Cardinality(places) -> places] :
        \A n \in 2..Cardinality(places) : Before(s[n - 1], s[n])

\* s.filter(): what s has at the positions of a set.
Filter(s, positions) ==
    LET kept == InOrder({<<1, 1, i>> : i \in positions})
    IN  [n \in DOMAIN kept |-> s[kept[n][3]]]

\* The tables of the changes, in the order of their first change.
UniqueTables(changes) ==
    Filter([i \in DOMAIN changes |-> changes[i].table],
           {i \in DOMAIN changes : \A j \in 1 .. i - 1 : changes[j].table # changes[i].table})

----------------------------------------------------------------------------
(* Sorting the tables: Kahn's algorithm.                                   *)

\* The parents of table t among `tables`; t itself, if it references itself.
Parents(t, tables, fks) == {p \in ToSet(tables) : <<t, p>> \in fks}

\* Before its loop: the tables without parents are queued.
Start(tables, fks) ==
    [queue |-> Filter(tables, {i \in DOMAIN tables : Parents(tables[i], tables, fks) = {}}),
     sorted |-> <<>>]

\* The tables of which t is the last parent to be sorted.
Freed(t, sorted, tables, fks) ==
    Filter(tables, {i \in DOMAIN tables :
        LET parents == Parents(tables[i], tables, fks)
        IN  t \in parents /\ parents \subseteq ToSet(sorted)})

\* A turn of its loop: the head of the queue is sorted, and the tables that
\* frees are queued.
Turn(s, tables, fks) ==
    IF s.queue = <<>> THEN s
    ELSE LET t == Head(s.queue)
             sorted == Append(s.sorted, t)
         IN  [queue |-> Tail(s.queue) \o Freed(t, sorted, tables, fks), sorted |-> sorted]

\* Its turns.  It ends when the queue is empty: no table is queued twice, so
\* there are no more turns than tables.
Turns(tables, fks) ==
    LET turn[n \in 0..Len(tables)] ==
            IF n = 0 THEN Start(tables, fks) ELSE Turn(turn[n - 1], tables, fks)
    IN  turn

TopoSort(tables, fks) == Turns(tables, fks)[Len(tables)].sorted

\* Parents first; the tables of a cycle, and those below one, come last.
SortForInsert(tables, fks) ==
    LET sorted == TopoSort(tables, fks)
    IN  sorted \o Filter(tables, {i \in DOMAIN tables : tables[i] \notin ToSet(sorted)})

----------------------------------------------------------------------------
(* Sorting the changes.                                                    *)

\* Where e is in s first.
FirstAt(s, e) == CHOOSE i \in DOMAIN s : s[i] = e /\ \A j \in DOMAIN s : j < i => s[j] # e

\* The places of the changes of a kind, table by table: the tables of the
\* order, then any others by their first change.  Each table's changes keep
\* their own order.
ChangesInTableOrder(changes, kind, order, phase) ==
    LET those == {i \in DOMAIN changes : changes[i].kind = kind}
        Row(t) == IF t \in ToSet(order) THEN FirstAt(order, t)
                  ELSE Len(order) + FirstAt([i \in those |-> changes[i].table], t)
    IN  {<<phase, Row(changes[i].table), i>> : i \in those}

\* Faulty variant: deletes go parent first, like the rest.
OrderDeletesLikeInserts(changes, fks) ==
    LET order == SortForInsert(UniqueTables(changes), fks)
        places == InOrder(ChangesInTableOrder(changes, "delete", order, 1)
                          \cup ChangesInTableOrder(changes, "cell", order, 2)
                          \cup ChangesInTableOrder(changes, "insert", order, 3))
    IN  [n \in DOMAIN places |-> changes[places[n][3]]]

\* orderPendingChangesForApply().  sortForDelete() sorts the tables again and
\* reverses them.
OrderForApply(changes, fks) ==
    LET tables == UniqueTables(changes)
        insertOrder == SortForInsert(tables, fks)
        deleteOrder == Reverse(insertOrder)
        places == InOrder(ChangesInTableOrder(changes, "delete", deleteOrder, 1)
                          \cup ChangesInTableOrder(changes, "cell", insertOrder, 2)
                          \cup ChangesInTableOrder(changes, "insert", insertOrder, 3))
    IN  [n \in DOMAIN places |-> changes[places[n][3]]]

----------------------------------------------------------------------------
(* What the order is for, independently of how it is found.                *)

\* The tables that depend on a cycle of foreign keys: those of the largest set
\* of which each has a parent in the set.
Circular(tables, fks) ==
    UNION {S \in SUBSET tables : \A t \in S : \E p \in S : <<t, p>> \in fks}

Rank(kind) == CASE kind = "delete" -> 1 [] kind = "cell" -> 2 [] kind = "insert" -> 3

\* Must change c come before change d?
Precedes(c, d, fks) ==
    \/ Rank(c.kind) < Rank(d.kind)
    \/ /\ c.kind = "delete" /\ d.kind = "delete" /\ c.table # d.table
       /\ <<c.table, d.table>> \in fks
    \/ /\ c.kind = "insert" /\ d.kind = "insert" /\ c.table # d.table
       /\ <<d.table, c.table>> \in fks

\* Is `ordered` a rearrangement of `changes` in which what must come before
\* comes before, tables that depend on a cycle excepted, and in which the
\* changes of one kind and table keep their order?
Respects(changes, ordered, fks) ==
    LET circular == Circular({changes[i].table : i \in DOMAIN changes}, fks)
    IN  /\ ordered \in [DOMAIN changes -> ToSet(changes)]
        /\ \E at \in [DOMAIN changes -> DOMAIN changes] :
            /\ \A i \in DOMAIN changes : ordered[at[i]] = changes[i]
            /\ IsInjective(at)
            /\ \A i, j \in DOMAIN changes :
                  LET c == changes[i]  d == changes[j]
                  IN  /\ Precedes(c, d, fks)
                         /\ (c.kind = d.kind => {c.table, d.table} \cap circular = {})
                            => at[i] < at[j]
                      /\ c.kind = d.kind /\ c.table = d.table /\ i < j => at[i] < at[j]
=============================================================================
