------------------------- MODULE HistoryTableFacts --------------------------
(* The operators on tables have their types, for every set of rows, hashes   *)
(* and shards; and what a row with one line looks like.                      *)
EXTENDS HistoryTable, TLAPS

LEMMA RowOfType ==
    ASSUME NEW t \in Table, NEW id \in RowIds
    PROVE  RowOf(t, id) \in Hashes \cup {NoRow}
  <1>1. t[id] \in Seq(Hashes)
    BY DEF Table
  <1>. QED
    BY <1>1 DEF RowOf

\* A row with a line and no second one has exactly that line.
LEMMA Singleton ==
    ASSUME NEW S, NEW q \in Seq(S), q # <<>>, ~(Len(q) > 1)
    PROVE  Len(q) = 1 /\ DOMAIN q = {1} /\ q[1] \in S /\ q = <<q[1]>>
  <1>1. Len(q) \in Nat /\ DOMAIN q = 1..Len(q)
    OBVIOUS
  <1>2. Len(q) # 0
    OBVIOUS
  <1>3. Len(q) = 1
    BY <1>1, <1>2
  <1>4. DOMAIN q = {1}
    BY <1>1, <1>3
  <1>5. q[1] \in S
    BY <1>4
  <1>6. q = <<q[1]>>
    BY <1>3
  <1>. QED
    BY <1>3, <1>4, <1>5, <1>6

LEMMA TableTypes ==
    /\ EmptyTable \in Table
    /\ \A t \in Table : \A S : OnlyIds(t, S) \in Table
    /\ \A t, new \in Table : \A S : PutShards(t, new, S) \in Table
    /\ \A t, rows \in Table : AppendLines(t, rows) \in Table
    /\ \A t \in Table : ShardsOf(t) \in SUBSET Shards
    /\ \A d \in Database, t \in Table : \A S : InsertRows(d, t, S) \in Database
  <1>1. EmptyTable \in Table
    BY DEF EmptyTable, Table
  <1>2. ASSUME NEW t \in Table, NEW S PROVE OnlyIds(t, S) \in Table
    BY DEF OnlyIds, Table
  <1>3. ASSUME NEW t \in Table, NEW new \in Table, NEW S
        PROVE  PutShards(t, new, S) \in Table
    BY DEF PutShards, Table
  <1>4. ASSUME NEW t \in Table, NEW rows \in Table
        PROVE  AppendLines(t, rows) \in Table
    BY DEF AppendLines, Table
  <1>5. ASSUME NEW t \in Table PROVE ShardsOf(t) \in SUBSET Shards
    BY TableAssumption DEF ShardsOf, Ids
  <1>6. ASSUME NEW d \in Database, NEW t \in Table, NEW S
        PROVE  InsertRows(d, t, S) \in Database
    BY RowOfType DEF InsertRows, Database
  <1>. QED
    BY <1>1, <1>2, <1>3, <1>4, <1>5, <1>6
=============================================================================
