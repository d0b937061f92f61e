------------------------- MODULE PostgresPoolProofs -------------------------
(***************************************************************************)
(* For any number of calls, whatever pool_size and max_overflow are, and   *)
(* whichever timers run out: connections and rows do not leak.             *)
(***************************************************************************)
EXTENDS PostgresPool, FiniteSetTheorems, TLAPS

\* Who has written a row is about to commit it.
RowsCommit == \A k \in Keys : holder[k] # None => stage[holder[k]] = "commit"

\* NothingLeaks is inductive once the connections held can be counted and a
\* row is known to be written by the last step before the commit.
Inv == TypeOK /\ IsFiniteSet(held) /\ NothingLeaks /\ RowsCommit

Holding(c) == stage[c] \notin {"idle", "waiting", "over"}

-----------------------------------------------------------------------------
(* Counting connections *)

LEMMA Opened ==
  ASSUME Inv, NEW c \in Calls, ~Holding(c)
  PROVE  /\ c \notin held
         /\ IsFiniteSet(held \cup {c})
         /\ Cardinality(held \cup {c}) = Cardinality(held) + 1
         /\ Cardinality(held) \in Nat
<1>1. c \notin held /\ IsFiniteSet(held) BY DEF Inv, NothingLeaks, Holding
<1> QED BY <1>1, FS_AddElement, FS_CardinalityType

LEMMA Closed ==
  ASSUME Inv, NEW c \in Calls, Holding(c)
  PROVE  /\ c \in held
         /\ IsFiniteSet(held \ {c})
         /\ Cardinality(held \ {c}) = Cardinality(held) - 1
         /\ Cardinality(held) \in Nat
<1>1. c \in held /\ IsFiniteSet(held) BY DEF Inv, NothingLeaks, Holding
<1> QED BY <1>1, FS_RemoveElement, FS_CardinalityType

\* A call that moves from one stage to another.
LEMMA Moves ==
  ASSUME Inv, NEW c \in Calls, NEW s \in Stages, To(c, s),
         held' = IF s \in {"idle", "waiting", "over"} THEN held \ {c} ELSE held \cup {c}
  PROVE  /\ stage' \in [Calls -> Stages]
         /\ held' \in SUBSET Calls
         /\ held' = {d \in Calls : stage'[d] \notin {"idle", "waiting", "over"}}
BY DEF Inv, TypeOK, NothingLeaks, To

\* The rows of a call that ends are free, the others still held.
LEMMA RowsFreed ==
  ASSUME Inv, NEW c \in Calls, FreeRow(c), held' = held \ {c}, key' = key
  PROVE  /\ holder' \in [Keys -> Sets \cup {None}]
         /\ \A k \in Keys : holder'[k] # None => holder'[k] \in held' /\ key'[holder'[k]] = k
BY DEF Inv, TypeOK, NothingLeaks, FreeRow

\* Giving a connection back, or dropping it, closes at least as many as it keeps.
LEMMA GivenBack ==
  ASSUME Inv, NEW c \in Calls, Holding(c), PutBack(c) \/ Drop(c)
  PROVE  /\ held' = held \ {c} /\ IsFiniteSet(held')
         /\ kept' \in 0..PoolSize
         /\ Cardinality(held') + kept' <= PoolSize + Overflow
<1>1. held' = held \ {c} /\ (kept' = kept \/ (kept < PoolSize /\ kept' = kept + 1))
  BY DEF PutBack, Drop
<1>2. Cardinality(held') = Cardinality(held) - 1 /\ Cardinality(held) \in Nat /\ IsFiniteSet(held')
  BY <1>1, Closed
<1>3. kept \in 0..PoolSize /\ Cardinality(held) + kept <= PoolSize + Overflow
  BY DEF Inv, TypeOK, NothingLeaks
<1> QED BY <1>1, <1>2, <1>3, PoolAssumption

\* A row is freed by a call that keeps its connection no longer only.
LEMMA RowsKept ==
  ASSUME Inv, held \subseteq held', key' = key, holder' = holder
  PROVE  \A k \in Keys : holder'[k] # None => holder'[k] \in held' /\ key'[holder'[k]] = k
BY DEF Inv, NothingLeaks

\* Nor does a call that has written no row change who is about to commit.
LEMMA CommitsKept ==
  ASSUME Inv, NEW c \in Calls, NEW s, To(c, s), stage[c] # "commit", holder' = holder
  PROVE  RowsCommit'
BY DEF Inv, TypeOK, RowsCommit, To

LEMMA CommitsFreed ==
  ASSUME Inv, NEW c \in Calls, NEW s, To(c, s), FreeRow(c)
  PROVE  RowsCommit'
BY DEF Inv, TypeOK, RowsCommit, To, FreeRow

-----------------------------------------------------------------------------
(* The steps *)

LEMMA AskInv ==
  ASSUME Inv, NEW c \in Calls, Ask(c)
  PROVE  Inv'
<1>1. /\ stage[c] = "idle" /\ To(c, "waiting")
      /\ held' = held /\ kept' = kept /\ holder' = holder /\ answering' = answering
  BY DEF Ask
<1>2. c \notin held BY <1>1, Opened DEF Holding
<1>3. /\ stage' \in [Calls -> Stages] /\ held' \in SUBSET Calls
      /\ held' = {d \in Calls : stage'[d] \notin {"idle", "waiting", "over"}}
  BY <1>1, <1>2, Moves DEF Stages
<1>4. key' \in [Sets -> Keys \cup {None}] /\ \A d \in Sets \ {c} : key'[d] = key[d]
  BY DEF Inv, TypeOK, Ask
<1>5. \A k \in Keys : holder'[k] # None => holder'[k] \in held' /\ key'[holder'[k]] = k
  BY <1>1, <1>2, <1>4 DEF Inv, TypeOK, NothingLeaks
<1>6. RowsCommit' BY <1>1, CommitsKept
<1> QED BY <1>1, <1>3, <1>4, <1>5, <1>6 DEF Inv, TypeOK, NothingLeaks

LEMMA CheckOutInv ==
  ASSUME Inv, NEW c \in Calls, Reuse(c) \/ Connect(c)
  PROVE  Inv'
<1>1. /\ stage[c] = "waiting" /\ (To(c, "ping") \/ To(c, "connect"))
      /\ held' = held \cup {c} /\ key' = key /\ holder' = holder /\ answering' = answering
      /\ \/ kept > 0 /\ kept' = kept - 1
         \/ kept = 0 /\ kept' = kept /\ Cardinality(held) < PoolSize + Overflow
  BY DEF Reuse, Connect
<1>2. /\ IsFiniteSet(held') /\ Cardinality(held') = Cardinality(held) + 1
      /\ Cardinality(held) \in Nat
  BY <1>1, Opened DEF Holding
<1>3. /\ stage' \in [Calls -> Stages] /\ held' \in SUBSET Calls
      /\ held' = {d \in Calls : stage'[d] \notin {"idle", "waiting", "over"}}
  BY <1>1, Moves DEF Stages
<1>4. kept' \in 0..PoolSize /\ Cardinality(held') + kept' <= PoolSize + Overflow
  <2>1. kept \in 0..PoolSize /\ Cardinality(held) + kept <= PoolSize + Overflow
    BY DEF Inv, TypeOK, NothingLeaks
  <2> QED BY <1>1, <1>2, <2>1, PoolAssumption
<1>5. \A k \in Keys : holder'[k] # None => holder'[k] \in held' /\ key'[holder'[k]] = k
  BY <1>1, RowsKept
<1>6. RowsCommit' BY <1>1, CommitsKept
<1> QED BY <1>1, <1>2, <1>3, <1>4, <1>5, <1>6 DEF Inv, TypeOK, NothingLeaks

\* The statements a call makes on the connection it holds.
LEMMA StatementInv ==
  ASSUME Inv, NEW c \in Calls, Ready(c) \/ (c \in Sets /\ (GetRow(c) \/ Flush(c)))
  PROVE  Inv'
<1>1. /\ Holding(c) /\ \E s \in {"get_row", "query", "flush", "commit"} : To(c, s)
      /\ held' = held /\ kept' = kept /\ key' = key /\ answering' = answering
  BY DEF Ready, GetRow, Flush, Holding
<1>2. c \in held BY <1>1, Closed
<1>3. /\ stage' \in [Calls -> Stages] /\ held' \in SUBSET Calls
      /\ held' = {d \in Calls : stage'[d] \notin {"idle", "waiting", "over"}}
  BY <1>1, <1>2, Moves DEF Stages
<1>4. /\ holder' \in [Keys -> Sets \cup {None}] /\ RowsCommit'
      /\ \A k \in Keys : holder'[k] # None => holder'[k] \in held' /\ key'[holder'[k]] = k
  <2>1. CASE c \in Sets /\ Flush(c)
    <3>1. RowsCommit'
      BY <2>1 DEF Flush, To, Inv, TypeOK, RowsCommit
    <3> QED BY <1>1, <1>2, <2>1, <3>1 DEF Flush, Inv, TypeOK, NothingLeaks
  <2>2. CASE Ready(c) \/ GetRow(c)
    <3>1. holder' = holder /\ stage[c] # "commit" /\ \E s : To(c, s)
      BY <2>2 DEF Ready, GetRow
    <3>2. RowsCommit' BY <3>1, CommitsKept
    <3> QED BY <1>1, <3>1, <3>2, RowsKept DEF Inv, TypeOK
  <2> QED BY <2>1, <2>2
<1> QED BY <1>1, <1>3, <1>4 DEF Inv, TypeOK, NothingLeaks

\* A call that ends while it holds a connection.
LEMMA OverInv ==
  ASSUME Inv, NEW c \in Calls,
         \/ Query(c) \/ Commit(c) \/ StatementTimeout(c) \/ ConnectTimeout(c)
  PROVE  Inv'
<1>1. /\ Holding(c) /\ To(c, "over") /\ (PutBack(c) \/ Drop(c))
      /\ key' = key /\ answering' = answering
      /\ \/ FreeRow(c)
         \/ holder' = holder /\ stage[c] \in {"query", "connect"}
  BY DEF Query, Commit, StatementTimeout, ConnectTimeout, Holding
<1>2. /\ held' = held \ {c} /\ IsFiniteSet(held') /\ kept' \in 0..PoolSize
      /\ Cardinality(held') + kept' <= PoolSize + Overflow
  BY <1>1, GivenBack
<1>3. /\ stage' \in [Calls -> Stages] /\ held' \in SUBSET Calls
      /\ held' = {d \in Calls : stage'[d] \notin {"idle", "waiting", "over"}}
  BY <1>1, <1>2, Moves DEF Stages
<1>4. /\ holder' \in [Keys -> Sets \cup {None}] /\ RowsCommit'
      /\ \A k \in Keys : holder'[k] # None => holder'[k] \in held' /\ key'[holder'[k]] = k
  <2>1. CASE FreeRow(c) BY <1>1, <1>2, <2>1, RowsFreed, CommitsFreed
  <2>2. CASE holder' = holder /\ stage[c] \in {"query", "connect"}
    <3>1. \A k \in Keys : holder[k] # c
      BY <2>2, SentinelAssumption DEF Inv, RowsCommit
    <3>2. RowsCommit' BY <1>1, <2>2, CommitsKept
    <3> QED BY <1>1, <1>2, <2>2, <3>1, <3>2 DEF Inv, TypeOK, NothingLeaks
  <2> QED BY <1>1, <2>1, <2>2
<1> QED BY <1>1, <1>2, <1>3, <1>4 DEF Inv, TypeOK, NothingLeaks

\* The call was not handed a connection.
LEMMA PoolTimeoutInv ==
  ASSUME Inv, NEW c \in Calls, PoolTimeout(c)
  PROVE  Inv'
<1>1. /\ stage[c] = "waiting" /\ To(c, "over") /\ held' = held /\ kept' = kept
      /\ key' = key /\ holder' = holder /\ answering' = answering
  BY DEF PoolTimeout
<1>2. c \notin held BY <1>1, Opened DEF Holding
<1>3. /\ stage' \in [Calls -> Stages] /\ held' \in SUBSET Calls
      /\ held' = {d \in Calls : stage'[d] \notin {"idle", "waiting", "over"}}
  BY <1>1, <1>2, Moves DEF Stages
<1>4. RowsCommit' BY <1>1, CommitsKept
<1> QED BY <1>1, <1>3, <1>4 DEF Inv, TypeOK, NothingLeaks

LEMMA InitInv == Init => Inv
<1> SUFFICES ASSUME Init PROVE Inv OBVIOUS
<1>1. TypeOK /\ RowsCommit
  BY PoolAssumption DEF Init, TypeOK, RowsCommit, Stages, Calls
<1>2. IsFiniteSet(held) /\ Cardinality(held) = 0 /\ kept = 1
  BY FS_EmptySet DEF Init
<1>3. NothingLeaks
  BY <1>2, PoolAssumption DEF Init, NothingLeaks
<1> QED BY <1>1, <1>2, <1>3 DEF Inv

LEMMA NextInv == Inv /\ [Next]_vars => Inv'
<1> SUFFICES ASSUME Inv, [Next]_vars PROVE Inv' OBVIOUS
<1>1. CASE Hang
  BY <1>1 DEF Hang, Inv, TypeOK, NothingLeaks, RowsCommit
<1>2. ASSUME NEW c \in Calls, Ask(c) PROVE Inv'
  BY <1>2, AskInv
<1>3. ASSUME NEW c \in Calls, Work(c) PROVE Inv'
  BY <1>3, CheckOutInv, StatementInv, OverInv DEF Work
<1>4. ASSUME NEW c \in Calls, TimeOut(c) PROVE Inv'
  BY <1>4, PoolTimeoutInv, OverInv DEF TimeOut
<1>5. CASE UNCHANGED vars
  BY <1>5 DEF vars, Inv, TypeOK, NothingLeaks, RowsCommit
<1> QED BY <1>1, <1>2, <1>3, <1>4, <1>5 DEF Next

\* The engine's connections and the rows its transactions wrote are never more
\* than its limits and never outlive their calls.
THEOREM PoolInvariant == Spec => []Inv
<1>1. Init => Inv BY InitInv
<1>2. Inv /\ [Next]_vars => Inv' BY NextInv
<1> QED BY <1>1, <1>2, PTL DEF Spec

\* Every variable of the pool has its type.
THEOREM PoolTypeCorrect == Spec => []TypeOK
<1>1. Inv => TypeOK BY DEF Inv
<1> QED BY <1>1, PoolInvariant, PTL

\* However its calls end, and whatever the server does, the pool keeps within
\* pool_size + max_overflow and what a call took is given back.
THEOREM PoolNeverLeaks == Spec => []NothingLeaks
<1>1. Inv => NothingLeaks BY DEF Inv
<1> QED BY <1>1, PoolInvariant, PTL
=============================================================================
