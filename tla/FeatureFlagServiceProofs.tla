---------------------- MODULE FeatureFlagServiceProofs ----------------------
(* Theorems about FeatureFlagService for any tenants, names, users, calls, *)
(* processes, TTL and faults.                                              *)
EXTENDS FeatureFlagService, TLAPS

\* A call that has begun knows its key; a set knows the flag it writes and a
\* get about to fill knows the flag it read; a set that loaded a row will
\* still find one when it commits, because rows are never deleted.
Ready ==
  /\ \A r \in Requests : pc[r] # "idle" => key[r] \in Keys
  /\ \A r \in Sets : pc[r] # "idle" => flag[r] \in Flags
  /\ \A r \in Gets : pc[r] = "fill" => flag[r] \in Flags
  /\ \A r \in Sets : pc[r] = "idle" => loaded[r] = None
  /\ \A r \in Sets : loaded[r] # None => rows[key[r]] # None

TypeInv == TypeOK /\ Ready

\* The sentinel is none of the values it stands for the absence of.
LEMMA Sentinels ==
  /\ None \notin Rows /\ None \notin Flags /\ None \notin Entries
  /\ None \notin Keys /\ None \notin Requests
BY SentinelAssumption

\* _row_to_flag and its inverse keep the columns' types.
LEMMA RowFlagTypes ==
  /\ \A row \in Rows : RowToFlag(row) \in Flags
  /\ \A f \in Flags : RowOf(f) \in Rows
BY DEF RowToFlag, RowOf, Rows, Flags

\* _cache_key gives each tenant and name a key of their own.
LEMMA CacheKeyInjective ==
  /\ \A k \in Keys : CacheKey(k) \in CacheKeys
  /\ \A k, l \in Keys : CacheKey(k) = CacheKey(l) => k = l
<1>1. \A k \in Keys : CacheKey(k) \in CacheKeys
  BY DEF CacheKeys
<1>2. \A k, l \in Keys : CacheKey(k) = CacheKey(l) => k = l
  BY DEF CacheKey, Keys
<1> QED BY <1>1, <1>2

\* What a transaction commits is a row, whatever it does over.
LEMMA FlushedType ==
  ASSUME TypeInv, NEW r \in Sets, pc[r] # "idle"
  PROVE  Flushed(r, rows[key[r]]) \in Rows
<1> key[r] \in Keys /\ flag[r] \in Flags /\ r \in Requests
  BY DEF TypeInv, Ready, Requests
<1> RowOf(flag[r]) \in Rows
  BY RowFlagTypes
<1>1. CASE loaded[r] = None
  BY <1>1 DEF Flushed
<1>2. CASE loaded[r] # None
  <2>1. rows[key[r]] \in Rows /\ loaded[r] \in Rows
    BY <1>2 DEF TypeInv, Ready, TypeOK
  <2> QED BY <1>2, <2>1 DEF Flushed, Column, Rows
<1> QED BY <1>1, <1>2

THEOREM InitType == Init => TypeInv
<1> SUFFICES ASSUME Init PROVE TypeInv
  OBVIOUS
<1> USE DEF Init
<1>1. \A k \in Keys : rows[k] # None => RowToFlag(rows[k]) \in Flags
  BY RowFlagTypes
<1>2. offered \in [Keys -> SUBSET Flags]
  BY <1>1
<1>3. rows \in [Keys -> Rows \cup {None}] /\ clock \in Instants
  BY ClockAssumption DEF Instants
<1>4. TypeOK
  BY <1>2, <1>3 DEF TypeOK, Requests, Labels, Outcomes
<1> QED BY <1>4 DEF TypeInv, Ready, Requests

\* One step per action of the specification.
THEOREM NextType == TypeInv /\ [Next]_vars => TypeInv'
<1> SUFFICES ASSUME TypeInv, [Next]_vars PROVE TypeInv'
  OBVIOUS
<1> USE Sentinels DEF TypeInv, stores, locals, counts, history
<1>1. ASSUME NEW r \in Gets, NEW k \in Keys, GetFlag(r, k) PROVE TypeInv'
  <2>1. TypeOK'
    BY <1>1, CallsAssumption DEF TypeOK, GetFlag, Begin, Goto, Requests, Labels, Outcomes
  <2>2. Ready'
    BY <1>1, CallsAssumption DEF TypeOK, Ready, GetFlag, Begin, Goto, Requests
  <2> QED BY <2>1, <2>2
<1>2. ASSUME NEW r \in Gets, CacheHit(r) PROVE TypeInv'
  <2>1. flag' \in [Requests -> Flags \cup {None}]
    BY <1>2, CacheKeyInjective DEF TypeOK, Ready, CacheHit, Entries, Requests
  <2>2. TypeOK'
    BY <1>2, <2>1 DEF TypeOK, CacheHit, Return, Requests, Labels, Outcomes
  <2>3. Ready'
    BY <1>2, CallsAssumption DEF TypeOK, Ready, CacheHit, Return, Requests
  <2> QED BY <2>2, <2>3
<1>3. ASSUME NEW r \in Gets, CacheMiss(r) PROVE TypeInv'
  <2>1. TypeOK'
    BY <1>3 DEF TypeOK, CacheMiss, Goto, Requests, Labels
  <2>2. Ready'
    BY <1>3, CallsAssumption DEF TypeOK, Ready, CacheMiss, Goto, Requests
  <2> QED BY <2>1, <2>2
<1>4. ASSUME NEW r \in Gets, LoadRow(r) PROVE TypeInv'
  <2>1. RowToFlag(rows[key[r]]) \in Flags
    BY <1>4, RowFlagTypes DEF TypeOK, Ready, LoadRow, Requests
  <2>2. TypeOK'
    BY <1>4, <2>1 DEF TypeOK, LoadRow, Goto, Requests, Labels
  <2>3. Ready'
    BY <1>4, <2>1, CallsAssumption DEF TypeOK, Ready, LoadRow, Goto, Requests
  <2> QED BY <2>2, <2>3
<1>5. ASSUME NEW r \in Gets, RowMissing(r) PROVE TypeInv'
  <2>1. TypeOK'
    BY <1>5 DEF TypeOK, RowMissing, Return, Requests, Labels, Outcomes
  <2>2. Ready'
    BY <1>5, CallsAssumption DEF TypeOK, Ready, RowMissing, Return, Requests
  <2> QED BY <2>1, <2>2
<1>6. ASSUME NEW r \in Gets, FillCache(r) PROVE TypeInv'
  <2>1. [flag |-> flag[r], ttl |-> CacheTtl] \in Entries
    BY <1>6, CacheTtlAssumption DEF Ready, FillCache, Entries
  <2>2. TypeOK'
    BY <1>6, <2>1 DEF TypeOK, FillCache, WriteCache, Return, Requests, Labels, Outcomes
  <2>3. Ready'
    BY <1>6, CallsAssumption DEF TypeOK, Ready, FillCache, Return, Requests
  <2> QED BY <2>2, <2>3
<1>7. ASSUME NEW r \in Sets, NEW k \in Keys, NEW enabled \in BOOLEAN, NEW user \in Users,
             SetFlag(r, k, enabled, user)
      PROVE TypeInv'
  <2>1. [enabled |-> enabled, updated_at |-> clock, updated_by_user_id |-> user] \in Flags
    BY DEF TypeOK, Flags
  <2>2. TypeOK'
    BY <1>7, <2>1, CallsAssumption DEF TypeOK, SetFlag, Begin, Goto, Requests, Labels
  <2>3. Ready'
    BY <1>7, <2>1, CallsAssumption DEF TypeOK, Ready, SetFlag, Begin, Goto, Requests
  <2> QED BY <2>2, <2>3
<1>8. ASSUME NEW r \in Sets, GetRow(r) PROVE TypeInv'
  <2>1. TypeOK'
    BY <1>8 DEF TypeOK, Ready, GetRow, Goto, Requests, Labels
  <2>2. Ready'
    BY <1>8, CallsAssumption DEF TypeOK, Ready, GetRow, Goto, Requests
  <2> QED BY <2>1, <2>2
<1>9. ASSUME NEW r \in Sets, Flush(r) PROVE TypeInv'
  <2>1. TypeOK'
    BY <1>9 DEF TypeOK, Flush, Goto, Requests, Labels
  <2>2. Ready'
    BY <1>9, CallsAssumption DEF TypeOK, Ready, Flush, Goto, Requests
  <2> QED BY <2>1, <2>2
<1>10. ASSUME NEW r \in Sets, DuplicateKey(r) PROVE TypeInv'
  <2>1. TypeOK'
    BY <1>10 DEF TypeOK, DuplicateKey, Return, Requests, Labels, Outcomes
  <2>2. Ready'
    BY <1>10, CallsAssumption DEF TypeOK, Ready, DuplicateKey, Return, Requests
  <2> QED BY <2>1, <2>2
<1>11. ASSUME NEW r \in Sets, Commit(r) PROVE TypeInv'
  <2>1. Flushed(r, rows[key[r]]) \in Rows
    BY <1>11, FlushedType DEF Commit
  <2>2. RowToFlag(Flushed(r, rows[key[r]])) \in Flags /\ flag[r] \in Flags
    BY <1>11, <2>1, RowFlagTypes DEF Ready, Commit
  <2>3. TypeOK'
    BY <1>11, <2>1, <2>2 DEF TypeOK, Commit, CommitRow, Goto, Requests, Labels
  <2>4. Ready'
    BY <1>11, <2>1, CallsAssumption DEF TypeOK, Ready, Commit, CommitRow, Goto, Requests
  <2> QED BY <2>3, <2>4
<1>12. ASSUME NEW r \in Sets, RefreshCache(r) PROVE TypeInv'
  <2>1. [flag |-> flag[r], ttl |-> CacheTtl] \in Entries
    BY <1>12, CacheTtlAssumption DEF Ready, RefreshCache, Entries
  <2>2. writes' \in [Procs -> Nat]
    BY <1>12, CallsAssumption DEF TypeOK, RefreshCache, Requests
  <2>3. cache' \in [CacheKeys -> Entries \cup {None}]
    BY <1>12, <2>1 DEF TypeOK, RefreshCache, WriteCache
  <2>4. TypeOK'
    BY <1>12, <2>2, <2>3 DEF TypeOK, RefreshCache, Return, Requests, Labels, Outcomes
  <2>5. Ready'
    BY <1>12, CallsAssumption DEF TypeOK, Ready, RefreshCache, Return, Requests
  <2> QED BY <2>4, <2>5
<1>13. ASSUME NEW r \in Sets, ResolveCommitted(r) PROVE TypeInv'
  <2>1. Flushed(r, rows[key[r]]) \in Rows
    BY <1>13, FlushedType DEF ResolveCommitted
  <2>2. RowToFlag(Flushed(r, rows[key[r]])) \in Flags /\ flag[r] \in Flags
    BY <1>13, <2>1, RowFlagTypes DEF Ready, ResolveCommitted
  <2>3. TypeOK'
    BY <1>13, <2>1, <2>2 DEF TypeOK, ResolveCommitted, CommitRow
  <2>4. Ready'
    BY <1>13, <2>1, CallsAssumption DEF TypeOK, Ready, ResolveCommitted, CommitRow, Requests
  <2> QED BY <2>3, <2>4
<1>14. ASSUME NEW r \in Sets, ResolveRolledBack(r) PROVE TypeInv'
  <2>1. TypeOK'
    BY <1>14 DEF TypeOK, ResolveRolledBack
  <2>2. Ready'
    BY <1>14 DEF Ready, ResolveRolledBack
  <2> QED BY <2>1, <2>2
<1>15. ASSUME NEW R \in SUBSET Requests PROVE Pending(R) \subseteq CacheKeys \X Flags
  BY <1>15, CacheKeyInjective, CallsAssumption DEF TypeOK, Ready, Pending, Requests
<1>16. ASSUME NEW R \in SUBSET Requests, Disturb(R) PROVE disturbed' \in [Keys -> BOOLEAN]
  BY <1>16, Zenon DEF Disturb, TypeOK
<1>17. ASSUME NEW r \in Requests, RedisFails(r) PROVE TypeInv'
  <2>1. late' \in SUBSET (CacheKeys \X Flags)
    BY <1>15, <1>17 DEF TypeOK, RedisFails
  <2>2. disturbed' \in [Keys -> BOOLEAN]
    BY <1>16, <1>17 DEF RedisFails
  <2>3. TypeOK'
    BY <1>17, <2>1, <2>2 DEF TypeOK, RedisFails, Return, Requests, Labels, Outcomes
  <2>4. Ready'
    BY <1>17, CallsAssumption DEF TypeOK, Ready, RedisFails, Return, Requests
  <2> QED BY <2>3, <2>4
<1>18. ASSUME NEW r \in Requests, PostgresFails(r) PROVE TypeInv'
  <2>1. disturbed' \in [Keys -> BOOLEAN]
    BY <1>16, <1>18 DEF PostgresFails
  <2>2. TypeOK'
    BY <1>18, <2>1 DEF TypeOK, PostgresFails, Return, Requests, Labels, Outcomes
  <2>3. Ready'
    BY <1>18, CallsAssumption DEF TypeOK, Ready, PostgresFails, Return, Requests
  <2> QED BY <2>2, <2>3
<1>19. ASSUME NEW p \in Procs, Crash(p) PROVE TypeInv'
  <2> DEFINE Dying == {r \in Requests : Home[r] = p /\ Open(r)}
  <2>1. late' \in SUBSET (CacheKeys \X Flags)
    BY <1>15, <1>19 DEF TypeOK, Crash
  <2>2. disturbed' \in [Keys -> BOOLEAN]
    BY <1>16, <1>19 DEF Crash
  <2>3. TypeOK'
    BY <1>19, <2>1, <2>2 DEF TypeOK, Crash, Requests, Labels, Outcomes
  <2>4. Ready'
    BY <1>19, CallsAssumption DEF TypeOK, Ready, Crash, Open, Requests
  <2> QED BY <2>3, <2>4
<1>20. ASSUME NEW c \in CacheKeys, Evict(c) PROVE TypeInv'
  BY <1>20 DEF TypeOK, Ready, Evict
<1>21. ASSUME NEW set \in CacheKeys \X Flags, Settle(set) PROVE TypeInv'
  <2>1. [flag |-> set[2], ttl |-> CacheTtl] \in Entries
    BY CacheTtlAssumption DEF Entries
  <2>2. TypeOK'
    BY <1>21, <2>1 DEF TypeOK, Settle, LateSet, LateSetLost, WriteCache
  <2>3. Ready'
    BY <1>21 DEF Ready, Settle, LateSet, LateSetLost
  <2> QED BY <2>2, <2>3
<1>22. CASE Tick
  <2>1. clock' \in Instants
    BY <1>22, ClockAssumption DEF TypeOK, Tick, Instants
  <2>2. cache' \in [CacheKeys -> Entries \cup {None}]
    BY <1>22, CacheTtlAssumption DEF TypeOK, Tick, Entries
  <2>3. TypeOK'
    BY <1>22, <2>1, <2>2 DEF TypeOK, Tick
  <2>4. Ready'
    BY <1>22 DEF Ready, Tick
  <2> QED BY <2>3, <2>4
<1>23. CASE UNCHANGED vars
  BY <1>23 DEF TypeOK, Ready, vars
<1> QED
  BY <1>1, <1>2, <1>3, <1>4, <1>5, <1>6, <1>7, <1>8, <1>9, <1>10, <1>11, <1>12,
     <1>13, <1>14, <1>17, <1>18, <1>19, <1>20, <1>21, <1>22, <1>23
  DEF Next, Call, Serve, Resolve

\* Every variable keeps its type, for every instance.
THEOREM TypeCorrect == Spec => []TypeOK
<1>1. Init => TypeInv
  BY InitType
<1>2. TypeInv /\ [Next]_vars => TypeInv'
  BY NextType
<1>3. TypeInv => TypeOK
  BY DEF TypeInv
<1> QED BY <1>1, <1>2, <1>3, PTL DEF Spec
=============================================================================
