------------------------- MODULE FlagStoreRefinement -------------------------
(* The service implements the contract of FlagStore, for every value of the *)
(* constants: each step of the code is, to a caller, a call, an offer, the  *)
(* answer of some calls, or nothing.                                        *)
EXTENDS FeatureFlagServiceSafety

THEOREM StoreInit == Init => Store!Init
<1> SUFFICES ASSUME Init PROVE Store!Init
  OBVIOUS
<1> USE DEF Init
<1>1. offered \in [Keys -> {{}} \cup {{f} : f \in Flags}]
  BY RowFlagTypes
<1>2. /\ Phase = [r \in Requests |-> "idle"]
      /\ Wanted = [r \in Requests |-> None]
      /\ Reply = [r \in Requests |-> [status |-> "none", flag |-> None]]
  BY DEF Phase, Wanted, Reply, Requests
<1>3. key = [r \in Requests |-> None] /\ absent = [r \in Requests |-> FALSE]
  OBVIOUS
<1> QED BY <1>1, <1>2, <1>3 DEF Store!Init, Store!Requests, Store!Unanswered, Requests

\* A step that begins and ends no call and offers nothing is nothing to a caller.
LEMMA Unseen ==
  ASSUME UNCHANGED <<offered, key, absent, status>>,
         \A r \in Requests : pc'[r] = pc[r] \/ {pc[r], pc'[r]} \cap {"idle", "done"} = {},
         \A r \in Requests : flag'[r] = flag[r] \/ (r \notin Sets /\ status[r] # "ok")
  PROVE  UNCHANGED Store!vars
<1>1. UNCHANGED Phase
  BY DEF Phase
<1>2. UNCHANGED Wanted
  BY DEF Wanted
<1>3. UNCHANGED Reply
  BY DEF Reply
<1> QED BY <1>1, <1>2, <1>3 DEF Store!vars

\* The calls of R end; each says something it may say.
LEMMA Answered ==
  ASSUME TypeInv, NEW R \in SUBSET Requests,
         UNCHANGED <<offered, key, absent>>,
         \A r \in R : Open(r),
         \A r \in Requests : pc'[r] = IF r \in R THEN "done" ELSE pc[r],
         \A r \in Requests \ R : status'[r] = status[r] /\ flag'[r] = flag[r],
         \A r \in Sets : flag'[r] = flag[r],
         \A r \in R :
           \/ status'[r] \in {"server_error", "lost"}
           \/ status'[r] = "ok" /\ flag'[r] \in offered[key[r]]
           \/ status'[r] = "not_found" /\ r \in Gets /\ absent[r]
  PROVE  Store!Answer(R)
<1>1. \A r \in R : Phase[r] = "open"
  BY DEF Phase, Open
<1>2. Phase' = [r \in Requests |-> IF r \in R THEN "done" ELSE Phase[r]]
  BY DEF Phase
<1>3. \A r \in R : Reply'[r] \in Store!Answers(r)
  <2> SUFFICES ASSUME NEW r \in R PROVE Reply'[r] \in Store!Answers(r)
    OBVIOUS
  <2>1. Reply'[r] = [status |-> status'[r],
                     flag   |-> IF status'[r] = "ok" THEN flag'[r] ELSE None]
    BY DEF Reply
  <2>2. r \in Sets => r \notin Gets /\ Wanted[r] = flag'[r]
    BY CallsAssumption DEF Wanted, Requests
  <2> QED BY <2>1, <2>2 DEF Store!Answers, Requests
<1>4. \A r \in Requests \ R : Reply'[r] = Reply[r]
  BY DEF Reply
<1>5. Reply' = [r \in Requests |-> Reply'[r]]
  BY DEF Reply
<1>6. UNCHANGED Wanted
  BY DEF Wanted
<1> QED
  BY <1>1, <1>2, <1>3, <1>4, <1>5, <1>6 DEF Store!Answer, Store!Requests, Requests

\* A call begins.
LEMMA Called ==
  ASSUME TypeInv, Committed, Answers,
         NEW r \in Requests, NEW k \in Keys, NEW R, NEW label,
         label \in {"lookup", "get_row"}, pc[r] = "idle",
         Begin(r, k, R), Goto(r, label),
         r \in Gets => flag' = flag,
         r \in Sets => \E f \in Flags : flag' = [flag EXCEPT ![r] = f]
  PROVE  Store!Call(r, k)
<1> USE DEF TypeInv, TypeOK
<1>1. Phase[r] = "idle" /\ Phase' = [Phase EXCEPT ![r] = "open"]
  BY DEF Phase, Goto
<1>2. absent' = [absent EXCEPT ![r] = (offered[k] = {})]
  <2>1. (rows[k] = None) = (offered[k] = {})
    BY DEF Committed, CachedWasCommitted
  <2> QED BY <2>1, Zenon DEF Begin
<1>3. CASE r \in Sets
  <2>1. PICK f \in Flags : flag' = [flag EXCEPT ![r] = f]
    BY <1>3
  <2>2. Wanted' = [Wanted EXCEPT ![r] = f]
    BY <1>3, <2>1 DEF Wanted
  <2>3. UNCHANGED Reply
    <3>1. status[r] = "none"
      BY DEF Answers
    <3>2. \A q \in Requests : status[q] = "ok" => flag'[q] = flag[q]
      BY <2>1, <3>1
    <3> QED BY <3>2 DEF Reply, Goto
  <2> QED BY <1>1, <1>2, <1>3, <2>2, <2>3 DEF Store!Call, Begin
<1>4. CASE r \notin Sets
  <2>1. flag' = flag
    BY <1>4 DEF Requests
  <2>2. UNCHANGED <<Wanted, Reply>>
    BY <2>1 DEF Wanted, Reply, Goto
  <2> QED BY <1>1, <1>2, <1>4, <2>2 DEF Store!Call, Begin
<1> QED BY <1>3, <1>4

\* A COMMIT offers the flag it was asked for and the row it leaves, whose
\* columns are those of that flag or of the row before.
LEMMA Offered ==
  ASSUME TypeInv, Committed, NEW r \in Sets, pc[r] # "idle", CommitRow(r),
         UNCHANGED <<key, flag, absent, status>>,
         \A q \in Requests : pc'[q] = pc[q] \/ {pc[q], pc'[q]} \cap {"idle", "done"} = {}
  PROVE  Store!Offer(key[r])
<1> DEFINE k == key[r]
           row == Flushed(r, rows[k])
<1> USE Sentinels DEF TypeInv
<1>1. k \in Keys /\ row \in Rows /\ flag[r] \in Flags /\ r \in Requests
  BY FlushedType DEF Ready, Requests
<1>2. offered' = [offered EXCEPT ![k] = offered[k] \cup {RowToFlag(row), flag[r]}]
  BY DEF CommitRow
<1>3. flag[r] \in Store!Sources(k)
  BY <1>1 DEF Store!Sources, Wanted
<1>4. rows[k] # None => RowToFlag(rows[k]) \in Store!Sources(k)
  BY <1>1 DEF Committed, Store!Sources
<1>5. \A f \in Flags : f \in Store!Sources(k) => f \in Store!Blends(k)
  BY DEF Store!Blends
<1>6. RowToFlag(row) \in Store!Blends(k)
  <2>0. RowToFlag(row) \in Flags
    BY <1>1, RowFlagTypes
  <2>1. CASE loaded[r] = None
    <3>1. row = RowOf(flag[r])
      BY <2>1 DEF Flushed
    <3> QED BY <1>3, <2>0, <3>1 DEF RowToFlag, RowOf, Store!Blends
  <2>2. CASE loaded[r] # None
    <3>1. rows[k] # None
      BY <2>2 DEF Ready
    <3>2. /\ row.value \in {flag[r].enabled, rows[k].value}
          /\ row.updated_at \in {flag[r].updated_at, rows[k].updated_at}
          /\ row.updated_by_user_id \in {flag[r].updated_by_user_id, rows[k].updated_by_user_id}
      BY <2>2 DEF Flushed, Column, RowOf
    <3> HIDE DEF k, row
    <3> DEFINE old == RowToFlag(rows[k])
               new == RowToFlag(row)
    <3>3. /\ new.enabled \in {flag[r].enabled, old.enabled}
          /\ new.updated_at \in {flag[r].updated_at, old.updated_at}
          /\ new.updated_by_user_id \in {flag[r].updated_by_user_id, old.updated_by_user_id}
      BY <3>2 DEF RowToFlag
    <3>4. old \in Store!Sources(k)
      BY <1>4, <3>1
    <3> HIDE DEF old, new
    <3>5. \E a, b, c \in Store!Sources(k) :
            /\ new.enabled = a.enabled
            /\ new.updated_at = b.updated_at
            /\ new.updated_by_user_id = c.updated_by_user_id
      BY <1>3, <3>3, <3>4
    <3> QED BY <2>0, <3>5 DEF Store!Blends, new
  <2> QED BY <2>1, <2>2
<1> HIDE DEF k, row
<1>7. /\ offered[k] \subseteq offered'[k]
      /\ offered'[k] \subseteq offered[k] \cup Store!Blends(k)
      /\ offered' = [offered EXCEPT ![k] = offered'[k]]
  BY <1>1, <1>2, <1>3, <1>5, <1>6 DEF TypeOK
<1>8. UNCHANGED Phase
  BY DEF Phase
<1>9. UNCHANGED <<Wanted, Reply>>
  BY DEF Wanted, Reply
<1> QED BY <1>7, <1>8, <1>9 DEF Store!Offer, k

-----------------------------------------------------------------------------
\* One step per action of the service.
THEOREM StoreNext ==
  TypeInv /\ Committed /\ Answers /\ [Next]_vars => [Store!Next]_(Store!vars)
<1> SUFFICES ASSUME TypeInv, Committed, Answers, [Next]_vars
             PROVE  Store!Next \/ UNCHANGED Store!vars
  OBVIOUS
<1> USE Sentinels, CallsAssumption DEF TypeInv, stores, locals, counts, history
<1> DEFINE Simulated == Store!Next \/ UNCHANGED Store!vars
<1>1. ASSUME NEW r \in Requests, NEW k \in Keys, Store!Call(r, k) PROVE Simulated
  BY <1>1 DEF Store!Next, Store!Requests, Requests
<1>2. ASSUME NEW k \in Keys, Store!Offer(k) PROVE Simulated
  BY <1>2 DEF Store!Next
<1>3. ASSUME NEW R \in SUBSET Requests, Store!Answer(R) PROVE Simulated
  BY <1>3 DEF Store!Next, Store!Requests, Requests
<1> HIDE DEF Simulated
<1>4. ASSUME NEW r \in Gets, NEW k \in Keys, GetFlag(r, k) PROVE Simulated
  BY <1>1, <1>4, Called DEF GetFlag, Requests
<1>5. ASSUME NEW r \in Sets, NEW k \in Keys, NEW enabled \in BOOLEAN, NEW user \in Users,
             SetFlag(r, k, enabled, user)
      PROVE  Simulated
  <2>1. [enabled |-> enabled, updated_at |-> clock, updated_by_user_id |-> user] \in Flags
    BY DEF TypeOK, Flags
  <2> QED BY <1>1, <1>5, <2>1, Called DEF SetFlag, Requests
<1>6. ASSUME NEW r \in Gets, CacheMiss(r) \/ LoadRow(r) PROVE Simulated
  <2>1. status[r] # "ok" /\ r \notin Sets /\ r \in Requests
    BY <1>6 DEF CacheMiss, LoadRow, Answers, Requests
  <2>2. UNCHANGED Store!vars
    BY <1>6, <2>1, Unseen DEF CacheMiss, LoadRow, Goto, TypeOK
  <2> QED BY <2>2 DEF Simulated
<1>7. ASSUME NEW r \in Sets, GetRow(r) \/ Flush(r) PROVE Simulated
  <2>1. UNCHANGED Store!vars
    BY <1>7, Unseen DEF GetRow, Flush, Goto, TypeOK, Requests
  <2> QED BY <2>1 DEF Simulated
\* One call ends.
<1>8. ASSUME NEW r \in Requests, NEW outcome, Open(r), Return(r, outcome),
             UNCHANGED <<offered, key, absent>>,
             flag' = flag \/ (r \in Gets /\ \E f : flag' = [flag EXCEPT ![r] = f]),
             \/ outcome \in {"server_error", "lost"}
             \/ outcome = "ok" /\ flag'[r] \in offered[key[r]]
             \/ outcome = "not_found" /\ r \in Gets /\ absent[r]
      PROVE  Simulated
  <2>1. \A q \in Requests : pc'[q] = IF q \in {r} THEN "done" ELSE pc[q]
    BY <1>8 DEF Return, TypeOK
  <2>2. status'[r] = outcome /\ \A q \in Requests \ {r} : status'[q] = status[q]
    BY <1>8 DEF Return, TypeOK
  <2>3. \A q \in Requests : q # r \/ q \in Sets => flag'[q] = flag[q]
    <3>1. CASE flag' = flag
      BY <3>1
    <3>2. ASSUME NEW f, r \in Gets, flag' = [flag EXCEPT ![r] = f]
          PROVE  \A q \in Requests : q # r \/ q \in Sets => flag'[q] = flag[q]
      BY <3>2 DEF TypeOK
    <3> QED BY <1>8, <3>1, <3>2
  <2>4. Store!Answer({r})
    BY <1>8, <2>1, <2>2, <2>3, Answered DEF Requests
  <2> QED BY <1>3, <2>4
<1>9. ASSUME NEW r \in Gets, CacheHit(r) PROVE Simulated
  <2>1. key[r] \in Keys /\ r \in Requests /\ Open(r)
    BY <1>9 DEF CacheHit, Ready, Open, Requests
  <2>2. flag'[r] \in offered[key[r]]
    BY <1>9, <2>1 DEF CacheHit, Committed, CachedWasCommitted, TypeOK
  <2> QED BY <1>8, <1>9, <2>1, <2>2 DEF CacheHit
<1>10. ASSUME NEW r \in Gets, RowMissing(r) PROVE Simulated
  <2>1. absent[r] /\ r \in Requests /\ Open(r)
    BY <1>10 DEF RowMissing, Answers, Open, Requests, TypeOK
  <2> QED BY <1>8, <1>10, <2>1 DEF RowMissing
<1>11. ASSUME NEW r \in Requests, FillCache(r) \/ RefreshCache(r) PROVE Simulated
  <2>1. Open(r) /\ flag[r] \in offered[key[r]]
    BY <1>11 DEF FillCache, RefreshCache, Open, Committed, CachedWasCommitted
  <2> QED BY <1>8, <1>11, <2>1 DEF FillCache, RefreshCache
<1>12. ASSUME NEW r \in Requests, DuplicateKey(r) \/ RedisFails(r) \/ PostgresFails(r)
       PROVE  Simulated
  <2>1. Open(r)
    BY <1>12 DEF DuplicateKey, RedisFails, PostgresFails, Open
  <2> QED BY <1>8, <1>12, <2>1 DEF DuplicateKey, RedisFails, PostgresFails
<1>13. ASSUME NEW r \in Sets, Commit(r) PROVE Simulated
  <2>1. \A q \in Requests : pc'[q] = pc[q] \/ {pc[q], pc'[q]} \cap {"idle", "done"} = {}
    BY <1>13 DEF Commit, Goto, TypeOK
  <2>2. Store!Offer(key[r])
    BY <1>13, <2>1, Offered DEF Commit, Goto
  <2>3. key[r] \in Keys
    BY <1>13 DEF Commit, Ready, Requests
  <2> QED BY <1>2, <2>2, <2>3
<1>14. ASSUME NEW r \in Sets, ResolveCommitted(r) PROVE Simulated
  <2>1. Store!Offer(key[r])
    BY <1>14, Offered DEF ResolveCommitted
  <2>2. key[r] \in Keys
    BY <1>14 DEF ResolveCommitted, Ready, Requests
  <2> QED BY <1>2, <2>1, <2>2
\* A process that dies loses every call it had open.
<1>15. ASSUME NEW p \in Procs, Crash(p) PROVE Simulated
  <2> DEFINE Dying == {r \in Requests : Home[r] = p /\ Open(r)}
  <2>1. Store!Answer(Dying)
    BY <1>15, Answered DEF Crash, Requests, TypeOK
  <2> QED BY <1>3, <2>1
<1>16. CASE \/ \E r \in Sets : ResolveRolledBack(r)
            \/ \E c \in CacheKeys : Evict(c)
            \/ \E set \in CacheKeys \X Flags : Settle(set)
            \/ Tick
            \/ UNCHANGED vars
  <2>1. UNCHANGED <<offered, key, absent, status, pc, flag>>
    BY <1>16 DEF ResolveRolledBack, Evict, Settle, LateSet, LateSetLost, Tick, vars
  <2>2. UNCHANGED Store!vars
    BY <2>1, Unseen
  <2> QED BY <2>2 DEF Simulated
<1> QED
  BY <1>4, <1>5, <1>6, <1>7, <1>9, <1>10, <1>11, <1>12, <1>13, <1>14, <1>15, <1>16
  DEF Simulated, Next, Call, Serve, Resolve, Requests

\* To its callers the service, with its cache, its transactions, its races and
\* its failures, is a FlagStore: a get answers a flag some set of that key was
\* asked for, or a blend of two of them, "not found" only of a key that was
\* empty when it was called, and an "ok" only of a committed set.
THEOREM ServiceIsAFlagStore == Spec => ImplementsFlagStore
<1>1. SafetyInv /\ [Next]_vars => [Store!Next]_(Store!vars)
  BY StoreNext DEF SafetyInv
<1> QED BY <1>1, StoreInit, SafetyInvariant, PTL DEF Spec, ImplementsFlagStore, Store!Spec
=============================================================================
