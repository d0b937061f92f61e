---------------------- MODULE FeatureFlagServiceSafety ----------------------
(* The safety properties of FeatureFlagService, on top of its types. *)
EXTENDS FeatureFlagServiceProofs, FiniteSetTheorems

\* CachedWasCommitted made inductive: the committed row itself is offered.
Committed ==
  /\ CachedWasCommitted
  /\ \A k \in Keys : rows[k] # None => RowToFlag(rows[k]) \in offered[k]

\* The first half of AcknowledgedIsPersisted.
OkIsCommitted == \A r \in Sets : status[r] = "ok" => r \in persisted

\* What the answers say: rows never go away, so a row that was there when the
\* call began is there when it looks, and a set that commits stays committed.
Answers ==
  /\ NotFoundWasAbsent
  /\ OkIsCommitted
  /\ \A r \in Requests : pc[r] # "done" => status[r] = "none"
  /\ \A r \in Requests : pc[r] # "idle" /\ ~absent[r] => rows[key[r]] # None
  /\ \A r \in Sets : pc[r] = "refresh" => r \in persisted
  /\ \A r \in persisted : pc[r] # "idle" /\ rows[key[r]] # None

\* UndisturbedCoherence made inductive.  On an undisturbed key a set is alone,
\* so what it loaded is still the row when it commits, and nobody holds a flag
\* read before.
Alone(k) ==
  \A s \in Sets, r \in Requests :
    key[s] = k /\ key[r] = k /\ Open(s) /\ Open(r) => r = s

Current(k) ==
  /\ \A f \in Flags : <<CacheKey(k), f>> \notin late
  /\ writer[k] # None => key[writer[k]] = k /\ pc[writer[k]] = "commit"
  /\ \A r \in Gets : key[r] = k /\ pc[r] = "fill" => flag[r] = RowToFlag(rows[k])
  /\ \A r \in Sets : key[r] = k /\ pc[r] \in {"flush", "commit"} => loaded[r] = rows[k]
  /\ \A r \in Sets : key[r] = k /\ pc[r] = "refresh" => flag[r] = RowToFlag(rows[k])

Coherent(k) ==
  \/ cache[CacheKey(k)] = None
  \/ cache[CacheKey(k)].flag = RowToFlag(rows[k])
  \/ \E r \in Sets : key[r] = k /\ pc[r] = "refresh"

Undisturbed ==
  \A k \in Keys : ~disturbed[k] => Alone(k) /\ Current(k) /\ Coherent(k)

-----------------------------------------------------------------------------
THEOREM InitSafety == Init => Committed /\ Answers /\ Undisturbed
<1> SUFFICES ASSUME Init PROVE Committed /\ Answers /\ Undisturbed
  OBVIOUS
<1> USE Sentinels, CacheKeyInjective DEF Init
<1>1. Committed
  BY DEF Committed, CachedWasCommitted
<1>2. Answers
  BY DEF Answers, NotFoundWasAbsent, OkIsCommitted, Requests
<1>3. Undisturbed
  BY DEF Undisturbed, Alone, Current, Coherent, Open, Requests
<1> QED BY <1>1, <1>2, <1>3

\* A step that offers nothing, writes no row and sends nothing new to Redis
\* keeps Committed, as long as whoever comes to a fill or a refresh holds an
\* offered flag.
LEMMA CommittedKept ==
  ASSUME TypeInv, Committed,
         UNCHANGED <<rows, offered>>,
         \A c \in CacheKeys : cache'[c] # None => cache[c] # None /\ cache'[c].flag = cache[c].flag,
         late' \subseteq late,
         \A r \in Requests : pc'[r] \in {"fill", "refresh"} =>
           flag'[r] \in offered[key'[r]]
  PROVE  Committed'
<1>1. \A k \in Keys : cache'[CacheKey(k)] # None => cache'[CacheKey(k)].flag \in offered[k]
  BY CacheKeyInjective DEF Committed, CachedWasCommitted
<1>2. (CachedWasCommitted)'
  BY <1>1 DEF Committed, CachedWasCommitted, CacheKey
<1> QED BY <1>2 DEF Committed

\* A SET of an offered flag keeps what the cache holds offered.
LEMMA CommittedSet ==
  ASSUME TypeInv, Committed, NEW k \in Keys, NEW f \in Flags,
         f \in offered[k], WriteCache(CacheKey(k), f)
  PROVE  \A l \in Keys : cache'[CacheKey(l)] # None => cache'[CacheKey(l)].flag \in offered[l]
<1> SUFFICES ASSUME NEW l \in Keys, cache'[CacheKey(l)] # None
             PROVE  cache'[CacheKey(l)].flag \in offered[l]
  OBVIOUS
<1> USE CacheKeyInjective DEF TypeInv
<1>1. CASE l = k
  BY <1>1 DEF WriteCache, TypeOK
<1>2. CASE l # k
  BY <1>2 DEF WriteCache, TypeOK, Committed, CachedWasCommitted
<1> QED BY <1>1, <1>2

\* COMMIT makes its row and its flag offered for its key.
LEMMA CommittedCommit ==
  ASSUME TypeInv, Committed, NEW r \in Sets, pc[r] # "idle", CommitRow(r),
         UNCHANGED <<cache, late, flag, key>>,
         \A q \in Requests : pc'[q] \in {"fill", "refresh"} =>
           q = r \/ pc[q] \in {"fill", "refresh"}
  PROVE  Committed'
<1> DEFINE k == key[r]
           row == Flushed(r, rows[k])
<1> USE Sentinels DEF TypeInv
<1>1. k \in Keys /\ row \in Rows /\ flag[r] \in Flags /\ r \in Requests
  BY FlushedType DEF Ready, Requests
<1>2. /\ rows' = [rows EXCEPT ![k] = row]
      /\ offered' = [offered EXCEPT ![k] = @ \cup {RowToFlag(row), flag[r]}]
  BY DEF CommitRow
<1> HIDE DEF k, row
<1>3. \A l \in Keys : offered[l] \subseteq offered'[l]
  BY <1>1, <1>2 DEF TypeOK
<1>4. \A l \in Keys : cache'[CacheKey(l)] # None => cache'[CacheKey(l)].flag \in offered'[l]
  BY <1>3 DEF Committed, CachedWasCommitted
<1>5. \A l \in Keys, f \in Flags : <<CacheKey(l), f>> \in late' => f \in offered'[l]
  BY <1>3 DEF Committed, CachedWasCommitted
<1>6. \A q \in Requests : pc'[q] \in {"fill", "refresh"} => flag'[q] \in offered'[key'[q]]
  <2> SUFFICES ASSUME NEW q \in Requests, pc'[q] \in {"fill", "refresh"}
               PROVE  flag[q] \in offered'[key[q]]
    OBVIOUS
  <2>1. CASE q = r
    BY <1>1, <1>2, <2>1 DEF TypeOK, k
  <2>2. CASE q # r
    BY <1>3, <2>2 DEF Committed, CachedWasCommitted, Ready
  <2> QED BY <2>1, <2>2
<1>7. \A l \in Keys : offered'[l] # {} <=> rows'[l] # None
  BY <1>1, <1>2 DEF TypeOK, Committed, CachedWasCommitted
<1>8. \A l \in Keys : rows'[l] # None => RowToFlag(rows'[l]) \in offered'[l]
  BY <1>1, <1>2 DEF TypeOK, Committed
<1> QED BY <1>4, <1>5, <1>6, <1>7, <1>8 DEF Committed, CachedWasCommitted, CacheKey

THEOREM NextCommitted == TypeInv /\ Committed /\ [Next]_vars => Committed'
<1> SUFFICES ASSUME TypeInv, Committed, [Next]_vars PROVE Committed'
  OBVIOUS
<1> USE Sentinels DEF stores, locals, counts, history
<1> DEFINE Fills == \A r \in Requests : pc'[r] \in {"fill", "refresh"} =>
                      flag'[r] \in offered[key'[r]]
<1>1. ASSUME NEW r \in Gets, NEW k \in Keys, GetFlag(r, k) PROVE Committed'
  <2>1. Fills
    BY <1>1 DEF GetFlag, Begin, Goto, TypeInv, TypeOK, Committed, CachedWasCommitted
  <2> QED BY <1>1, <2>1, CommittedKept DEF GetFlag, Begin
<1>2. ASSUME NEW r \in Gets, CacheHit(r) PROVE Committed'
  <2>1. Fills
    BY <1>2 DEF CacheHit, Return, TypeInv, TypeOK, Committed, CachedWasCommitted
  <2> QED BY <1>2, <2>1, CommittedKept DEF CacheHit
<1>3. ASSUME NEW r \in Gets, CacheMiss(r) PROVE Committed'
  <2>1. Fills
    BY <1>3 DEF CacheMiss, Goto, TypeInv, TypeOK, Committed, CachedWasCommitted
  <2> QED BY <1>3, <2>1, CommittedKept DEF CacheMiss
<1>4. ASSUME NEW r \in Gets, LoadRow(r) PROVE Committed'
  <2>1. RowToFlag(rows[key[r]]) \in offered[key[r]]
    BY <1>4 DEF LoadRow, TypeInv, Ready, Requests, Committed
  <2>2. Fills
    BY <1>4, <2>1 DEF LoadRow, Goto, TypeInv, TypeOK, Committed, CachedWasCommitted
  <2> QED BY <1>4, <2>2, CommittedKept DEF LoadRow
<1>5. ASSUME NEW r \in Gets, RowMissing(r) PROVE Committed'
  <2>1. Fills
    BY <1>5 DEF RowMissing, Return, TypeInv, TypeOK, Committed, CachedWasCommitted
  <2> QED BY <1>5, <2>1, CommittedKept DEF RowMissing
<1>6. ASSUME NEW r \in Requests, pc[r] \in {"fill", "refresh"}, Return(r, "ok"),
             WriteCache(CacheKey(key[r]), flag[r]),
             UNCHANGED <<rows, late, flag, key, offered>>
      PROVE Committed'
  <2>1. key[r] \in Keys /\ flag[r] \in Flags /\ flag[r] \in offered[key[r]]
    BY <1>6 DEF TypeInv, TypeOK, Ready, Requests, Committed, CachedWasCommitted
  <2>2. \A l \in Keys : cache'[CacheKey(l)] # None => cache'[CacheKey(l)].flag \in offered[l]
    BY <1>6, <2>1, CommittedSet
  <2>3. \A q \in Requests : pc'[q] \in {"fill", "refresh"} => pc[q] \in {"fill", "refresh"}
    BY <1>6 DEF Return, TypeInv, TypeOK
  <2> QED BY <1>6, <2>2, <2>3 DEF Committed, CachedWasCommitted, CacheKey
<1>7. ASSUME NEW r \in Gets, FillCache(r) PROVE Committed'
  BY <1>6, <1>7 DEF FillCache, Requests
<1>8. ASSUME NEW r \in Sets, NEW k \in Keys, NEW enabled \in BOOLEAN, NEW user \in Users,
             SetFlag(r, k, enabled, user)
      PROVE Committed'
  <2>1. Fills
    BY <1>8 DEF SetFlag, Begin, Goto, TypeInv, TypeOK, Committed, CachedWasCommitted
  <2> QED BY <1>8, <2>1, CommittedKept DEF SetFlag, Begin
<1>9. ASSUME NEW r \in Sets, GetRow(r) \/ Flush(r) PROVE Committed'
  <2>1. Fills
    BY <1>9 DEF GetRow, Flush, Goto, TypeInv, TypeOK, Committed, CachedWasCommitted
  <2> QED BY <1>9, <2>1, CommittedKept DEF GetRow, Flush
<1>10. ASSUME NEW r \in Sets, DuplicateKey(r) PROVE Committed'
  <2>1. Fills
    BY <1>10 DEF DuplicateKey, Return, TypeInv, TypeOK, Committed, CachedWasCommitted
  <2> QED BY <1>10, <2>1, CommittedKept DEF DuplicateKey
<1>11. ASSUME NEW r \in Sets, Commit(r) PROVE Committed'
  <2>1. \A q \in Requests : pc'[q] \in {"fill", "refresh"} =>
          q = r \/ pc[q] \in {"fill", "refresh"}
    BY <1>11 DEF Commit, Goto, TypeInv, TypeOK
  <2> QED BY <1>11, <2>1, CommittedCommit DEF Commit
<1>12. ASSUME NEW r \in Sets, RefreshCache(r) PROVE Committed'
  BY <1>6, <1>12 DEF RefreshCache, Requests
<1>13. ASSUME NEW r \in Sets, ResolveCommitted(r) PROVE Committed'
  BY <1>13, CommittedCommit DEF ResolveCommitted
<1>14. ASSUME NEW r \in Sets, ResolveRolledBack(r) PROVE Committed'
  <2>1. Fills
    BY <1>14 DEF ResolveRolledBack, Committed, CachedWasCommitted
  <2> QED BY <1>14, <2>1, CommittedKept DEF ResolveRolledBack
\* A SET that a dying call leaves behind carries the flag of its fill or refresh.
<1>15. ASSUME NEW R \in SUBSET Requests,
              late' \subseteq late \cup Pending(R),
              UNCHANGED <<rows, cache, flag, key, offered>>,
              \A q \in Requests : pc'[q] = pc[q] \/ pc'[q] = "done"
       PROVE Committed'
  <2>1. \A k \in Keys, f \in Flags : <<CacheKey(k), f>> \in Pending(R) => f \in offered[k]
    <3> SUFFICES ASSUME NEW k \in Keys, NEW f \in Flags, <<CacheKey(k), f>> \in Pending(R)
                 PROVE  f \in offered[k]
      OBVIOUS
    <3>1. PICK q \in R : /\ pc[q] \in {"fill", "refresh"}
                         /\ CacheKey(k) = CacheKey(key[q]) /\ f = flag[q]
      BY DEF Pending
    <3>2. q \in Requests /\ key[q] = k
      BY <3>1, CacheKeyInjective DEF TypeInv, Ready
    <3> QED BY <3>1, <3>2 DEF Committed, CachedWasCommitted
  <2>2. \A k \in Keys, f \in Flags : <<CacheKey(k), f>> \in late' => f \in offered[k]
    BY <1>15, <2>1 DEF Committed, CachedWasCommitted
  <2>3. \A q \in Requests : pc'[q] \in {"fill", "refresh"} => flag[q] \in offered[key[q]]
    BY <1>15 DEF Committed, CachedWasCommitted
  <2> QED BY <1>15, <2>2, <2>3 DEF Committed, CachedWasCommitted, CacheKey
<1>16. ASSUME NEW r \in Requests, RedisFails(r) PROVE Committed'
  <2>1. late' \subseteq late \cup Pending({r})
    BY <1>16 DEF RedisFails
  <2>2. \A q \in Requests : pc'[q] = pc[q] \/ pc'[q] = "done"
    BY <1>16 DEF RedisFails, Return, TypeInv, TypeOK
  <2> QED BY <1>15, <1>16, <2>1, <2>2 DEF RedisFails
<1>17. ASSUME NEW r \in Requests, PostgresFails(r) PROVE Committed'
  <2>1. Fills
    BY <1>17 DEF PostgresFails, Return, TypeInv, TypeOK, Committed, CachedWasCommitted
  <2> QED BY <1>17, <2>1, CommittedKept DEF PostgresFails
<1>18. ASSUME NEW p \in Procs, Crash(p) PROVE Committed'
  <2> DEFINE Dying == {r \in Requests : Home[r] = p /\ Open(r)}
  <2>1. Dying \in SUBSET Requests /\ late' \subseteq late \cup Pending(Dying)
    BY <1>18 DEF Crash
  <2>2. \A q \in Requests : pc'[q] = pc[q] \/ pc'[q] = "done"
    BY <1>18 DEF Crash
  <2> QED BY <1>15, <1>18, <2>1, <2>2 DEF Crash
<1>19. ASSUME NEW c \in CacheKeys, Evict(c) PROVE Committed'
  <2>1. Fills
    BY <1>19 DEF Evict, Committed, CachedWasCommitted
  <2> QED BY <1>19, <2>1, CommittedKept DEF Evict, TypeInv, TypeOK
<1>20. ASSUME NEW set \in CacheKeys \X Flags, Settle(set) PROVE Committed'
  <2>1. Fills
    BY <1>20 DEF Settle, LateSet, LateSetLost, Committed, CachedWasCommitted
  <2>2. PICK k \in Keys : set[1] = CacheKey(k)
    BY DEF CacheKeys
  <2>3. set[2] \in Flags /\ set = <<CacheKey(k), set[2]>>
    BY <2>2
  <2>4. CASE LateSet(set)
    <3>1. set[2] \in offered[k]
      BY <2>3, <2>4 DEF LateSet, Committed, CachedWasCommitted
    <3>2. \A l \in Keys : cache'[CacheKey(l)] # None => cache'[CacheKey(l)].flag \in offered[l]
      BY <2>2, <2>3, <2>4, <3>1, CommittedSet DEF LateSet
    <3> QED BY <2>4, <3>2 DEF LateSet, Committed, CachedWasCommitted, CacheKey
  <2>5. CASE LateSetLost(set)
    BY <2>1, <2>5, CommittedKept DEF LateSetLost
  <2> QED BY <1>20, <2>4, <2>5 DEF Settle
<1>21. CASE Tick
  <2>1. Fills
    BY <1>21 DEF Tick, Committed, CachedWasCommitted
  <2>2. \A c \in CacheKeys : cache'[c] # None => cache[c] # None /\ cache'[c].flag = cache[c].flag
    BY <1>21 DEF Tick, TypeInv, TypeOK, Entries
  <2> QED BY <1>21, <2>1, <2>2, CommittedKept DEF Tick
<1>22. CASE UNCHANGED vars
  BY <1>22 DEF vars, Committed, CachedWasCommitted, CacheKey
<1> QED
  BY <1>1, <1>2, <1>3, <1>4, <1>5, <1>7, <1>8, <1>9, <1>10, <1>11, <1>12, <1>13,
     <1>14, <1>16, <1>17, <1>18, <1>19, <1>20, <1>21, <1>22
  DEF Next, Call, Serve, Resolve

-----------------------------------------------------------------------------
\* Rows come and change but never go, and a set once committed stays so.
LEMMA RowsStay ==
  ASSUME TypeInv, [Next]_vars
  PROVE  /\ \A k \in Keys : rows[k] # None => rows'[k] # None
         /\ persisted \subseteq persisted'
<1> USE Sentinels DEF stores, locals, counts, history
<1> DEFINE Stay == (\A k \in Keys : rows[k] # None => rows'[k] # None) /\ persisted \subseteq persisted'
<1>1. ASSUME NEW r \in Sets, pc[r] # "idle", CommitRow(r) PROVE Stay
  <2>1. Flushed(r, rows[key[r]]) \in Rows
    BY <1>1, FlushedType
  <2> QED BY <1>1, <2>1 DEF CommitRow, TypeInv, TypeOK
<1>2. CASE \E r \in Sets : Commit(r) \/ ResolveCommitted(r)
  BY <1>1, <1>2 DEF Commit, ResolveCommitted
<1>3. CASE UNCHANGED <<rows, persisted>>
  BY <1>3
<1>4. CASE UNCHANGED vars
  BY <1>3, <1>4 DEF vars
<1>5. CASE Call
  BY <1>3, <1>5 DEF Call, GetFlag, SetFlag, Begin
<1>6. ASSUME NEW r \in Requests, Serve(r) PROVE Stay
  BY <1>2, <1>3, <1>6
  DEF Serve, CacheHit, CacheMiss, LoadRow, RowMissing, FillCache, GetRow, Flush,
      DuplicateKey, RefreshCache
<1>7. ASSUME NEW r \in Requests, Resolve(r) \/ RedisFails(r) \/ PostgresFails(r) PROVE Stay
  BY <1>2, <1>3, <1>7 DEF Resolve, ResolveRolledBack, RedisFails, PostgresFails
<1>8. CASE \/ \E p \in Procs : Crash(p)
           \/ \E c \in CacheKeys : Evict(c)
           \/ \E set \in CacheKeys \X Flags : Settle(set)
           \/ Tick
  BY <1>3, <1>8 DEF Crash, Evict, Settle, LateSet, LateSetLost, Tick
<1> QED BY <1>4, <1>5, <1>6, <1>7, <1>8 DEF Next

\* A step that begins no call and moves a call only to "done", with an outcome
\* that claims nothing or that the call has earned, keeps Answers.
LEMMA AnswersKept ==
  ASSUME TypeInv, Answers, [Next]_vars, UNCHANGED <<key, absent>>,
         \A r \in Requests : pc'[r] = "idle" <=> pc[r] = "idle",
         \A r \in Requests : pc'[r] # "done" => pc[r] # "done" /\ status'[r] = status[r],
         \A r \in Gets : status'[r] = "not_found" => status[r] = "not_found" \/ absent[r],
         \A r \in Sets : status'[r] = "ok" => status[r] = "ok" \/ r \in persisted',
         \A r \in Sets : pc'[r] = "refresh" => pc[r] = "refresh" \/ r \in persisted',
         \A r \in persisted' : r \in persisted \/ (pc'[r] # "idle" /\ rows'[key[r]] # None)
  PROVE  Answers'
<1> USE RowsStay DEF TypeInv, Ready, Requests
<1>1. persisted \subseteq persisted' /\ persisted \subseteq Requests
  BY DEF TypeOK
<1>2. \A r \in Requests : pc[r] # "idle" /\ rows[key[r]] # None => rows'[key[r]] # None
  OBVIOUS
<1>3. \A r \in persisted' : pc'[r] # "idle" /\ rows'[key[r]] # None
  BY <1>1, <1>2 DEF Answers
<1>4. NotFoundWasAbsent'
  BY DEF Answers, NotFoundWasAbsent
<1>5. OkIsCommitted'
  BY <1>1, <1>3 DEF Answers, OkIsCommitted
<1> QED BY <1>1, <1>2, <1>3, <1>4, <1>5 DEF Answers

LEMMA AnswersBegin ==
  ASSUME TypeInv, Answers, NEW r \in Requests, NEW k \in Keys, NEW R, NEW label,
         pc[r] = "idle", Begin(r, k, R), Goto(r, label), label \in {"lookup", "get_row"},
         UNCHANGED rows
  PROVE  Answers'
<1> USE DEF TypeInv, TypeOK, Requests
<1>1. r \notin persisted
  BY DEF Answers
<1>2. \A q \in Requests : q # r =>
        pc'[q] = pc[q] /\ key'[q] = key[q] /\ absent'[q] = absent[q] /\ status'[q] = status[q]
  BY DEF Begin, Goto
<1>3. /\ pc'[r] = label /\ key'[r] = k /\ absent'[r] = (rows[k] = None)
      /\ status'[r] = "none" /\ persisted' = persisted
  BY DEF Begin, Goto, Answers
<1>4. NotFoundWasAbsent'
  BY <1>2, <1>3 DEF Answers, NotFoundWasAbsent
<1>5. OkIsCommitted'
  BY <1>1, <1>2, <1>3 DEF Answers, OkIsCommitted
<1> QED BY <1>1, <1>2, <1>3, <1>4, <1>5 DEF Answers

THEOREM NextAnswers == TypeInv /\ Answers /\ [Next]_vars => Answers'
<1> SUFFICES ASSUME TypeInv, Answers, [Next]_vars PROVE Answers'
  OBVIOUS
<1> USE Sentinels DEF stores, locals, counts, history
<1>1. CASE Call
  BY <1>1, AnswersBegin DEF Call, GetFlag, SetFlag, Requests
<1>2. ASSUME NEW r \in Gets, CacheHit(r) \/ CacheMiss(r) \/ LoadRow(r) \/ FillCache(r)
      PROVE Answers'
  BY <1>2, AnswersKept, CallsAssumption
  DEF CacheHit, CacheMiss, LoadRow, FillCache, Goto, Return, TypeInv, TypeOK, Requests
<1>3. ASSUME NEW r \in Gets, RowMissing(r) PROVE Answers'
  <2>1. absent[r]
    BY <1>3 DEF RowMissing, Answers, Requests, TypeInv, TypeOK
  <2> QED BY <1>3, <2>1, AnswersKept, CallsAssumption
          DEF RowMissing, Return, TypeInv, TypeOK, Requests
<1>4. ASSUME NEW r \in Sets, GetRow(r) \/ Flush(r) \/ DuplicateKey(r) PROVE Answers'
  BY <1>4, AnswersKept DEF GetRow, Flush, DuplicateKey, Goto, Return, TypeInv, TypeOK, Requests
<1>5. ASSUME NEW r \in Sets, pc[r] # "idle", CommitRow(r)
      PROVE  persisted' = persisted \cup {r} /\ rows'[key[r]] # None
  <2>1. Flushed(r, rows[key[r]]) \in Rows /\ key[r] \in Keys
    BY <1>5, FlushedType DEF TypeInv, Ready, Requests
  <2> QED BY <1>5, <2>1 DEF CommitRow, TypeInv, TypeOK
<1>6. ASSUME NEW r \in Sets, Commit(r) PROVE Answers'
  BY <1>5, <1>6, AnswersKept DEF Commit, Goto, TypeInv, TypeOK, Requests
<1>7. ASSUME NEW r \in Sets, RefreshCache(r) PROVE Answers'
  <2>1. r \in persisted
    BY <1>7 DEF RefreshCache, Answers
  <2> QED BY <1>7, <2>1, AnswersKept DEF RefreshCache, Return, TypeInv, TypeOK, Requests
<1>8. ASSUME NEW r \in Sets, ResolveCommitted(r) PROVE Answers'
  BY <1>5, <1>8, AnswersKept DEF ResolveCommitted, Requests
<1>9. ASSUME NEW r \in Sets, ResolveRolledBack(r) PROVE Answers'
  BY <1>9, AnswersKept DEF ResolveRolledBack
<1>10. ASSUME NEW r \in Requests, RedisFails(r) \/ PostgresFails(r) PROVE Answers'
  BY <1>10, AnswersKept DEF RedisFails, PostgresFails, Return, TypeInv, TypeOK, Requests
<1>11. ASSUME NEW p \in Procs, Crash(p) PROVE Answers'
  BY <1>11, AnswersKept DEF Crash, Open, TypeInv, TypeOK, Requests
<1>12. CASE \/ \E c \in CacheKeys : Evict(c)
            \/ \E set \in CacheKeys \X Flags : Settle(set)
            \/ Tick
  BY <1>12, AnswersKept DEF Evict, Settle, LateSet, LateSetLost, Tick
<1>13. CASE UNCHANGED vars
  BY <1>13 DEF vars, Answers, NotFoundWasAbsent, OkIsCommitted
<1> QED
  BY <1>1, <1>2, <1>3, <1>4, <1>6, <1>7, <1>8, <1>9, <1>10, <1>11, <1>12, <1>13
  DEF Next, Serve, Resolve

-----------------------------------------------------------------------------
\* No action makes a disturbed key undisturbed again.
LEMMA DisturbedStays ==
  ASSUME TypeInv, [Next]_vars, NEW k \in Keys, disturbed[k]
  PROVE  disturbed'[k]
<1> USE DEF stores, locals, counts, history, TypeInv
<1>1. CASE UNCHANGED disturbed
  BY <1>1
<1>2. ASSUME NEW R, Disturb(R) PROVE disturbed'[k]
  BY <1>2, Zenon DEF Disturb
<1>3. ASSUME NEW r, NEW l \in Keys, NEW R, Begin(r, l, R) PROVE disturbed'[k]
  <2>1. disturbed' = [disturbed EXCEPT ![l] = disturbed[l] \/ OpenOn(l, R) # {}]
    BY <1>3 DEF Begin
  <2>2. disturbed \in [Keys -> BOOLEAN]
    BY DEF TypeOK
  <2> QED BY <2>1, <2>2
<1>4. CASE Call
  BY <1>3, <1>4 DEF Call, GetFlag, SetFlag
<1>5. ASSUME NEW r \in Requests, Serve(r) \/ Resolve(r) PROVE disturbed'[k]
  BY <1>1, <1>5
  DEF Serve, Resolve, CacheHit, CacheMiss, LoadRow, RowMissing, FillCache, GetRow, Flush,
      DuplicateKey, Commit, RefreshCache, ResolveCommitted, ResolveRolledBack
<1>6. CASE \/ \E r \in Requests : RedisFails(r) \/ PostgresFails(r)
           \/ \E p \in Procs : Crash(p)
  BY <1>2, <1>6 DEF RedisFails, PostgresFails, Crash
<1>7. CASE \/ \E c \in CacheKeys : Evict(c)
           \/ \E set \in CacheKeys \X Flags : Settle(set)
           \/ Tick
           \/ UNCHANGED vars
  BY <1>1, <1>7 DEF Evict, Settle, LateSet, LateSetLost, Tick, vars
<1> QED BY <1>4, <1>5, <1>6, <1>7 DEF Next

\* Over the row it loaded, an UPDATE of the changed columns and an INSERT both
\* leave exactly the flag the set was asked for.
LEMMA FlushedOverLoaded ==
  ASSUME TypeInv, NEW r \in Sets, pc[r] # "idle", loaded[r] = rows[key[r]]
  PROVE  RowToFlag(Flushed(r, rows[key[r]])) = flag[r]
<1>1. flag[r] \in Flags /\ key[r] \in Keys /\ rows[key[r]] \in Rows \cup {None}
  BY DEF TypeInv, TypeOK, Ready, Requests
<1>2. RowOf(flag[r]) \in Rows /\ RowToFlag(RowOf(flag[r])) = flag[r]
  BY <1>1 DEF RowOf, RowToFlag, Flags, Rows
<1>3. Flushed(r, rows[key[r]]) = RowOf(flag[r])
  BY <1>1, <1>2 DEF Flushed, Column, Rows, RowOf
<1> QED BY <1>2, <1>3

THEOREM NextUndisturbed == TypeInv /\ Committed /\ Undisturbed /\ [Next]_vars => Undisturbed'
<1> SUFFICES ASSUME TypeInv, Committed, Undisturbed, [Next]_vars,
                    NEW k \in Keys, ~disturbed'[k]
             PROVE  Alone(k)' /\ Current(k)' /\ Coherent(k)'
  BY DEF Undisturbed
<1> USE Sentinels DEF stores, locals, counts, history
<1>k. ~disturbed[k] /\ Alone(k) /\ Current(k) /\ Coherent(k) /\ CacheKey(k) \in CacheKeys
  BY DisturbedStays, CacheKeyInjective DEF Undisturbed
<1>kinds. /\ \A r \in Gets : pc[r] \in {"idle", "lookup", "load", "fill", "done"}
          /\ \A r \in Sets : pc[r] \in {"idle", "get_row", "flush", "commit", "refresh", "done"}
          /\ Gets \cap Sets = {} /\ pc \in [Requests -> Labels] /\ key \in [Requests -> Keys \cup {None}]
          /\ flag \in [Requests -> Flags \cup {None}] /\ disturbed \in [Keys -> BOOLEAN]
          /\ loaded \in [Sets -> Rows \cup {None}] /\ writer \in [Keys -> Sets \cup {None}]
          /\ cache \in [CacheKeys -> Entries \cup {None}] /\ rows \in [Keys -> Rows \cup {None}]
          /\ \A r \in Requests : pc[r] # "idle" => key[r] \in Keys
  BY CallsAssumption DEF TypeInv, TypeOK, Ready
\* A new call on k finds nobody it must not overlap.
<1>1. ASSUME NEW r \in Gets, NEW l \in Keys, GetFlag(r, l)
      PROVE  Alone(k)' /\ Current(k)' /\ Coherent(k)'
  <2>1. disturbed'[k] = (disturbed[k] \/ (k = l /\ OpenOn(l, Sets) # {}))
    BY <1>1, <1>kinds DEF GetFlag, Begin
  <2>2. k = l => \A s \in Sets : ~(Open(s) /\ key[s] = k)
    BY <2>1 DEF OpenOn
  <2>3. Alone(k)'
    BY <1>1, <1>k, <1>kinds, <2>2 DEF GetFlag, Begin, Goto, Alone, Open, Requests
  <2>4. Current(k)'
    BY <1>1, <1>k, <1>kinds DEF GetFlag, Begin, Goto, Current, CacheKey, Requests
  <2>5. Coherent(k)'
    BY <1>1, <1>k, <1>kinds DEF GetFlag, Begin, Goto, Coherent, CacheKey, Requests
  <2> QED BY <2>3, <2>4, <2>5
<1>2. ASSUME NEW r \in Gets, CacheHit(r) \/ CacheMiss(r) \/ RowMissing(r)
      PROVE  Alone(k)' /\ Current(k)' /\ Coherent(k)'
  <2>1. /\ pc' = [pc EXCEPT ![r] = pc'[r]] /\ pc'[r] \in {"load", "done"}
        /\ UNCHANGED <<rows, writer, cache, late, key, loaded>>
        /\ \A q \in Requests : q # r => flag'[q] = flag[q]
        /\ Open(r)
    BY <1>2, <1>kinds DEF CacheHit, CacheMiss, RowMissing, Goto, Return, Open, Requests
  <2>2. Alone(k)'
    BY <1>k, <1>kinds, <2>1 DEF Alone, Open, Requests
  <2>3. Current(k)'
    BY <1>k, <1>kinds, <2>1 DEF Current, CacheKey, Requests
  <2>4. Coherent(k)'
    BY <1>k, <1>kinds, <2>1 DEF Coherent, CacheKey, Requests
  <2> QED BY <2>2, <2>3, <2>4
<1>3. ASSUME NEW r \in Gets, LoadRow(r)
      PROVE  Alone(k)' /\ Current(k)' /\ Coherent(k)'
  <2>1. Alone(k)'
    BY <1>3, <1>k, <1>kinds DEF LoadRow, Goto, Alone, Open, Requests
  <2>2. Current(k)'
    BY <1>3, <1>k, <1>kinds DEF LoadRow, Goto, Current, CacheKey, Requests
  <2>3. Coherent(k)'
    BY <1>3, <1>k, <1>kinds DEF LoadRow, Goto, Coherent, CacheKey, Requests
  <2> QED BY <2>1, <2>2, <2>3
\* What a fill or a refresh of k writes to Redis is the row.
<1>4. ASSUME NEW r \in Requests, pc[r] \in {"fill", "refresh"}, Return(r, "ok"),
             WriteCache(CacheKey(key[r]), flag[r]),
             UNCHANGED <<rows, writer, late, key, flag, loaded>>
      PROVE  Alone(k)' /\ Current(k)' /\ Coherent(k)'
  <2>1. Alone(k)'
    BY <1>4, <1>k, <1>kinds DEF Return, Alone, Open, Requests
  <2>2. Current(k)'
    BY <1>4, <1>k, <1>kinds DEF Return, Current, CacheKey, Requests
  <2>3. CASE key[r] = k
    <3>1. flag[r] = RowToFlag(rows[k])
      BY <1>4, <1>k, <1>kinds, <2>3 DEF Current, Requests
    <3>2. cache'[CacheKey(k)] = [flag |-> flag[r], ttl |-> CacheTtl]
      BY <1>4, <1>k, <1>kinds, <2>3 DEF WriteCache
    <3> QED BY <1>4, <2>1, <2>2, <3>1, <3>2 DEF Coherent, CacheKey
  <2>4. CASE key[r] # k
    <3>1. key[r] \in Keys
      BY <1>4, <1>kinds
    <3>2. cache'[CacheKey(k)] = cache[CacheKey(k)]
      BY <1>4, <1>kinds, <1>k, <2>4, <3>1, CacheKeyInjective DEF WriteCache
    <3>3. Coherent(k)'
      BY <1>4, <1>k, <1>kinds, <2>4, <3>2 DEF Coherent, CacheKey, Return, Requests
    <3> QED BY <2>1, <2>2, <3>3
  <2> QED BY <2>3, <2>4
<1>5. CASE (\E r \in Gets : FillCache(r)) \/ (\E r \in Sets : RefreshCache(r))
  BY <1>4, <1>5 DEF FillCache, RefreshCache, Requests
<1>6. ASSUME NEW r \in Sets, NEW l \in Keys, NEW enabled \in BOOLEAN, NEW user \in Users,
             SetFlag(r, l, enabled, user)
      PROVE  Alone(k)' /\ Current(k)' /\ Coherent(k)'
  <2>1. disturbed'[k] = (disturbed[k] \/ (k = l /\ OpenOn(l, Requests) # {}))
    BY <1>6, <1>kinds DEF SetFlag, Begin
  <2>2. k = l => \A q \in Requests : ~(Open(q) /\ key[q] = k)
    BY <2>1 DEF OpenOn
  <2>3. Alone(k)'
    BY <1>6, <1>k, <1>kinds, <2>2 DEF SetFlag, Begin, Goto, Alone, Open, Requests
  <2>4. Current(k)'
    BY <1>6, <1>k, <1>kinds DEF SetFlag, Begin, Goto, Current, CacheKey, Requests
  <2>5. Coherent(k)'
    BY <1>6, <1>k, <1>kinds DEF SetFlag, Begin, Goto, Coherent, CacheKey, Requests
  <2> QED BY <2>3, <2>4, <2>5
<1>7. ASSUME NEW r \in Sets, GetRow(r) \/ Flush(r) \/ DuplicateKey(r)
      PROVE  Alone(k)' /\ Current(k)' /\ Coherent(k)'
  <2>1. Alone(k)'
    BY <1>7, <1>k, <1>kinds DEF GetRow, Flush, DuplicateKey, Goto, Return, Alone, Open, Requests
  <2>2. CASE GetRow(r)
    BY <1>k, <1>kinds, <2>1, <2>2 DEF GetRow, Goto, Current, Coherent, CacheKey, Requests
  <2>3. CASE Flush(r)
    <3>1. Current(k)'
      BY <1>k, <1>kinds, <2>3 DEF Flush, Goto, Current, CacheKey, Requests
    <3> QED BY <1>k, <1>kinds, <2>1, <2>3, <3>1 DEF Flush, Goto, Coherent, CacheKey, Requests
  <2>4. CASE DuplicateKey(r)
    BY <1>k, <1>kinds, <2>1, <2>4 DEF DuplicateKey, Return, Current, Coherent, CacheKey, Requests
  <2> QED BY <1>7, <2>2, <2>3, <2>4
<1>8. ASSUME NEW r \in Sets, Commit(r)
      PROVE  Alone(k)' /\ Current(k)' /\ Coherent(k)'
  <2>1. Alone(k)'
    BY <1>8, <1>k, <1>kinds DEF Commit, Goto, Alone, Open, Requests
  <2>2. CASE key[r] = k
    <3>1. rows'[k] = Flushed(r, rows[k]) /\ RowToFlag(rows'[k]) = flag[r]
      BY <1>8, <1>k, <1>kinds, <2>2, FlushedOverLoaded DEF Commit, CommitRow, Current
    <3>2. \A q \in Requests : key[q] = k /\ Open(q) => q = r
      BY <1>8, <1>k, <2>2 DEF Alone, Open, Commit, Requests
    <3>3. Current(k)'
      <4>1. /\ pc' = [pc EXCEPT ![r] = "refresh"]
            /\ UNCHANGED <<late, key, flag, loaded>>
            /\ writer' = [writer EXCEPT ![k] = IF writer[k] = r THEN None ELSE writer[k]]
        BY <1>8, <2>2 DEF Commit, Goto
      <4>2. \A q \in Gets : key[q] = k => pc'[q] # "fill"
        BY <1>kinds, <3>2, <4>1 DEF Open, Requests
      <4>3. \A q \in Sets : key[q] = k => pc'[q] \notin {"flush", "commit"}
        BY <1>kinds, <3>2, <4>1 DEF Open, Requests
      <4>4. \A q \in Sets : key[q] = k /\ pc'[q] = "refresh" => flag[q] = RowToFlag(rows'[k])
        BY <1>kinds, <3>1, <3>2, <4>1 DEF Open, Requests
      <4>5. writer'[k] = None
        BY <1>k, <1>kinds, <3>2, <4>1 DEF Current, Open, Requests
      <4> QED BY <1>k, <4>1, <4>2, <4>3, <4>4, <4>5 DEF Current, CacheKey
    <3>4. Coherent(k)'
      BY <1>8, <1>kinds, <2>2 DEF Commit, Goto, Coherent, Requests
    <3> QED BY <2>1, <3>3, <3>4
  <2>3. CASE key[r] # k
    <3>1. /\ rows'[k] = rows[k] /\ writer'[k] = writer[k]
          /\ pc' = [pc EXCEPT ![r] = "refresh"]
          /\ UNCHANGED <<late, cache, key, flag, loaded>>
      BY <1>8, <1>kinds, <2>3 DEF Commit, CommitRow, Goto
    <3>2. Current(k)'
      BY <1>k, <1>kinds, <2>3, <3>1 DEF Current, CacheKey, Requests
    <3>3. Coherent(k)'
      BY <1>k, <1>kinds, <2>3, <3>1 DEF Coherent, CacheKey, Requests
    <3> QED BY <2>1, <3>2, <3>3
  <2> QED BY <2>2, <2>3
\* A transaction without a client is never of an undisturbed key.
<1>9. ASSUME NEW r \in Sets, ResolveCommitted(r) \/ ResolveRolledBack(r)
      PROVE  Alone(k)' /\ Current(k)' /\ Coherent(k)'
  <2>1. key[r] # k
    BY <1>9, <1>k DEF ResolveCommitted, ResolveRolledBack, Current, Requests
  <2>2. /\ rows'[k] = rows[k] /\ writer'[k] = writer[k]
        /\ UNCHANGED <<late, cache, key, flag, loaded, pc>>
    BY <1>9, <1>kinds, <2>1 DEF ResolveCommitted, ResolveRolledBack, CommitRow
  <2> QED BY <1>k, <2>2 DEF Alone, Open, Current, Coherent, CacheKey
\* Calls that fail where it could matter disturb their key.
<1>10. ASSUME NEW R \in SUBSET Requests, Disturb(R),
              \A q \in R : Open(q) /\ pc'[q] = "done",
              \A q \in Requests \ R : pc'[q] = pc[q],
              \A q \in R : key[q] = k => pc[q] \notin {"fill", "refresh", "commit"},
              late' \subseteq late \cup Pending(R),
              writer'[k] # None => writer'[k] = writer[k],
              UNCHANGED <<rows, cache, key, flag, loaded>>
       PROVE  Alone(k)' /\ Current(k)' /\ Coherent(k)'
  <2>1. Alone(k)'
    BY <1>10, <1>k DEF Alone, Open, Requests
  <2>2. \A f \in Flags : <<CacheKey(k), f>> \notin Pending(R)
    <3> SUFFICES ASSUME NEW f \in Flags, <<CacheKey(k), f>> \in Pending(R) PROVE FALSE
      OBVIOUS
    <3>1. PICK q \in R : pc[q] \in {"fill", "refresh"} /\ CacheKey(k) = CacheKey(key[q])
      BY DEF Pending
    <3>2. key[q] = k
      BY <1>10, <1>kinds, <3>1, CacheKeyInjective
    <3> QED BY <1>10, <3>1, <3>2
  <2>3. \A f \in Flags : <<CacheKey(k), f>> \notin late'
    BY <1>10, <1>k, <2>2 DEF Current
  <2>4. writer'[k] # None => key[writer'[k]] = k /\ pc'[writer'[k]] = "commit"
    BY <1>10, <1>k, <1>kinds DEF Current, Requests
  <2>5. \A q \in Requests : key[q] = k /\ pc'[q] # "done" => pc'[q] = pc[q]
    BY <1>10
  <2>6. Current(k)'
    BY <1>10, <1>k, <2>3, <2>4, <2>5 DEF Current, CacheKey, Requests
  <2>7. Coherent(k)'
    BY <1>10, <1>k DEF Coherent, CacheKey, Requests
  <2> QED BY <2>1, <2>6, <2>7
<1>11. ASSUME NEW R \in SUBSET Requests, Disturb(R)
       PROVE  \A q \in R : key[q] = k => pc[q] \notin {"fill", "refresh", "commit"}
  <2>1. disturbed'[k] = (disturbed[k] \/ \E q \in R : key[q] = k /\ pc[q] \in {"fill", "refresh", "commit"})
    BY <1>11, Zenon DEF Disturb
  <2> QED BY <2>1
<1>12. ASSUME NEW r \in Requests, RedisFails(r)
       PROVE  Alone(k)' /\ Current(k)' /\ Coherent(k)'
  <2>1. /\ {r} \in SUBSET Requests /\ Disturb({r}) /\ Open(r)
        /\ late' \subseteq late \cup Pending({r})
        /\ pc' = [pc EXCEPT ![r] = "done"]
        /\ UNCHANGED <<rows, writer, cache, key, flag, loaded>>
    BY <1>12 DEF RedisFails, Return, Open
  <2>2. pc'[r] = "done" /\ \A q \in Requests \ {r} : pc'[q] = pc[q]
    BY <1>kinds, <2>1
  <2> QED BY <1>10, <1>11, <2>1, <2>2
<1>13. ASSUME NEW r \in Requests, PostgresFails(r)
       PROVE  Alone(k)' /\ Current(k)' /\ Coherent(k)'
  <2>1. /\ {r} \in SUBSET Requests /\ Disturb({r}) /\ Open(r)
        /\ late' \subseteq late \cup Pending({r})
        /\ pc' = [pc EXCEPT ![r] = "done"]
        /\ UNCHANGED <<rows, cache, key, flag, loaded>>
    BY <1>13 DEF PostgresFails, Return, Open
  <2>2. pc'[r] = "done" /\ \A q \in Requests \ {r} : pc'[q] = pc[q]
    BY <1>kinds, <2>1
  <2>3. writer'[k] # None => writer'[k] = writer[k]
    BY <1>13, <1>kinds DEF PostgresFails
  <2> QED BY <1>10, <1>11, <2>1, <2>2, <2>3
<1>14. ASSUME NEW p \in Procs, Crash(p)
       PROVE  Alone(k)' /\ Current(k)' /\ Coherent(k)'
  <2> DEFINE Dying == {r \in Requests : Home[r] = p /\ Open(r)}
  <2>1. /\ Dying \in SUBSET Requests /\ Disturb(Dying) /\ \A q \in Dying : Open(q)
        /\ late' \subseteq late \cup Pending(Dying)
        /\ pc' = [r \in Requests |-> IF r \in Dying THEN "done" ELSE pc[r]]
        /\ UNCHANGED <<rows, writer, cache, key, flag, loaded>>
    BY <1>14 DEF Crash
  <2> HIDE DEF Dying
  <2>2. /\ \A q \in Dying : pc'[q] = "done"
        /\ \A q \in Requests \ Dying : pc'[q] = pc[q]
    BY <2>1
  <2> QED BY <1>10, <1>11, <2>1, <2>2
<1>15. ASSUME NEW c \in CacheKeys, Evict(c)
       PROVE  Alone(k)' /\ Current(k)' /\ Coherent(k)'
  BY <1>15, <1>k, <1>kinds DEF Evict, Alone, Open, Current, Coherent, CacheKey
<1>16. ASSUME NEW set \in CacheKeys \X Flags, Settle(set)
       PROVE  Alone(k)' /\ Current(k)' /\ Coherent(k)'
  <2>1. set[1] # CacheKey(k) /\ late' \subseteq late
    BY <1>16, <1>k DEF Settle, LateSet, LateSetLost, Current
  <2>2. cache'[CacheKey(k)] = cache[CacheKey(k)]
    BY <1>16, <1>kinds, <1>k, <2>1 DEF Settle, LateSet, LateSetLost, WriteCache
  <2>3. UNCHANGED <<rows, writer, pc, key, flag, loaded>>
    BY <1>16 DEF Settle, LateSet, LateSetLost
  <2> QED BY <1>k, <2>1, <2>2, <2>3 DEF Alone, Open, Current, Coherent, CacheKey
<1>17. CASE Tick
  <2>1. cache'[CacheKey(k)] # None =>
          cache[CacheKey(k)] # None /\ cache'[CacheKey(k)].flag = cache[CacheKey(k)].flag
    BY <1>17, <1>k, <1>kinds DEF Tick, Entries
  <2>2. UNCHANGED <<rows, writer, late, pc, key, flag, loaded>>
    BY <1>17 DEF Tick
  <2> QED BY <1>k, <2>1, <2>2 DEF Alone, Open, Current, Coherent, CacheKey
<1>18. CASE UNCHANGED vars
  BY <1>18, <1>k DEF vars, Alone, Open, Current, Coherent, CacheKey
<1> QED
  BY <1>1, <1>2, <1>3, <1>5, <1>6, <1>7, <1>8, <1>9, <1>12, <1>13, <1>14, <1>15,
     <1>16, <1>17, <1>18
  DEF Next, Call, Serve, Resolve

-----------------------------------------------------------------------------
(* What was committed is not undone *)

\* That column of set r's row was written by r or by a set committed since r began.
Holds(r, column) ==
  \E s \in Since(r) : rows[key[r]][column] = RowOf(flag[s])[column]

\* Set r may still commit what it flushes: its own session, or the server
\* settling the transaction it left.
Writing(r) ==
  pc[r] \in {"flush", "commit"} \/ (pc[r] # "idle" /\ writer[key[r]] = r)

\* A transaction that holds a row is its set's own and is committed once.
OneCommit ==
  /\ \A k \in Keys : writer[k] # None =>
       key[writer[k]] = k /\ pc[writer[k]] \in {"commit", "done"}
  /\ \A r \in persisted : pc[r] \in {"refresh", "done"} /\ writer[key[r]] # r
  /\ \A r \in Sets : before[r] \subseteq persisted

\* AcknowledgedIsPersisted made inductive.  A set that is about to commit keeps
\* the columns it need not change, and those are as it loaded them or written
\* since it began.
Lasts ==
  /\ \A r \in persisted, column \in Columns : Holds(r, column)
  /\ \A r \in Sets, column \in Columns :
       Writing(r) /\ loaded[r] # None =>
         rows[key[r]][column] = loaded[r][column] \/ Holds(r, column)

Lasting == OneCommit /\ Lasts

THEOREM InitLasting == Init => Lasting
BY Sentinels DEF Init, Lasting, OneCommit, Lasts, Writing, Requests

\* A step that commits nothing keeps Lasts, as long as a set that begins to
\* write has just loaded the row.
LEMMA LastsKept ==
  ASSUME TypeInv, Lasting, UNCHANGED <<rows, persisted>>,
         \A s \in Sets : pc[s] # "idle" =>
           key'[s] = key[s] /\ flag'[s] = flag[s] /\ before'[s] = before[s],
         \A r \in Sets : Writing(r)' =>
           \/ pc[r] # "idle" /\ Writing(r) /\ loaded'[r] = loaded[r]
           \/ rows[key'[r]] = loaded'[r]
  PROVE  Lasts'
<1>1. \A s \in persisted : s \in Sets /\ pc[s] # "idle"
  BY DEF Lasting, OneCommit, TypeInv, TypeOK
<1>2. ASSUME NEW r \in Sets, pc[r] # "idle", NEW column \in Columns, Holds(r, column)
      PROVE  Holds(r, column)'
  <2>1. Since(r)' = Since(r)
    BY <1>1, <1>2 DEF Since
  <2>2. \A s \in Since(r) : flag'[s] = flag[s]
    BY <1>1 DEF Since
  <2> QED BY <1>2, <2>1, <2>2 DEF Holds, RowOf
<1>3. \A r \in persisted', column \in Columns : Holds(r, column)'
  BY <1>1, <1>2 DEF Lasting, Lasts
<1>4. ASSUME NEW r \in Sets, NEW column \in Columns, Writing(r)', loaded'[r] # None
      PROVE  rows'[key'[r]][column] = loaded'[r][column] \/ Holds(r, column)'
  <2>1. CASE rows[key'[r]] = loaded'[r]
    BY <2>1
  <2>2. CASE pc[r] # "idle" /\ Writing(r) /\ loaded'[r] = loaded[r]
    <3>1. rows[key[r]][column] = loaded[r][column] \/ Holds(r, column)
      BY <1>4, <2>2 DEF Lasting, Lasts
    <3> QED BY <1>2, <2>2, <3>1
  <2> QED BY <1>4, <2>1, <2>2
<1> QED BY <1>3, <1>4 DEF Lasts

\* What a COMMIT leaves in a column: the set's own value, or what was there.
\* It changes at least the columns in which the set differs from what it loaded.
LEMMA FlushedColumns ==
  ASSUME TypeInv, NEW r \in Sets, pc[r] # "idle", NEW column \in Columns
  PROVE  LET row == Flushed(r, rows[key[r]])
         IN  /\ \/ row[column] = RowOf(flag[r])[column]
                \/ row[column] = rows[key[r]][column]
             /\ \/ row[column] = RowOf(flag[r])[column]
                \/ /\ loaded[r] # None
                   /\ row[column] = rows[key[r]][column]
                   /\ loaded[r][column] = RowOf(flag[r])[column]
BY DEF Columns, Flushed, Column

\* A COMMIT adds itself to the sets since every set of its key began.
LEMMA CommitLasts ==
  ASSUME TypeInv, Lasting, NEW r \in Sets, pc[r] # "idle", r \notin persisted, Writing(r),
         CommitRow(r), UNCHANGED <<flag, key, loaded, before>>,
         \A q \in Sets : Writing(q)' => Writing(q) /\ q # r
  PROVE  Lasts'
<1> DEFINE k == key[r]
           row == Flushed(r, rows[k])
<1>1. k \in Keys /\ rows \in [Keys -> Rows \cup {None}] /\ persisted \subseteq Sets
  BY DEF TypeInv, Ready, TypeOK, Requests
<1>2. rows' = [rows EXCEPT ![k] = row] /\ persisted' = persisted \cup {r}
  BY DEF CommitRow
<1>3. \A q \in Sets : Since(q) \subseteq Since(q)' /\ (key[q] = k => r \in Since(q)')
  BY <1>2 DEF Since, Lasting, OneCommit
<1>4. ASSUME NEW column \in Columns
      PROVE  /\ \/ row[column] = RowOf(flag[r])[column]
                \/ row[column] = rows[k][column]
             /\ \/ row[column] = RowOf(flag[r])[column]
                \/ /\ loaded[r] # None
                   /\ row[column] = rows[k][column]
                   /\ loaded[r][column] = RowOf(flag[r])[column]
  BY FlushedColumns
<1> HIDE DEF k, row
<1>5. rows'[k] = row /\ \A l \in Keys \ {k} : rows'[l] = rows[l]
  BY <1>1, <1>2
<1>6. ASSUME NEW q \in Sets, pc[q] # "idle", NEW column \in Columns
      PROVE  \/ Holds(q, column)'
             \/ rows'[key[q]][column] = rows[key[q]][column]
  <2>1. key[q] \in Keys
    BY <1>6 DEF TypeInv, Ready, Requests
  <2>2. CASE key[q] = k /\ row[column] = RowOf(flag[r])[column]
    BY <1>3, <1>5, <2>2 DEF Holds
  <2>3. CASE key[q] = k /\ row[column] = rows[k][column]
    BY <1>5, <2>3
  <2>4. CASE key[q] # k
    BY <1>5, <2>1, <2>4
  <2> QED BY <1>4, <2>2, <2>3, <2>4
<1>7. ASSUME NEW q \in Sets, pc[q] # "idle", NEW column \in Columns, Holds(q, column)
      PROVE  Holds(q, column)'
  <2>1. CASE rows'[key[q]][column] = rows[key[q]][column]
    <3>1. PICK s \in Since(q) : rows[key[q]][column] = RowOf(flag[s])[column]
      BY <1>7 DEF Holds
    <3>2. s \in Since(q)'
      BY <1>3
    <3> QED BY <2>1, <3>1, <3>2 DEF Holds, RowOf
  <2> QED BY <1>6, <1>7, <2>1
<1>8. ASSUME NEW column \in Columns PROVE Holds(r, column)'
  <2>1. CASE row[column] = RowOf(flag[r])[column]
    BY <1>3, <1>5, <2>1 DEF Holds, k
  <2>2. CASE /\ loaded[r] # None
             /\ row[column] = rows[k][column]
             /\ loaded[r][column] = RowOf(flag[r])[column]
    <3>1. rows[k][column] = loaded[r][column] \/ Holds(r, column)
      BY <2>2 DEF Lasting, Lasts, k
    <3>2. CASE rows[k][column] = loaded[r][column]
      BY <2>1, <2>2, <3>2
    <3> QED BY <1>7, <3>1, <3>2
  <2> QED BY <1>4, <2>1, <2>2
<1>9. ASSUME NEW q \in persisted', NEW column \in Columns PROVE Holds(q, column)'
  <2>1. CASE q = r
    BY <1>8, <2>1
  <2>2. CASE q \in persisted
    <3>1. q \in Sets /\ pc[q] # "idle" /\ Holds(q, column)
      BY <1>1, <2>2 DEF Lasting, OneCommit, Lasts
    <3> QED BY <1>7, <3>1
  <2> QED BY <1>2, <2>1, <2>2
<1>10. ASSUME NEW q \in Sets, NEW column \in Columns, Writing(q)', loaded'[q] # None
       PROVE  rows'[key'[q]][column] = loaded'[q][column] \/ Holds(q, column)'
  <2>1. Writing(q) /\ pc[q] # "idle"
    BY <1>10 DEF Writing
  <2>2. rows[key[q]][column] = loaded[q][column] \/ Holds(q, column)
    BY <1>10, <2>1 DEF Lasting, Lasts
  <2> QED BY <1>6, <1>7, <2>1, <2>2
<1> QED BY <1>9, <1>10 DEF Lasts

THEOREM NextLasting == TypeInv /\ Lasting /\ [Next]_vars => Lasting'
<1> SUFFICES ASSUME TypeInv, Lasting, [Next]_vars PROVE Lasting'
  OBVIOUS
<1> USE Sentinels, CallsAssumption DEF stores, locals, counts, history
<1>types. /\ persisted \subseteq Sets /\ Sets \subseteq Requests /\ Gets \cap Sets = {}
          /\ pc \in [Requests -> Labels] /\ key \in [Requests -> Keys \cup {None}]
          /\ flag \in [Requests -> Flags \cup {None}] /\ loaded \in [Sets -> Rows \cup {None}]
          /\ before \in [Sets -> SUBSET Sets] /\ writer \in [Keys -> Sets \cup {None}]
          /\ \A s \in Sets : pc[s] # "idle" => key[s] \in Keys
  BY DEF TypeInv, TypeOK, Ready, Requests
\* A step in which no set begins, loads, flushes or commits.
<1>1. ASSUME UNCHANGED <<rows, persisted, loaded, before>>,
             \A s \in Sets : key'[s] = key[s] /\ flag'[s] = flag[s],
             \A s \in Sets : pc'[s] = pc[s] \/ (pc[s] # "idle" /\ pc'[s] = "done"),
             \A k \in Keys : writer'[k] = writer[k] \/ writer'[k] = None
      PROVE  Lasting'
  <2>1. OneCommit'
    BY <1>1, <1>types DEF Lasting, OneCommit
  <2>2. \A s \in Sets : Writing(s)' => pc[s] # "idle" /\ Writing(s)
    BY <1>1, <1>types DEF Writing
  <2>3. Lasts'
    BY <1>1, <2>2, LastsKept
  <2> QED BY <2>1, <2>3 DEF Lasting
<1>2. ASSUME NEW r \in Gets, NEW k \in Keys, GetFlag(r, k) PROVE Lasting'
  <2>1. /\ key' = [key EXCEPT ![r] = k] /\ pc' = [pc EXCEPT ![r] = "lookup"]
        /\ rows' = rows /\ persisted' = persisted /\ loaded' = loaded
        /\ before' = before /\ flag' = flag /\ writer' = writer
    BY <1>2 DEF GetFlag, Begin, Goto
  <2>2. \A s \in Sets : key'[s] = key[s] /\ pc'[s] = pc[s]
    BY <2>1, <1>types
  <2> QED BY <1>1, <2>1, <2>2
<1>3. ASSUME NEW r \in Gets,
             CacheHit(r) \/ CacheMiss(r) \/ LoadRow(r) \/ RowMissing(r) \/ FillCache(r)
      PROVE  Lasting'
  <2>1. \A s \in Sets : flag'[s] = flag[s] /\ pc'[s] = pc[s]
    BY <1>3, <1>types DEF CacheHit, CacheMiss, LoadRow, RowMissing, FillCache, Goto, Return
  <2>2. /\ rows' = rows /\ persisted' = persisted /\ loaded' = loaded
        /\ before' = before /\ key' = key /\ writer' = writer
    BY <1>3 DEF CacheHit, CacheMiss, LoadRow, RowMissing, FillCache
  <2> QED BY <1>1, <2>1, <2>2
<1>4. ASSUME NEW r \in Sets, NEW k \in Keys, NEW enabled \in BOOLEAN, NEW user \in Users,
             SetFlag(r, k, enabled, user)
      PROVE Lasting'
  <2>1. /\ pc[r] = "idle" /\ pc' = [pc EXCEPT ![r] = "get_row"]
        /\ key' = [key EXCEPT ![r] = k] /\ UNCHANGED <<rows, writer, loaded, persisted>>
        /\ before' = [before EXCEPT ![r] = {s \in persisted : key[s] = k}]
        /\ \A s \in Sets \ {r} : flag'[s] = flag[s]
    BY <1>4, <1>types DEF SetFlag, Begin, Goto
  <2>2. r \notin persisted /\ \A l \in Keys : writer[l] # r
    BY <2>1, <1>types DEF Lasting, OneCommit
  <2>3. OneCommit'
    BY <2>1, <2>2, <1>types DEF Lasting, OneCommit
  <2>4. \A s \in Sets : Writing(s)' => pc[s] # "idle" /\ Writing(s)
    BY <2>1, <2>2, <1>types DEF Writing
  <2>5. \A s \in Sets : pc[s] # "idle" =>
          key'[s] = key[s] /\ flag'[s] = flag[s] /\ before'[s] = before[s]
    BY <2>1, <1>types
  <2>6. Lasts'
    BY <2>1, <2>4, <2>5, LastsKept
  <2> QED BY <2>3, <2>6 DEF Lasting
<1>5. ASSUME NEW r \in Sets, GetRow(r) PROVE Lasting'
  <2>1. /\ pc[r] = "get_row" /\ pc' = [pc EXCEPT ![r] = "flush"]
        /\ loaded' = [loaded EXCEPT ![r] = rows[key[r]]]
        /\ UNCHANGED <<rows, writer, persisted, key, flag, before>>
    BY <1>5 DEF GetRow, Goto
  <2>2. OneCommit'
    BY <2>1, <1>types DEF Lasting, OneCommit
  <2>3. \A s \in Sets : Writing(s)' =>
          \/ pc[s] # "idle" /\ Writing(s) /\ loaded'[s] = loaded[s]
          \/ rows[key'[s]] = loaded'[s]
    BY <2>1, <1>types DEF Writing
  <2>4. Lasts'
    BY <2>1, <2>3, LastsKept
  <2> QED BY <2>2, <2>4 DEF Lasting
<1>6. ASSUME NEW r \in Sets, Flush(r) PROVE Lasting'
  <2>1. /\ pc[r] = "flush" /\ pc' = [pc EXCEPT ![r] = "commit"]
        /\ writer' = writer \/ writer' = [writer EXCEPT ![key[r]] = r]
        /\ UNCHANGED <<rows, loaded, persisted, key, flag, before>>
    BY <1>6 DEF Flush, Goto
  <2>2. OneCommit'
    BY <2>1, <1>types DEF Lasting, OneCommit
  <2>3. ASSUME NEW s \in Sets, Writing(s)' PROVE pc[s] # "idle" /\ Writing(s)
    <3>1. CASE s = r
      BY <2>1, <3>1 DEF Writing
    <3>2. CASE s # r
      BY <2>1, <2>3, <3>2, <1>types DEF Writing
    <3> QED BY <3>1, <3>2
  <2>4. Lasts'
    BY <2>1, <2>3, LastsKept
  <2> QED BY <2>2, <2>4 DEF Lasting
<1>7. ASSUME NEW r \in Sets, DuplicateKey(r) \/ RefreshCache(r) PROVE Lasting'
  <2>1. /\ pc[r] # "idle" /\ pc' = [pc EXCEPT ![r] = "done"]
        /\ rows' = rows /\ persisted' = persisted /\ loaded' = loaded
        /\ before' = before /\ key' = key /\ flag' = flag /\ writer' = writer
    BY <1>7 DEF DuplicateKey, RefreshCache, Return
  <2>2. \A s \in Sets : pc'[s] = pc[s] \/ (pc[s] # "idle" /\ pc'[s] = "done")
    BY <2>1, <1>types
  <2> QED BY <1>1, <2>1, <2>2
<1>8. ASSUME NEW r \in Sets, Commit(r) PROVE Lasting'
  <2>1. /\ pc[r] = "commit" /\ pc' = [pc EXCEPT ![r] = "refresh"] /\ key[r] \in Keys
        /\ writer' = [writer EXCEPT ![key[r]] = IF @ = r THEN None ELSE @]
        /\ CommitRow(r) /\ persisted' = persisted \cup {r}
        /\ UNCHANGED <<loaded, key, flag, before>>
    BY <1>8, <1>types DEF Commit, CommitRow, Goto
  <2>2. r \notin persisted
    BY <2>1 DEF Lasting, OneCommit
  <2>3. OneCommit'
    BY <2>1, <1>types DEF Lasting, OneCommit
  <2>4. \A s \in Sets : Writing(s)' => Writing(s) /\ s # r
    BY <2>1, <1>types DEF Writing
  <2>5. pc[r] # "idle" /\ Writing(r)
    BY <2>1 DEF Writing
  <2>6. Lasts'
    BY <2>1, <2>2, <2>4, <2>5, CommitLasts
  <2> QED BY <2>3, <2>6 DEF Lasting
<1>9. ASSUME NEW r \in Sets, ResolveCommitted(r) PROVE Lasting'
  <2>1. /\ pc[r] = "done" /\ key[r] \in Keys /\ writer[key[r]] = r
        /\ writer' = [writer EXCEPT ![key[r]] = None]
        /\ CommitRow(r) /\ persisted' = persisted \cup {r}
        /\ UNCHANGED <<pc, loaded, key, flag, before>>
    BY <1>9, <1>types DEF ResolveCommitted, CommitRow
  <2>2. r \notin persisted
    BY <2>1 DEF Lasting, OneCommit
  <2>3. OneCommit'
    BY <2>1, <1>types DEF Lasting, OneCommit
  <2>4. \A s \in Sets : Writing(s)' => Writing(s) /\ s # r
    BY <2>1, <1>types DEF Writing
  <2>5. pc[r] # "idle" /\ Writing(r)
    BY <2>1 DEF Writing
  <2>6. Lasts'
    BY <2>1, <2>2, <2>4, <2>5, CommitLasts
  <2> QED BY <2>3, <2>6 DEF Lasting
<1>10. ASSUME NEW r \in Sets, ResolveRolledBack(r) PROVE Lasting'
  <2>1. /\ writer' = [writer EXCEPT ![key[r]] = None]
        /\ rows' = rows /\ persisted' = persisted /\ loaded' = loaded
        /\ before' = before /\ key' = key /\ flag' = flag /\ pc' = pc
    BY <1>10 DEF ResolveRolledBack
  <2>2. \A k \in Keys : writer'[k] = writer[k] \/ writer'[k] = None
    BY <2>1, <1>types
  <2> QED BY <1>1, <2>1, <2>2
<1>11. ASSUME NEW r \in Requests, RedisFails(r) \/ PostgresFails(r) PROVE Lasting'
  <2>1. /\ pc[r] # "idle" /\ pc' = [pc EXCEPT ![r] = "done"]
        /\ rows' = rows /\ persisted' = persisted /\ loaded' = loaded
        /\ before' = before /\ key' = key /\ flag' = flag
        /\ writer' = writer \/ writer' = [writer EXCEPT ![key[r]] = None]
    BY <1>11 DEF RedisFails, PostgresFails, Return
  <2>2. \A s \in Sets : pc'[s] = pc[s] \/ (pc[s] # "idle" /\ pc'[s] = "done")
    BY <2>1, <1>types
  <2>3. \A k \in Keys : writer'[k] = writer[k] \/ writer'[k] = None
    BY <2>1, <1>types
  <2> QED BY <1>1, <2>1, <2>2, <2>3
<1>12. ASSUME NEW p \in Procs, Crash(p) PROVE Lasting'
  <2>1. /\ rows' = rows /\ persisted' = persisted /\ loaded' = loaded
        /\ before' = before /\ key' = key /\ flag' = flag /\ writer' = writer
        /\ pc' = [r \in Requests |->
                   IF r \in {q \in Requests : Home[q] = p /\ Open(q)} THEN "done" ELSE pc[r]]
    BY <1>12 DEF Crash
  <2>2. \A s \in Sets : pc'[s] = pc[s] \/ (pc[s] # "idle" /\ pc'[s] = "done")
    BY <2>1, <1>types DEF Open
  <2> QED BY <1>1, <2>1, <2>2
<1>13. CASE \/ \E c \in CacheKeys : Evict(c)
            \/ \E set \in CacheKeys \X Flags : Settle(set)
            \/ Tick
            \/ UNCHANGED vars
  <2>1. /\ rows' = rows /\ persisted' = persisted /\ loaded' = loaded /\ pc' = pc
        /\ before' = before /\ key' = key /\ flag' = flag /\ writer' = writer
    BY <1>13 DEF Evict, Settle, LateSet, LateSetLost, Tick, vars
  <2> QED BY <1>1, <2>1
<1> QED
  BY <1>2, <1>3, <1>4, <1>5, <1>6, <1>7, <1>8, <1>9, <1>10, <1>11, <1>12, <1>13
  DEF Next, Call, Serve, Resolve

-----------------------------------------------------------------------------
\* The safety properties as consequences of one inductive invariant.
SafetyInv == TypeInv /\ Committed /\ Answers /\ Lasting /\ Undisturbed

THEOREM SafetyInvariant == Spec => []SafetyInv
<1>1. Init => SafetyInv
  BY InitType, InitSafety, InitLasting DEF SafetyInv
<1>2. SafetyInv /\ [Next]_vars => SafetyInv'
  BY NextType, NextCommitted, NextAnswers, NextLasting, NextUndisturbed DEF SafetyInv
<1> QED BY <1>1, <1>2, PTL DEF Spec

\* Whatever races and fails, the cache never holds a flag that was not
\* committed for its own tenant and name.
THEOREM CacheIsCommitted == Spec => []CachedWasCommitted
<1>1. SafetyInv => CachedWasCommitted
  BY DEF SafetyInv, Committed
<1> QED BY <1>1, SafetyInvariant, PTL

\* A flag that existed when the call began is never answered 404.
THEOREM NotFoundIsHonest == Spec => []NotFoundWasAbsent
<1>1. SafetyInv => NotFoundWasAbsent
  BY DEF SafetyInv, Answers
<1> QED BY <1>1, SafetyInvariant, PTL

\* A set answered 200 is committed, and no set's row is ever back at what was
\* there before it, whatever it was answered.
THEOREM OkIsPersisted == Spec => []AcknowledgedIsPersisted
<1>1. SafetyInv => AcknowledgedIsPersisted
  BY DEF SafetyInv, Answers, OkIsCommitted, Lasting, Lasts, Holds, AcknowledgedIsPersisted
<1> QED BY <1>1, SafetyInvariant, PTL

\* While no set overlaps another call of its key and no write fails halfway,
\* the cache agrees with the table.
THEOREM CoherentUnlessDisturbed == Spec => []UndisturbedCoherence
<1>1. SafetyInv => UndisturbedCoherence
  <2> SUFFICES ASSUME SafetyInv, NEW k \in Keys, ~disturbed[k]
               PROVE  \/ cache[CacheKey(k)] = None
                      \/ cache[CacheKey(k)].flag = RowToFlag(rows[k])
                      \/ \E r \in OpenOn(k, Sets) : pc[r] = "refresh"
    BY DEF UndisturbedCoherence
  <2> QED BY DEF SafetyInv, Undisturbed, Coherent, OpenOn, Open
<1> QED BY <1>1, SafetyInvariant, PTL

\* Under the same condition a get answers with the committed row.
THEOREM CurrentUnlessDisturbed == Spec => UndisturbedReadIsCurrent
<1> DEFINE ReadsRow == \A r \in Gets :
             pc[r] # "done" /\ status'[r] = "ok" /\ ~disturbed[key[r]]
               => rows'[key[r]] # None /\ flag'[r] = RowToFlag(rows'[key[r]])
<1>1. SafetyInv /\ SafetyInv' /\ [Next]_vars => [ReadsRow]_vars
  <2> SUFFICES ASSUME SafetyInv, SafetyInv', Next, NEW r \in Gets,
                      pc[r] # "done", status'[r] = "ok", ~disturbed[key[r]]
               PROVE  rows'[key[r]] # None /\ flag'[r] = RowToFlag(rows'[key[r]])
    BY DEF vars
  <2> USE CallsAssumption, Sentinels DEF stores, locals, counts, history, SafetyInv, TypeInv
  <2>1. /\ status[r] = "none" /\ r \in Requests /\ r \notin Sets
        /\ pc \in [Requests -> Labels] /\ status \in [Requests -> Outcomes]
    BY DEF Answers, TypeOK, Requests
  <2>2. ASSUME CacheHit(r) PROVE rows'[key[r]] # None /\ flag'[r] = RowToFlag(rows'[key[r]])
    <3>1. key[r] \in Keys /\ Open(r)
      BY <2>1, <2>2 DEF CacheHit, Ready, Open
    <3>2. cache[CacheKey(key[r])].flag = RowToFlag(rows[key[r]])
      BY <2>1, <2>2, <3>1 DEF CacheHit, Undisturbed, Coherent, Alone, Open
    <3>3. rows[key[r]] # None
      BY <2>2, <3>1 DEF CacheHit, Committed, CachedWasCommitted
    <3> QED BY <2>1, <2>2, <3>2, <3>3 DEF CacheHit, TypeOK
  <2>3. ASSUME FillCache(r) PROVE rows'[key[r]] # None /\ flag'[r] = RowToFlag(rows'[key[r]])
    <3>1. key[r] \in Keys
      BY <2>1, <2>3 DEF FillCache, Ready
    <3>2. rows[key[r]] # None
      BY <2>1, <2>3, <3>1 DEF FillCache, Committed, CachedWasCommitted
    <3> QED BY <2>3, <3>1, <3>2 DEF FillCache, Undisturbed, Current
  <2>4. ASSUME NEW q \in Gets, CacheHit(q) \/ FillCache(q), q # r PROVE FALSE
    BY <2>1, <2>4 DEF CacheHit, FillCache, Return
  <2>5. ASSUME NEW q \in Sets, RefreshCache(q) PROVE FALSE
    BY <2>1, <2>5 DEF RefreshCache, Return
  <2>6. ~UNCHANGED status
    BY <2>1
  <2>7. ~Call
    BY <2>6 DEF Call, GetFlag, SetFlag, Goto
  <2>8. ASSUME NEW q \in Requests, Serve(q) PROVE rows'[key[r]] # None /\ flag'[r] = RowToFlag(rows'[key[r]])
    <3>1. CASE q \in Gets /\ RowMissing(q)
      BY <2>1, <3>1 DEF RowMissing, Return
    <3>2. CASE q \in Sets /\ DuplicateKey(q)
      BY <2>1, <3>2 DEF DuplicateKey, Return
    <3> QED BY <2>2, <2>3, <2>4, <2>5, <2>6, <2>8, <3>1, <3>2
            DEF Serve, CacheMiss, LoadRow, GetRow, Flush, Commit, Goto
  <2>9. ASSUME NEW q \in Requests, Resolve(q) \/ RedisFails(q) \/ PostgresFails(q) PROVE FALSE
    BY <2>1, <2>6, <2>9
    DEF Resolve, ResolveCommitted, ResolveRolledBack, RedisFails, PostgresFails, Return
  <2>10. ASSUME NEW p \in Procs, Crash(p) PROVE FALSE
    BY <2>1, <2>10 DEF Crash
  <2>11. ASSUME \/ \E c \in CacheKeys : Evict(c)
                \/ \E set \in CacheKeys \X Flags : Settle(set)
                \/ Tick
         PROVE  FALSE
    BY <2>6, <2>11 DEF Evict, Settle, LateSet, LateSetLost, Tick
  <2> QED BY <2>7, <2>8, <2>9, <2>10, <2>11 DEF Next
<1> QED BY <1>1, SafetyInvariant, PTL DEF Spec, UndisturbedReadIsCurrent

-----------------------------------------------------------------------------
(* feature_flag_writes_total against the table *)

\* The sets of process p that answered "ok": each was counted once, unless the
\* process died since.
Acknowledged(p) == {r \in persisted : Home[r] = p /\ status[r] = "ok"}

\* WritesNeverOvercount made inductive: a set is counted in the step that
\* answers it, and an answered set was committed before.
Counted ==
  /\ IsFiniteSet(persisted)
  /\ \A p \in Procs : writes[p] <= Cardinality(Acknowledged(p))

LEMMA AcknowledgedFinite ==
  ASSUME IsFiniteSet(persisted), NEW p
  PROVE  IsFiniteSet(Acknowledged(p)) /\ Cardinality(Acknowledged(p)) \in Nat
BY FS_Subset, FS_CardinalityType DEF Acknowledged

\* A step that counts nothing and takes back no answer keeps Counted.
LEMMA CountedKept ==
  ASSUME TypeInv, Counted, UNCHANGED writes,
         IsFiniteSet(persisted'), persisted \subseteq persisted',
         \A r \in persisted : status[r] = "ok" => status'[r] = "ok"
  PROVE  Counted'
<1> SUFFICES ASSUME NEW p \in Procs PROVE writes[p] <= Cardinality(Acknowledged(p)')
  BY DEF Counted
<1>1. Acknowledged(p) \subseteq Acknowledged(p)' /\ Acknowledged(p)' \subseteq persisted'
  BY DEF Acknowledged
<1>2. IsFiniteSet(Acknowledged(p)')
  BY <1>1, FS_Subset
<1>3. /\ Cardinality(Acknowledged(p)) \in Nat /\ Cardinality(Acknowledged(p)') \in Nat
      /\ Cardinality(Acknowledged(p)) <= Cardinality(Acknowledged(p)')
  BY <1>1, <1>2, FS_Subset, FS_CardinalityType
<1>4. writes[p] \in Nat /\ writes[p] <= Cardinality(Acknowledged(p))
  BY DEF Counted, TypeInv, TypeOK
<1> QED BY <1>3, <1>4

THEOREM NextCounted == TypeInv /\ Answers /\ Counted /\ [Next]_vars => Counted'
<1> SUFFICES ASSUME TypeInv, Answers, Counted, [Next]_vars PROVE Counted'
  OBVIOUS
<1> USE DEF TypeInv, stores, locals, counts, history
<1>1. persisted \subseteq persisted' /\ persisted \subseteq Sets
  BY RowsStay DEF TypeOK
<1>2. ASSUME NEW r, persisted' = persisted \cup {r} PROVE IsFiniteSet(persisted')
  BY <1>2, FS_AddElement DEF Counted
<1>3. ASSUME UNCHANGED <<writes, persisted>>,
             \A r \in persisted : status[r] = "ok" => status'[r] = "ok"
      PROVE  Counted'
  BY <1>3, CountedKept DEF Counted
<1>4. \A r \in Requests : status[r] = "ok" => pc[r] = "done"
  BY DEF Answers
<1>5. CASE Call
  BY <1>3, <1>5 DEF Call, GetFlag, SetFlag, Begin, Goto
<1>6. ASSUME NEW r \in Requests, NEW outcome, Return(r, outcome), pc[r] # "done",
             UNCHANGED <<writes, persisted>>
      PROVE  Counted'
  <2>1. \A q \in persisted : status[q] = "ok" => status'[q] = "ok"
    BY <1>1, <1>4, <1>6 DEF Return, TypeOK, Requests
  <2> QED BY <1>3, <1>6, <2>1
<1>7. ASSUME NEW r \in Requests,
             \/ CacheHit(r) \/ RowMissing(r) \/ FillCache(r) \/ DuplicateKey(r)
             \/ RedisFails(r) \/ PostgresFails(r)
      PROVE  Counted'
  BY <1>6, <1>7
  DEF CacheHit, RowMissing, FillCache, DuplicateKey, RedisFails, PostgresFails
<1>8. ASSUME NEW r \in Requests,
             CacheMiss(r) \/ LoadRow(r) \/ GetRow(r) \/ Flush(r) \/ ResolveRolledBack(r)
      PROVE  Counted'
  BY <1>3, <1>8 DEF CacheMiss, LoadRow, GetRow, Flush, Goto, ResolveRolledBack
<1>9. ASSUME NEW r \in Sets, Commit(r) \/ ResolveCommitted(r) PROVE Counted'
  <2>1. persisted' = persisted \cup {r} /\ UNCHANGED <<status, writes>>
    BY <1>9 DEF Commit, ResolveCommitted, CommitRow, Goto
  <2> QED BY <1>1, <1>2, <2>1, CountedKept
\* The one step that counts a set is the one that answers it.
<1>10. ASSUME NEW r \in Sets, RefreshCache(r) PROVE Counted'
  <2>1. r \in persisted /\ status[r] = "none" /\ Home[r] \in Procs
    BY <1>10, CallsAssumption DEF RefreshCache, Answers, Requests
  <2>2. status' = [status EXCEPT ![r] = "ok"] /\ status \in [Requests -> Outcomes]
    BY <1>10 DEF RefreshCache, Return, TypeOK
  <2>3. persisted' = persisted /\ writes' = [writes EXCEPT ![Home[r]] = @ + 1]
    BY <1>10 DEF RefreshCache
  <2>4. ASSUME NEW p \in Procs, p # Home[r]
        PROVE  writes'[p] = writes[p] /\ Acknowledged(p)' = Acknowledged(p)
    <3>1. writes'[p] = writes[p]
      BY <2>3, <2>4 DEF TypeOK
    <3>2. Acknowledged(p)' = Acknowledged(p)
      BY <1>1, <2>2, <2>3, <2>4 DEF Acknowledged, Requests
    <3> QED BY <3>1, <3>2
  <2>5. Acknowledged(Home[r])' = Acknowledged(Home[r]) \cup {r} /\ r \notin Acknowledged(Home[r])
    BY <1>1, <2>1, <2>2, <2>3 DEF Acknowledged, Requests
  <2>6. Cardinality(Acknowledged(Home[r])') = Cardinality(Acknowledged(Home[r])) + 1
    BY <2>5, AcknowledgedFinite, FS_AddElement DEF Counted
  <2>7. writes[Home[r]] \in Nat /\ writes'[Home[r]] = writes[Home[r]] + 1
    BY <2>1, <2>3 DEF TypeOK
  <2>8. writes'[Home[r]] <= Cardinality(Acknowledged(Home[r])')
    BY <2>1, <2>6, <2>7, AcknowledgedFinite DEF Counted
  <2>9. ASSUME NEW p \in Procs PROVE writes'[p] <= Cardinality(Acknowledged(p)')
    BY <2>4, <2>8, <2>9 DEF Counted
  <2> QED BY <2>3, <2>9 DEF Counted
\* A process that dies starts counting again, while its answers stand.
<1>11. ASSUME NEW p \in Procs, Crash(p) PROVE Counted'
  <2>1. persisted' = persisted /\ writes' = [writes EXCEPT ![p] = 0]
    BY <1>11 DEF Crash
  <2>2. \A r \in persisted : status[r] = "ok" <=> status'[r] = "ok"
    BY <1>1, <1>4, <1>11 DEF Crash, Open, Requests, TypeOK
  <2>3. \A q : Acknowledged(q)' = Acknowledged(q)
    BY <2>1, <2>2 DEF Acknowledged
  <2>4. \A q \in Procs : writes'[q] <= Cardinality(Acknowledged(q)')
    BY <2>1, <2>3, AcknowledgedFinite DEF Counted, TypeOK
  <2> QED BY <2>1, <2>4 DEF Counted
<1>12. CASE \/ \E c \in CacheKeys : Evict(c)
            \/ \E set \in CacheKeys \X Flags : Settle(set)
            \/ Tick
            \/ UNCHANGED vars
  BY <1>3, <1>12 DEF Evict, Settle, LateSet, LateSetLost, Tick, vars
<1> QED
  BY <1>5, <1>7, <1>8, <1>9, <1>10, <1>11, <1>12
  DEF Next, Serve, Resolve

\* feature_flag_writes_total never runs ahead of the table.
THEOREM WritesAreNeverOvercounted == Spec => []WritesNeverOvercount
<1>1. Init => Counted
  BY FS_EmptySet DEF Init, Counted, Acknowledged
<1>2. SafetyInv /\ Counted /\ [Next]_vars => Counted'
  BY NextCounted DEF SafetyInv
<1>3. TypeInv /\ Counted => WritesNeverOvercount
  <2> SUFFICES ASSUME TypeInv, Counted, NEW p \in Procs
               PROVE  writes[p] <= Cardinality({r \in persisted : Home[r] = p})
    BY DEF WritesNeverOvercount
  <2> DEFINE Committers == {r \in persisted : Home[r] = p}
  <2>1. IsFiniteSet(Committers) /\ Acknowledged(p) \subseteq Committers
    BY FS_Subset DEF Counted, Acknowledged
  <2>2. /\ Cardinality(Acknowledged(p)) \in Nat /\ Cardinality(Committers) \in Nat
        /\ Cardinality(Acknowledged(p)) <= Cardinality(Committers)
    BY <2>1, FS_Subset, FS_CardinalityType
  <2>3. writes[p] \in Nat /\ writes[p] <= Cardinality(Acknowledged(p))
    BY DEF Counted, TypeInv, TypeOK
  <2> QED BY <2>2, <2>3
<1> QED BY <1>1, <1>2, <1>3, SafetyInvariant, PTL DEF Spec, SafetyInv
=============================================================================
