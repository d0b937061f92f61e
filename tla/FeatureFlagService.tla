------------------------- MODULE FeatureFlagService -------------------------
(***************************************************************************)
(* FeatureFlagService over its two stores: the feature_flags table in      *)
(* PostgreSQL and a Redis cache with a time to live in front of it.        *)
(*                                                                         *)
(* A request is one HTTP call, served by one process; get_flag and         *)
(* set_flag are split where they await, so the calls of one event loop and *)
(* of several processes interleave between any two awaits.                 *)
(*                                                                         *)
(* PostgreSQL (READ COMMITTED, its default) is modelled as the code uses   *)
(* it: a SELECT sees committed rows, an INSERT or UPDATE takes the row     *)
(* until its transaction ends, and the unit of work SQLAlchemy flushes     *)
(* assigns only the columns whose value differs from the loaded one.       *)
(***************************************************************************)
EXTENDS Integers, FiniteSets

CONSTANTS
  Tenants, Names, Users,
  Gets, Sets,        \* the get_flag and the set_flag calls, each made once
  Procs, Home,       \* Home[r]: the process that serves request r
  CacheTtl,          \* FEATURE_FLAG_CACHE_TTL_SECONDS, in ticks of the clock
  MaxClock,          \* bound of the model: the clock stops counting here
  Faults,            \* which of "redis", "postgres", "crash", "evict" may happen
  None               \* no row, no entry, no lock holder, no flag, no key yet

Requests == Gets \cup Sets
Keys     == Tenants \X Names
Instants == 0..MaxClock

Columns == {"value", "updated_at", "updated_by_user_id"}
Rows  == [value : BOOLEAN, updated_at : Instants, updated_by_user_id : Users]
Flags == [enabled : BOOLEAN, updated_at : Instants, updated_by_user_id : Users]

\* Mutated form of CacheKey: the tenant is left out of the key.
CacheKeyByName(k) == <<"feature_flag", k[2]>>

\* create_redis_key("feature_flag", tenant_id, name); that the text it builds
\* keeps the parts apart is the subject of module RedisKey.
CacheKey(k) == <<"feature_flag", k[1], k[2]>>
CacheKeys   == {CacheKey(k) : k \in Keys}
Entries     == [flag : Flags, ttl : 1..CacheTtl]

\* FeatureFlagConfig: CACHE_TTL_SECONDS is an int with ge=1.
ASSUME CacheTtlAssumption == CacheTtl \in Nat \ {0}
ASSUME ClockAssumption == MaxClock \in Nat
ASSUME CallsAssumption == Gets \cap Sets = {} /\ Home \in [Requests -> Procs]
ASSUME SentinelAssumption ==
  /\ None \notin Rows /\ None \notin Flags /\ None \notin Entries
  /\ None \notin Requests /\ None \notin Keys

VARIABLES
  rows,       \* the committed feature_flags table, a row or None for each key
  writer,     \* the request whose open transaction wrote the row, or None
  cache,      \* Redis: an entry or None for each cache key
  late,       \* SET commands sent by a call that is over, not yet executed
  clock,      \* datetime.now(UTC)
  pc,         \* where each call is
  key,        \* the call's (tenant_id, name)
  flag,       \* the local variable "flag": what a set writes, what a get read
  loaded,     \* the row session.get returned to a set
  status,     \* the HTTP outcome of each call
  reads,      \* feature_flag_reads_total of each process
  writes      \* feature_flag_writes_total of each process

\* History, read by no action: what was ever true of a key or of a call.
VARIABLES
  offered,    \* every flag committed for k, or written to Redis after a commit
  absent,     \* the row was missing when the call began
  before,     \* the sets of its key that had committed when the set began
  persisted,  \* the sets whose transaction committed
  disturbed   \* calls overlapped on k with a set among them, or one failed
              \* where its write may have happened

stores  == <<rows, writer, cache, late>>
locals  == <<key, flag, loaded>>
counts  == <<reads, writes>>
history == <<offered, absent, before, persisted, disturbed>>
vars    == <<stores, clock, pc, locals, status, counts, history>>

-----------------------------------------------------------------------------
RowToFlag(row) ==
  [enabled |-> row.value, updated_at |-> row.updated_at,
   updated_by_user_id |-> row.updated_by_user_id]

RowOf(f) ==
  [value |-> f.enabled, updated_at |-> f.updated_at,
   updated_by_user_id |-> f.updated_by_user_id]

\* The row the transaction of set r commits over the current row: all of the
\* new row for an INSERT, only the changed columns for an UPDATE.
Column(new, old, current) == IF new # old THEN new ELSE current

Flushed(r, current) ==
  LET new == RowOf(flag[r])
      old == loaded[r]
  IN  IF old = None THEN new
      ELSE [value |-> Column(new.value, old.value, current.value),
            updated_at |-> Column(new.updated_at, old.updated_at, current.updated_at),
            updated_by_user_id |-> Column(new.updated_by_user_id,
                                          old.updated_by_user_id,
                                          current.updated_by_user_id)]

Open(r) == pc[r] \notin {"idle", "done"}
OpenOn(k, R) == {r \in R : Open(r) /\ key[r] = k}

\* Mutated form of WriteCache: a SET without EX.
WriteCacheForever(c, f) == cache' = [cache EXCEPT ![c] = [flag |-> f, ttl |-> 0]]

WriteCache(c, f) == cache' = [cache EXCEPT ![c] = [flag |-> f, ttl |-> CacheTtl]]

Goto(r, label) == pc' = [pc EXCEPT ![r] = label] /\ UNCHANGED status
Return(r, outcome) ==
  /\ pc' = [pc EXCEPT ![r] = "done"]
  /\ status' = [status EXCEPT ![r] = outcome]

Begin(r, k, rivals) ==
  /\ key' = [key EXCEPT ![r] = k]
  /\ absent' = [absent EXCEPT ![r] = (rows[k] = None)]
  /\ disturbed' = [disturbed EXCEPT ![k] = @ \/ OpenOn(k, rivals) # {}]
  /\ UNCHANGED <<offered, persisted>>

CommitRow(r) ==
  LET k   == key[r]
      row == Flushed(r, rows[k])
  IN  /\ rows' = [rows EXCEPT ![k] = row]
      /\ offered' = [offered EXCEPT ![k] = @ \cup {RowToFlag(row), flag[r]}]
      /\ persisted' = persisted \cup {r}

Init ==
  /\ rows \in [Keys -> {row \in Rows : row.updated_at = 0} \cup {None}]
  /\ writer = [k \in Keys |-> None]
  /\ cache = [c \in CacheKeys |-> None]
  /\ late = {}
  /\ clock = 0
  /\ pc = [r \in Requests |-> "idle"]
  /\ key = [r \in Requests |-> None]
  /\ flag = [r \in Requests |-> None]
  /\ loaded = [r \in Sets |-> None]
  /\ status = [r \in Requests |-> "none"]
  /\ reads = [p \in Procs |-> 0]
  /\ writes = [p \in Procs |-> 0]
  /\ offered = [k \in Keys |-> IF rows[k] = None THEN {} ELSE {RowToFlag(rows[k])}]
  /\ absent = [r \in Requests |-> FALSE]
  /\ before = [r \in Sets |-> {}]
  /\ persisted = {}
  /\ disturbed = [k \in Keys |-> FALSE]

-----------------------------------------------------------------------------
(* get_flag *)

GetFlag(r, k) ==
  /\ pc[r] = "idle"
  /\ Begin(r, k, Sets) /\ UNCHANGED before
  /\ reads' = [reads EXCEPT ![Home[r]] = @ + 1]
  /\ Goto(r, "lookup")
  /\ UNCHANGED <<stores, clock, flag, loaded, writes>>

CacheHit(r) ==
  /\ pc[r] = "lookup"
  /\ cache[CacheKey(key[r])] # None
  /\ flag' = [flag EXCEPT ![r] = cache[CacheKey(key[r])].flag]
  /\ Return(r, "ok")
  /\ UNCHANGED <<stores, clock, key, loaded, counts, history>>

\* Mutated form of CacheMiss: a key missing from Redis is taken for a missing flag.
CacheMissIsNotFound(r) ==
  /\ pc[r] = "lookup"
  /\ cache[CacheKey(key[r])] = None
  /\ Return(r, "not_found")
  /\ UNCHANGED <<stores, clock, locals, counts, history>>

CacheMiss(r) ==
  /\ pc[r] = "lookup"
  /\ cache[CacheKey(key[r])] = None
  /\ Goto(r, "load")
  /\ UNCHANGED <<stores, clock, locals, counts, history>>

LoadRow(r) ==
  /\ pc[r] = "load"
  /\ rows[key[r]] # None
  /\ flag' = [flag EXCEPT ![r] = RowToFlag(rows[key[r]])]
  /\ Goto(r, "fill")
  /\ UNCHANGED <<stores, clock, key, loaded, counts, history>>

RowMissing(r) ==
  /\ pc[r] = "load"
  /\ rows[key[r]] = None
  /\ Return(r, "not_found")
  /\ UNCHANGED <<stores, clock, locals, counts, history>>

FillCache(r) ==
  /\ pc[r] = "fill"
  /\ WriteCache(CacheKey(key[r]), flag[r])
  /\ Return(r, "ok")
  /\ UNCHANGED <<rows, writer, late, clock, locals, counts, history>>

-----------------------------------------------------------------------------
(* set_flag *)

\* Mutated form of SetFlag: the write is counted when it is asked for.
SetFlagCounted(r, k, enabled, user) ==
  /\ pc[r] = "idle"
  /\ Begin(r, k, Requests)
  /\ before' = [before EXCEPT ![r] = {s \in persisted : key[s] = k}]
  /\ flag' = [flag EXCEPT ![r] = [enabled |-> enabled, updated_at |-> clock,
                                  updated_by_user_id |-> user]]
  /\ writes' = [writes EXCEPT ![Home[r]] = @ + 1]
  /\ Goto(r, "get_row")
  /\ UNCHANGED <<stores, clock, loaded, reads>>

SetFlag(r, k, enabled, user) ==
  /\ pc[r] = "idle"
  /\ Begin(r, k, Requests)
  /\ before' = [before EXCEPT ![r] = {s \in persisted : key[s] = k}]
  /\ flag' = [flag EXCEPT ![r] = [enabled |-> enabled, updated_at |-> clock,
                                  updated_by_user_id |-> user]]
  /\ Goto(r, "get_row")
  /\ UNCHANGED <<stores, clock, loaded, counts>>

\* Mutated form of GetRow: Redis is refreshed before the transaction commits.
GetRowWriteThrough(r) ==
  /\ pc[r] = "get_row"
  /\ loaded' = [loaded EXCEPT ![r] = rows[key[r]]]
  /\ WriteCache(CacheKey(key[r]), flag[r])
  /\ Goto(r, "flush")
  /\ UNCHANGED <<rows, writer, late, clock, key, flag, counts, history>>

GetRow(r) ==
  /\ pc[r] = "get_row"
  /\ loaded' = [loaded EXCEPT ![r] = rows[key[r]]]
  /\ Goto(r, "flush")
  /\ UNCHANGED <<stores, clock, key, flag, counts, history>>

\* The INSERT or UPDATE of session.commit(), which waits for the transaction
\* that holds the row.  A row that is already as wanted is not written at all.
Flush(r) ==
  /\ pc[r] = "flush"
  /\ IF loaded[r] = RowOf(flag[r])
       THEN UNCHANGED writer
       ELSE /\ writer[key[r]] = None
            /\ loaded[r] = None => rows[key[r]] = None
            /\ writer' = [writer EXCEPT ![key[r]] = r]
  /\ Goto(r, "commit")
  /\ UNCHANGED <<rows, cache, late, clock, locals, counts, history>>

\* An INSERT that finds a row committed since session.get: the primary key
\* refuses it, the exception leaves set_flag and the call answers 500.
DuplicateKey(r) ==
  /\ pc[r] = "flush"
  /\ writer[key[r]] = None
  /\ loaded[r] = None
  /\ rows[key[r]] # None
  /\ Return(r, "server_error")
  /\ UNCHANGED <<stores, clock, locals, counts, history>>

\* Mutated form of Commit: the transaction that wrote the row is left open.
CommitLeftOpen(r) ==
  /\ pc[r] = "commit"
  /\ CommitRow(r)
  /\ Goto(r, "refresh")
  /\ UNCHANGED <<writer, cache, late, clock, locals, counts, absent, before, disturbed>>

Commit(r) ==
  /\ pc[r] = "commit"
  /\ CommitRow(r)
  /\ writer' = [writer EXCEPT ![key[r]] = IF @ = r THEN None ELSE @]
  /\ Goto(r, "refresh")
  /\ UNCHANGED <<cache, late, clock, locals, counts, absent, before, disturbed>>

\* Mutated form of RefreshCache: a set leaves the entry that was there.
RefreshSkipped(r) ==
  /\ pc[r] = "refresh"
  /\ writes' = [writes EXCEPT ![Home[r]] = @ + 1]
  /\ Return(r, "ok")
  /\ UNCHANGED <<stores, clock, locals, reads, history>>

RefreshCache(r) ==
  /\ pc[r] = "refresh"
  /\ WriteCache(CacheKey(key[r]), flag[r])
  /\ writes' = [writes EXCEPT ![Home[r]] = @ + 1]
  /\ Return(r, "ok")
  /\ UNCHANGED <<rows, writer, late, clock, locals, reads, history>>

-----------------------------------------------------------------------------
(* What the two stores and the process do on their own *)

\* One tick: datetime.now moves on and every entry is a tick nearer to its
\* EX expiry (ttl 0, which set_string never asks for, is a key without one).
Tick ==
  /\ clock < MaxClock \/ \E c \in CacheKeys : cache[c] # None
  /\ clock' = IF clock < MaxClock THEN clock + 1 ELSE clock
  /\ cache' = [c \in CacheKeys |->
       IF cache[c] = None \/ cache[c].ttl = 1 THEN None
       ELSE [cache[c] EXCEPT !.ttl = IF @ = 0 THEN 0 ELSE @ - 1]]
  /\ UNCHANGED <<rows, writer, late, pc, locals, status, counts, history>>

\* Redis drops a key it still owed (memory pressure, or a restart: nothing in
\* it is persisted).
Evict(c) ==
  /\ "evict" \in Faults
  /\ cache[c] # None
  /\ cache' = [cache EXCEPT ![c] = None]
  /\ UNCHANGED <<rows, writer, late, clock, pc, locals, status, counts, history>>

Disturb(R) ==
  disturbed' = [k \in Keys |->
    disturbed[k] \/ \E r \in R : key[r] = k /\ pc[r] \in {"fill", "refresh", "commit"}]

Pending(R) ==
  {<<CacheKey(key[r]), flag[r]>> : r \in {q \in R : pc[q] \in {"fill", "refresh"}}}

\* Mutated form of RedisFails: a set whose refresh fails puts the row back that
\* it loaded, to agree with the cache and with its answer.
RedisFailsUndone(r) ==
  /\ "redis" \in Faults
  /\ pc[r] \in {"lookup", "fill", "refresh"}
  /\ \E sent \in SUBSET Pending({r}) : late' = late \cup sent
  /\ rows' = IF pc[r] = "refresh" /\ loaded[r] # None
               THEN [rows EXCEPT ![key[r]] = loaded[r]] ELSE rows
  /\ Disturb({r})
  /\ Return(r, "server_error")
  /\ UNCHANGED <<writer, cache, clock, locals, counts, offered, absent, before, persisted>>

\* A Redis command times out or loses its connection.  The exception leaves
\* the service: the call answers 500.  A SET may still reach Redis later.
RedisFails(r) ==
  /\ "redis" \in Faults
  /\ pc[r] \in {"lookup", "fill", "refresh"}
  /\ \E sent \in SUBSET Pending({r}) : late' = late \cup sent
  /\ Disturb({r})
  /\ Return(r, "server_error")
  /\ UNCHANGED <<rows, writer, cache, clock, locals, counts, offered, absent, before, persisted>>

\* A checkout, statement or COMMIT fails.  The session closes and rolls back;
\* after a failed COMMIT the server may yet have it (the row stays held until
\* Resolve says which).
PostgresFails(r) ==
  /\ "postgres" \in Faults
  /\ pc[r] \in {"load", "get_row", "flush", "commit"}
  /\ \/ UNCHANGED writer
     \/ writer[key[r]] = r /\ writer' = [writer EXCEPT ![key[r]] = None]
  /\ Disturb({r})
  /\ Return(r, "server_error")
  /\ UNCHANGED <<rows, cache, late, clock, locals, counts, offered, absent, before, persisted>>

\* A process dies with all its open calls; its counters start again from 0.
Crash(p) ==
  LET Dying == {r \in Requests : Home[r] = p /\ Open(r)}
  IN  /\ "crash" \in Faults
      /\ Dying # {} \/ reads[p] + writes[p] > 0
      /\ \E sent \in SUBSET Pending(Dying) : late' = late \cup sent
      /\ Disturb(Dying)
      /\ pc' = [r \in Requests |-> IF r \in Dying THEN "done" ELSE pc[r]]
      /\ status' = [r \in Requests |-> IF r \in Dying THEN "lost" ELSE status[r]]
      /\ reads' = [reads EXCEPT ![p] = 0]
      /\ writes' = [writes EXCEPT ![p] = 0]
      /\ UNCHANGED <<rows, writer, cache, clock, locals, offered, absent, before, persisted>>

\* The server settles a transaction that its client left open or in doubt.
ResolveCommitted(r) ==
  /\ pc[r] = "done" /\ status[r] # "ok"
  /\ writer[key[r]] = r
  /\ CommitRow(r)
  /\ writer' = [writer EXCEPT ![key[r]] = None]
  /\ UNCHANGED <<cache, late, clock, pc, locals, status, counts, absent, before, disturbed>>

ResolveRolledBack(r) ==
  /\ pc[r] = "done" /\ status[r] # "ok"
  /\ writer[key[r]] = r
  /\ writer' = [writer EXCEPT ![key[r]] = None]
  /\ UNCHANGED <<rows, cache, late, clock, pc, locals, status, counts, history>>

LateSet(set) ==
  /\ set \in late
  /\ WriteCache(set[1], set[2])
  /\ late' = late \ {set}
  /\ UNCHANGED <<rows, writer, clock, pc, locals, status, counts, history>>

LateSetLost(set) ==
  /\ set \in late
  /\ late' = late \ {set}
  /\ UNCHANGED <<rows, writer, cache, clock, pc, locals, status, counts, history>>

-----------------------------------------------------------------------------
Serve(r) ==
  \/ r \in Gets /\ (CacheHit(r) \/ CacheMiss(r) \/ LoadRow(r) \/ RowMissing(r) \/ FillCache(r))
  \/ r \in Sets /\ (GetRow(r) \/ Flush(r) \/ DuplicateKey(r) \/ Commit(r) \/ RefreshCache(r))

Resolve(r) == r \in Sets /\ (ResolveCommitted(r) \/ ResolveRolledBack(r))

Settle(set) == LateSet(set) \/ LateSetLost(set)

Call ==
  \/ \E r \in Gets, k \in Keys : GetFlag(r, k)
  \/ \E r \in Sets, k \in Keys, enabled \in BOOLEAN, user \in Users :
       SetFlag(r, k, enabled, user)

Next ==
  \/ Call
  \/ \E r \in Requests :
       Serve(r) \/ Resolve(r) \/ RedisFails(r) \/ PostgresFails(r)
  \/ \E p \in Procs : Crash(p)
  \/ \E c \in CacheKeys : Evict(c)
  \/ \E set \in CacheKeys \X Flags : Settle(set)
  \/ Tick

Spec == Init /\ [][Next]_vars

\* Every await is resumed or times out: Redis commands by socket_timeout, and
\* statements by a server that answers (statement_timeout is the server's; one
\* that hangs is the subject of PostgresPool).  The server settles an abandoned
\* transaction, a SET on its way arrives or is lost, and time passes.  No call
\* has to be made and nothing has to fail.
Fairness ==
  /\ \A r \in Requests : WF_vars(Serve(r)) /\ WF_vars(Resolve(r))
  /\ \A set \in CacheKeys \X Flags : WF_vars(Settle(set))
  /\ WF_vars(Tick)

FairSpec == Spec /\ Fairness

-----------------------------------------------------------------------------
Labels == {"idle", "lookup", "load", "fill", "get_row", "flush", "commit", "refresh", "done"}
Outcomes == {"none", "ok", "not_found", "server_error", "lost"}

\* Every variable has its type: every Redis entry has an expiry, and a call of
\* one kind never stands at a step of the other.
TypeOK ==
  /\ rows \in [Keys -> Rows \cup {None}]
  /\ writer \in [Keys -> Sets \cup {None}]
  /\ cache \in [CacheKeys -> Entries \cup {None}]
  /\ late \in SUBSET (CacheKeys \X Flags)
  /\ clock \in Instants
  /\ pc \in [Requests -> Labels]
  /\ key \in [Requests -> Keys \cup {None}]
  /\ flag \in [Requests -> Flags \cup {None}]
  /\ loaded \in [Sets -> Rows \cup {None}]
  /\ status \in [Requests -> Outcomes]
  /\ reads \in [Procs -> Nat]
  /\ writes \in [Procs -> Nat]
  /\ offered \in [Keys -> SUBSET Flags]
  /\ absent \in [Requests -> BOOLEAN]
  /\ before \in [Sets -> SUBSET Sets]
  /\ persisted \in SUBSET Sets
  /\ disturbed \in [Keys -> BOOLEAN]
  /\ \A r \in Gets : pc[r] \in {"idle", "lookup", "load", "fill", "done"}
  /\ \A r \in Sets : pc[r] \in {"idle", "get_row", "flush", "commit", "refresh", "done"}

\* Redis never says more than PostgreSQL committed: an entry, a SET still on
\* its way and a fill about to be sent all carry a flag that was offered for
\* that very key (get_flag 89, set_flag 127 before 135, _cache_key), so a key
\* is cached only if its row exists.
CachedWasCommitted ==
  /\ \A k \in Keys : cache[CacheKey(k)] # None => cache[CacheKey(k)].flag \in offered[k]
  /\ \A k \in Keys, f \in Flags : <<CacheKey(k), f>> \in late => f \in offered[k]
  /\ \A r \in Requests : pc[r] \in {"fill", "refresh"} => flag[r] \in offered[key[r]]
  /\ \A k \in Keys : offered[k] # {} <=> rows[k] # None

\* What the tests of one call at a time rely on: as long as no set overlapped
\* another call on the key and no write failed halfway, the cache agrees with
\* the table except between a set's commit and its refresh.
UndisturbedCoherence ==
  \A k \in Keys :
    ~disturbed[k] =>
      \/ cache[CacheKey(k)] = None
      \/ cache[CacheKey(k)].flag = RowToFlag(rows[k])
      \/ \E r \in OpenOn(k, Sets) : pc[r] = "refresh"

\* Under the same condition a get answers with the committed row.
UndisturbedReadIsCurrent ==
  [][\A r \in Gets :
       pc[r] # "done" /\ status'[r] = "ok" /\ ~disturbed[key[r]]
         => rows'[key[r]] # None /\ flag'[r] = RowToFlag(rows'[key[r]])]_vars

\* A flag that existed when the call began is never answered 404, whatever
\* the cache, the other calls and the failures do (get_flag 82-86).
NotFoundWasAbsent ==
  \A r \in Gets : status[r] = "not_found" => absent[r]

\* feature_flag_writes_total never runs ahead of the table: it counts at most
\* the sets of its process whose transaction committed (set_flag 127-136).
WritesNeverOvercount ==
  \A p \in Procs :
    writes[p] <= Cardinality({r \in persisted : Home[r] = p})

\* The sets of the same key committed since set r began, r itself among them
\* once it has.
Since(r) == {s \in persisted \ before[r] : key[s] = key[r]}

\* "ok" is never said of a write that was not committed; and what was committed
\* is not undone, whatever its call was answered (500 when the refresh failed,
\* nothing when the process died, set_flag 127-135): each column of the row is
\* what that set wrote or what a set of the key committed since it began wrote,
\* never what was there before.
AcknowledgedIsPersisted ==
  /\ \A r \in Sets : status[r] = "ok" => r \in persisted
  /\ \A r \in persisted :
       /\ rows[key[r]] # None
       /\ \A column \in Columns :
            \E s \in Since(r) : rows[key[r]][column] = RowOf(flag[s])[column]

\* No call hangs: each one begun is answered, whoever fails and whoever holds
\* the row it waits for.
EveryCallReturns ==
  \A r \in Requests : Open(r) ~> pc[r] = "done"

\* The cache converges: once calls end, whatever stale entry the races left
\* is gone for good (the TTL of set_string is what removes it).
CacheConverges ==
  <>[](\A k \in Keys :
         cache[CacheKey(k)] # None => cache[CacheKey(k)].flag = RowToFlag(rows[k]))

-----------------------------------------------------------------------------
(* The promise to the caller *)

\* The refinement mapping: a call is open from its first step to its last, and
\* what it says is its status, with the flag when it says "ok".
Phase  == [r \in Requests |->
             IF pc[r] \in {"idle", "done"} THEN pc[r] ELSE "open"]
Wanted == [r \in Requests |-> IF r \in Sets THEN flag[r] ELSE None]
Reply  == [r \in Requests |->
             [status |-> status[r],
              flag   |-> IF status[r] = "ok" THEN flag[r] ELSE None]]

Store == INSTANCE FlagStore WITH
  phase <- Phase, target <- key, wanted <- Wanted, fresh <- absent, answer <- Reply

\* The service implements FlagStore: every step of the code is a call, an
\* offer, an answer or nothing to the caller.
ImplementsFlagStore == Store!Spec

-----------------------------------------------------------------------------
(* What the code's own words say, and the runs refute *)

\* set_flag "Returns: The flag as stored" (feature_flag_service.py:108): what
\* a set commits is the flag it answers with.
AnswersTheFlagAsStored ==
  [][\A r \in Sets : pc[r] = "commit" /\ pc'[r] = "refresh"
       => rows'[key[r]] = RowOf(flag[r])]_vars

\* "A write is visible to the next read": with no call open on the key and no
\* SET on its way, the cache has nothing older than the table.
NextReadSeesTheWrite ==
  \A k \in Keys :
    OpenOn(k, Requests) = {} /\ late = {} /\ cache[CacheKey(k)] # None
      => cache[CacheKey(k)].flag = RowToFlag(rows[k])

\* "Incremented once per set_flag that persisted a flag."
EveryPersistedSetIsCounted ==
  \A p \in Procs :
    (\A r \in Requests : Home[r] = p => ~Open(r))
      => writes[p] = Cardinality({r \in persisted : Home[r] = p})

\* "Create or update a named flag": a set fails only if a store or a process does.
SetFailsOnlyByFault ==
  Faults = {} => \A r \in Sets : status[r] # "server_error"
=============================================================================
