---------------------------- MODULE PostgresPool ----------------------------
(***************************************************************************)
(* The connections of PostgresClient's engine and who waits for them: gets *)
(* and readiness probes hold one for a statement, sets hold theirs while   *)
(* they wait for the row of another set.  The time limits of               *)
(* PostgresConfig are actions that end a wait; the server may stop         *)
(* answering without closing its connections.                              *)
(***************************************************************************)
EXTENDS Naturals, FiniteSets

CONSTANTS
  Readers,    \* get_flag calls past the cache, and readiness probes
  Sets,       \* set_flag calls
  Keys,       \* rows they write
  PoolSize,   \* connections kept open (pool_size)
  Overflow,   \* connections opened beyond those (max_overflow)
  Timers,     \* which of "pool", "connect", "statement" may run out
  Hangs,      \* the server may stop answering
  None        \* nobody holds the row, no key yet

Calls == Readers \cup Sets

ASSUME PoolAssumption == PoolSize \in Nat \ {0} /\ Overflow \in Nat
ASSUME SentinelAssumption == None \notin Calls /\ None \notin Keys

VARIABLES
  stage,      \* where each call is
  key,        \* the row a set writes
  held,       \* the calls with a connection checked out
  kept,       \* open connections in the pool that nobody holds
  holder,     \* the set whose transaction wrote the row, or None
  answering   \* the server answers

vars == <<stage, key, held, kept, holder, answering>>

Init ==
  /\ stage = [c \in Calls |-> "idle"]
  /\ key = [c \in Sets |-> None]
  /\ held = {}
  /\ kept = 1              \* PostgresClient.start has pinged through it
  /\ holder = [k \in Keys |-> None]
  /\ answering = TRUE

To(c, s) == stage' = [stage EXCEPT ![c] = s]

\* Mutated form of PutBack: the overflow connections are kept too.
PutBackAlways(c) ==
  /\ held' = held \ {c}
  /\ kept' = kept + 1

\* A connection that comes back is kept unless pool_size are already there.
PutBack(c) ==
  /\ held' = held \ {c}
  /\ kept' = IF kept < PoolSize THEN kept + 1 ELSE kept

\* A connection that failed, or was never made, is not.
Drop(c) == held' = held \ {c} /\ UNCHANGED kept

FreeRow(c) == holder' = [k \in Keys |-> IF holder[k] = c THEN None ELSE holder[k]]

-----------------------------------------------------------------------------
(* Checking a connection out *)

Ask(c) ==
  /\ stage[c] = "idle"
  /\ To(c, "waiting")
  /\ IF c \in Sets THEN \E k \in Keys : key' = [key EXCEPT ![c] = k] ELSE UNCHANGED key
  /\ UNCHANGED <<held, kept, holder, answering>>

\* pool_pre_ping asks the server before the connection is handed out.
Reuse(c) ==
  /\ stage[c] = "waiting"
  /\ kept > 0
  /\ kept' = kept - 1
  /\ held' = held \cup {c}
  /\ To(c, "ping")
  /\ UNCHANGED <<key, holder, answering>>

Connect(c) ==
  /\ stage[c] = "waiting"
  /\ kept = 0
  /\ Cardinality(held) < PoolSize + Overflow
  /\ held' = held \cup {c}
  /\ To(c, "connect")
  /\ UNCHANGED <<key, kept, holder, answering>>

\* The server answers the ping, or the new connection.
Ready(c) ==
  /\ stage[c] \in {"ping", "connect"}
  /\ answering
  /\ To(c, IF c \in Sets THEN "get_row" ELSE "query")
  /\ UNCHANGED <<key, held, kept, holder, answering>>

-----------------------------------------------------------------------------
(* Statements *)

\* Mutated form of Query: the session is not closed.
QueryLeaky(c) ==
  /\ stage[c] = "query"
  /\ answering
  /\ To(c, "over")
  /\ UNCHANGED <<key, held, kept, holder, answering>>

\* The SELECT of get_flag or SELECT 1 of ping; leaving the context manager
\* gives the connection back.
Query(c) ==
  /\ stage[c] = "query"
  /\ answering
  /\ PutBack(c)
  /\ To(c, "over")
  /\ UNCHANGED <<key, holder, answering>>

GetRow(c) ==
  /\ stage[c] = "get_row"
  /\ answering
  /\ To(c, "flush")
  /\ UNCHANGED <<key, held, kept, holder, answering>>

Flush(c) ==
  /\ stage[c] = "flush"
  /\ answering
  /\ holder[key[c]] = None
  /\ holder' = [holder EXCEPT ![key[c]] = c]
  /\ To(c, "commit")
  /\ UNCHANGED <<key, held, kept, answering>>

Commit(c) ==
  /\ stage[c] = "commit"
  /\ answering
  /\ FreeRow(c)
  /\ PutBack(c)
  /\ To(c, "over")
  /\ UNCHANGED <<key, answering>>

-----------------------------------------------------------------------------
(* Time limits and failures: the call answers 500, or 503 for a probe *)

\* Mutated form of PoolTimeout: pool_timeout is not set.
PoolTimeoutUnset(c) == FALSE /\ UNCHANGED vars

\* POOL_TIMEOUT_SECONDS: no connection came back and none may be opened.
PoolTimeout(c) ==
  /\ "pool" \in Timers
  /\ stage[c] = "waiting"
  /\ kept = 0 /\ Cardinality(held) = PoolSize + Overflow
  /\ To(c, "over")
  /\ UNCHANGED <<key, held, kept, holder, answering>>

\* CONNECT_TIMEOUT_SECONDS: libpq's, on opening a connection only.
ConnectTimeout(c) ==
  /\ "connect" \in Timers
  /\ stage[c] = "connect"
  /\ Drop(c)
  /\ To(c, "over")
  /\ UNCHANGED <<key, holder, answering>>

\* Mutated form of StatementTimeout: the session is left as it is.
StatementTimeoutLeaky(c) ==
  /\ "statement" \in Timers
  /\ answering
  /\ stage[c] \in {"get_row", "flush", "query"}
  /\ To(c, "over")
  /\ UNCHANGED <<key, held, kept, holder, answering>>

\* STATEMENT_TIMEOUT_MS: the server's own, so only a server that answers
\* cancels a statement; the session rolls back and closes.  That the pre-ping
\* or the COMMIT is cancelled, a key is a duplicate or a connection is lost
\* would end the call no differently, and is left out.
StatementTimeout(c) ==
  /\ "statement" \in Timers
  /\ answering
  /\ stage[c] \in {"get_row", "flush", "query"}
  /\ FreeRow(c)
  /\ PutBack(c)
  /\ To(c, "over")
  /\ UNCHANGED <<key, answering>>

\* A process that is stopped, or a host that hangs: its connections stay open.
Hang ==
  /\ Hangs
  /\ answering
  /\ answering' = FALSE
  /\ UNCHANGED <<stage, key, held, kept, holder>>

-----------------------------------------------------------------------------
Work(c) ==
  \/ Reuse(c) \/ Connect(c) \/ Ready(c)
  \/ c \in Readers /\ Query(c)
  \/ c \in Sets /\ (GetRow(c) \/ Flush(c) \/ Commit(c))

TimeOut(c) == PoolTimeout(c) \/ ConnectTimeout(c) \/ StatementTimeout(c)

Next == Hang \/ \E c \in Calls : Ask(c) \/ Work(c) \/ TimeOut(c)

\* Every task is scheduled, and a server that answers does so.
Fairness == \A c \in Calls : WF_vars(Work(c))

\* A timer that is running runs out.  (Each ends a call for good, so that the
\* turn of every one of them comes.)
TimersRunOut == WF_vars(\E c \in Calls : TimeOut(c))

Spec == Init /\ [][Next]_vars
FairSpec == Spec /\ Fairness

-----------------------------------------------------------------------------
Stages == {"idle", "waiting", "ping", "connect", "query", "get_row", "flush", "commit", "over"}

\* Every variable has its type.
TypeOK ==
  /\ stage \in [Calls -> Stages]
  /\ key \in [Sets -> Keys \cup {None}]
  /\ held \in SUBSET Calls
  /\ kept \in 0..PoolSize
  /\ holder \in [Keys -> Sets \cup {None}]
  /\ answering \in BOOLEAN

\* The engine never has more connections than its limit, and a call that is
\* over has given back its connection and the row it wrote, however it ended.
NothingLeaks ==
  /\ Cardinality(held) + kept <= PoolSize + Overflow
  /\ held = {c \in Calls : stage[c] \notin {"idle", "waiting", "over"}}
  /\ \A k \in Keys : holder[k] # None => holder[k] \in held /\ key[holder[k]] = k

\* "an exhausted pool cannot stall a worker": whoever waits for a connection,
\* from the pool or from a server that hangs, stops waiting.
WaitersGiveUp ==
  TimersRunOut =>
    \A c \in Calls : stage[c] \in {"waiting", "connect"} ~> stage[c] \notin {"waiting", "connect"}

CallEnds(c) == stage[c] = "waiting" ~> stage[c] = "over"

\* While the server answers, every call ends even if no timer ever runs out: no
\* call asks for a second connection while it holds one, so however small the
\* pool, the set whose row others wait for has what it needs to commit.
EndsWithoutTimers == []answering => \A c \in Calls : CallEnds(c)

\* "a hung server cannot stall a worker": with the timers, every call ends
\* whatever the server does.
EndsOnHungServer == TimersRunOut => \A c \in Calls : CallEnds(c)
=============================================================================
