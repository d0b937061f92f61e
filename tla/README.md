# Verification of the FastAPI feature-flag template

TLA+ models of the service under `src/src/app`, model-checked with TLC, and
proofs about the core of it checked with TLAPS. Paths below are relative to
`src/src/app` unless they start with `src/`.

## 1. The system

A stateless HTTP service stores tenant-scoped feature flags in PostgreSQL and
keeps a Redis cache with a time to live in front of the table. Several
processes (pods) share both stores; inside a process one event loop interleaves
all calls at every `await`. There is no lock, no retry and no invalidation
message anywhere: correctness rests on transactions, on the order of the steps
inside `set_flag`, and on the TTL.

### Inventory

| Component | State it keeps | Operations | Interacts with | What makes it correct |
|---|---|---|---|---|
| Feature-flag service (`services/feature_flag`) | none of its own; locals across awaits | `get_flag`, `set_flag`, `_write_cache` | Redis client, PostgreSQL sessions, metrics | answers only committed flags of the key asked; 404 only if the row was missing; ok only if committed; stale entries end |
| Feature-flag metrics (`metrics`) | two counters | `inc` | scraped by `/metrics` | a write counted was persisted |
| Redis client, key (`clients/redis`) | a connection pool | `get_string`, `set_string`, `ping`, `start`, `stop`, `create_redis_key` | Redis | timeouts end waits; keys of different parts differ |
| PostgreSQL client, table (`clients/postgres`) | engine, connection pool | `create_session`, `ping`, `start`, `stop` | PostgreSQL | connections and rows are given back; waits end |
| Routes and caller dependency (`routes`) | contextvars of the task | `get_feature_flag`, `set_feature_flag`, `get_user_details`, probes | service, clients, kubelet | the caller is bound for the call only; an outage takes traffic away and restarts nobody |
| Middlewares, exception handler (`middlewares`) | contextvars, `scope["state"]` | `__call__`, handler | the ASGI stack | every response and line carries its id; security headers |
| HTTP metrics (`prometheus`) | series, `_middleware_installed` | `add_*`, callback | the ASGI stack | each product request counted once |
| Logging (`logger`) | handlers on process-wide loggers | `get_child_logger`, `flush`, hooks, bridges | everything | one structured line for one failure, under the id and caller it belongs to |
| Lifecycle (`lifecycle`, `main`, `state`) | `AppState`, loop handler | `create_app`, `install_process_logging`, `_lifespan` | uvicorn, clients | start and stop in order, whole, whatever raises |
| Configuration (`config`) | immutable | validation, `DSN`, `connect_args` | lifecycle, clients | bad settings fail before anything starts; the driver reads back the credentials configured |
| Installed version (`distribution`) | none | `installed_app_version` | lifecycle, logging | the version is that of the code that runs |
| Migrations (`src/alembic`) | the schema and its revision | upgrade, downgrade | PostgreSQL, other runs | the table is there exactly if its revision is recorded |

### What is hard here

* **Interleavings between awaits.** A get holds a flag from its SELECT while a
  set commits and refreshes; two sets load the same row and each UPDATE only
  the columns it sees changed; two first sets both INSERT; refreshes reach Redis
  in another order than their commits reached PostgreSQL.
* **Partial failure.** Commit succeeds and the cache refresh fails; a SET times
  out and executes later; a COMMIT is in doubt; the process dies in between.
* **Unwinding.** An exception leaves the layers of the ASGI stack one by one, and
  the response and the log line for it are made after most are gone.
* **Limits.** A pool of fifteen connections, shared by calls that wait for rows
  while they hold one; a server that stops answering.
* **Order of start and stop,** when a step of either raises.
* **The pod around the process.** Probes that kubelet gives up on while their
  handlers go on; dependencies that leave and return at any moment; a wedged loop.
* **Runs beside each other.** Two migrations at once, or one killed between the
  DDL and the record of it.

`PROJECT.json` lists each hazard at its line with the properties that cover it.

## 2. Modules

| Module | Models | Composed with |
|---|---|---|
| `FlagStore` | abstract: what a caller may rely on, no cache and no steps | implemented by `FeatureFlagService` |
| `FeatureFlagService` | the service over both stores, several processes, faults | `Store == INSTANCE FlagStore` |
| `MCFeatureFlagService` | instances: which call runs in which process, symmetry | |
| `FeatureFlagServiceProofs` | type correctness, lemmas | extends `FeatureFlagService` |
| `FeatureFlagServiceSafety` | inductive invariant, six safety theorems, the write counter against the table among them | extends the proofs |
| `FlagStoreRefinement` | the service implements `FlagStore` | extends the safety proofs |
| `PostgresPool`, `PostgresPoolProofs` | connections, rows waited for, time limits, a hung server | |
| `LogRecord` | what the processors make of a call of a child logger | extended by `RequestPipeline` |
| `RequestPipeline`, `MCRequestPipeline`, `RequestPipelineProofs` | the ASGI stack around one endpoint, several requests | extends `LogRecord` |
| `Lifecycle` | one process from `main` to exit, with uvicorn | extended by `Pod` |
| `Pod`, `LifecycleProofs` | that process in its pod: probes, restarts, dependencies that come and go | extends `Lifecycle`; a readiness handler is one of its calls |
| `RedisKey` | the key text | justifies `CacheKey` of the service |
| `ConnectionUrl` | the two `DSN`s, read back as the drivers do | the URLs the clients of `Lifecycle` are constructed with |
| `InstalledVersion` | which distribution the version is taken from | a step of `Configure`; stamped by `LogRecord` |
| `Migration` | runs of alembic against one schema | makes the table `FeatureFlagService` starts with |
| `TextProofs` | | extends `RedisKey` and `ConnectionUrl` |
| `DeploymentProofs` | | extends `InstalledVersion` and `Migration` |
| `MCDeployment` | instances of the four small machines, each by itself | |

Each definition that models code has its lines in `PROJECT.json` under `map`. An
operator introduced as a *mutated form* models nothing: it is a plausible bug,
kept beside the definition it would replace, and shows that a property notices.

### FeatureFlagService

State: `rows` is the committed table, `writer` the open transaction that wrote a
row, `cache` Redis with the remaining life of each entry, `late` the SETs whose
caller gave up; `pc`, `key`, `flag`, `loaded`, `status` are the locals of each
call, `reads` and `writes` the counters. `offered`, `absent`, `before`,
`persisted` and `disturbed` are history, read by no guard.

| Code | Actions |
|---|---|
| `get_flag` up to the first await, hit, miss, SELECT, fill | `GetFlag`, `CacheHit`, `CacheMiss`, `LoadRow` / `RowMissing`, `FillCache` |
| `set_flag` up to the first await, `session.get`, flush, commit, refresh and count | `SetFlag`, `GetRow`, `Flush` / `DuplicateKey`, `Commit`, `RefreshCache` |
| failures of a store in any step, death of a process | `RedisFails`, `PostgresFails`, `Crash` |
| what the stores do by themselves | `Tick`, `Evict`, `ResolveCommitted`, `ResolveRolledBack`, `LateSet`, `LateSetLost` |

Abstractions: a flag's name and the JSON text are left out (the entry is the
flag); a SET is atomic when it succeeds; the clock has few values; each call is
made once; a connection failure before COMMIT releases the row with the
transaction. PostgreSQL is READ COMMITTED, its default, which the code does not
change. `Flushed` models SQLAlchemy's unit of work: an UPDATE sets only columns
whose value differs from the loaded row, so two overlapping sets can blend.

### PostgresPool

A call is waiting, being handed a pooled connection (pre-ping), opening one, or
in a statement. A connection goes back to the pool on every way out of its
context manager. `Timers` are `POOL_TIMEOUT_SECONDS`, `CONNECT_TIMEOUT_SECONDS`
and `STATEMENT_TIMEOUT_MS`; the last is enforced by the server, hence only by
one that answers. It strikes statements, not the pre-ping nor the COMMIT; a
duplicate key and a lost connection are endings of `FeatureFlagService`, and left
out here.

### LogRecord and RequestPipeline

A line is a function from names to values. `Line` is the processor chain in its
order: the logger's own `context` under the call's arguments, then the names the
context binds where the record has none, then what the process says of itself
over everything, then the level, the exception and the renaming of `event`.
uvicorn's records come in with a numeric level, and a record below the minimum
is dropped before any of that.

`at` is the innermost layer entered and `mode` whether the request is going in,
returning or raising. A response made inside all the layers (`FromEndpoint`) is
stamped on its way out; one made by the exception handler (`FromServerError`) only by
the handler. Route errors are answered inside the stack, after the caller
dependency is closed. A failed readiness ping is logged as an error by its client,
in the task of the request, and then answered 503 (`NotReady`), the only error line
of such a request. Other exceptions unwind to the outermost layer, and the
handler there logs with the id kept in the scope. A task starts with nothing
bound. Access lines are modelled enabled, the default. The service's own info lines
(`cache.hit`, `cache.miss`, `missing`, `written`) are left out, which are written
where the route's line is; the series are kept by exact status, which the
instrumentator may group.

### Lifecycle and Pod

`phase` is the next thing `main`, the lifespan or uvicorn does; the construction
and every start, stop and flush may raise, the port may be taken, the process may
be killed. `records` says which hook a failure reached: the interpreter's own,
`sys.excepthook`, uvicorn's bridge or the loop's handler. uvicorn's part (bind,
accept, drain, log what leaves the lifespan) is external.

`Pod` adds what the probe routes are written for. A readiness handler is a call
of `Lifecycle` at one of three awaits: the PING, the checkout of a connection,
the `SELECT 1`. `lent` counts the connections such handlers hold. kubelet stops
waiting (`GiveUp`) and the handler goes on; it kills on a failed liveness probe
or after the grace period, and restarts what ended. Each `up[c]` changes at any
step, and PostgreSQL may hang, which no time limit of the client ends. A step of
`Lifecycle` happens under the condition the pod puts on it (a start succeeds only
if its dependency is up), and every step of the pod other than a restart is a
step of `Lifecycle` or none: `PodStepsTheProcess` proves it.

### ConnectionUrl, InstalledVersion, Migration

`ConnectionUrl` writes credentials into a URL and reads it back by the rule of
the generic URL syntax: the authority ends at the first of `/ ? #`, the userinfo
at its last `@`, the user at the first colon. That pydantic's `build` escapes
nothing is taken from the docstrings of `DSN`; an escape of separators alone would
change nothing after `quote`, an escape of `%` would. `InstalledVersion` is the two
nested loops over distributions and their files, as a state machine; a name
the catalog maps the import to is taken to have a version.

`Migration` has the transaction of each run: DDL takes the lock of the object it
changes until commit or rollback, so a second run waits and then finds what the
first has left. A run that is killed is rolled back, unless its COMMIT was
already on its way; the job runs it again. Only the presence of the table and of
the row of its revision is kept.

## 3. Runs

| Run | Question | Result |
|---|---|---|
| `FFSSafety` | a read and two writes, two tenants sharing a name, two processes, all faults: are cache, answers and counters honest, does what was committed last, and does the service implement `FlagStore`? | holds |
| `FFSLive` | does every call end, does staleness end? | holds |
| `PoolLimits` | nothing leaks, nobody waits for a connection for ever, and calls end even without timers | holds |
| `Pipeline` | ids, the one error line of a failure (a 500 or a failed readiness ping), attribution of lines, contexts and counts of two requests | holds |
| `Lifecycle` | the process in its pod: are startup and teardown ordered and whole whatever raises, does an outage restart nobody, does traffic leave and return, does a deleted pod stop? | holds |
| `Deployment` | do keys differ, do credentials survive the URL, is the version the right one, is the schema whole and do migrations end? | holds |
| `FFSStored` | "The flag as stored" is what `set_flag` answers | refuted |
| `FFSNextRead` | "A write is visible to the next read" | refuted |
| `FFSCounted` | every persisted set is counted | refuted |
| `FFSCreate` | creating a flag fails only by a fault | refuted |
| `PoolHang` | "a hung server cannot stall a worker" | refuted |
| `PipelineSecured` | security headers "on every HTTP response" | refuted |

Each refuted sentence is quoted, with what the code does instead, under
`findings`. The most consequential is `FFSStored`: of two overlapping sets the
later one may be acknowledged and yet not change the stored value, because it
had loaded that very value before the earlier one committed.

Four smaller disagreements came up on the way and have no run of their own.
`updated_at` is read before the transaction, so of two overlapping sets the one
that commits last may carry the earlier time. The access line of an unhandled
exception's 500 has no `correlation_id`, for the reason `PipelineSecured` shows.
`installed_app_version` documents `PackageNotFoundError` only, and a `.pth` of any
distribution that is not UTF-8 makes it raise `UnicodeDecodeError`, which its
`except OSError` lets through, and `main` ends (`DecodeFails`).
A `stop()` that raises is logged by uvicorn, as `logger/README.md` says, and not
in context asyncio, as the docstring of `_lifespan` suggests.

### Bounds and why they are enough

* Two sets and one or two gets of one key: each race above involves at most a
  get and two sets. `FFSSafety` has two tenants sharing a name, the case in
  which a leak between keys would show; with one clock value and one user there
  the value alone tells two sets apart. (With two instants it takes over five
  minutes and holds as well.) `FFSStored` has two users.
* `CacheTtl` 1 or 2, `MaxClock` 0 or 1: expiry is a tick that may fall anywhere
  between two steps, whatever the clock shows. A larger TTL only makes the same
  stale entries live longer. In `FFSLive` a TTL of 2 distinguishes an
  entry that is ageing from a new one.
* `Faults` lists which kinds a run admits; each may strike at every step.
* `PoolSize` 1 and `Overflow` 1, with more calls than connections: a kept
  connection, an overflow connection, and a wait.
* `Pipeline`: two requests and two inbound ids suffice for the precedence of the
  headers and for shared counters, and two callers for a line to name the wrong
  one. `RedisKey`: two parts, as the service uses,
  of up to two blocks of colons and digits, with lengths up to 18.
* `Lifecycle`: one ordinary call, two readiness handlers and one connection, so
  that a forgotten handler can hold the only connection against the next probe;
  each of the mishaps (configuration, construction, port, wedge, memory) at most
  once, and outages, deletion and restarts without a bound.
* `ConnectionUrl`: user names of up to two and passwords of up to three of the six
  separators and the two digits of `%40`, so that an escape can occur in a
  password before it is encoded. `InstalledVersion`: two distributions of two
  files. `Migration`: two upgrades, a downgrade, three kills, slow statements.
* Symmetry (users, tenants, requests, ids, calls of a kind) is used in safety runs
  only.

Deadlock is not checked: every model has calls made once and then stops, or a
process that exits for good.

### Fairness

* `FeatureFlagService`: a call that can take its next step does (tasks of a loop
  are all scheduled), a store settles what it was left with, and time passes.
  Redis commands are bounded by `socket_timeout` and statements by
  `statement_timeout`, so with a server that answers a step always ends; what
  happens with one that does not is the subject of `PoolHang`.
* `PostgresPool`: every task is scheduled, and a server that answers does so; it
  is under no obligation once it hangs. That running timers run out is a premise
  of the properties that need it (`TimersRunOut`), not of the specification.
* `Pod`: a loop that is not wedged takes its steps; kubelet goes on probing, giving
  up, killing and restarting; a call other than a probe ends unless PostgreSQL
  hangs; a deleted pod is sent its signal. Nothing has to fail, come back or be
  deleted, and no kill after the grace period is assumed. What the outage must
  have the grace to do (stay, or end) is the premise of each property.
* `Migration`: a run that can take its next step does, and the deployment's job
  runs one again that failed.

## 4. Proofs

TLAPS checks, for every value of the constants satisfying the named
assumptions (TTL at least one, a clock bound, gets and sets disjoint, sentinels
distinct from data, probes among the calls, upgrades and downgrades disjoint; a
key's parts are texts; host and database hold no character that would end them):

| Theorem | Establishes |
|---|---|
| `TypeCorrect` | `Spec => []TypeOK` of the service |
| `SafetyInvariant` | `Spec => []SafetyInv` |
| `CacheIsCommitted` | `Spec => []CachedWasCommitted` |
| `NotFoundIsHonest` | `Spec => []NotFoundWasAbsent` |
| `OkIsPersisted` | `Spec => []AcknowledgedIsPersisted` |
| `CoherentUnlessDisturbed` | `Spec => []UndisturbedCoherence` |
| `CurrentUnlessDisturbed` | the action property `UndisturbedReadIsCurrent` |
| `WritesAreNeverOvercounted` | `Spec => []WritesNeverOvercount` |
| `ServiceIsAFlagStore` | `Spec => ImplementsFlagStore` |
| `PoolTypeCorrect`, `PoolNeverLeaks` | `TypeOK` and `NothingLeaks` of the pool |
| `ResponsesCarryTheirId`, `EveryLineIsAttributed`, `FailuresAreLoggedOnce`, `ContextsAreReset`, `RequestsAreCountedOnce` | five invariants of the pipeline |
| `CallsAreServed`, `TeardownAlwaysCompletes`, `HandlerAlwaysCovers` | the process, in every container its pod ever has |
| `OutagesRestartNobody`, `PodTypeCorrect` | the pod |
| `SchemaIsWhole`, `UpgradesMigrate` | the schema under any runs and kills |
| `VersionIsItsOwn` | `VersionSpec => []VersionIsOfThisCode`, for any catalog |
| `KeyTellsParts` | `KeyOf` is injective on all lists of texts |
| `KeysNeverCollide` | `KeySpec => []KeysDiffer` |
| `UnquoteQuote` | `Unquote(Quote(t)) = t`, for every text |
| `CredentialsReachTheDriver` | `UrlSpec => []CredentialsSurvive` |

**The service.** None of the properties is inductive. `SafetyInv` adds, in four
parts:

* `Committed`: whatever may yet be written to Redis was committed for that
  key - the flag a get carries to its fill, the flag a set carries to its
  refresh, and every late SET - as is every committed row and every entry.
* `Answers`: a set past its commit is in `persisted`, and a get that started on
  a key with rows never sees the key empty, since rows are never deleted.
* `Lasting`: one transaction is committed at most once, and each column of a
  committed set's row was written by that set or by one of the key that committed
  since it began, which is what `AcknowledgedIsPersisted` says. To be inductive it
  speaks of sets about to commit too: the UPDATE leaves out the columns that the
  row, as loaded, had already as wanted, and each of those is still as loaded or
  was written by another set in the meantime.
* `Undisturbed`: on a key where no set has overlapped another call and none
  failed mid-write, at most one call is open when one of them is a set
  (`Alone`), what a get carries is the row (`Current`), and the cache agrees
  with the row except while that one set is between commit and refresh
  (`Coherent`).

Each part has its own theorem of preservation, with one step per action;
`CacheKeyInjective` is what keeps one key's writes out of another's entry.
`FeatureFlagServiceProofs` has the type invariant with the range of `key`, `flag`
and `loaded` at each `pc`, which the rest relies on. `Counted` bounds the counter
of a process by the sets of it that were acknowledged, which a crash can only
lower.

The refinement maps a call that is open to one the store owes an answer, and
shows action by action that a step of the code is a call, an offer (the COMMIT),
an answer, or nothing to the caller (`Unseen`, `Answered`); `SafetyInv` supplies
what an answer needs, that the flag was offered or the row was absent.

**The pool.** `NothingLeaks` counts; it is inductive once the connections in use
are known to be a finite set and the writer of a row to be at its commit.

**The pipeline.** The invariant gives, for each request, what the layers it is
inside of have bound (`Context`), which lines it can have written by then
(`Written`), and where the one error line of a failure is (`Found`). A step of
one request leaves the others' parts alone (`OneRequest`), so that one lemma per
kind of step (`Quiet`, `Logs`) covers most actions.

`Tally` relates the counters to the requests: a series is the cardinality of the
set of requests that have passed the counting layer on that route with that status
(`CountedUnder`), and `inbound` that of those that have passed it and brought an id
(`WithInbound`). The step that counts adds one element to each set the request
belongs in, and every other step leaves all of them as they are.

**The process and its pod.** `ProcessInv` says what each phase implies of the
clients, of the teardown, of the handler and of the traffic; the teardown steps
need that `Append` builds the sequences named. A restart is the one step that is
not a step of `Lifecycle`, and it leads to a state like `Init`. `PodInv` counts:
the connections lent are as many as there are handlers at their `SELECT 1`.

**Migrations.** A transaction that is open has changed the table first, so two
cannot be open at once (`Alone`), and each has changed nothing, the table, or
both (`Opened`).

**The version.** `SearchInv` says what the two loops have seen by now: no
distribution before the current one, and no file before the current one, points at
the source tree. Both loops only move forward, so what is found is the first.

**Texts.** The two operators at stake, `Decimal` and the loop inside `Unquote`,
are recursive functions, and `FlattenSeq`, on which `Join` and `Quote` rest, is one
inside the library. Two kinds of lemma make them usable. A recursive function is a
CHOOSE of a function that satisfies an equation; that there is one is proved by
extending it value by value (`FlatExists`, `UpwardsExists`, and from the right end
`ReadingIs`). Induction is over a *set* of naturals, those for which a claim is
true (`SetInduction`, `StrongInduction`, from the well-foundedness of `<`), since a
predicate cannot be passed to the library's induction theorems.

`KeyTellsParts` goes from left to right. A key extends the keys of its first parts
(`KeyExtends`). If two keys are equal and their first *n* parts are, the next
lengths start at the same place, and neither can end inside the other, where there
is a digit and not a colon (`LengthsEnd`); so they are the same digits, hence the
same length (`DecimalsDiffer`), hence the same part (`SamePart`). One list cannot
have parts left over, which would make its key longer. The colons and digits inside
a part are never looked at, which is the point of the lengths.

`UnquoteQuote` goes from right to left, as the loop does: what is read at the
escape of character *k* is that character and what is read at the next one.
`CredentialsReachTheDriver` then needs that quoted text has no separator
(`EscapeType`): the first `/`, `?` or `#` is the one after the host (`Parts`), the
last `@` ends the userinfo (`LastAt`), the first colon in it ends the user
(`ColonEnds`).

Only model-checked: liveness (`EveryCallReturns`, `CacheConverges`,
`WaitersGiveUp`, `EndsWithoutTimers`, `WedgedIsReplaced`, `TrafficIsWithdrawn`,
`TrafficReturns`, `StopsWhenTold`, `MigrationsEnd`), which is out of the prover's
reach. Every invariant and every other action property of the passing runs is a
theorem; the refuted ones are false.

## 5. Not modelled

* Timestamps, stack info and the JSON text of a line; OpenAPI; gzip; header texts;
  request validation beyond its being rejected.
* The individual rules by which `AppConfig` is validated: they are pure, and their
  only effect, that `main` ends before anything is installed, is `ConfigureFails`.
* Hosts and database names with a separator in them: they are written into a `DSN`
  as configured, and the theorem assumes they have none (`PlainAssumption`).
  Characters that `quote` escapes and that separate nothing, such as a space, are
  left as they are.
* The registration protocol of `PrometheusManager`: two guards over one flag, used
  in one fixed order by `LifecycleManager`; latency series; the scrape.
* `state/app_state_getters.py`, which only read what `create_app` attached.
* Offline migrations, which print SQL and touch nothing; tests, Docker, CI files.
* Deletion of flags: the service has none, and nobody else is assumed to.
* Contexts inherited between tasks: each request's task is assumed to start with
  nothing bound, which is up to uvicorn.

## 6. Plan

Done, in this order: `FlagStore` and `FeatureFlagService` with their proofs,
`Lifecycle`, `RequestPipeline`, `PostgresPool`, `RedisKey`; then the refinement
and the counter of the service as theorems, `Pod` over `Lifecycle`, `LogRecord`
under `RequestPipeline`, `ConnectionUrl`, `InstalledVersion` and `Migration`, and
the proofs of all of these but the liveness. What a next step could add:

1. Readiness and ordinary calls over one pool: `Pod` counts only the connections
   of readiness handlers, `PostgresPool` only those of one process that never
   restarts.
2. A rolling upgrade: two versions of the service against a schema that a second
   revision changes, once the repository has a second revision.
3. What the liveness properties rest on, as far as it is a matter of safety: that
   every step of a call brings it nearer to its end.
