------------------------------ MODULE Lifecycle ------------------------------
(***************************************************************************)
(* One process from main() to its exit: configuration, the process-wide    *)
(* logging hooks, construction, the lifespan that opens and closes the two *)
(* clients, and uvicorn around it, which serves calls only between the two *)
(* halves of the lifespan and waits for the open ones before the second.   *)
(***************************************************************************)
EXTENDS Naturals, Sequences, FiniteSets

CONSTANTS
  Calls     \* the HTTP calls this process may have open at once

Clients == {"redis", "postgres"}

\* The phases in which each client is started and stopped.
Starting == [redis |-> "start redis", postgres |-> "start postgres"]
Stopping == [redis |-> "stop redis", postgres |-> "stop postgres"]

VARIABLES
  phase,      \* the next thing main, the lifespan or uvicorn does
  pool,       \* pool[c]: "none", "constructed", "open" or "stopped"
  hooked,     \* sys.excepthook and the uvicorn bridges are installed
  handler,    \* the loop's exception handler: "previous" or "app"
  accepting,  \* the socket is bound and uvicorn was not told to stop
  open,       \* calls being served
  torn,       \* what the teardown has attempted, in order
  raising,    \* the exception under way: "none" or what raised it
  records     \* where failures were logged, as <<what, context>>

resources == <<pool, torn>>
logging   == <<hooked, handler, records>>
traffic   == <<accepting, open>>
vars      == <<phase, resources, logging, traffic, raising>>

\* Where a failure that reaches uvicorn ends up: its error logger, bridged to
\* JSON once install_process_logging has run.
UvicornContext == IF hooked THEN "uvicorn" ELSE "stderr"

Init ==
  /\ phase = "configure"
  /\ pool = [c \in Clients |-> "none"]
  /\ hooked = FALSE
  /\ handler = "previous"
  /\ accepting = FALSE
  /\ open = {}
  /\ torn = <<>>
  /\ raising = "none"
  /\ records = {}

-----------------------------------------------------------------------------
(* main *)

\* AppConfig() and LifecycleManager(...): the configuration is validated and
\* the installed version looked up before anything is installed.
Configure ==
  /\ phase = "configure"
  /\ phase' = "install"
  /\ UNCHANGED <<resources, logging, traffic, raising>>

\* Either raises: the interpreter's own hook prints it.
ConfigureFails ==
  /\ phase = "configure"
  /\ phase' = "exited"
  /\ raising' = "configure"
  /\ records' = records \cup {<<"configure", "stderr">>}
  /\ UNCHANGED <<resources, hooked, handler, traffic>>

InstallProcessLogging ==
  /\ phase = "install"
  /\ phase' = "create"
  /\ hooked' = TRUE
  /\ UNCHANGED <<resources, handler, records, traffic, raising>>

\* The clients of the AppState that are constructed, Redis before PostgreSQL.
BuildAppState(built) ==
  pool' = [c \in Clients |-> IF c \in built THEN "constructed" ELSE "none"]

\* Mutated form of CreateApp: only one of the two clients is constructed.
CreateAppOneClient ==
  /\ phase = "create"
  /\ phase' = "lifespan"
  /\ pool' = [c \in {"postgres"} |-> "constructed"]
  /\ UNCHANGED <<torn, logging, traffic, raising>>

\* create_app: both clients are constructed, neither connected.
CreateApp ==
  /\ phase = "create"
  /\ phase' = "lifespan"
  /\ BuildAppState(Clients)
  /\ UNCHANGED <<torn, logging, traffic, raising>>

\* An exception of it leaves main, and is left to whatever sys.excepthook is.
CreateAppFails ==
  /\ phase = "create"
  /\ phase' = "exited"
  /\ \E built \in {{}, {"redis"}, Clients} : BuildAppState(built)
  /\ raising' = "create"
  /\ records' = records \cup {<<"create", IF hooked THEN "sys.excepthook" ELSE "stderr">>}
  /\ UNCHANGED <<torn, hooked, handler, traffic>>

-----------------------------------------------------------------------------
(* _lifespan, first half *)

EnterLifespan ==
  /\ phase = "lifespan"
  /\ phase' = "start redis"
  /\ handler' = "app"
  /\ UNCHANGED <<resources, hooked, records, traffic, raising>>

Start(c, following) ==
  /\ phase = Starting[c]
  /\ pool' = [pool EXCEPT ![c] = "open"]
  /\ phase' = following
  /\ UNCHANGED <<torn, logging, traffic, raising>>

\* A ping that fails: the connection may or may not have been made.  The inner
\* try has not been entered, so nothing is torn down.
StartFails(c) ==
  /\ phase = Starting[c]
  /\ \E state \in {"constructed", "open"} : pool' = [pool EXCEPT ![c] = state]
  /\ phase' = "restore"
  /\ raising' = "start"
  /\ UNCHANGED <<torn, logging, traffic>>

-----------------------------------------------------------------------------
(* uvicorn *)

Bind ==
  /\ phase = "bind"
  /\ phase' = "serve"
  /\ accepting' = TRUE
  /\ UNCHANGED <<resources, logging, open, raising>>

\* The port is taken: uvicorn logs it and runs the lifespan's second half.
BindFails ==
  /\ phase = "bind"
  /\ phase' = "stop postgres"
  /\ records' = records \cup {<<"bind", UvicornContext>>}
  /\ UNCHANGED <<resources, hooked, handler, traffic, raising>>

Accept(call) ==
  /\ accepting
  /\ call \notin open
  /\ open' = open \cup {call}
  /\ UNCHANGED <<phase, resources, logging, accepting, raising>>

Answer(call) ==
  /\ call \in open
  /\ open' = open \ {call}
  /\ UNCHANGED <<phase, resources, logging, accepting, raising>>

\* Mutated form of StopSignal: the socket stays open while calls drain.
StopSignalListening ==
  /\ phase = "serve"
  /\ phase' = "drain"
  /\ UNCHANGED <<resources, logging, traffic, raising>>

\* SIGTERM or the first SIGINT.
StopSignal ==
  /\ phase = "serve"
  /\ phase' = "drain"
  /\ accepting' = FALSE
  /\ UNCHANGED <<resources, logging, open, raising>>

\* Mutated form of Drained: the lifespan ends while calls are open.
DrainedAtOnce ==
  /\ phase = "drain"
  /\ phase' = "stop postgres"
  /\ UNCHANGED <<resources, logging, traffic, raising>>

\* uvicorn.run is given no graceful-shutdown timeout: it waits for every open
\* call, however long.
Drained ==
  /\ phase = "drain"
  /\ open = {}
  /\ phase' = "stop postgres"
  /\ UNCHANGED <<resources, logging, traffic, raising>>

\* SIGKILL, or the end of the pod's grace period.
Kill ==
  /\ phase \notin {"exited", "killed"}
  /\ phase' = "killed"
  /\ accepting' = FALSE
  /\ open' = {}
  /\ UNCHANGED <<resources, logging, raising>>

\* A task nobody awaits fails: the loop calls its exception handler.
TaskFails ==
  /\ phase \in {"start redis", "start postgres", "bind", "serve", "drain",
                "stop postgres", "stop redis", "flush", "restore"}
  /\ records' = records \cup {<<"task", IF handler = "app" THEN "asyncio" ELSE "stderr">>}
  /\ UNCHANGED <<phase, resources, hooked, handler, traffic, raising>>

-----------------------------------------------------------------------------
(* _lifespan, second half: the nested finally blocks of the teardown *)

\* Mutated form of Stop: a stop that raises skips what is left of the teardown.
StopOrSkip(c, following) ==
  /\ phase = Stopping[c]
  /\ pool' = [pool EXCEPT ![c] = "stopped"]
  /\ torn' = Append(torn, c)
  /\ \/ phase' = following /\ UNCHANGED raising
     \/ phase' = "restore" /\ raising' = "stop"
  /\ UNCHANGED <<logging, traffic>>

\* Each stop is tried once, and the next one follows whether it raises or not.
Stop(c, following) ==
  /\ phase = Stopping[c]
  /\ pool' = [pool EXCEPT ![c] = "stopped"]
  /\ torn' = Append(torn, c)
  /\ phase' = following
  /\ UNCHANGED raising \/ raising' = "stop"
  /\ UNCHANGED <<logging, traffic>>

Flush ==
  /\ phase = "flush"
  /\ torn' = Append(torn, "flush")
  /\ phase' = "restore"
  /\ UNCHANGED raising \/ raising' = "flush"
  /\ UNCHANGED <<pool, logging, traffic>>

\* Mutated form of Restore: the handler is put back only if nothing was raised.
RestoreIfClean ==
  /\ phase = "restore"
  /\ handler' = IF raising = "none" THEN "previous" ELSE handler
  /\ records' = IF raising = "none" THEN records
                ELSE records \cup {<<raising, UvicornContext>>}
  /\ phase' = "exited"
  /\ UNCHANGED <<resources, hooked, traffic, raising>>

\* The outer finally; what is raised out of the lifespan is caught and logged
\* by uvicorn.
Restore ==
  /\ phase = "restore"
  /\ handler' = "previous"
  /\ records' = IF raising = "none" THEN records
                ELSE records \cup {<<raising, UvicornContext>>}
  /\ phase' = "exited"
  /\ UNCHANGED <<resources, hooked, traffic, raising>>

-----------------------------------------------------------------------------
Main == Configure \/ ConfigureFails \/ InstallProcessLogging
        \/ CreateApp \/ CreateAppFails

Startup ==
  \/ EnterLifespan
  \/ Start("redis", "start postgres") \/ Start("postgres", "bind")
  \/ \E c \in Clients : StartFails(c)
  \/ Bind \/ BindFails

Teardown ==
  \/ Drained
  \/ Stop("postgres", "stop redis") \/ Stop("redis", "flush")
  \/ Flush
  \/ Restore

Next ==
  \/ Main \/ Startup \/ Teardown
  \/ \E call \in Calls : Accept(call) \/ Answer(call)
  \/ StopSignal \/ TaskFails \/ Kill

Spec == Init /\ [][Next]_vars

-----------------------------------------------------------------------------
Phases == {"configure", "install", "create", "lifespan", "start redis", "start postgres",
           "bind", "serve", "drain", "stop postgres", "stop redis", "flush", "restore",
           "exited", "killed"}
PoolStates == {"none", "constructed", "open", "stopped"}
Failures == {"none", "configure", "create", "bind", "task", "start", "stop", "flush"}
Contexts == {"stderr", "sys.excepthook", "uvicorn", "asyncio"}

\* Every variable has its type.
TypeOK ==
  /\ phase \in Phases
  /\ pool \in [Clients -> PoolStates]
  /\ hooked \in BOOLEAN
  /\ handler \in {"previous", "app"}
  /\ accepting \in BOOLEAN
  /\ open \in SUBSET Calls
  /\ torn \in Seq(Clients \cup {"flush"})
  /\ raising \in Failures
  /\ records \in SUBSET (Failures \X Contexts)

\* A call finds both clients started and not yet stopped: "a resource is closed
\* only once everything that might still call it is gone".
CallsFindOpenClients ==
  open # {} => \A c \in Clients : pool[c] = "open"

\* Once startup is complete, every way out of the lifespan attempts the whole
\* teardown in its order, whichever step of it raises: PostgreSQL, Redis, and
\* the log flush after both.
TeardownIsComplete ==
  /\ torn \in {<<>>, <<"postgres">>, <<"postgres", "redis">>, <<"postgres", "redis", "flush">>}
  /\ phase = "exited" /\ pool["postgres"] # "none" /\ raising \notin {"create", "start"} =>
       Len(torn) = 3

\* The loop is left with the handler it had; and once the configuration is read
\* no failure, of main, of the port, of the lifespan or of a task that runs while
\* a client is open or being stopped, escapes the structured log.
HandlerCoversClients ==
  /\ phase = "exited" => handler = "previous"
  /\ \A what \in Failures \ {"configure"} : <<what, "stderr">> \notin records
=============================================================================
