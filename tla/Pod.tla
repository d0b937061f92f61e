--------------------------------- MODULE Pod ---------------------------------
(***************************************************************************)
(* The process of Lifecycle in its pod: kubelet restarts it when it ends,  *)
(* asks /livez and /readyz while it serves, and the two dependencies go    *)
(* and come back.  A readiness handler is a call like any other: shutdown  *)
(* waits for it, and it works on after kubelet has stopped waiting.        *)
(*                                                                         *)
(* kubelet (one failed probe is enough, in both directions) and the health *)
(* of the dependencies stand for what the probe routes are written for.    *)
(***************************************************************************)
EXTENDS Lifecycle

CONSTANTS
  Probes,       \* the calls among Calls that are GET /readyz
  Connections,  \* PostgreSQL connections the engine may have open
  Mishaps,      \* which of "configure", "create", "bind", "wedge", "kill" may happen, each once
  None          \* kubelet waits for no probe

ASSUME ProbesAssumption == Probes \subseteq Calls /\ None \notin Probes
ASSUME ConnectionsAssumption == Connections \in Nat \ {0}

VARIABLES
  up,        \* up[c]: "up", "down" (it refuses) or, PostgreSQL only, "hung"
  stage,     \* stage[p]: the await a readiness handler is at, "none" when not open
  lent,      \* PostgreSQL connections the readiness handlers hold
  asked,     \* the readiness probe kubelet waits for
  ready,     \* the Service routes traffic to the pod
  wedged,    \* the event loop will never schedule anything again
  deleted,   \* the pod is being deleted
  struck     \* the mishaps that happened

process  == vars
readyz   == <<stage, lent, asked, ready>>
fate     == <<wedged, deleted, struck>>
podvars  == <<process, up, readyz, fate>>

\* COMMAND_TIMEOUT_SECONDS turns a Redis that hangs into one that refuses; no
\* time limit of the client does that for PostgreSQL (PostgresPool).
Health == [redis |-> {"up", "down"}, postgres |-> {"up", "down", "hung"}]
AllUp  == \A c \in Clients : up[c] = "up"

PodInit ==
  /\ Init
  /\ up \in [Clients -> {"up", "down"}]
  /\ stage = [p \in Probes |-> "none"]
  /\ lent = 0
  /\ asked = None
  /\ ready = FALSE
  /\ wedged = FALSE
  /\ deleted = FALSE
  /\ struck = {}

-----------------------------------------------------------------------------
(* Readiness: readiness_probe, RedisClient.ping, PostgresClient.ping *)

AskReadiness(p) ==
  /\ asked = None
  /\ ~wedged
  /\ Accept(p)
  /\ asked' = p
  /\ stage' = [stage EXCEPT ![p] = "redis"]
  /\ UNCHANGED <<up, lent, ready, fate>>

GoOn(p, next) ==
  /\ stage' = [stage EXCEPT ![p] = next]
  /\ UNCHANGED <<process, up, asked, ready, fate>>

\* The handler answers; kubelet hears it if it still waits.
Reply(p, healthy) ==
  /\ Answer(p)
  /\ stage' = [stage EXCEPT ![p] = "none"]
  /\ IF asked = p THEN asked' = None /\ ready' = healthy ELSE UNCHANGED <<asked, ready>>
  /\ UNCHANGED <<up, fate>>

\* Mutated form of PingRedis: the probe is content with Redis.
PingRedisOnly(p) ==
  /\ stage[p] = "redis"
  /\ ~wedged
  /\ Reply(p, up["redis"] = "up")
  /\ UNCHANGED lent

\* A PONG leads to PostgreSQL; any exception is the 503 that names Redis.
PingRedis(p) ==
  /\ stage[p] = "redis"
  /\ ~wedged
  /\ UNCHANGED lent
  /\ \/ up["redis"] = "up" /\ GoOn(p, "checkout")
     \/ up["redis"] # "up" /\ Reply(p, FALSE)

\* engine.connect(): a connection, or the 503 of POOL_TIMEOUT_SECONDS.
CheckOut(p) ==
  /\ stage[p] = "checkout"
  /\ ~wedged
  /\ \/ lent < Connections /\ lent' = lent + 1 /\ GoOn(p, "select")
     \/ lent = Connections /\ UNCHANGED lent /\ Reply(p, FALSE)

\* Mutated form of PingPostgres: the exception leaves the connection checked out.
PingPostgresLeaky(p) ==
  /\ stage[p] = "select"
  /\ ~wedged
  /\ up["postgres"] # "hung"
  /\ lent' = IF up["postgres"] = "up" THEN lent - 1 ELSE lent
  /\ Reply(p, up["postgres"] = "up")

\* SELECT 1, its answer or its refusal; either way the connection goes back.
\* A server that hangs after the connection was made is waited for.
PingPostgres(p) ==
  /\ stage[p] = "select"
  /\ ~wedged
  /\ up["postgres"] # "hung"
  /\ lent' = lent - 1
  /\ Reply(p, up["postgres"] = "up")

\* kubelet's timeoutSeconds, long to a loop and to dependencies that answer;
\* whatever the handler waits for, it goes on waiting.
GiveUp ==
  /\ asked # None
  /\ wedged \/ ~AllUp
  /\ asked' = None
  /\ ready' = FALSE
  /\ UNCHANGED <<process, up, stage, lent, fate>>

-----------------------------------------------------------------------------
(* Liveness and the end of the container *)

\* Mutated form of Lives: the probe pings what the service depends on.
LivesWithDependencies == ~wedged /\ AllUp

\* Mutated form of Lives: the probe is answered off the event loop.
LivesOffLoop == TRUE

\* liveness_probe awaits nothing: it answers whenever the loop runs.
Lives == ~wedged

Die ==
  /\ Kill
  /\ stage' = [p \in Probes |-> "none"]
  /\ lent' = 0
  /\ asked' = None
  /\ ready' = FALSE
  /\ UNCHANGED <<up, wedged, deleted>>

LivenessKill == phase = "serve" /\ ~Lives /\ Die /\ UNCHANGED struck

GraceEnds == deleted /\ Die /\ UNCHANGED struck

Strike(mishap) == mishap \in Mishaps \ struck /\ struck' = struck \cup {mishap}

OutOfMemory == Strike("kill") /\ Die

\* A new container: everything Init says of a process, and nothing else anew.
Restart ==
  /\ phase \in {"exited", "killed"}
  /\ ~deleted
  /\ phase' = "configure"
  /\ pool' = [c \in Clients |-> "none"] /\ torn' = <<>>
  /\ hooked' = FALSE /\ handler' = "previous" /\ records' = {}
  /\ accepting' = FALSE /\ open' = {} /\ raising' = "none"
  /\ stage' = [p \in Probes |-> "none"]
  /\ lent' = 0
  /\ asked' = None
  /\ ready' = FALSE
  /\ wedged' = FALSE
  /\ UNCHANGED <<up, deleted, struck>>

-----------------------------------------------------------------------------
(* The world outside the process *)

Flip(c) ==
  /\ \E health \in Health[c] \ {up[c]} : up' = [up EXCEPT ![c] = health]
  /\ UNCHANGED <<process, readyz, fate>>

Wedge ==
  /\ phase = "serve" /\ ~wedged
  /\ Strike("wedge")
  /\ wedged' = TRUE
  /\ UNCHANGED <<process, up, readyz, deleted>>

Delete ==
  /\ ~deleted
  /\ deleted' = TRUE
  /\ UNCHANGED <<process, up, readyz, wedged, struck>>

-----------------------------------------------------------------------------
(* The process's own steps, with what they meet in the pod *)

Undisturbed == ~wedged /\ UNCHANGED <<up, readyz, fate>>

\* PING and SELECT 1 of start(): CONNECT_TIMEOUT_SECONDS ends a connect to a
\* PostgreSQL that hangs.
PodStartup ==
  \/ EnterLifespan /\ Undisturbed
  \/ up["redis"] = "up" /\ Start("redis", "start postgres") /\ Undisturbed
  \/ up["postgres"] = "up" /\ Start("postgres", "bind") /\ Undisturbed
  \/ \E c \in Clients : up[c] # "up" /\ StartFails(c) /\ Undisturbed
  \/ Bind /\ Undisturbed

PodMain == (Configure \/ InstallProcessLogging \/ CreateApp) /\ Undisturbed

PodTeardown == Teardown /\ Undisturbed

PodStop == deleted /\ StopSignal /\ Undisturbed

Mishap ==
  \/ ConfigureFails /\ Strike("configure") /\ UNCHANGED <<up, readyz, wedged, deleted>>
  \/ CreateAppFails /\ Strike("create") /\ UNCHANGED <<up, readyz, wedged, deleted>>
  \/ BindFails /\ Strike("bind") /\ UNCHANGED <<up, readyz, wedged, deleted>>
  \/ OutOfMemory
  \/ Wedge

Serve(call) == ~wedged /\ Answer(call) /\ UNCHANGED <<up, readyz, fate>>

Readyz(p) == PingRedis(p) \/ CheckOut(p) \/ PingPostgres(p)

PodNext ==
  \/ PodMain \/ PodStartup \/ PodTeardown \/ PodStop
  \/ \E call \in Calls \ Probes : (Accept(call) /\ Undisturbed) \/ Serve(call)
  \/ \E p \in Probes : AskReadiness(p) \/ Readyz(p)
  \/ GiveUp \/ LivenessKill \/ GraceEnds \/ Restart
  \/ \E c \in Clients : Flip(c)
  \/ TaskFails /\ Undisturbed
  \/ Delete \/ Mishap

\* The loop schedules what it can, kubelet keeps probing and restarting, and
\* an ordinary call ends unless PostgreSQL hangs.  Nothing has to fail, come
\* back or be deleted.
PodFairness ==
  /\ WF_podvars(PodMain) /\ WF_podvars(PodStartup) /\ WF_podvars(PodTeardown)
  /\ \A call \in Calls \ Probes : WF_podvars(up["postgres"] # "hung" /\ Serve(call))
  /\ \A p \in Probes : WF_podvars(Readyz(p))
  /\ WF_podvars(\E p \in Probes : AskReadiness(p))
  /\ WF_podvars(GiveUp) /\ WF_podvars(LivenessKill)
  /\ WF_podvars(Restart) /\ WF_podvars(PodStop)

PodSpec == PodInit /\ [][PodNext]_podvars
PodFairSpec == PodSpec /\ PodFairness

-----------------------------------------------------------------------------
\* Every variable has its type, and the readiness handlers are open calls.
PodTypeOK ==
  /\ TypeOK
  /\ up \in [Clients -> {"up", "down", "hung"}]
  /\ stage \in [Probes -> {"none", "redis", "checkout", "select"}]
  /\ lent \in 0..Connections
  /\ asked \in Probes \cup {None}
  /\ ready \in BOOLEAN /\ wedged \in BOOLEAN /\ deleted \in BOOLEAN
  /\ struck \in SUBSET Mishaps
  /\ \A p \in Probes : stage[p] # "none" <=> p \in open

\* "Checking dependencies here turns a partial outage into a fleet-wide
\* crash-loop": whatever Redis and PostgreSQL do, a process that serves goes on
\* serving unless it is deleted, wedged or killed from outside.
OutageRestartsNobody ==
  [][phase = "serve" /\ phase' # "serve" => deleted \/ wedged \/ struck' # struck]_podvars

\* "a wedged event loop" is what liveness is for: it does not stay.
WedgedIsReplaced == wedged ~> (~wedged \/ phase = "killed")

\* "Failing readiness removes the pod from the Service endpoints": while a
\* dependency stays away, the pod does not keep its traffic, even where the
\* probe's own handler never answers.
TrafficIsWithdrawn ==
  \A c \in Clients : <>[](up[c] # "up") => <>[](~ready \/ deleted)

\* "traffic ... returns automatically once the dependency recovers": whether
\* the outage hit a serving process, its startup or its probes' connections.
TrafficReturns == <>[]AllUp => <>[]((ready /\ accepting) \/ deleted)

\* A deleted pod's process ends by itself once its open calls, the readiness
\* handlers that kubelet forgot among them, are answered.
StopsWhenTold ==
  <>[](up["postgres"] # "hung" /\ ~wedged) =>
    (phase = "drain" ~> phase \in {"exited", "killed"})
=============================================================================
