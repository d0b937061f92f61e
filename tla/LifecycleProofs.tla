--------------------------- MODULE LifecycleProofs ---------------------------
(* Theorems about the process of Lifecycle, alone and in the pod that *)
(* restarts it, for any calls, probes, connections and mishaps.       *)
EXTENDS Pod, SequenceTheorems, FiniteSetTheorems, TLAPS

BeforeLifespan == {"configure", "install", "create", "lifespan"}
Serving  == {"bind", "serve", "drain", "stop postgres"}
Covered  == {"start redis", "start postgres", "stop redis", "flush", "restore"} \cup Serving

\* The teardown so far: nothing, PostgreSQL, Redis too, the log flush too.
Zero == <<>>
One   == <<"postgres">>
Two   == <<"postgres", "redis">>
All   == <<"postgres", "redis", "flush">>

\* What the phase says of the clients.
ClientsFollowPhase ==
  /\ phase \in {"start redis", "lifespan"} => \A c \in Clients : pool[c] = "constructed"
  /\ phase = "start postgres" => pool["redis"] = "open"
  /\ phase \in Serving => \A c \in Clients : pool[c] = "open"
  /\ phase = "exited" /\ raising = "configure" => \A c \in Clients : pool[c] = "none"
  /\ phase \in {"configure", "install", "create"} => \A c \in Clients : pool[c] = "none"

\* What it says of the teardown: one step of it per phase, none after a failed
\* startup, and all of them on every other way to the end.
TeardownFollowsPhase ==
  /\ torn \in {Zero, One, Two, All}
  /\ phase \in BeforeLifespan \cup {"start redis", "start postgres"} \cup Serving => torn = Zero
  /\ phase = "stop redis" => torn = One
  /\ phase = "flush" => torn = Two
  /\ phase \in {"restore", "exited"} => raising \in {"start", "configure", "create"} \/ torn = All
  /\ raising # "task" /\ (phase = "restore" => raising \notin {"configure", "create"})
  /\ phase \notin {"restore", "exited", "killed"} => raising \notin {"start", "configure", "create"}

\* What it says of the traffic and of the handler.
TrafficFollowsPhase ==
  /\ accepting => phase = "serve"
  /\ open # {} => phase \in {"serve", "drain"}
  /\ phase \in BeforeLifespan => handler = "previous"
  /\ phase \in Covered => handler = "app"
  /\ phase \notin {"configure", "install", "exited", "killed"} => hooked

ProcessInv ==
  /\ TypeOK
  /\ ClientsFollowPhase /\ TeardownFollowsPhase /\ TrafficFollowsPhase
  /\ HandlerCoversClients

LEMMA AppendToOne ==
  ASSUME NEW S, NEW a \in S, NEW b \in S
  PROVE  Append(<<a>>, b) = <<a, b>>
<1>1. /\ <<a>> \in Seq(S) /\ Len(<<a>>) = 1
      /\ <<a, b>> \in Seq(S) /\ Len(<<a, b>>) = 2
  OBVIOUS
<1>2. Append(<<a>>, b) \in Seq(S) /\ Len(Append(<<a>>, b)) = 2
  BY <1>1, AppendProperties
<1>3. \A i \in 1..2 : Append(<<a>>, b)[i] = <<a, b>>[i]
  BY <1>1, AppendProperties
<1> QED BY <1>1, <1>2, <1>3, SeqEqual

LEMMA AppendToTwo ==
  ASSUME NEW S, NEW a \in S, NEW b \in S, NEW c \in S
  PROVE  Append(<<a, b>>, c) = <<a, b, c>>
<1>1. /\ <<a, b>> \in Seq(S) /\ Len(<<a, b>>) = 2
      /\ <<a, b, c>> \in Seq(S) /\ Len(<<a, b, c>>) = 3
  OBVIOUS
<1>2. Append(<<a, b>>, c) \in Seq(S) /\ Len(Append(<<a, b>>, c)) = 3
  BY <1>1, AppendProperties
<1>3. \A i \in 1..3 : Append(<<a, b>>, c)[i] = <<a, b, c>>[i]
  BY <1>1, AppendProperties
<1> QED BY <1>1, <1>2, <1>3, SeqEqual

LEMMA TeardownSteps ==
  /\ Append(Zero, "postgres") = One /\ Append(One, "redis") = Two /\ Append(Two, "flush") = All
  /\ {Zero, One, Two, All} \subseteq Seq(Clients \cup {"flush"})
<1> DEFINE S == Clients \cup {"flush"}
<1>1. "postgres" \in S /\ "redis" \in S /\ "flush" \in S
  BY DEF Clients
<1>2. {Zero, One, Two, All} \subseteq Seq(S)
  BY <1>1 DEF Zero, One, Two, All
<1> HIDE DEF S
<1>3. Append(Zero, "postgres") = One
  BY DEF Zero, One
<1>4. Append(One, "redis") = Two
  BY <1>1, AppendToOne DEF One, Two
<1>5. Append(Two, "flush") = All
  BY <1>1, AppendToTwo DEF Two, All
<1> QED BY <1>2, <1>3, <1>4, <1>5 DEF S

THEOREM InitProcess == Init => ProcessInv
<1> SUFFICES ASSUME Init PROVE ProcessInv
  OBVIOUS
<1>1. torn = Zero
  BY DEF Init, Zero
<1> QED
  BY <1>1, TeardownSteps
  DEF Init, ProcessInv, TypeOK, ClientsFollowPhase, TeardownFollowsPhase,
      TrafficFollowsPhase, HandlerCoversClients, Phases, PoolStates, Failures,
      Contexts, Serving, Covered, BeforeLifespan

\* One step per action.
THEOREM NextProcess == ProcessInv /\ [Next]_vars => ProcessInv'
<1> SUFFICES ASSUME ProcessInv, [Next]_vars PROVE ProcessInv'
  OBVIOUS
<1> USE TeardownSteps DEF resources, logging, traffic, BuildAppState, ProcessInv, BeforeLifespan, Serving, Covered
<1>1. CASE Configure
  <2> USE <1>1 DEF Configure
  <2>1. TypeOK'
    BY DEF TypeOK, Clients, Phases, PoolStates, Failures, Contexts, TeardownFollowsPhase
  <2>2. ClientsFollowPhase'
    BY DEF TypeOK, ClientsFollowPhase, TeardownFollowsPhase, Clients
  <2>3. TeardownFollowsPhase'
    BY DEF TeardownFollowsPhase, Clients
  <2>4. TrafficFollowsPhase'
    BY DEF TrafficFollowsPhase, Clients
  <2>5. HandlerCoversClients'
    BY DEF HandlerCoversClients, TrafficFollowsPhase
  <2> QED BY <2>1, <2>2, <2>3, <2>4, <2>5
<1>2. CASE ConfigureFails
  <2> USE <1>2 DEF ConfigureFails
  <2>1. TypeOK'
    BY DEF TypeOK, Clients, Phases, PoolStates, Failures, Contexts, TeardownFollowsPhase
  <2>2. ClientsFollowPhase'
    BY DEF TypeOK, ClientsFollowPhase, TeardownFollowsPhase, Clients
  <2>3. TeardownFollowsPhase'
    BY DEF TeardownFollowsPhase, Clients
  <2>4. TrafficFollowsPhase'
    BY DEF TrafficFollowsPhase, Clients
  <2>5. HandlerCoversClients'
    BY DEF HandlerCoversClients, TrafficFollowsPhase
  <2> QED BY <2>1, <2>2, <2>3, <2>4, <2>5
<1>3. CASE InstallProcessLogging
  <2> USE <1>3 DEF InstallProcessLogging
  <2>1. TypeOK'
    BY DEF TypeOK, Clients, Phases, PoolStates, Failures, Contexts, TeardownFollowsPhase
  <2>2. ClientsFollowPhase'
    BY DEF TypeOK, ClientsFollowPhase, TeardownFollowsPhase, Clients
  <2>3. TeardownFollowsPhase'
    BY DEF TeardownFollowsPhase, Clients
  <2>4. TrafficFollowsPhase'
    BY DEF TrafficFollowsPhase, Clients
  <2>5. HandlerCoversClients'
    BY DEF HandlerCoversClients, TrafficFollowsPhase
  <2> QED BY <2>1, <2>2, <2>3, <2>4, <2>5
<1>4. CASE CreateApp
  <2> USE <1>4 DEF CreateApp
  <2>1. TypeOK'
    BY DEF TypeOK, Clients, Phases, PoolStates, Failures, Contexts, TeardownFollowsPhase
  <2>2. ClientsFollowPhase'
    BY DEF TypeOK, ClientsFollowPhase, TeardownFollowsPhase, Clients
  <2>3. TeardownFollowsPhase'
    BY DEF TeardownFollowsPhase, Clients
  <2>4. TrafficFollowsPhase'
    BY DEF TrafficFollowsPhase, Clients
  <2>5. HandlerCoversClients'
    BY DEF HandlerCoversClients, TrafficFollowsPhase
  <2> QED BY <2>1, <2>2, <2>3, <2>4, <2>5
<1>21. CASE CreateAppFails
  <2> USE <1>21 DEF CreateAppFails
  <2>1. TypeOK'
    <3>1. <<"create", IF hooked THEN "sys.excepthook" ELSE "stderr">> \in Failures \X Contexts
      BY DEF Failures, Contexts
    <3>2. pool' \in [Clients -> PoolStates]
      BY DEF PoolStates
    <3> QED BY <3>1, <3>2 DEF TypeOK, Phases, Failures
  <2>2. ClientsFollowPhase'
    BY DEF ClientsFollowPhase
  <2>3. TeardownFollowsPhase'
    BY DEF TeardownFollowsPhase
  <2>4. TrafficFollowsPhase'
    BY DEF TrafficFollowsPhase
  <2>5. HandlerCoversClients'
    BY DEF HandlerCoversClients, TrafficFollowsPhase
  <2> QED BY <2>1, <2>2, <2>3, <2>4, <2>5
<1>5. CASE EnterLifespan
  <2> USE <1>5 DEF EnterLifespan
  <2>1. TypeOK'
    BY DEF TypeOK, Clients, Phases, PoolStates, Failures, Contexts, TeardownFollowsPhase
  <2>2. ClientsFollowPhase'
    BY DEF TypeOK, ClientsFollowPhase, TeardownFollowsPhase, Clients
  <2>3. TeardownFollowsPhase'
    BY DEF TeardownFollowsPhase, Clients
  <2>4. TrafficFollowsPhase'
    BY DEF TrafficFollowsPhase, Clients
  <2>5. HandlerCoversClients'
    BY DEF HandlerCoversClients, TrafficFollowsPhase
  <2> QED BY <2>1, <2>2, <2>3, <2>4, <2>5
<1>6. CASE Start("redis", "start postgres")
  <2> USE <1>6 DEF Start, Starting
  <2>1. TypeOK'
    BY DEF TypeOK, Clients, Phases, PoolStates, Failures, Contexts, TeardownFollowsPhase
  <2>2. ClientsFollowPhase'
    BY DEF TypeOK, ClientsFollowPhase, TeardownFollowsPhase, Clients
  <2>3. TeardownFollowsPhase'
    BY DEF TeardownFollowsPhase, Clients
  <2>4. TrafficFollowsPhase'
    BY DEF TrafficFollowsPhase, Clients
  <2>5. HandlerCoversClients'
    BY DEF HandlerCoversClients, TrafficFollowsPhase
  <2> QED BY <2>1, <2>2, <2>3, <2>4, <2>5
<1>7. CASE Start("postgres", "bind")
  <2> USE <1>7 DEF Start, Starting
  <2>1. TypeOK'
    BY DEF TypeOK, Clients, Phases, PoolStates, Failures, Contexts, TeardownFollowsPhase
  <2>2. ClientsFollowPhase'
    BY DEF TypeOK, ClientsFollowPhase, TeardownFollowsPhase, Clients
  <2>3. TeardownFollowsPhase'
    BY DEF TeardownFollowsPhase, Clients
  <2>4. TrafficFollowsPhase'
    BY DEF TrafficFollowsPhase, Clients
  <2>5. HandlerCoversClients'
    BY DEF HandlerCoversClients, TrafficFollowsPhase
  <2> QED BY <2>1, <2>2, <2>3, <2>4, <2>5
<1>8. ASSUME NEW c \in Clients, StartFails(c) PROVE ProcessInv'
  <2> USE <1>8 DEF StartFails, Starting
  <2>1. TypeOK'
    BY DEF TypeOK, Clients, Phases, PoolStates, Failures, Contexts, TeardownFollowsPhase
  <2>2. ClientsFollowPhase'
    BY DEF TypeOK, ClientsFollowPhase, TeardownFollowsPhase, Clients
  <2>3. TeardownFollowsPhase'
    BY DEF TeardownFollowsPhase, Clients
  <2>4. TrafficFollowsPhase'
    <3>1. phase \in {"start redis", "start postgres"}
      <4>1. CASE c = "redis"
        BY <4>1
      <4>2. CASE c = "postgres"
        BY <4>2
      <4> QED BY <4>1, <4>2 DEF Clients
    <3> QED BY <3>1 DEF TrafficFollowsPhase
  <2>5. HandlerCoversClients'
    BY DEF HandlerCoversClients, TrafficFollowsPhase
  <2> QED BY <2>1, <2>2, <2>3, <2>4, <2>5
<1>9. CASE Bind
  <2> USE <1>9 DEF Bind
  <2>1. TypeOK'
    BY DEF TypeOK, Clients, Phases, PoolStates, Failures, Contexts, TeardownFollowsPhase
  <2>2. ClientsFollowPhase'
    BY DEF TypeOK, ClientsFollowPhase, TeardownFollowsPhase, Clients
  <2>3. TeardownFollowsPhase'
    BY DEF TeardownFollowsPhase, Clients
  <2>4. TrafficFollowsPhase'
    BY DEF TrafficFollowsPhase, Clients
  <2>5. HandlerCoversClients'
    BY DEF HandlerCoversClients, TrafficFollowsPhase
  <2> QED BY <2>1, <2>2, <2>3, <2>4, <2>5
<1>10. CASE BindFails
  <2> USE <1>10 DEF BindFails, UvicornContext
  <2>1. TypeOK'
    <3>1. <<"bind", IF hooked THEN "uvicorn" ELSE "stderr">> \in Failures \X Contexts
      BY DEF Failures, Contexts
    <3>2. records' \in SUBSET (Failures \X Contexts)
      BY <3>1 DEF TypeOK
    <3> QED BY <3>2 DEF TypeOK, Phases
  <2>2. ClientsFollowPhase'
    BY DEF TypeOK, ClientsFollowPhase, TeardownFollowsPhase, Clients
  <2>3. TeardownFollowsPhase'
    BY DEF TeardownFollowsPhase, Clients
  <2>4. TrafficFollowsPhase'
    BY DEF TrafficFollowsPhase, Clients
  <2>5. HandlerCoversClients'
    BY DEF HandlerCoversClients, TrafficFollowsPhase
  <2> QED BY <2>1, <2>2, <2>3, <2>4, <2>5
<1>11. ASSUME NEW call \in Calls, Accept(call) \/ Answer(call) PROVE ProcessInv'
  <2> USE <1>11 DEF Accept, Answer
  <2>1. TypeOK'
    BY DEF TypeOK, Clients, Phases, PoolStates, Failures, Contexts, TeardownFollowsPhase
  <2>2. ClientsFollowPhase'
    BY DEF TypeOK, ClientsFollowPhase, TeardownFollowsPhase, Clients
  <2>3. TeardownFollowsPhase'
    BY DEF TeardownFollowsPhase, Clients
  <2>4. TrafficFollowsPhase'
    <3>1. phase \in {"serve", "drain"} /\ UNCHANGED <<phase, accepting, handler>>
      BY DEF TrafficFollowsPhase
    <3> QED BY <3>1 DEF TrafficFollowsPhase
  <2>5. HandlerCoversClients'
    BY DEF HandlerCoversClients, TrafficFollowsPhase
  <2> QED BY <2>1, <2>2, <2>3, <2>4, <2>5
<1>12. CASE StopSignal
  <2> USE <1>12 DEF StopSignal
  <2>1. TypeOK'
    BY DEF TypeOK, Clients, Phases, PoolStates, Failures, Contexts, TeardownFollowsPhase
  <2>2. ClientsFollowPhase'
    BY DEF TypeOK, ClientsFollowPhase, TeardownFollowsPhase, Clients
  <2>3. TeardownFollowsPhase'
    BY DEF TeardownFollowsPhase, Clients
  <2>4. TrafficFollowsPhase'
    BY DEF TrafficFollowsPhase, Clients
  <2>5. HandlerCoversClients'
    BY DEF HandlerCoversClients, TrafficFollowsPhase
  <2> QED BY <2>1, <2>2, <2>3, <2>4, <2>5
<1>13. CASE Drained
  <2> USE <1>13 DEF Drained
  <2>1. TypeOK'
    BY DEF TypeOK, Clients, Phases, PoolStates, Failures, Contexts, TeardownFollowsPhase
  <2>2. ClientsFollowPhase'
    BY DEF TypeOK, ClientsFollowPhase, TeardownFollowsPhase, Clients
  <2>3. TeardownFollowsPhase'
    BY DEF TeardownFollowsPhase, Clients
  <2>4. TrafficFollowsPhase'
    BY DEF TrafficFollowsPhase, Clients
  <2>5. HandlerCoversClients'
    BY DEF HandlerCoversClients, TrafficFollowsPhase
  <2> QED BY <2>1, <2>2, <2>3, <2>4, <2>5
<1>14. CASE Kill
  <2> USE <1>14 DEF Kill
  <2>1. TypeOK'
    BY DEF TypeOK, Clients, Phases, PoolStates, Failures, Contexts, TeardownFollowsPhase
  <2>2. ClientsFollowPhase'
    BY DEF TypeOK, ClientsFollowPhase, TeardownFollowsPhase, Clients
  <2>3. TeardownFollowsPhase'
    BY DEF TeardownFollowsPhase, Clients
  <2>4. TrafficFollowsPhase'
    BY DEF TrafficFollowsPhase, Clients
  <2>5. HandlerCoversClients'
    BY DEF HandlerCoversClients, TrafficFollowsPhase
  <2> QED BY <2>1, <2>2, <2>3, <2>4, <2>5
<1>15. CASE TaskFails
  <2> USE <1>15 DEF TaskFails
  <2>1. TypeOK'
    <3>1. <<"task", IF handler = "app" THEN "asyncio" ELSE "stderr">> \in Failures \X Contexts
      BY DEF Failures, Contexts
    <3> QED BY <3>1 DEF TypeOK
  <2>2. ClientsFollowPhase'
    BY DEF TypeOK, ClientsFollowPhase, TeardownFollowsPhase, Clients
  <2>3. TeardownFollowsPhase'
    BY DEF TeardownFollowsPhase, Clients
  <2>4. TrafficFollowsPhase'
    BY DEF TrafficFollowsPhase, Clients
  <2>5. HandlerCoversClients'
    BY DEF HandlerCoversClients, TrafficFollowsPhase
  <2> QED BY <2>1, <2>2, <2>3, <2>4, <2>5
<1>16. CASE Stop("postgres", "stop redis")
  <2> USE <1>16 DEF Stop, Stopping
  <2>1. TypeOK'
    BY DEF TypeOK, Clients, Phases, PoolStates, Failures, Contexts, TeardownFollowsPhase
  <2>2. ClientsFollowPhase'
    BY DEF TypeOK, ClientsFollowPhase, TeardownFollowsPhase, Clients
  <2>3. TeardownFollowsPhase'
    BY DEF TeardownFollowsPhase, Clients
  <2>4. TrafficFollowsPhase'
    BY DEF TrafficFollowsPhase, Clients
  <2>5. HandlerCoversClients'
    BY DEF HandlerCoversClients, TrafficFollowsPhase
  <2> QED BY <2>1, <2>2, <2>3, <2>4, <2>5
<1>17. CASE Stop("redis", "flush")
  <2> USE <1>17 DEF Stop, Stopping
  <2>1. TypeOK'
    BY DEF TypeOK, Clients, Phases, PoolStates, Failures, Contexts, TeardownFollowsPhase
  <2>2. ClientsFollowPhase'
    BY DEF TypeOK, ClientsFollowPhase, TeardownFollowsPhase, Clients
  <2>3. TeardownFollowsPhase'
    BY DEF TeardownFollowsPhase, Clients
  <2>4. TrafficFollowsPhase'
    BY DEF TrafficFollowsPhase, Clients
  <2>5. HandlerCoversClients'
    BY DEF HandlerCoversClients, TrafficFollowsPhase
  <2> QED BY <2>1, <2>2, <2>3, <2>4, <2>5
<1>18. CASE Flush
  <2> USE <1>18 DEF Flush
  <2>1. TypeOK'
    BY DEF TypeOK, Clients, Phases, PoolStates, Failures, Contexts, TeardownFollowsPhase
  <2>2. ClientsFollowPhase'
    BY DEF TypeOK, ClientsFollowPhase, TeardownFollowsPhase, Clients
  <2>3. TeardownFollowsPhase'
    BY DEF TeardownFollowsPhase, Clients
  <2>4. TrafficFollowsPhase'
    BY DEF TrafficFollowsPhase, Clients
  <2>5. HandlerCoversClients'
    BY DEF HandlerCoversClients, TrafficFollowsPhase
  <2> QED BY <2>1, <2>2, <2>3, <2>4, <2>5
<1>19. CASE Restore
  <2> USE <1>19 DEF Restore, UvicornContext
  <2>1. TypeOK'
    BY DEF TypeOK, Clients, Phases, PoolStates, Failures, Contexts, TeardownFollowsPhase
  <2>2. ClientsFollowPhase'
    BY DEF TypeOK, ClientsFollowPhase, TeardownFollowsPhase, Clients
  <2>3. TeardownFollowsPhase'
    BY DEF TeardownFollowsPhase, Clients
  <2>4. TrafficFollowsPhase'
    BY DEF TrafficFollowsPhase, Clients
  <2>5. HandlerCoversClients'
    <3>1. UvicornContext = "uvicorn"
      BY DEF TrafficFollowsPhase
    <3> QED BY <3>1 DEF HandlerCoversClients
  <2> QED BY <2>1, <2>2, <2>3, <2>4, <2>5
<1>20. CASE UNCHANGED vars
  <2> USE <1>20 DEF vars
  <2>1. TypeOK'
    BY DEF TypeOK, Clients, Phases, PoolStates, Failures, Contexts, TeardownFollowsPhase
  <2>2. ClientsFollowPhase'
    BY DEF TypeOK, ClientsFollowPhase, TeardownFollowsPhase, Clients
  <2>3. TeardownFollowsPhase'
    BY DEF TeardownFollowsPhase, Clients
  <2>4. TrafficFollowsPhase'
    BY DEF TrafficFollowsPhase, Clients
  <2>5. HandlerCoversClients'
    BY DEF HandlerCoversClients, TrafficFollowsPhase
  <2> QED BY <2>1, <2>2, <2>3, <2>4, <2>5
<1> QED
  BY <1>1, <1>2, <1>3, <1>4, <1>5, <1>6, <1>7, <1>8, <1>9, <1>10, <1>11, <1>12, <1>13, <1>14, <1>15, <1>16, <1>17, <1>18, <1>19, <1>20, <1>21
  DEF Next, Main, Startup, Teardown

-----------------------------------------------------------------------------
(* In the pod *)

\* A restart leaves the process where Init has it.
LEMMA RestartProcess == Restart => ProcessInv'
<1> SUFFICES ASSUME Restart PROVE ProcessInv'
  OBVIOUS
<1> USE DEF Restart
<1>1. torn' = Zero
  BY DEF Zero
<1> QED
  BY <1>1, TeardownSteps
  DEF ProcessInv, TypeOK, ClientsFollowPhase, TeardownFollowsPhase,
      TrafficFollowsPhase, HandlerCoversClients, Phases, PoolStates, Failures,
      Contexts, Serving, Covered, BeforeLifespan

\* Every other step of the pod is a step of the process, or none.
LEMMA PodStepsTheProcess == [PodNext]_podvars => [Next]_vars \/ Restart
<1> SUFFICES ASSUME [PodNext]_podvars PROVE [Next]_vars \/ Restart
  OBVIOUS
<1> USE ProbesAssumption DEF process
<1>1. CASE PodMain \/ PodStartup \/ PodTeardown \/ PodStop \/ Mishap
  BY <1>1
  DEF PodMain, PodStartup, PodTeardown, PodStop, Mishap, OutOfMemory, Die, Wedge,
      Next, Main, Startup, Teardown, Clients
<1>2. ASSUME NEW call \in Calls \ Probes, (Accept(call) /\ Undisturbed) \/ Serve(call)
      PROVE  Next
  BY <1>2 DEF Serve, Next
<1>3. ASSUME NEW p \in Probes, AskReadiness(p) \/ Readyz(p) PROVE [Next]_vars
  BY <1>3 DEF AskReadiness, Readyz, PingRedis, CheckOut, PingPostgres, GoOn, Reply, Next
<1>4. CASE LivenessKill \/ GraceEnds \/ (TaskFails /\ Undisturbed)
  BY <1>4 DEF LivenessKill, GraceEnds, Die, Next
<1>5. CASE GiveUp \/ Delete \/ \E c \in Clients : Flip(c)
  BY <1>5 DEF GiveUp, Delete, Flip
<1>6. CASE UNCHANGED podvars
  BY <1>6 DEF podvars
<1> QED BY <1>1, <1>2, <1>3, <1>4, <1>5, <1>6 DEF PodNext

THEOREM ProcessInvariant == PodSpec => []ProcessInv
<1>1. PodInit => ProcessInv
  BY InitProcess DEF PodInit
<1>2. ProcessInv /\ [PodNext]_podvars => ProcessInv'
  BY NextProcess, PodStepsTheProcess, RestartProcess
<1> QED BY <1>1, <1>2, PTL DEF PodSpec

\* A call, a readiness handler among them, finds both clients started and not
\* yet stopped, in every container the pod ever has.
THEOREM CallsAreServed == PodSpec => []CallsFindOpenClients
<1>1. ProcessInv => CallsFindOpenClients
  BY DEF ProcessInv, TrafficFollowsPhase, ClientsFollowPhase, CallsFindOpenClients, Serving
<1> QED BY <1>1, ProcessInvariant, PTL

\* Once startup is complete every way out of the lifespan attempts the whole
\* teardown in its order.
THEOREM TeardownAlwaysCompletes == PodSpec => []TeardownIsComplete
<1>1. ProcessInv => TeardownIsComplete
  <2> SUFFICES ASSUME ProcessInv PROVE TeardownIsComplete
    OBVIOUS
  <2>1. Len(All) = 3
    BY DEF All
  <2>2. torn \in {<<>>, <<"postgres">>, <<"postgres", "redis">>, <<"postgres", "redis", "flush">>}
    BY DEF ProcessInv, TeardownFollowsPhase, Zero, One, Two, All
  <2>3. phase = "exited" /\ pool["postgres"] # "none" /\ raising \notin {"create", "start"} => torn = All
    BY DEF ProcessInv, TeardownFollowsPhase, ClientsFollowPhase, Clients
  <2> QED BY <2>1, <2>2, <2>3 DEF TeardownIsComplete
<1> QED BY <1>1, ProcessInvariant, PTL

\* The loop is left with the handler it had, and no failure after the
\* configuration is read escapes the structured log.
THEOREM HandlerAlwaysCovers == PodSpec => []HandlerCoversClients
<1>1. ProcessInv => HandlerCoversClients
  BY DEF ProcessInv
<1> QED BY <1>1, ProcessInvariant, PTL

\* Redis and PostgreSQL cannot end a process that serves: whoever leaves
\* "serve" was told to, is wedged, or was struck from outside.
THEOREM OutagesRestartNobody == PodSpec => OutageRestartsNobody
<1> DEFINE Excused == phase = "serve" /\ phase' # "serve" => deleted \/ wedged \/ struck' # struck
<1>1. [PodNext]_podvars => [Excused]_podvars
  <2> SUFFICES ASSUME PodNext, phase = "serve", phase' # "serve", ~deleted, ~wedged
               PROVE  struck' # struck
    OBVIOUS
  <2>1. ~PodMain /\ ~PodStartup /\ ~PodTeardown /\ ~PodStop
    BY DEF PodMain, PodStartup, PodTeardown, PodStop, Configure, InstallProcessLogging,
           CreateApp, EnterLifespan, Start, Starting, StartFails, Bind, Teardown, Drained,
           Stop, Stopping, Flush, Restore, Clients
  <2>2. ~\E call \in Calls \ Probes : (Accept(call) /\ Undisturbed) \/ Serve(call)
    BY DEF Accept, Serve, Answer
  <2>3. ~\E p \in Probes : AskReadiness(p) \/ Readyz(p)
    BY DEF AskReadiness, Accept, Readyz, PingRedis, CheckOut, PingPostgres, GoOn, Reply,
           Answer, process, vars
  <2>4. ~GiveUp /\ ~LivenessKill /\ ~GraceEnds /\ ~Restart /\ ~Delete
    BY DEF GiveUp, LivenessKill, Lives, GraceEnds, Restart, Delete, process, vars
  <2>5. ~(\E c \in Clients : Flip(c)) /\ ~(TaskFails /\ Undisturbed)
    BY DEF Flip, TaskFails, process, vars
  <2>6. Mishap
    BY <2>1, <2>2, <2>3, <2>4, <2>5 DEF PodNext
  <2> QED BY <2>6 DEF Mishap, Strike, OutOfMemory, ConfigureFails, CreateAppFails, BindFails, Wedge, process, vars
<1> QED BY <1>1, PTL DEF PodSpec, OutageRestartsNobody

-----------------------------------------------------------------------------
(* The readiness handlers *)

Selecting == {p \in Probes : stage[p] = "select"}

\* The types of the pod made inductive: every connection lent is in the hands
\* of a handler that waits for its SELECT 1.
PodInv ==
  /\ ProcessInv
  /\ PodTypeOK
  /\ IsFiniteSet(Selecting) /\ lent = Cardinality(Selecting)

\* A step that moves no handler in or out of its SELECT lends nothing.
LEMMA LentKept ==
  ASSUME PodInv, Selecting' = Selecting, UNCHANGED lent
  PROVE  IsFiniteSet(Selecting') /\ lent' = Cardinality(Selecting')
BY DEF PodInv

\* A process that is gone holds nothing.
LEMMA LentNothing ==
  ASSUME stage' = [p \in Probes |-> "none"], lent' = 0
  PROVE  IsFiniteSet(Selecting') /\ lent' = Cardinality(Selecting')
<1>1. Selecting' = {}
  BY DEF Selecting
<1> QED BY <1>1, FS_EmptySet

THEOREM NextPod == PodInv /\ [PodNext]_podvars => PodInv'
<1> SUFFICES ASSUME PodInv, [PodNext]_podvars PROVE PodInv'
  OBVIOUS
<1>1. ProcessInv' /\ TypeOK'
  BY NextProcess, PodStepsTheProcess, RestartProcess DEF PodInv, ProcessInv
<1> USE ProbesAssumption, ConnectionsAssumption DEF PodInv, PodTypeOK, readyz, fate, process
<1> DEFINE Lent == IsFiniteSet(Selecting') /\ lent' = Cardinality(Selecting')
<1>2. ASSUME UNCHANGED <<readyz, wedged, deleted, struck>>,
             up' \in [Clients -> {"up", "down", "hung"}],
             \A p \in Probes : p \in open' <=> p \in open
      PROVE  PodInv'
  <2>1. Selecting' = Selecting
    BY <1>2 DEF Selecting
  <2> QED BY <1>1, <1>2, <2>1, LentKept
<1>3. CASE PodMain \/ PodStartup \/ PodTeardown \/ PodStop \/ (TaskFails /\ Undisturbed)
  <2>1. UNCHANGED open
    BY <1>3
    DEF PodMain, PodStartup, PodTeardown, PodStop, TaskFails, Configure, InstallProcessLogging,
        CreateApp, EnterLifespan, Start, StartFails, Bind, Teardown, Drained, Stop, Flush,
        Restore, StopSignal, traffic
  <2>2. Undisturbed
    BY <1>3 DEF PodMain, PodStartup, PodTeardown, PodStop
  <2> QED BY <1>2, <2>1, <2>2 DEF Undisturbed
<1>4. ASSUME NEW call \in Calls \ Probes, (Accept(call) /\ Undisturbed) \/ Serve(call)
      PROVE  PodInv'
  <2>1. \A p \in Probes : p \in open' <=> p \in open
    BY <1>4 DEF Accept, Serve, Answer
  <2>2. UNCHANGED <<up, readyz, fate>>
    BY <1>4 DEF Serve, Undisturbed
  <2> QED BY <1>2, <2>1, <2>2
<1>5. ASSUME NEW p \in Probes, AskReadiness(p) PROVE PodInv'
  <2>1. stage[p] = "none" /\ stage' = [stage EXCEPT ![p] = "redis"] /\ open' = open \cup {p}
    BY <1>5 DEF AskReadiness, Accept
  <2>2. Selecting' = Selecting
    BY <2>1 DEF Selecting
  <2>3. PodTypeOK'
    BY <1>1, <1>5, <2>1 DEF AskReadiness
  <2> QED BY <1>1, <1>5, <2>2, <2>3, LentKept DEF AskReadiness
\* The handler goes on, or answers and is gone.
<1>6. ASSUME NEW p \in Probes, stage[p] # "none",
             \/ \E next \in {"checkout", "select"} : GoOn(p, next)
             \/ \E healthy \in BOOLEAN : Reply(p, healthy),
             lent' \in 0..Connections, Lent
      PROVE  PodInv'
  <2>1. CASE \E next \in {"checkout", "select"} : GoOn(p, next)
    <3>1. UNCHANGED open
      BY <2>1 DEF GoOn, vars, traffic
    <3>2. PodTypeOK'
      BY <1>1, <1>6, <2>1, <3>1 DEF GoOn
    <3> QED BY <1>1, <1>6, <3>2
  <2>2. CASE \E healthy \in BOOLEAN : Reply(p, healthy)
    <3>1. PodTypeOK'
      BY <1>1, <1>6, <2>2 DEF Reply, Answer
    <3> QED BY <1>1, <1>6, <3>1
  <2> QED BY <1>6, <2>1, <2>2
<1>7. ASSUME NEW p \in Probes, PingRedis(p) PROVE PodInv'
  <2>1. Selecting' = Selecting
    BY <1>7 DEF PingRedis, GoOn, Reply, Selecting
  <2> QED BY <1>6, <1>7, <2>1, LentKept DEF PingRedis
<1>8. ASSUME NEW p \in Probes, CheckOut(p) PROVE PodInv'
  <2>1. CASE lent < Connections /\ lent' = lent + 1 /\ GoOn(p, "select")
    <3>1. Selecting' = Selecting \cup {p} /\ p \notin Selecting
      BY <1>8, <2>1 DEF CheckOut, GoOn, Selecting
    <3>2. Lent /\ lent' \in 0..Connections
      BY <2>1, <3>1, FS_AddElement
    <3> QED BY <1>6, <1>8, <2>1, <3>2 DEF CheckOut
  <2>2. CASE lent = Connections /\ UNCHANGED lent /\ Reply(p, FALSE)
    <3>1. Selecting' = Selecting
      BY <1>8, <2>2 DEF CheckOut, Reply, Selecting
    <3> QED BY <1>6, <1>8, <2>2, <3>1, LentKept DEF CheckOut
  <2> QED BY <1>8, <2>1, <2>2 DEF CheckOut
<1>9. ASSUME NEW p \in Probes, PingPostgres(p) PROVE PodInv'
  <2>1. Selecting' = Selecting \ {p} /\ p \in Selecting
    BY <1>9 DEF PingPostgres, Reply, Selecting
  <2>2. Lent /\ lent' \in 0..Connections
    <3>1. /\ IsFiniteSet(Selecting')
          /\ Cardinality(Selecting') = Cardinality(Selecting) - 1
          /\ Cardinality(Selecting') \in Nat
      BY <2>1, FS_RemoveElement, FS_CardinalityType
    <3> QED BY <1>9, <3>1 DEF PingPostgres
  <2>3. (up["postgres"] = "up") \in BOOLEAN
    OBVIOUS
  <2> QED BY <1>6, <1>9, <2>2, <2>3 DEF PingPostgres
<1>10. CASE GiveUp \/ Wedge \/ Delete
  <2>1. UNCHANGED <<open, stage, lent, up>> /\ Selecting' = Selecting
    BY <1>10 DEF GiveUp, Wedge, Delete, vars, traffic, Selecting
  <2>2. PodTypeOK'
    BY <1>1, <1>10, <2>1 DEF GiveUp, Wedge, Delete, Strike
  <2> QED BY <1>1, <2>1, <2>2, LentKept
<1>11. ASSUME NEW c \in Clients, Flip(c) PROVE PodInv'
  <2>1. up' \in [Clients -> {"up", "down", "hung"}]
    BY <1>11 DEF Flip, Health, Clients
  <2> QED BY <1>2, <1>11, <2>1 DEF Flip, vars, traffic
<1>12. ASSUME stage' = [p \in Probes |-> "none"], lent' = 0, open' = {},
              asked' = None, ready' = FALSE, wedged' \in BOOLEAN,
              UNCHANGED <<up, deleted>>, struck' \in SUBSET Mishaps
       PROVE  PodInv'
  <2>1. /\ stage' \in [Probes -> {"none", "redis", "checkout", "select"}]
        /\ \A p \in Probes : stage'[p] # "none" <=> p \in open'
        /\ asked' \in Probes \cup {None} /\ lent' \in 0..Connections
    BY <1>12
  <2>2. PodTypeOK'
    BY <1>1, <1>12, <2>1
  <2> QED BY <1>1, <1>12, <2>2, LentNothing
<1>13. CASE LivenessKill \/ GraceEnds \/ OutOfMemory \/ Restart
  BY <1>12, <1>13 DEF LivenessKill, GraceEnds, OutOfMemory, Restart, Die, Kill, Strike
<1>14. CASE \/ ConfigureFails /\ Strike("configure") /\ UNCHANGED <<up, readyz, wedged, deleted>>
            \/ CreateAppFails /\ Strike("create") /\ UNCHANGED <<up, readyz, wedged, deleted>>
            \/ BindFails /\ Strike("bind") /\ UNCHANGED <<up, readyz, wedged, deleted>>
  <2>1. UNCHANGED open
    BY <1>14 DEF ConfigureFails, CreateAppFails, BindFails, traffic
  <2>2. Selecting' = Selecting
    BY <1>14 DEF Selecting
  <2>3. PodTypeOK'
    BY <1>1, <1>14, <2>1 DEF Strike
  <2> QED BY <1>1, <1>14, <2>2, <2>3, LentKept
<1>15. CASE UNCHANGED podvars
  BY <1>2, <1>15 DEF podvars, vars, traffic
<1> QED
  BY <1>3, <1>4, <1>5, <1>7, <1>8, <1>9, <1>10, <1>11, <1>13, <1>14, <1>15
  DEF PodNext, Readyz, Mishap

\* The pod's variables have their types, and the readiness handlers are open
\* calls: the probes that kubelet forgot are among those shutdown waits for.
THEOREM PodTypeCorrect == PodSpec => []PodTypeOK
<1>1. PodInit => PodInv
  <2> SUFFICES ASSUME PodInit PROVE PodInv
    OBVIOUS
  <2>1. ProcessInv
    BY InitProcess DEF PodInit
  <2>2. Selecting = {}
    BY DEF PodInit, Selecting
  <2>3. /\ stage \in [Probes -> {"none", "redis", "checkout", "select"}]
        /\ \A p \in Probes : stage[p] # "none" <=> p \in open
        /\ up \in [Clients -> {"up", "down", "hung"}]
        /\ asked \in Probes \cup {None} /\ lent \in 0..Connections
    BY ConnectionsAssumption DEF PodInit, Init
  <2>4. PodTypeOK
    BY <2>1, <2>3 DEF PodInit, PodTypeOK, ProcessInv
  <2> QED BY <2>1, <2>2, <2>4, FS_EmptySet DEF PodInv, PodInit
<1>2. PodInv => PodTypeOK
  BY DEF PodInv
<1> QED BY <1>1, <1>2, NextPod, PTL DEF PodSpec
=============================================================================
