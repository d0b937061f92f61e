--------------------------- MODULE RequestPipeline ---------------------------
(***************************************************************************)
(* One HTTP request through the ASGI stack that create_app assembles:      *)
(*                                                                         *)
(*   uvicorn > server_error > correlation > secure > prometheus > endpoint *)
(*                                                                         *)
(* Each layer is entered on the way in and left, by a return or by an      *)
(* exception, on the way out; a response is stamped by the layers it       *)
(* passes.  Requests run in tasks of their own, each with its own context. *)
(***************************************************************************)
EXTENDS LogRecord, Sequences, FiniteSets

CONSTANTS
  Requests,   \* the requests, also the ids generated for them
  Inbound,    \* ids a client may send
  Callers,    \* whom the tenant and user headers may name
  None        \* a header that is absent or blank, no response yet

Routes   == {"flags", "probes", "docs", "unknown"}
Excluded == {"probes"}            \* with /metrics itself: not in the HTTP series
Statuses == {200, 404, 422, 500, 503}
Ids      == Inbound \cup Requests

\* The caller's headers are read by the flag routes only, and are both None if
\* either is missing or blank.
Asked ==
  {request \in [path : Routes, x_request_id : Inbound \cup {None},
                x_correlation_id : Inbound \cup {None}, caller : Callers \cup {None}] :
     request.path = "flags" \/ request.caller = None}
Responses ==
  [status : Statuses, x_request_id : Ids, secured : BOOLEAN]

ASSUME SentinelAssumption ==
  /\ None \notin Ids /\ None \notin Callers
  /\ None \notin Asked /\ None \notin Responses

VARIABLES
  asked,      \* the request as received, None before
  at,         \* the innermost layer the request is in
  mode,       \* "call" on the way in, "return" or "raise" on the way out
  bound,      \* what the context of the request's task binds
  state_id,   \* scope["state"][CORRELATION_ID_STATE_KEY]
  response,   \* the response started, or None
  lines,      \* log lines of the request
  gone,       \* the client closed the connection
  series,     \* http_requests_total by route and status
  inbound     \* http_requests_with_inbound_request_id_total

vars == <<asked, at, mode, bound, state_id, response, lines, gone, series, inbound>>
counters == <<series, inbound>>

Init ==
  /\ asked = [r \in Requests |-> None]
  /\ at = [r \in Requests |-> "client"]
  /\ mode = [r \in Requests |-> "call"]
  /\ bound = [r \in Requests |-> Nothing]
  /\ state_id = [r \in Requests |-> None]
  /\ response = [r \in Requests |-> None]
  /\ lines = [r \in Requests |-> <<>>]
  /\ gone = [r \in Requests |-> FALSE]
  /\ series = [pair \in Routes \X Statuses |-> 0]
  /\ inbound = 0

In(r, layer, modes) == at[r] = layer /\ mode[r] \in modes
To(r, layer) == at' = [at EXCEPT ![r] = layer]
Becomes(r, m) == mode' = [mode EXCEPT ![r] = m]
Log(r, new) == lines' = [lines EXCEPT ![r] = @ \o new]

CallerNames == {"tenant_id", "user_id"}
Bind(r, values) == bound' = [bound EXCEPT ![r] = Update(@, values)]
Unbind(r, names) == bound' = [bound EXCEPT ![r] = Without(@, names)]

-----------------------------------------------------------------------------
(* What a response picks up on its way out *)

\* X-Request-ID, unless blank, then X-Correlation-ID, then a new id.
CorrelationId(r, request) ==
  IF request.x_request_id # None THEN request.x_request_id
  ELSE IF request.x_correlation_id # None THEN request.x_correlation_id
  ELSE r

\* Sent inside every layer: the secure layer adds its headers (which of them a
\* route gets is left out), and the correlation layer the id.
FromEndpoint(r, status) ==
  [status |-> status, x_request_id |-> state_id[r], secured |-> TRUE]

\* Mutated form of FromServerError: the handler does not echo the id.
FromServerErrorBare(r) ==
  [status |-> 500, x_request_id |-> None, secured |-> FALSE]

\* Sent outside the user middleware: only what the exception handler adds.
FromServerError(r) ==
  [status |-> 500, x_request_id |-> state_id[r], secured |-> FALSE]

\* uvicorn writes the access line when the response starts, in the context of
\* the request's task, unless the client is gone.
Access(r, context) ==
  IF gone[r] THEN <<>> ELSE Lines("uvicorn.access", MethodForLevel(20), "access", Nothing, context)

-----------------------------------------------------------------------------
(* On the way in *)

Receive(r, request) ==
  /\ at[r] = "client"
  /\ asked' = [asked EXCEPT ![r] = request]
  /\ To(r, "server_error")
  /\ UNCHANGED <<mode, bound, state_id, response, lines, gone, counters>>

\* Mutated form of EnterCorrelation: the context is given an id of its own.
EnterCorrelationTwice(r) ==
  /\ In(r, "server_error", {"call"})
  /\ state_id' = [state_id EXCEPT ![r] = CorrelationId(r, asked[r])]
  /\ Bind(r, Only("correlation_id", r))
  /\ To(r, "correlation")
  /\ UNCHANGED <<asked, mode, response, lines, gone, counters>>

EnterCorrelation(r) ==
  /\ In(r, "server_error", {"call"})
  /\ state_id' = [state_id EXCEPT ![r] = CorrelationId(r, asked[r])]
  /\ Bind(r, Only("correlation_id", CorrelationId(r, asked[r])))
  /\ To(r, "correlation")
  /\ UNCHANGED <<asked, mode, response, lines, gone, counters>>

\* secure and prometheus only wrap send.
Descend(r) ==
  /\ \/ In(r, "correlation", {"call"}) /\ To(r, "secure")
     \/ In(r, "secure", {"call"}) /\ To(r, "prometheus")
     \/ In(r, "prometheus", {"call"}) /\ To(r, "endpoint")
  /\ UNCHANGED <<asked, mode, bound, state_id, response, lines, gone, counters>>

\* get_user_details with both headers present and not blank.
BindCaller(r) ==
  /\ In(r, "endpoint", {"call"})
  /\ asked[r].caller # None
  /\ Bind(r, [name \in CallerNames |-> asked[r].caller])
  /\ To(r, "dependencies")
  /\ UNCHANGED <<asked, mode, state_id, response, lines, gone, counters>>

\* The handler's first line.
CallHandler(r) ==
  /\ In(r, "dependencies", {"call"})
  /\ Log(r, Lines("feature-flag-router", "info", "route", Nothing, bound[r]))
  /\ To(r, "handler")
  /\ UNCHANGED <<asked, mode, bound, state_id, response, gone, counters>>

-----------------------------------------------------------------------------
(* The endpoint's ways out *)

Failure == Only("exc_info", "traceback")

\* The caller is unbound before an error response is made; the exception
\* handlers of the routed application then send it.  "said" is what was logged
\* before the error was raised.
HttpError(r, status, said) ==
  /\ Unbind(r, CallerNames)
  /\ response' = [response EXCEPT ![r] = FromEndpoint(r, status)]
  /\ Log(r, said \o Access(r, Without(bound[r], CallerNames)))
  /\ To(r, "endpoint") /\ Becomes(r, "return")

\* A header missing or blank, or a name or body that is not valid.
Reject(r) ==
  /\ \/ In(r, "endpoint", {"call"}) /\ asked[r].path = "flags" /\ asked[r].caller = None
     \/ In(r, "dependencies", {"call"})
  /\ HttpError(r, 422, <<>>)
  /\ UNCHANGED <<asked, state_id, gone, counters>>

\* FeatureFlagNotFoundError, or no such route.
AnswerError(r) ==
  /\ \/ In(r, "handler", {"call"})
     \/ In(r, "endpoint", {"call"}) /\ asked[r].path = "unknown"
  /\ HttpError(r, 404, <<>>)
  /\ UNCHANGED <<asked, state_id, gone, counters>>

\* The ways a ping fails, each logged by the client before it raises.
RedisPing(context) ==
  {Lines("RedisClient", "error", "redis.ping.failed", Failure, context),
   Lines("RedisClient", "error", "redis.ping.unexpected_result", Only("result", "pong"), context)}

PostgresPing(context) ==
  {Lines("PostgresClient", "error", "postgres.ping.failed", Failure, context)}

\* readiness_probe turns the first ping that fails into a 503.
NotReady(r) ==
  /\ In(r, "endpoint", {"call"}) /\ asked[r].path = "probes"
  /\ \E said \in RedisPing(bound[r]) \cup PostgresPing(bound[r]) : HttpError(r, 503, said)
  /\ UNCHANGED <<asked, state_id, gone, counters>>

\* The response is sent while the caller is still bound.
AnswerOk(r) ==
  /\ \/ In(r, "handler", {"call"})
     \/ In(r, "endpoint", {"call"}) /\ asked[r].path \in {"probes", "docs"}
  /\ response' = [response EXCEPT ![r] = FromEndpoint(r, 200)]
  /\ Log(r, Access(r, bound[r]))
  /\ Becomes(r, "return")
  /\ UNCHANGED <<asked, at, bound, state_id, gone, counters>>

\* Mutated form of CloseCaller: the names stay bound.
CloseCallerUnreset(r) ==
  /\ In(r, "handler", {"return"})
  /\ To(r, "endpoint")
  /\ UNCHANGED <<asked, mode, bound, state_id, response, lines, gone, counters>>

\* The dependency is closed after the response.
CloseCaller(r) ==
  /\ In(r, "handler", {"return"})
  /\ Unbind(r, CallerNames)
  /\ To(r, "endpoint")
  /\ UNCHANGED <<asked, mode, state_id, response, lines, gone, counters>>

\* Any other exception of the handler.
Fail(r) ==
  /\ In(r, "handler", {"call"})
  /\ Unbind(r, CallerNames)
  /\ To(r, "endpoint") /\ Becomes(r, "raise")
  /\ UNCHANGED <<asked, state_id, response, lines, gone, counters>>

-----------------------------------------------------------------------------
(* On the way out *)

\* Mutated form of LeavePrometheus: a request that raises is not counted.
LeavePrometheusOnReturn(r) ==
  /\ In(r, "endpoint", {"return", "raise"})
  /\ IF asked[r].path \in Excluded \/ mode[r] = "raise" THEN UNCHANGED counters
     ELSE /\ series' = [series EXCEPT ![<<asked[r].path, response[r].status>>] = @ + 1]
          /\ inbound' = IF asked[r].x_request_id # None THEN inbound + 1 ELSE inbound
  /\ To(r, "secure")
  /\ UNCHANGED <<asked, mode, bound, state_id, response, lines, gone>>

\* Both callbacks run whether the application returned or raised.  The series
\* are kept by exact status here; the instrumentator may group them by class.
LeavePrometheus(r) ==
  /\ In(r, "endpoint", {"return", "raise"})
  /\ LET status == IF mode[r] = "raise" THEN 500 ELSE response[r].status
     IN  IF asked[r].path \in Excluded THEN UNCHANGED counters
         ELSE /\ series' = [series EXCEPT ![<<asked[r].path, status>>] = @ + 1]
              /\ inbound' = IF asked[r].x_request_id # None THEN inbound + 1 ELSE inbound
  /\ To(r, "secure")
  /\ UNCHANGED <<asked, mode, bound, state_id, response, lines, gone>>

LeaveCorrelation(r) ==
  /\ In(r, "secure", {"return", "raise"})
  /\ Unbind(r, {"correlation_id"})
  /\ To(r, "server_error")
  /\ UNCHANGED <<asked, mode, state_id, response, lines, gone, counters>>

\* Mutated form of HandleException: the id is taken from the context.
HandleExceptionFromContext(r) ==
  /\ In(r, "server_error", {"raise"})
  /\ response' = [response EXCEPT ![r] = FromServerError(r)]
  /\ Log(r, Lines("uvicorn", "error", "unhandled", Failure, bound[r]) \o Access(r, bound[r]))
  /\ To(r, "uvicorn")
  /\ UNCHANGED <<asked, mode, bound, state_id, gone, counters>>

\* The handler logs with the id kept in the scope and answers 500; Starlette
\* then raises the exception again.
HandleException(r) ==
  /\ In(r, "server_error", {"raise"})
  /\ response' = [response EXCEPT ![r] = FromServerError(r)]
  /\ LET kwargs == Update(Failure, Only("correlation_id", state_id[r]))
     IN  Log(r, Lines("uvicorn", "error", "unhandled", kwargs, bound[r]) \o Access(r, bound[r]))
  /\ To(r, "uvicorn")
  /\ UNCHANGED <<asked, mode, bound, state_id, gone, counters>>

\* UvicornAsgiExceptionFilter.
Kept(event) == event # "Exception in ASGI application"

Finish(r) ==
  /\ \/ In(r, "server_error", {"return"}) /\ UNCHANGED lines
     \/ /\ In(r, "uvicorn", {"raise"})
        /\ LET event == "Exception in ASGI application"
           IN  IF Kept(event) THEN Log(r, Lines("uvicorn", MethodForLevel(40), event, Failure, bound[r]))
               ELSE UNCHANGED lines
  /\ To(r, "over")
  /\ UNCHANGED <<asked, mode, bound, state_id, response, gone, counters>>

Disconnect(r) ==
  /\ at[r] \notin {"client", "over"}
  /\ ~gone[r]
  /\ gone' = [gone EXCEPT ![r] = TRUE]
  /\ UNCHANGED <<asked, at, mode, bound, state_id, response, lines, counters>>

-----------------------------------------------------------------------------
Enter(r) ==
  \/ \E request \in Asked : Receive(r, request)
  \/ EnterCorrelation(r) \/ Descend(r) \/ BindCaller(r) \/ CallHandler(r)

Answer(r) == Reject(r) \/ AnswerError(r) \/ NotReady(r) \/ AnswerOk(r) \/ Fail(r)

Leave(r) ==
  CloseCaller(r) \/ LeavePrometheus(r) \/ LeaveCorrelation(r) \/ HandleException(r) \/ Finish(r)

Next == \E r \in Requests : Enter(r) \/ Answer(r) \/ Leave(r) \/ Disconnect(r)

Spec == Init /\ [][Next]_vars

-----------------------------------------------------------------------------
Over == {r \in Requests : at[r] = "over"}

\* "every response carries X-Request-ID", and it is the id the request was
\* logged under: from inside the stack, or past it from the exception handler.
EveryResponseCarriesItsId ==
  \A r \in Requests : response[r] # None =>
    response[r].x_request_id = CorrelationId(r, asked[r])

Errors(r) == {n \in 1..Len(lines[r]) : Has(lines[r][n], "level", "error")}

PingFailures == {"redis.ping.failed", "redis.ping.unexpected_result", "postgres.ping.failed"}

FailureEvents(status) == IF status = 500 THEN {"unhandled"} ELSE PingFailures

\* A request that fails leaves one error line, whoever of the clients and the
\* two layers outside the stack could have logged it again: a 500 that of the
\* exception handler, a 503 that of the ping which failed.  It is under the id
\* its client was sent, although by the time of the 500 the context is unbound,
\* and has the traceback, unless nothing was raised.  Any other request leaves
\* none.
OneErrorLinePerFailure ==
  Emitted("error") => \A r \in Over :
    IF response[r].status \in {500, 503}
      THEN \E n \in 1..Len(lines[r]) :
             LET line == lines[r][n]
             IN  /\ Errors(r) = {n}
                 /\ Has(line, "correlation_id", response[r].x_request_id)
                 /\ \E event \in FailureEvents(response[r].status) : Has(line, "msg", event)
                 /\ ~Has(line, "msg", "redis.ping.unexpected_result")
                      => Has(line, "exception", "traceback")
      ELSE Errors(r) = {}

\* "every inner log line picks up correlation_id and every response carries
\* X-Request-ID", and they are the same; a line that names a caller names the
\* request's own, and the route's lines do.
LinesAreAttributed ==
  \A r \in Requests : \A n \in 1..Len(lines[r]) :
    LET line == lines[r][n]
    IN  /\ \/ Has(line, "correlation_id", CorrelationId(r, asked[r]))
           \/ /\ response[r] # None /\ response[r].status = 500
              /\ Has(line, "msg", "access") /\ "correlation_id" \notin DOMAIN line
        /\ \A name \in CallerNames :
             IF Has(line, "msg", "route") THEN Has(line, name, asked[r].caller)
             ELSE name \in DOMAIN line => line[name] = asked[r].caller

\* Nothing of a request stays bound: "the next task on this event loop cannot
\* inherit the id", nor the caller, whichever way the request ended.
ContextIsReset == \A r \in Over : bound[r] = Nothing

\* Every product request is counted once, under the status its client was
\* sent, failures included, and once more if it brought an id; probes never are.
CountedAsAnswered ==
  (\A r \in Requests : at[r] \in {"client", "over"}) =>
    /\ \A route \in Routes, status \in Statuses :
         series[<<route, status>>] =
           IF route \in Excluded THEN 0
           ELSE Cardinality({r \in Over : asked[r].path = route /\ response[r].status = status})
    /\ inbound = Cardinality({r \in Over : asked[r].path \notin Excluded
                                           /\ asked[r].x_request_id # None})

\* "BALANCED headers land on every HTTP response".
EveryResponseIsSecured ==
  \A r \in Requests : response[r] # None => response[r].secured
=============================================================================
