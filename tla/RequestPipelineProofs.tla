------------------------ MODULE RequestPipelineProofs ------------------------
(***************************************************************************)
(* For any number of requests, whatever each asks for and however it ends: *)
(* where a request is determines what its context binds and which lines it *)
(* can have written, and from the two follow the properties of ids, lines, *)
(* contexts and series.                                                    *)
(***************************************************************************)
EXTENDS RequestPipeline, SequenceTheorems, FiniteSetTheorems, TLAPS

-----------------------------------------------------------------------------
(* What a line carries *)

Said == {"correlation_id", "tenant_id", "user_id"}

\* Nothing LogManager stamps has the name of an id that is bound or passed.
LEMMA UpdateHas ==
  ASSUME NEW old, NEW new, NEW name
  PROVE  /\ name \in DOMAIN Update(old, new) <=> name \in DOMAIN old \cup DOMAIN new
         /\ name \in DOMAIN new => Update(old, new)[name] = new[name]
         /\ name \in DOMAIN old \ DOMAIN new => Update(old, new)[name] = old[name]
BY DEF Update

LEMMA WithoutHas ==
  ASSUME NEW record, NEW names, NEW name
  PROVE  /\ name \in DOMAIN Without(record, names) <=> name \in DOMAIN record \ names
         /\ name \in DOMAIN record \ names => Without(record, names)[name] = record[name]
BY DEF Without

LEMMA OnlyHas ==
  ASSUME NEW name, NEW value, NEW other
  PROVE  /\ other \in DOMAIN Only(name, value) <=> other = name
         /\ Only(name, value)[name] = value
BY DEF Only

\* The ids of a line are those the call passed, or else those bound.
LEMMA LineSays ==
  ASSUME NEW context, NEW level, NEW event, NEW kwargs, NEW bnd, NEW name \in Said
  PROVE  LET line == Line(context, level, event, kwargs, bnd)
         IN  /\ name \in DOMAIN line <=> name \in DOMAIN kwargs \cup DOMAIN bnd
             /\ name \in DOMAIN kwargs => line[name] = kwargs[name]
             /\ name \in DOMAIN bnd \ DOMAIN kwargs => line[name] = bnd[name]
<1> DEFINE child   == ChildRecord(context, event, kwargs)
           merged  == MergeContextvars(child, bnd)
           stamped == AddResourceFields(merged)
           levelled == AddLogLevel(stamped, level)
           rendered  == FormatExcInfo(levelled)
<1>0. name # "context" /\ name # "event" /\ name # "level" /\ name # "exc_info"
      /\ name # "exception" /\ name # "msg" /\ name \notin DOMAIN Identity
  BY IdentityAssumption DEF Said, ResourceNames
<1>1. /\ name \in DOMAIN child <=> name \in DOMAIN kwargs
      /\ name \in DOMAIN kwargs => child[name] = kwargs[name]
  BY <1>0, UpdateHas, OnlyHas DEF ChildRecord
<1>2. /\ name \in DOMAIN merged <=> name \in DOMAIN kwargs \cup DOMAIN bnd
      /\ name \in DOMAIN kwargs => merged[name] = kwargs[name]
      /\ name \in DOMAIN bnd \ DOMAIN kwargs => merged[name] = bnd[name]
  <2> HIDE DEF child
  <2> QED BY <1>1, UpdateHas DEF MergeContextvars
<1>3. /\ name \in DOMAIN stamped <=> name \in DOMAIN merged
      /\ name \in DOMAIN merged => stamped[name] = merged[name]
  <2> HIDE DEF merged
  <2> QED BY <1>0, UpdateHas DEF AddResourceFields
<1>4. /\ name \in DOMAIN levelled <=> name \in DOMAIN stamped
      /\ name \in DOMAIN stamped => levelled[name] = stamped[name]
  <2> HIDE DEF stamped
  <2> QED BY <1>0, UpdateHas, OnlyHas DEF AddLogLevel
<1>5. /\ name \in DOMAIN rendered <=> name \in DOMAIN levelled
      /\ name \in DOMAIN levelled => rendered[name] = levelled[name]
  <2> HIDE DEF levelled
  <2> QED BY <1>0, UpdateHas, OnlyHas, WithoutHas DEF FormatExcInfo
<1>6. LET line == SetPropertyNames(rendered)
      IN  /\ name \in DOMAIN line <=> name \in DOMAIN rendered
          /\ name \in DOMAIN rendered => line[name] = rendered[name]
  <2> HIDE DEF rendered
  <2> QED BY <1>0, UpdateHas, OnlyHas, WithoutHas DEF SetPropertyNames
<1> HIDE DEF child, merged, stamped, levelled, rendered
<1>7. Line(context, level, event, kwargs, bnd) = SetPropertyNames(rendered)
  BY DEF Line, child, merged, stamped, levelled, rendered
<1> QED BY <1>2, <1>3, <1>4, <1>5, <1>6, <1>7

LEMMA LineLevel ==
  ASSUME NEW context, NEW level, NEW event, NEW kwargs, NEW bnd
  PROVE  LET line == Line(context, level, event, kwargs, bnd)
         IN  /\ Has(line, "level", level)
             /\ Has(line, "msg", event)
             /\ "exc_info" \in DOMAIN kwargs => Has(line, "exception", kwargs["exc_info"])
<1> DEFINE child    == ChildRecord(context, event, kwargs)
           merged   == MergeContextvars(child, bnd)
           stamped  == AddResourceFields(merged)
           levelled == AddLogLevel(stamped, level)
           rendered == FormatExcInfo(levelled)
<1>0. {"event", "level", "msg", "exc_info", "exception"} \cap DOMAIN Identity = {}
  BY IdentityAssumption DEF ResourceNames
<1>1. /\ Has(child, "event", event)
      /\ "exc_info" \in DOMAIN kwargs => Has(child, "exc_info", kwargs["exc_info"])
  BY UpdateHas, OnlyHas DEF ChildRecord, Has
<1>2. /\ Has(merged, "event", event)
      /\ "exc_info" \in DOMAIN kwargs => Has(merged, "exc_info", kwargs["exc_info"])
  <2> HIDE DEF child
  <2> QED BY <1>1, UpdateHas DEF MergeContextvars, Has
<1>3. /\ Has(stamped, "event", event)
      /\ "exc_info" \in DOMAIN kwargs => Has(stamped, "exc_info", kwargs["exc_info"])
  <2> HIDE DEF merged
  <2> QED BY <1>0, <1>2, UpdateHas DEF AddResourceFields, Has
<1>4. /\ Has(levelled, "event", event) /\ Has(levelled, "level", level)
      /\ "exc_info" \in DOMAIN kwargs => Has(levelled, "exc_info", kwargs["exc_info"])
  <2> HIDE DEF stamped
  <2> QED BY <1>3, UpdateHas, OnlyHas DEF AddLogLevel, Has
<1>5. /\ Has(rendered, "event", event) /\ Has(rendered, "level", level)
      /\ "exc_info" \in DOMAIN kwargs => Has(rendered, "exception", kwargs["exc_info"])
  <2> HIDE DEF levelled
  <2> QED BY <1>4, UpdateHas, OnlyHas, WithoutHas DEF FormatExcInfo, Has
<1>6. LET line == SetPropertyNames(rendered)
      IN  /\ Has(line, "level", level) /\ Has(line, "msg", event)
          /\ "exc_info" \in DOMAIN kwargs => Has(line, "exception", kwargs["exc_info"])
  <2> HIDE DEF rendered
  <2> QED BY <1>5, UpdateHas, OnlyHas, WithoutHas DEF SetPropertyNames, Has
<1> HIDE DEF child, merged, stamped, levelled, rendered
<1>7. Line(context, level, event, kwargs, bnd) = SetPropertyNames(rendered)
  BY DEF Line, child, merged, stamped, levelled, rendered
<1> QED BY <1>6, <1>7

-----------------------------------------------------------------------------
(* The invariant *)

Layers == {"client", "server_error", "correlation", "secure", "prometheus",
           "endpoint", "dependencies", "handler", "uvicorn", "over"}

Typed ==
  /\ asked \in [Requests -> Asked \cup {None}]
  /\ at \in [Requests -> Layers]
  /\ mode \in [Requests -> {"call", "return", "raise"}]
  /\ state_id \in [Requests -> Ids \cup {None}]
  /\ response \in [Requests -> Responses \cup {None}]

Id(r) == CorrelationId(r, asked[r])

\* Past CorrelationIdMiddleware's first lines, on the way in or out.
Identified(r) == at[r] # "client" /\ ~(at[r] = "server_error" /\ mode[r] = "call")

\* The exception has reached the handler outside the stack.
Failed(r) == at[r] \in {"uvicorn", "over"} /\ mode[r] = "raise"

\* Where a request is, and what it has by then.
Staged(r) ==
  /\ at[r] = "client" => mode[r] = "call"
  /\ at[r] # "client" => asked[r] # None
  /\ Identified(r) => state_id[r] = Id(r)
  /\ at[r] \in {"correlation", "prometheus", "dependencies"} => mode[r] = "call"
  /\ at[r] = "handler" => mode[r] # "raise"
  /\ at[r] \in {"dependencies", "handler"} => asked[r].caller # None
  /\ at[r] = "uvicorn" => mode[r] = "raise"
  /\ at[r] = "over" => mode[r] # "call"
  /\ response[r] # None <=> mode[r] = "return" \/ Failed(r)

\* What was sent, by whom.
Sent(r) ==
  response[r] # None =>
    /\ response[r].x_request_id = Id(r)
    /\ response[r].status = 500 <=> mode[r] = "raise"

CallerContext(r) == [name \in CallerNames |-> asked[r].caller]

\* What the layers a request is inside of have bound.
Context(r) ==
  IF at[r] \in {"client", "server_error", "uvicorn", "over"} THEN Nothing
  ELSE IF at[r] \in {"dependencies", "handler"}
    THEN Update(Only("correlation_id", Id(r)), CallerContext(r))
    ELSE Only("correlation_id", Id(r))

AccessLine(context) == Line("uvicorn.access", "info", "access", Nothing, context)

\* The lines a request can have written inside the stack, and the two after it.
Inner(r) ==
  {Line("feature-flag-router", "info", "route", Nothing,
        Update(Only("correlation_id", Id(r)), CallerContext(r))),
   AccessLine(Update(Only("correlation_id", Id(r)), CallerContext(r))),
   AccessLine(Only("correlation_id", Id(r)))}

ErrorLine(r) ==
  Line("uvicorn", "error", "unhandled",
       Update(Failure, Only("correlation_id", Id(r))), Nothing)

\* The line of the ping that failed.
PingLines(r) ==
  LET context == Only("correlation_id", Id(r))
  IN  {Line("RedisClient", "error", "redis.ping.failed", Failure, context),
       Line("RedisClient", "error", "redis.ping.unexpected_result", Only("result", "pong"), context),
       Line("PostgresClient", "error", "postgres.ping.failed", Failure, context)}

\* The request was answered that a dependency is not ready.
Unready(r) == response[r] # None /\ response[r].status = 503

\* The line that says why a request failed, and what a failure writes besides
\* the lines of the stack.
Fault(r) ==
  IF Failed(r) THEN {ErrorLine(r)} ELSE IF Unready(r) THEN PingLines(r) ELSE {}

Further(r) == Fault(r) \cup (IF Failed(r) THEN {AccessLine(Nothing)} ELSE {})

Written(r) ==
  /\ at[r] = "client" => lines[r] = <<>>
  /\ lines[r] \in Seq(Inner(r) \cup Further(r))

\* Of the lines of a failure, one is the error.
Found(r) ==
  Emitted("error") /\ (Failed(r) \/ Unready(r)) =>
    \E n \in 1..Len(lines[r]) : lines[r][n] \in Fault(r) /\ Errors(r) = {n}

Inv ==
  /\ Typed
  /\ bound = [r \in Requests |-> Context(r)]
  /\ lines = [r \in Requests |-> lines[r]]
  /\ \A r \in Requests : Staged(r) /\ Sent(r) /\ Written(r) /\ Found(r)

-----------------------------------------------------------------------------
(* Steps of one request *)

Theirs(q) ==
  /\ asked' = [asked EXCEPT ![q] = asked'[q]]
  /\ at' = [at EXCEPT ![q] = at'[q]]
  /\ mode' = [mode EXCEPT ![q] = mode'[q]]
  /\ state_id' = [state_id EXCEPT ![q] = state_id'[q]]
  /\ response' = [response EXCEPT ![q] = response'[q]]
  /\ bound' = [bound EXCEPT ![q] = bound'[q]]
  /\ lines' = [lines EXCEPT ![q] = lines'[q]]

\* A step of q that leaves q's part of the invariant true leaves it all true.
LEMMA OneRequest ==
  ASSUME Inv, NEW q \in Requests, Theirs(q),
         asked'[q] \in Asked \cup {None}, at'[q] \in Layers,
         mode'[q] \in {"call", "return", "raise"}, state_id'[q] \in Ids \cup {None},
         response'[q] \in Responses \cup {None},
         bound'[q] = Context(q)',
         Staged(q)', Sent(q)', Written(q)', Found(q)'
  PROVE  Inv'
<1>1. Typed'
  BY DEF Inv, Typed, Theirs
<1>2. ASSUME NEW r \in Requests \ {q}
      PROVE  /\ asked'[r] = asked[r] /\ at'[r] = at[r] /\ mode'[r] = mode[r]
             /\ state_id'[r] = state_id[r] /\ response'[r] = response[r]
             /\ bound'[r] = bound[r] /\ lines'[r] = lines[r]
  BY DEF Inv, Typed, Theirs
<1>3. bound' = [r \in Requests |-> Context(r)']
  <2>1. ASSUME NEW r \in Requests PROVE bound'[r] = Context(r)'
    <3>1. CASE r = q BY <3>1
    <3>2. CASE r # q
      <4>1. Context(r)' = Context(r) BY <1>2, <3>2 DEF Context, Id, CallerContext, CorrelationId
      <4> QED BY <1>2, <3>2, <4>1 DEF Inv
    <3> QED BY <3>1, <3>2
  <2>2. bound' = [r \in Requests |-> bound'[r]]
    BY DEF Inv, Theirs
  <2> QED BY <2>1, <2>2
<1>4. lines' = [r \in Requests |-> lines'[r]]
  BY DEF Inv, Theirs
<1>5. ASSUME NEW r \in Requests PROVE Staged(r)' /\ Sent(r)' /\ Written(r)' /\ Found(r)'
  <2>1. CASE r = q BY <2>1
  <2>2. CASE r # q
    <3>1. Staged(r) /\ Sent(r) /\ Written(r) /\ Found(r) BY DEF Inv
    <3>2. Failed(r)' = Failed(r) /\ Identified(r)' = Identified(r) /\ Id(r)' = Id(r)
      BY <1>2, <2>2 DEF Failed, Identified, Id, CorrelationId
    <3>3. Inner(r)' = Inner(r) /\ Errors(r)' = Errors(r)
      BY <1>2, <2>2, <3>2 DEF Inner, Errors, CallerContext
    <3>4. Unready(r)' = Unready(r) /\ Fault(r)' = Fault(r) /\ Further(r)' = Further(r)
      <4>1. ErrorLine(r)' = ErrorLine(r) /\ PingLines(r)' = PingLines(r)
        BY <3>2 DEF ErrorLine, PingLines
      <4>2. Unready(r)' = Unready(r) BY <1>2, <2>2 DEF Unready
      <4> QED BY <3>2, <4>1, <4>2 DEF Fault, Further
    <3>5. Staged(r)' BY <1>2, <2>2, <3>1, <3>2 DEF Staged
    <3>6. Sent(r)' BY <1>2, <2>2, <3>1, <3>2 DEF Sent
    <3>7. Written(r)' BY <1>2, <2>2, <3>1, <3>3, <3>4 DEF Written
    <3>8. Found(r)' BY <1>2, <2>2, <3>1, <3>2, <3>4, <3>3 DEF Found
    <3> QED BY <3>5, <3>6, <3>7, <3>8
  <2> QED BY <2>1, <2>2
<1> QED BY <1>1, <1>3, <1>4, <1>5 DEF Inv

\* A step that writes nothing.
LEMMA Quiet ==
  ASSUME Inv, NEW q \in Requests, asked'[q] = asked[q], lines'[q] = lines[q],
         response'[q] = response[q], Failed(q)' = Failed(q), at'[q] # "client"
  PROVE  Written(q)' /\ Found(q)'
<1>1. Written(q) /\ Found(q) BY DEF Inv
<1>2. Id(q)' = Id(q) BY DEF Id, CorrelationId
<1>3. Inner(q)' = Inner(q) /\ Errors(q)' = Errors(q)
  BY <1>2 DEF Inner, Errors, CallerContext
<1>4. Unready(q)' = Unready(q) /\ Fault(q)' = Fault(q) /\ Further(q)' = Further(q)
  <2>1. ErrorLine(q)' = ErrorLine(q) /\ PingLines(q)' = PingLines(q)
    BY <1>2 DEF ErrorLine, PingLines
  <2>2. Unready(q)' = Unready(q) BY DEF Unready
  <2> QED BY <2>1, <2>2 DEF Fault, Further
<1>5. Written(q)' BY <1>1, <1>3, <1>4 DEF Written
<1>6. Found(q)' BY <1>1, <1>3, <1>4 DEF Found
<1> QED BY <1>5, <1>6

\* A request that has not failed has written only lines of the stack.
LEMMA Sound ==
  ASSUME NEW q, ~Failed(q), ~Unready(q)
  PROVE  Further(q) = {} /\ (Written(q) => lines[q] \in Seq(Inner(q)))
<1>1. Further(q) = {} BY DEF Further, Fault
<1>2. Inner(q) \cup {} = Inner(q) OBVIOUS
<1> QED BY <1>1, <1>2 DEF Written

\* A step inside the stack that writes lines of the stack.
LEMMA Logs ==
  ASSUME Inv, NEW q \in Requests, asked'[q] = asked[q], ~Failed(q), ~Failed(q)',
         ~Unready(q), ~Unready(q)',
         NEW new \in Seq(Inner(q)), lines'[q] = lines[q] \o new, at'[q] # "client"
  PROVE  Written(q)' /\ Found(q)'
<1>1. lines[q] \in Seq(Inner(q)) BY Sound DEF Inv
<1>2. Id(q)' = Id(q) BY DEF Id, CorrelationId
<1>3. Inner(q)' = Inner(q) BY <1>2 DEF Inner, CallerContext
<1>4. lines'[q] \in Seq(Inner(q)') BY <1>1, <1>3
<1>5. Further(q)' = {} BY DEF Further, Fault
<1>6. (Inner(q) \cup Further(q))' = Inner(q)' BY <1>5
<1> QED BY <1>4, <1>6 DEF Written, Found

LEMMA InfoMethod == MethodForLevel(20) = "info"
<1>1. DOMAIN LogLevel = {"debug", "info", "warning", "error", "critical"}
  BY DEF LogLevel
<1>2. /\ LogLevel["debug"] = 10 /\ LogLevel["info"] = 20 /\ LogLevel["warning"] = 30
      /\ LogLevel["error"] = 40 /\ LogLevel["critical"] = 50
  BY DEF LogLevel
<1> QED BY <1>1, <1>2 DEF MethodForLevel

LEMMA ShortSeq ==
  ASSUME NEW S, NEW line \in S
  PROVE  <<>> \in Seq(S) /\ <<line>> \in Seq(S)
OBVIOUS

\* The lines of the route and of uvicorn's access log, or none.
LEMMA InnerLines ==
  ASSUME NEW q \in Requests, NEW context,
         context = Only("correlation_id", Id(q))
         \/ context = Update(Only("correlation_id", Id(q)), CallerContext(q))
  PROVE  Access(q, context) \in Seq(Inner(q))
<1>1. AccessLine(context) \in Inner(q) BY DEF Inner
<1>2. Access(q, context) \in {<<>>, <<AccessLine(context)>>}
  BY InfoMethod DEF Access, Lines, AccessLine
<1> QED BY <1>1, <1>2, ShortSeq

LEMMA IdType ==
  ASSUME Inv, NEW q \in Requests, asked[q] \in Asked
  PROVE  Id(q) \in Ids
BY DEF Id, CorrelationId, Asked, Ids

LEMMA BindId ==
  ASSUME NEW id
  PROVE  Update(Nothing, Only("correlation_id", id)) = Only("correlation_id", id)
BY DEF Update, Nothing, Only

LEMMA UnbindId ==
  ASSUME NEW id
  PROVE  Without(Only("correlation_id", id), {"correlation_id"}) = Nothing
BY DEF Without, Nothing, Only

LEMMA UnbindCaller ==
  ASSUME NEW id, NEW q
  PROVE  /\ Without(Only("correlation_id", id), CallerNames) = Only("correlation_id", id)
         /\ Without(Update(Only("correlation_id", id), CallerContext(q)), CallerNames)
              = Only("correlation_id", id)
<1>1. "correlation_id" \notin CallerNames BY DEF CallerNames
<1> QED BY <1>1 DEF Without, Update, Only, CallerContext

-----------------------------------------------------------------------------
(* On the way in *)

LEMMA ReceiveInv ==
  ASSUME Inv, NEW q \in Requests, NEW request \in Asked, Receive(q, request)
  PROVE  Inv'
<1> USE DEF Receive, To
<1>1. /\ asked'[q] = request /\ at'[q] = "server_error" /\ mode'[q] = mode[q]
      /\ response'[q] = response[q] /\ bound'[q] = bound[q] /\ lines'[q] = lines[q]
      /\ state_id'[q] = state_id[q] /\ at[q] = "client"
  BY DEF Inv, Typed
<1>2. Staged(q) /\ Sent(q) /\ Written(q) /\ Found(q) /\ bound[q] = Context(q)
  BY DEF Inv
<1>3. mode[q] = "call" /\ response[q] = None /\ lines[q] = <<>>
  BY <1>1, <1>2 DEF Staged, Written, Failed
<1>4. Theirs(q) BY <1>1 DEF Theirs, Inv, Typed
<1>5. bound'[q] = Context(q)' BY <1>1, <1>2 DEF Context
<1>6. Staged(q)' BY <1>1, <1>3, SentinelAssumption DEF Staged, Identified, Failed
<1>7. Sent(q)' BY <1>1, <1>3 DEF Sent
<1>8. Written(q)' /\ Found(q)'
  <2>1. ~Failed(q)' /\ ~Unready(q)' BY <1>1, <1>3 DEF Failed, Unready
  <2>2. lines'[q] \in Seq((Inner(q) \cup Further(q))') BY <1>1, <1>3
  <2> QED BY <1>1, <2>1, <2>2 DEF Written, Found
<1>9. /\ asked'[q] \in Asked \cup {None} /\ at'[q] \in Layers
      /\ mode'[q] \in {"call", "return", "raise"} /\ state_id'[q] \in Ids \cup {None}
      /\ response'[q] \in Responses \cup {None}
  BY <1>1 DEF Layers, Inv, Typed
<1> QED BY <1>4, <1>5, <1>6, <1>7, <1>8, <1>9, OneRequest

LEMMA EnterCorrelationInv ==
  ASSUME Inv, NEW q \in Requests, EnterCorrelation(q)
  PROVE  Inv'
<1> USE DEF EnterCorrelation, To, Bind, In
<1>1. /\ asked'[q] = asked[q] /\ at'[q] = "correlation" /\ mode'[q] = mode[q]
      /\ response'[q] = response[q] /\ lines'[q] = lines[q] /\ state_id'[q] = Id(q)
      /\ bound'[q] = Update(bound[q], Only("correlation_id", Id(q)))
      /\ at[q] = "server_error" /\ mode[q] = "call"
  BY DEF Inv, Typed, Id
<1>2. Staged(q) /\ Sent(q) /\ Written(q) /\ Found(q) /\ bound[q] = Context(q)
  BY DEF Inv
<1>3. asked[q] \in Asked /\ response[q] = None
  BY <1>1, <1>2 DEF Staged, Failed, Inv, Typed
<1>4. Theirs(q) BY <1>1 DEF Theirs, Inv, Typed
<1>5. bound'[q] = Context(q)'
  BY <1>1, <1>2, BindId DEF Context, Id, CorrelationId
<1>6. Staged(q)' BY <1>1, <1>2, <1>3 DEF Staged, Identified, Failed, Id, CorrelationId
<1>7. Sent(q)' BY <1>1, <1>3 DEF Sent
<1>8. Written(q)' /\ Found(q)' BY <1>1, Quiet DEF Failed
<1>9. /\ asked'[q] \in Asked \cup {None} /\ at'[q] \in Layers
      /\ mode'[q] \in {"call", "return", "raise"} /\ state_id'[q] \in Ids \cup {None}
      /\ response'[q] \in Responses \cup {None}
  BY <1>1, <1>3, IdType DEF Layers, Inv, Typed
<1> QED BY <1>4, <1>5, <1>6, <1>7, <1>8, <1>9, OneRequest

LEMMA DescendInv ==
  ASSUME Inv, NEW q \in Requests, Descend(q)
  PROVE  Inv'
<1> USE DEF Descend, To, In
<1>1. /\ asked'[q] = asked[q] /\ mode'[q] = mode[q]
      /\ response'[q] = response[q] /\ lines'[q] = lines[q] /\ state_id'[q] = state_id[q]
      /\ bound'[q] = bound[q] /\ mode[q] = "call"
      /\ at[q] \in {"correlation", "secure", "prometheus"}
      /\ at'[q] \in {"secure", "prometheus", "endpoint"}
  BY DEF Inv, Typed
<1>2. Staged(q) /\ Sent(q) /\ Written(q) /\ Found(q) /\ bound[q] = Context(q)
  BY DEF Inv
<1>3. asked[q] \in Asked /\ response[q] = None
  BY <1>1, <1>2 DEF Staged, Failed, Inv, Typed
<1>4. Theirs(q) BY <1>1 DEF Theirs, Inv, Typed
<1>5. bound'[q] = Context(q)' BY <1>1, <1>2 DEF Context, Id, CorrelationId
<1>6. Staged(q)' BY <1>1, <1>2, <1>3 DEF Staged, Identified, Failed, Id, CorrelationId
<1>7. Sent(q)' BY <1>1, <1>3 DEF Sent
<1>8. Written(q)' /\ Found(q)' BY <1>1, Quiet DEF Failed
<1>9. /\ asked'[q] \in Asked \cup {None} /\ at'[q] \in Layers
      /\ mode'[q] \in {"call", "return", "raise"} /\ state_id'[q] \in Ids \cup {None}
      /\ response'[q] \in Responses \cup {None}
  BY <1>1 DEF Layers, Inv, Typed
<1> QED BY <1>4, <1>5, <1>6, <1>7, <1>8, <1>9, OneRequest

LEMMA BindCallerInv ==
  ASSUME Inv, NEW q \in Requests, BindCaller(q)
  PROVE  Inv'
<1> USE DEF BindCaller, To, Bind, In
<1>1. /\ asked'[q] = asked[q] /\ at'[q] = "dependencies" /\ mode'[q] = mode[q]
      /\ response'[q] = response[q] /\ lines'[q] = lines[q] /\ state_id'[q] = state_id[q]
      /\ bound'[q] = Update(bound[q], CallerContext(q))
      /\ at[q] = "endpoint" /\ mode[q] = "call" /\ asked[q].caller # None
  BY DEF Inv, Typed, CallerContext
<1>2. Staged(q) /\ Sent(q) /\ Written(q) /\ Found(q) /\ bound[q] = Context(q)
  BY DEF Inv
<1>3. asked[q] \in Asked /\ response[q] = None
  BY <1>1, <1>2 DEF Staged, Failed, Inv, Typed
<1>4. Theirs(q) BY <1>1 DEF Theirs, Inv, Typed
<1>5. bound'[q] = Context(q)'
  BY <1>1, <1>2 DEF Context, Id, CorrelationId, CallerContext
<1>6. Staged(q)' BY <1>1, <1>2, <1>3 DEF Staged, Identified, Failed, Id, CorrelationId
<1>7. Sent(q)' BY <1>1, <1>3 DEF Sent
<1>8. Written(q)' /\ Found(q)' BY <1>1, Quiet DEF Failed
<1>9. /\ asked'[q] \in Asked \cup {None} /\ at'[q] \in Layers
      /\ mode'[q] \in {"call", "return", "raise"} /\ state_id'[q] \in Ids \cup {None}
      /\ response'[q] \in Responses \cup {None}
  BY <1>1 DEF Layers, Inv, Typed
<1> QED BY <1>4, <1>5, <1>6, <1>7, <1>8, <1>9, OneRequest

LEMMA CallHandlerInv ==
  ASSUME Inv, NEW q \in Requests, CallHandler(q)
  PROVE  Inv'
<1> USE DEF CallHandler, To, Log, In
<1> DEFINE new == Lines("feature-flag-router", "info", "route", Nothing, bound[q])
<1>1. /\ asked'[q] = asked[q] /\ at'[q] = "handler" /\ mode'[q] = mode[q]
      /\ response'[q] = response[q] /\ state_id'[q] = state_id[q] /\ bound'[q] = bound[q]
      /\ lines'[q] = lines[q] \o new
      /\ at[q] = "dependencies" /\ mode[q] = "call"
  BY DEF Inv, Typed
<1>2. Staged(q) /\ Sent(q) /\ Written(q) /\ Found(q) /\ bound[q] = Context(q)
  BY DEF Inv
<1>3. asked[q] \in Asked /\ response[q] = None
  BY <1>1, <1>2 DEF Staged, Failed, Inv, Typed
<1>4. Theirs(q) BY <1>1 DEF Theirs, Inv, Typed
<1>5. bound'[q] = Context(q)'
  BY <1>1, <1>2 DEF Context, Id, CorrelationId, CallerContext
<1>6. Staged(q)' BY <1>1, <1>2, <1>3 DEF Staged, Identified, Failed, Id, CorrelationId
<1>7. Sent(q)' BY <1>1, <1>3 DEF Sent
<1>8. Written(q)' /\ Found(q)'
  <2>1. bound[q] = Update(Only("correlation_id", Id(q)), CallerContext(q))
    BY <1>1, <1>2 DEF Context
  <2>2. new \in Seq(Inner(q))
    <3> DEFINE line == Line("feature-flag-router", "info", "route", Nothing, bound[q])
    <3>1. line \in Inner(q) BY <2>1 DEF Inner
    <3>2. new = <<line>> \/ new = <<>> BY DEF Lines
    <3> HIDE DEF line, new
    <3> QED BY <3>1, <3>2, ShortSeq
  <2> HIDE DEF new
  <2>3. ~Unready(q) /\ ~Unready(q)' BY <1>1, <1>3 DEF Unready
  <2> QED BY <1>1, <2>2, <2>3, Logs DEF Failed
<1>9. /\ asked'[q] \in Asked \cup {None} /\ at'[q] \in Layers
      /\ mode'[q] \in {"call", "return", "raise"} /\ state_id'[q] \in Ids \cup {None}
      /\ response'[q] \in Responses \cup {None}
  BY <1>1 DEF Layers, Inv, Typed
<1> QED BY <1>4, <1>5, <1>6, <1>7, <1>8, <1>9, OneRequest

-----------------------------------------------------------------------------
(* The endpoint's ways out *)

LEMMA SentInside ==
  ASSUME NEW q, NEW status \in {200, 404, 422, 503}, state_id[q] = Id(q), Id(q) \in Ids
  PROVE  /\ FromEndpoint(q, status) \in Responses
         /\ FromEndpoint(q, status).x_request_id = Id(q)
         /\ FromEndpoint(q, status).status = status
BY DEF FromEndpoint, Responses, Statuses

\* The step adds "fault" to q's lines, which is the only error among them, and
\* perhaps "after".
Struck(q, fault, after) ==
  /\ lines'[q] \in Seq(Inner(q) \cup {fault, after})
  /\ Len(lines[q]) + 1 \in 1..Len(lines'[q])
  /\ lines'[q][Len(lines[q]) + 1] = fault
  /\ \A n \in 1..Len(lines'[q]) :
       Has(lines'[q][n], "level", "error") <=> n = Len(lines[q]) + 1

\* The step adds "fault", and "access", which is "after" or nothing.
Adds(q, fault, access, after) ==
  /\ lines[q] \in Seq(Inner(q)) /\ access \in {<<>>, <<after>>}
  /\ lines'[q] = lines[q] \o (<<fault>> \o access)

\* An error line, and the access line that may follow it.
LEMMA FailureLines ==
  ASSUME NEW q, NEW fault, NEW context, NEW access, Has(fault, "level", "error"),
         Adds(q, fault, access, AccessLine(context))
  PROVE  Struck(q, fault, AccessLine(context))
<1> DEFINE written == lines[q]
           all     == lines'[q]
           after   == AccessLine(context)
<1>0. /\ written \in Seq(Inner(q)) /\ all = written \o (<<fault>> \o access)
      /\ access \in {<<>>, <<after>>}
  BY DEF Adds
<1>1. \A line \in Inner(q) \cup {after} : ~Has(line, "level", "error")
  BY LineLevel DEF Inner, AccessLine, Has
<1> HIDE DEF written, all, after
<1> DEFINE S == Inner(q) \cup {fault, after}
           tail == <<fault>> \o access
<1>2. /\ tail \in Seq(S) /\ Len(tail) \in {1, 2} /\ tail[1] = fault
      /\ Len(tail) = 2 => tail[2] = after
  <2>1. CASE access = <<>> BY <2>1
  <2>2. CASE access = <<after>> BY <2>2
  <2> QED BY <1>0, <2>1, <2>2
<1> HIDE DEF tail
<1>3. written \in Seq(S) BY <1>0 DEF S
<1> HIDE DEF S
<1>4. all = written \o tail BY <1>0 DEF tail
<1>5. all \in Seq(S) /\ Len(all) = Len(written) + Len(tail) /\ Len(written) \in Nat
  <2>1. tail \in Seq(S) BY <1>2
  <2>2. written \o tail \in Seq(S) /\ Len(written \o tail) = Len(written) + Len(tail)
    BY <1>3, <2>1, ConcatProperties
  <2>3. Len(written) \in Nat BY <1>3, LenProperties
  <2> QED BY <1>4, <2>2, <2>3
<1>6. all[Len(written) + 1] = fault
  BY <1>2, <1>3, <1>4, <1>5
<1>7. ASSUME NEW n \in 1..Len(all), n # Len(written) + 1
      PROVE  all[n] \in Inner(q) \cup {after}
  <2>1. CASE n <= Len(written)
    <3>1. all[n] = written[n] BY <1>2, <1>3, <1>4, <1>5, <2>1
    <3>2. n \in 1..Len(written) BY <1>5, <2>1
    <3>3. written[n] \in Inner(q) BY <1>0, <3>2, ElementOfSeq
    <3> QED BY <3>1, <3>3
  <2>2. CASE n > Len(written)
    <3> DEFINE w == Len(written)
               t == Len(tail)
    <3>0. w \in Nat /\ t \in {1, 2} /\ n \in 1..(w + t) /\ n # w + 1 /\ n > w
      BY <1>2, <1>5, <1>7, <2>2
    <3> HIDE DEF w, t
    <3>1. n = w + 2 /\ t = 2 BY <3>0
    <3>2. n = Len(written) + 2 /\ Len(tail) = 2 BY <3>1 DEF w, t
    <3>3. all[n] = tail[2] BY <1>2, <1>3, <1>4, <1>5, <3>2
    <3> QED BY <1>2, <3>2, <3>3
  <2> QED BY <2>1, <2>2, <1>5
<1>8. Len(written) + 1 \in 1..Len(all) BY <1>2, <1>5
<1>9. \A n \in 1..Len(all) : Has(all[n], "level", "error") <=> n = Len(written) + 1
  BY <1>1, <1>6, <1>7
<1> QED BY <1>5, <1>6, <1>8, <1>9 DEF S, written, all, after, Struck

LEMMA HttpErrorInv ==
  ASSUME Inv, NEW q \in Requests, NEW status \in {404, 422, 503}, NEW said,
         at[q] \in {"endpoint", "dependencies", "handler"}, mode[q] = "call",
         HttpError(q, status, said), UNCHANGED <<asked, state_id, gone, counters>>,
         IF status = 503 THEN said \in RedisPing(bound[q]) \cup PostgresPing(bound[q])
                              /\ bound[q] = Only("correlation_id", Id(q))
         ELSE said = <<>>
  PROVE  Inv'
<1> USE DEF HttpError, To, Becomes, Unbind, Log
<1> DEFINE context == Without(bound[q], CallerNames)
           access  == Access(q, context)
<1>1. /\ asked'[q] = asked[q] /\ at'[q] = "endpoint" /\ mode'[q] = "return"
      /\ response'[q] = FromEndpoint(q, status) /\ state_id'[q] = state_id[q]
      /\ bound'[q] = context /\ lines'[q] = lines[q] \o (said \o access)
  BY DEF Inv, Typed
<1>2. Staged(q) /\ Sent(q) /\ Written(q) /\ Found(q) /\ bound[q] = Context(q)
  BY DEF Inv
<1>3. /\ asked[q] \in Asked /\ state_id[q] = Id(q) /\ Id(q) \in Ids
      /\ response[q] = None
  BY <1>2, IdType DEF Staged, Identified, Failed, Inv, Typed
<1>4. Theirs(q) BY <1>1 DEF Theirs, Inv, Typed
<1>5. context = Only("correlation_id", Id(q))
  BY <1>2, UnbindCaller DEF Context
<1>6. /\ response'[q] \in Responses /\ response'[q].x_request_id = Id(q)
      /\ response'[q].status = status
  BY <1>1, <1>3, SentInside
<1>7. Id(q)' = Id(q) BY <1>1 DEF Id, CorrelationId
<1>8. access \in Seq(Inner(q)) BY <1>5, InnerLines
<1>9. access \in {<<>>, <<AccessLine(context)>>} /\ AccessLine(context) \in Inner(q)
  BY <1>5, InfoMethod DEF Access, Lines, AccessLine, Inner
<1> HIDE DEF context, access, HttpError, To, Becomes, Unbind, Log
<1>10. bound'[q] = Context(q)' BY <1>1, <1>5, <1>7 DEF Context
<1>11. response'[q] # None BY <1>6, SentinelAssumption
<1>12. Staged(q)' BY <1>1, <1>2, <1>3, <1>7, <1>11 DEF Staged, Identified
<1>13. Sent(q)' BY <1>1, <1>6, <1>7 DEF Sent
<1>14. ~Failed(q) /\ ~Unready(q) /\ ~Failed(q)' /\ (Unready(q)' <=> status = 503)
  BY <1>1, <1>3, <1>6, <1>11 DEF Failed, Unready
<1>15. Written(q)' /\ Found(q)'
  <2>1. Inner(q)' = Inner(q) /\ PingLines(q)' = PingLines(q)
    BY <1>1, <1>7 DEF Inner, PingLines, CallerContext
  <2>2. lines[q] \in Seq(Inner(q)) BY <1>2, <1>14, Sound
  <2>3. CASE status # 503
    <3>1. said \o access = access BY <1>8, <2>3
    <3>2. lines'[q] = lines[q] \o access BY <1>1, <3>1
    <3> QED BY <1>1, <1>8, <1>14, <2>3, <3>2, Logs
  <2>4. CASE status = 503 /\ Emitted("error")
    <3>1. PICK fault \in PingLines(q) : said = <<fault>>
      BY <2>4 DEF RedisPing, PostgresPing, Lines, PingLines
    <3>2. Has(fault, "level", "error") BY <3>1, LineLevel DEF PingLines
    <3>3. lines'[q] = lines[q] \o (<<fault>> \o access) BY <1>1, <3>1
    <3>c. PICK c : c = context OBVIOUS
    <3>4. Struck(q, fault, AccessLine(c))
      <4>1. PICK a : a = access OBVIOUS
      <4>2. Adds(q, fault, a, AccessLine(c)) BY <1>9, <2>2, <3>3, <3>c, <4>1 DEF Adds
      <4> QED BY <3>2, <4>2, FailureLines
    <3>5. Errors(q)' = {Len(lines[q]) + 1} BY <3>4 DEF Errors, Struck
    <3>6. Fault(q)' = PingLines(q) /\ Further(q)' = PingLines(q)
      BY <1>14, <2>1, <2>4 DEF Fault, Further
    <3>7. lines'[q] \in Seq((Inner(q) \cup Further(q))')
      <4>1. Inner(q) \cup {fault, AccessLine(c)} \subseteq (Inner(q) \cup Further(q))'
        BY <1>9, <2>1, <3>1, <3>6, <3>c
      <4> QED BY <3>4, <4>1 DEF Struck
    <3> QED BY <1>1, <3>1, <3>4, <3>5, <3>6, <3>7 DEF Written, Found, Struck
  <2>5. CASE status = 503 /\ ~Emitted("error")
    <3>1. said = <<>> BY <2>5 DEF RedisPing, PostgresPing, Lines
    <3>2. said \o access = access BY <1>8, <3>1
    <3>3. lines[q] \o access \in Seq(Inner(q)) BY <1>8, <2>2
    <3>4. lines'[q] \in Seq((Inner(q) \cup Further(q))')
      <4>1. Inner(q) \subseteq (Inner(q) \cup Further(q))' BY <2>1
      <4>2. lines'[q] = lines[q] \o access BY <1>1, <3>2
      <4> HIDE DEF HttpError, Log
      <4>3. lines'[q] \in Seq(Inner(q)) BY <3>3, <4>2, Zenon
      <4> QED BY <4>1, <4>3
    <3> QED BY <1>1, <2>5, <3>4 DEF Written, Found, Emitted
  <2> QED BY <2>3, <2>4, <2>5
<1>16. /\ asked'[q] \in Asked \cup {None} /\ at'[q] \in Layers
       /\ mode'[q] \in {"call", "return", "raise"} /\ state_id'[q] \in Ids \cup {None}
       /\ response'[q] \in Responses \cup {None}
  BY <1>1, <1>3, <1>6 DEF Layers
<1> QED BY <1>4, <1>10, <1>12, <1>13, <1>15, <1>16, OneRequest

LEMMA AnswerOkInv ==
  ASSUME Inv, NEW q \in Requests, AnswerOk(q)
  PROVE  Inv'
<1> USE DEF AnswerOk, Becomes, Log, In
<1>1. /\ asked'[q] = asked[q] /\ at'[q] = at[q] /\ mode'[q] = "return"
      /\ response'[q] = FromEndpoint(q, 200) /\ state_id'[q] = state_id[q]
      /\ bound'[q] = bound[q] /\ lines'[q] = lines[q] \o Access(q, bound[q])
      /\ at[q] \in {"handler", "endpoint"} /\ mode[q] = "call"
  BY DEF Inv, Typed
<1>2. Staged(q) /\ Sent(q) /\ Written(q) /\ Found(q) /\ bound[q] = Context(q)
  BY DEF Inv
<1>3. /\ asked[q] \in Asked /\ state_id[q] = Id(q) /\ Id(q) \in Ids
      /\ response[q] = None
  BY <1>1, <1>2, IdType DEF Staged, Identified, Failed, Inv, Typed
<1>4. Theirs(q) BY <1>1 DEF Theirs, Inv, Typed
<1>5. \/ bound[q] = Only("correlation_id", Id(q))
      \/ bound[q] = Update(Only("correlation_id", Id(q)), CallerContext(q))
  BY <1>1, <1>2 DEF Context
<1>6. /\ response'[q] \in Responses /\ response'[q].x_request_id = Id(q)
      /\ response'[q].status = 200
  BY <1>1, <1>3, SentInside
<1>7. Id(q)' = Id(q) BY <1>1 DEF Id, CorrelationId
<1>8. bound'[q] = Context(q)' BY <1>1, <1>2, <1>7 DEF Context, CallerContext
<1>9. response'[q] # None BY <1>6, SentinelAssumption
<1>10. Staged(q)' BY <1>1, <1>2, <1>3, <1>7, <1>9 DEF Staged, Identified
<1>11. Sent(q)' BY <1>1, <1>6, <1>7 DEF Sent
<1>12. Written(q)' /\ Found(q)'
  <2>1. Access(q, bound[q]) \in Seq(Inner(q)) BY <1>5, InnerLines
  <2>2. ~Unready(q) /\ ~Unready(q)' BY <1>3, <1>6 DEF Unready
  <2> QED BY <1>1, <2>1, <2>2, Logs DEF Failed
<1>13. /\ asked'[q] \in Asked \cup {None} /\ at'[q] \in Layers
       /\ mode'[q] \in {"call", "return", "raise"} /\ state_id'[q] \in Ids \cup {None}
       /\ response'[q] \in Responses \cup {None}
  BY <1>1, <1>3, <1>6 DEF Layers
<1> QED BY <1>4, <1>8, <1>10, <1>11, <1>12, <1>13, OneRequest

\* The two ways to close the caller dependency without an error response.
LEMMA CallerClosedInv ==
  ASSUME Inv, NEW q \in Requests, CloseCaller(q) \/ Fail(q)
  PROVE  Inv'
<1> USE DEF CloseCaller, Fail, Unbind, To, Becomes, In
<1>1. /\ asked'[q] = asked[q] /\ at'[q] = "endpoint" /\ at[q] = "handler"
      /\ response'[q] = response[q] /\ state_id'[q] = state_id[q]
      /\ bound'[q] = Without(bound[q], CallerNames) /\ lines'[q] = lines[q]
      /\ \/ mode[q] = "return" /\ mode'[q] = "return"
         \/ mode[q] = "call" /\ mode'[q] = "raise"
  BY DEF Inv, Typed
<1>2. Staged(q) /\ Sent(q) /\ Written(q) /\ Found(q) /\ bound[q] = Context(q)
  BY DEF Inv
<1>3. asked[q] \in Asked /\ state_id[q] = Id(q) /\ (response[q] # None <=> mode[q] = "return")
  BY <1>1, <1>2 DEF Staged, Identified, Failed, Inv, Typed
<1>4. Theirs(q) BY <1>1 DEF Theirs, Inv, Typed
<1>5. Id(q)' = Id(q) BY <1>1 DEF Id, CorrelationId
<1>6. bound'[q] = Context(q)' BY <1>1, <1>2, <1>5, UnbindCaller DEF Context
<1>7. Staged(q)' BY <1>1, <1>2, <1>3, <1>5 DEF Staged, Identified, Failed
<1>8. Sent(q)' BY <1>1, <1>2, <1>3, <1>5 DEF Sent
<1>9. Written(q)' /\ Found(q)' BY <1>1, Quiet DEF Failed
<1>10. /\ asked'[q] \in Asked \cup {None} /\ at'[q] \in Layers
       /\ mode'[q] \in {"call", "return", "raise"} /\ state_id'[q] \in Ids \cup {None}
       /\ response'[q] \in Responses \cup {None}
  BY <1>1, <1>3 DEF Layers, Inv, Typed
<1> QED BY <1>4, <1>6, <1>7, <1>8, <1>9, <1>10, OneRequest

-----------------------------------------------------------------------------
(* On the way out *)

LEMMA LeavePrometheusInv ==
  ASSUME Inv, NEW q \in Requests, LeavePrometheus(q)
  PROVE  Inv'
<1>0. /\ at[q] = "endpoint" /\ mode[q] \in {"return", "raise"}
      /\ at' = [at EXCEPT ![q] = "secure"]
      /\ UNCHANGED <<asked, mode, bound, state_id, response, lines, gone>>
  BY DEF LeavePrometheus, To, In
<1>1. /\ asked'[q] = asked[q] /\ at'[q] = "secure" /\ at[q] = "endpoint"
      /\ response'[q] = response[q] /\ state_id'[q] = state_id[q]
      /\ bound'[q] = bound[q] /\ lines'[q] = lines[q]
      /\ mode[q] \in {"return", "raise"} /\ mode'[q] = mode[q]
  BY <1>0 DEF Inv, Typed
<1>2. Staged(q) /\ Sent(q) /\ Written(q) /\ Found(q) /\ bound[q] = Context(q)
  BY DEF Inv
<1>3. asked[q] \in Asked /\ state_id[q] = Id(q)
  BY <1>1, <1>2 DEF Staged, Identified, Inv, Typed
<1>4. Theirs(q) BY <1>0 DEF Theirs, Inv, Typed
<1>5. Id(q)' = Id(q) BY <1>1 DEF Id, CorrelationId
<1>6. bound'[q] = Context(q)' BY <1>1, <1>2, <1>5 DEF Context
<1>7. Staged(q)' BY <1>1, <1>2, <1>3, <1>5 DEF Staged, Identified, Failed
<1>8. Sent(q)' BY <1>1, <1>2, <1>3, <1>5 DEF Sent
<1>9. Written(q)' /\ Found(q)' BY <1>1, Quiet DEF Failed
<1>10. /\ asked'[q] \in Asked \cup {None} /\ at'[q] \in Layers
       /\ mode'[q] \in {"call", "return", "raise"} /\ state_id'[q] \in Ids \cup {None}
       /\ response'[q] \in Responses \cup {None}
  BY <1>1, <1>3 DEF Layers, Inv, Typed
<1> QED BY <1>4, <1>6, <1>7, <1>8, <1>9, <1>10, OneRequest

LEMMA LeaveCorrelationInv ==
  ASSUME Inv, NEW q \in Requests, LeaveCorrelation(q)
  PROVE  Inv'
<1> USE DEF LeaveCorrelation, Unbind, To, In
<1>1. /\ asked'[q] = asked[q] /\ at'[q] = "server_error" /\ at[q] = "secure"
      /\ response'[q] = response[q] /\ state_id'[q] = state_id[q]
      /\ bound'[q] = Without(bound[q], {"correlation_id"}) /\ lines'[q] = lines[q]
      /\ mode[q] \in {"return", "raise"} /\ mode'[q] = mode[q]
  BY DEF Inv, Typed
<1>2. Staged(q) /\ Sent(q) /\ Written(q) /\ Found(q) /\ bound[q] = Context(q)
  BY DEF Inv
<1>3. asked[q] \in Asked /\ state_id[q] = Id(q)
  BY <1>1, <1>2 DEF Staged, Identified, Inv, Typed
<1>4. Theirs(q) BY <1>1 DEF Theirs, Inv, Typed
<1>5. Id(q)' = Id(q) BY <1>1 DEF Id, CorrelationId
<1>6. bound'[q] = Context(q)' BY <1>1, <1>2, UnbindId DEF Context
<1>7. Staged(q)' BY <1>1, <1>2, <1>3, <1>5 DEF Staged, Identified, Failed
<1>8. Sent(q)' BY <1>1, <1>2, <1>3, <1>5 DEF Sent
<1>9. Written(q)' /\ Found(q)' BY <1>1, Quiet DEF Failed
<1>10. /\ asked'[q] \in Asked \cup {None} /\ at'[q] \in Layers
       /\ mode'[q] \in {"call", "return", "raise"} /\ state_id'[q] \in Ids \cup {None}
       /\ response'[q] \in Responses \cup {None}
  BY <1>1, <1>3 DEF Layers, Inv, Typed
<1> QED BY <1>4, <1>6, <1>7, <1>8, <1>9, <1>10, OneRequest

LEMMA SentOutside ==
  ASSUME NEW q, state_id[q] \in Ids
  PROVE  /\ FromServerError(q) \in Responses
         /\ FromServerError(q).x_request_id = state_id[q]
         /\ FromServerError(q).status = 500
BY DEF FromServerError, Responses, Statuses

LEMMA HandleExceptionInv ==
  ASSUME Inv, NEW q \in Requests, HandleException(q)
  PROVE  Inv'
<1> DEFINE kwargs == Update(Failure, Only("correlation_id", state_id[q]))
           new    == Lines("uvicorn", "error", "unhandled", kwargs, bound[q])
           access == Access(q, bound[q])
<1>1. /\ asked'[q] = asked[q] /\ at'[q] = "uvicorn" /\ at[q] = "server_error"
      /\ response'[q] = FromServerError(q) /\ state_id'[q] = state_id[q]
      /\ bound'[q] = bound[q] /\ lines'[q] = lines[q] \o (new \o access)
      /\ mode[q] = "raise" /\ mode'[q] = mode[q]
  BY DEF Inv, Typed, HandleException, To, Log, In
<1>2. Staged(q) /\ Sent(q) /\ Written(q) /\ Found(q) /\ bound[q] = Context(q)
  BY DEF Inv
<1>3. asked[q] \in Asked /\ state_id[q] = Id(q) /\ Id(q) \in Ids
  BY <1>1, <1>2, IdType DEF Staged, Identified, Inv, Typed
<1>4. Theirs(q) BY <1>1 DEF Theirs, Inv, Typed, HandleException, To, Log
<1>5. Id(q)' = Id(q) BY <1>1 DEF Id, CorrelationId
<1>6. bound[q] = Nothing /\ bound'[q] = Context(q)' BY <1>1, <1>2 DEF Context
<1>7. /\ response'[q] \in Responses /\ response'[q].x_request_id = Id(q)
      /\ response'[q].status = 500
  BY <1>1, <1>3, SentOutside
<1>8. response'[q] # None BY <1>7, SentinelAssumption
<1>9. Staged(q)' BY <1>1, <1>2, <1>3, <1>5, <1>8 DEF Staged, Identified, Failed
<1>10. Sent(q)' BY <1>1, <1>5, <1>7 DEF Sent
<1>11. Written(q)' /\ Found(q)'
  <2>1. /\ Inner(q)' = Inner(q) /\ Failed(q)'
        /\ Fault(q)' = {ErrorLine(q)} /\ Further(q)' = {ErrorLine(q), AccessLine(Nothing)}
    <3>1. Inner(q)' = Inner(q) /\ ErrorLine(q)' = ErrorLine(q)
      BY <1>1, <1>5 DEF Inner, ErrorLine, CallerContext
    <3>2. Failed(q)' BY <1>1 DEF Failed
    <3> QED BY <3>1, <3>2 DEF Fault, Further
  <2>2. lines[q] \in Seq(Inner(q))
    <3>1. ~Failed(q) /\ ~Unready(q) BY <1>1, <1>2 DEF Staged, Failed, Unready
    <3> QED BY <1>2, <3>1, Sound
  <2>3. access \in {<<>>, <<AccessLine(Nothing)>>}
    BY <1>6, InfoMethod DEF Access, Lines, AccessLine
  <2>4. CASE Emitted("error")
    <3>1. new = <<ErrorLine(q)>> BY <1>3, <1>6, <2>4 DEF Lines, ErrorLine
    <3> HIDE DEF new, access
    <3>2. lines'[q] = lines[q] \o (<<ErrorLine(q)>> \o access) BY <1>1, <3>1
    <3>3. Struck(q, ErrorLine(q), AccessLine(Nothing))
      <4>1. Has(ErrorLine(q), "level", "error") BY LineLevel DEF ErrorLine
      <4>2. Adds(q, ErrorLine(q), access, AccessLine(Nothing)) BY <2>2, <2>3, <3>2 DEF Adds
      <4> QED BY <4>1, <4>2, FailureLines, Zenon
    <3>4. Errors(q)' = {Len(lines[q]) + 1} BY <3>3 DEF Errors, Struck
    <3> QED BY <1>1, <2>1, <3>3, <3>4 DEF Written, Found, Struck
  <2>5. CASE ~Emitted("error")
    <3>1. new = <<>> BY <2>5 DEF Lines
    <3> HIDE DEF new, access
    <3>2. new \o access \in Seq({AccessLine(Nothing)})
      <4>1. access \in Seq({AccessLine(Nothing)}) BY <2>3, ShortSeq
      <4>2. new \in Seq({AccessLine(Nothing)}) BY <3>1
      <4> QED BY <4>1, <4>2, ConcatProperties
    <3>3. lines'[q] \in Seq(Inner(q) \cup {ErrorLine(q), AccessLine(Nothing)})
      <4> DEFINE S == Inner(q) \cup {ErrorLine(q), AccessLine(Nothing)}
      <4>1. lines[q] \in Seq(S) /\ new \o access \in Seq(S) BY <2>2, <3>2
      <4> HIDE DEF S
      <4>2. lines'[q] \in Seq(S) BY <1>1, <4>1, ConcatProperties
      <4> QED BY <4>2 DEF S
    <3> QED BY <1>1, <2>1, <2>5, <3>3 DEF Written, Found, Emitted
  <2> QED BY <2>4, <2>5
<1>12. /\ asked'[q] \in Asked \cup {None} /\ at'[q] \in Layers
       /\ mode'[q] \in {"call", "return", "raise"} /\ state_id'[q] \in Ids \cup {None}
       /\ response'[q] \in Responses \cup {None}
  BY <1>1, <1>3, <1>7 DEF Layers, Inv, Typed
<1> QED BY <1>4, <1>6, <1>9, <1>10, <1>11, <1>12, OneRequest

LEMMA FinishInv ==
  ASSUME Inv, NEW q \in Requests, Finish(q)
  PROVE  Inv'
<1> USE DEF Finish, To, In
<1>1. /\ asked'[q] = asked[q] /\ at'[q] = "over" /\ mode'[q] = mode[q]
      /\ response'[q] = response[q] /\ state_id'[q] = state_id[q]
      /\ bound'[q] = bound[q] /\ lines' = lines
      /\ \/ at[q] = "server_error" /\ mode[q] = "return"
         \/ at[q] = "uvicorn" /\ mode[q] = "raise"
  BY DEF Inv, Typed, Kept
<1>2. Staged(q) /\ Sent(q) /\ Written(q) /\ Found(q) /\ bound[q] = Context(q)
  BY DEF Inv
<1>3. asked[q] \in Asked /\ state_id[q] = Id(q)
  BY <1>1, <1>2 DEF Staged, Identified, Inv, Typed
<1>4. Theirs(q) BY <1>1 DEF Theirs, Inv, Typed
<1>5. Id(q)' = Id(q) BY <1>1 DEF Id, CorrelationId
<1>6. bound'[q] = Context(q)' BY <1>1, <1>2 DEF Context
<1>7. Staged(q)' BY <1>1, <1>2, <1>3, <1>5 DEF Staged, Identified, Failed
<1>8. Sent(q)' BY <1>1, <1>2, <1>5 DEF Sent
<1>9. Written(q)' /\ Found(q)' BY <1>1, Quiet DEF Failed
<1>10. /\ asked'[q] \in Asked \cup {None} /\ at'[q] \in Layers
       /\ mode'[q] \in {"call", "return", "raise"} /\ state_id'[q] \in Ids \cup {None}
       /\ response'[q] \in Responses \cup {None}
  BY <1>1, <1>3 DEF Layers, Inv, Typed
<1> QED BY <1>4, <1>6, <1>7, <1>8, <1>9, <1>10, OneRequest

LEMMA AnswerInv ==
  ASSUME Inv, NEW q \in Requests, Answer(q)
  PROVE  Inv'
<1>1. CASE Reject(q)
  BY <1>1, HttpErrorInv DEF Reject, In
<1>2. CASE AnswerError(q)
  BY <1>2, HttpErrorInv DEF AnswerError, In
<1>3. CASE NotReady(q)
  <2>1. bound[q] = Only("correlation_id", Id(q)) BY <1>3 DEF NotReady, In, Inv, Context
  <2>2. /\ at[q] = "endpoint" /\ mode[q] = "call"
        /\ UNCHANGED <<asked, state_id, gone, counters>>
        /\ \E said \in RedisPing(bound[q]) \cup PostgresPing(bound[q]) : HttpError(q, 503, said)
    BY <1>3 DEF NotReady, In
  <2> QED BY <2>1, <2>2, HttpErrorInv
<1>4. CASE AnswerOk(q) BY <1>4, AnswerOkInv
<1>5. CASE Fail(q) BY <1>5, CallerClosedInv
<1> QED BY <1>1, <1>2, <1>3, <1>4, <1>5 DEF Answer

\* What the invariant speaks of does not change when a client goes.
LEMMA SameInv ==
  ASSUME Inv, UNCHANGED <<asked, at, mode, bound, state_id, response, lines>>
  PROVE  Inv'
<1>1. Typed' BY DEF Inv, Typed
<1>2. bound' = [r \in Requests |-> Context(r)']
  BY DEF Inv, Context, Id, CorrelationId, CallerContext
<1>3. lines' = [r \in Requests |-> lines'[r]] BY DEF Inv
<1>4. ASSUME NEW r \in Requests PROVE Staged(r)' /\ Sent(r)' /\ Written(r)' /\ Found(r)'
  <2>1. Staged(r) /\ Sent(r) /\ Written(r) /\ Found(r) BY DEF Inv
  <2>2. Failed(r)' = Failed(r) /\ Identified(r)' = Identified(r) /\ Id(r)' = Id(r)
    BY DEF Failed, Identified, Id, CorrelationId
  <2>3. Inner(r)' = Inner(r) /\ Errors(r)' = Errors(r)
    BY <2>2 DEF Inner, Errors, CallerContext
  <2>4. Unready(r)' = Unready(r) /\ Fault(r)' = Fault(r) /\ Further(r)' = Further(r)
    <3>1. ErrorLine(r)' = ErrorLine(r) /\ PingLines(r)' = PingLines(r)
      BY <2>2 DEF ErrorLine, PingLines
    <3>2. Unready(r)' = Unready(r) BY DEF Unready
    <3> QED BY <2>2, <3>1, <3>2 DEF Fault, Further
  <2>5. Staged(r)' BY <2>1, <2>2 DEF Staged
  <2>6. Sent(r)' BY <2>1, <2>2 DEF Sent
  <2>7. Written(r)' BY <2>1, <2>3, <2>4 DEF Written
  <2>8. Found(r)' BY <2>1, <2>2, <2>3, <2>4 DEF Found
  <2> QED BY <2>5, <2>6, <2>7, <2>8
<1> QED BY <1>1, <1>2, <1>3, <1>4 DEF Inv

LEMMA InitInv == Init => Inv
<1> SUFFICES ASSUME Init PROVE Inv OBVIOUS
<1>1. Typed BY DEF Init, Typed, Layers
<1>2. bound = [r \in Requests |-> Context(r)] BY DEF Init, Context
<1>3. lines = [r \in Requests |-> lines[r]] BY DEF Init
<1>4. ASSUME NEW r \in Requests PROVE Staged(r) /\ Sent(r) /\ Written(r) /\ Found(r)
  <2>1. Staged(r) BY DEF Init, Staged, Identified, Failed
  <2>2. Sent(r) BY DEF Init, Sent
  <2>3. Written(r) /\ Found(r)
    <3>1. lines[r] = <<>> /\ ~Failed(r) /\ ~Unready(r) BY DEF Init, Failed, Unready
    <3>2. <<>> \in Seq(Inner(r) \cup Further(r)) OBVIOUS
    <3> QED BY <3>1, <3>2 DEF Written, Found
  <2> QED BY <2>1, <2>2, <2>3
<1> QED BY <1>1, <1>2, <1>3, <1>4 DEF Inv

LEMMA NextInv == Inv /\ [Next]_vars => Inv'
<1> SUFFICES ASSUME Inv, [Next]_vars PROVE Inv' OBVIOUS
<1>1. ASSUME NEW q \in Requests, Enter(q) PROVE Inv'
  BY <1>1, ReceiveInv, EnterCorrelationInv, DescendInv, BindCallerInv, CallHandlerInv DEF Enter
<1>2. ASSUME NEW q \in Requests, Answer(q) PROVE Inv'
  BY <1>2, AnswerInv
<1>3. ASSUME NEW q \in Requests, Leave(q) PROVE Inv'
  BY <1>3, CallerClosedInv, LeavePrometheusInv, LeaveCorrelationInv, HandleExceptionInv,
     FinishInv DEF Leave
<1>4. ASSUME NEW q \in Requests, Disconnect(q) PROVE Inv'
  BY <1>4, SameInv DEF Disconnect
<1>5. CASE UNCHANGED vars
  BY <1>5, SameInv DEF vars
<1> QED BY <1>1, <1>2, <1>3, <1>4, <1>5 DEF Next

\* A request is in one stage at a time, its context binds what the layers it is
\* in have bound, and its lines are among those that stage can have written.
THEOREM PipelineInvariant == Spec => []Inv
<1>1. Init => Inv BY InitInv
<1>2. Inv /\ [Next]_vars => Inv' BY NextInv
<1> QED BY <1>1, <1>2, PTL DEF Spec

-----------------------------------------------------------------------------
(* What follows *)

\* CorrelationIdMiddleware and UnhandledHttpExceptionHandler: whichever of the
\* two stamps the response, it carries the id the request was given.
THEOREM ResponsesCarryTheirId == Spec => []EveryResponseCarriesItsId
<1>1. Inv => EveryResponseCarriesItsId
  BY DEF Inv, Sent, Id, EveryResponseCarriesItsId
<1> QED BY <1>1, PipelineInvariant, PTL

\* Neither the id nor the caller outlives its request, whichever way it ended.
THEOREM ContextsAreReset == Spec => []ContextIsReset
<1>1. Inv => ContextIsReset
  BY DEF Inv, Context, ContextIsReset, Over
<1> QED BY <1>1, PipelineInvariant, PTL

\* What the error line says.
LEMMA ErrorSays ==
  ASSUME NEW r
  PROVE  LET line == ErrorLine(r)
         IN  /\ Has(line, "correlation_id", Id(r)) /\ Has(line, "exception", "traceback")
             /\ Has(line, "level", "error") /\ Has(line, "msg", "unhandled")
             /\ \A name \in CallerNames : name \notin DOMAIN line
<1> DEFINE kwargs == Update(Failure, Only("correlation_id", Id(r)))
<1>1. /\ "correlation_id" \in DOMAIN kwargs /\ kwargs["correlation_id"] = Id(r)
      /\ "exc_info" \in DOMAIN kwargs /\ kwargs["exc_info"] = "traceback"
      /\ \A name \in CallerNames : name \notin DOMAIN kwargs
  BY UpdateHas, OnlyHas DEF Failure, CallerNames
<1> HIDE DEF kwargs
<1>2. ErrorLine(r) = Line("uvicorn", "error", "unhandled", kwargs, Nothing)
  BY DEF ErrorLine, kwargs
<1>3. "correlation_id" \in Said /\ CallerNames \subseteq Said /\ DOMAIN Nothing = {}
  BY DEF Said, CallerNames, Nothing
<1>4. Has(ErrorLine(r), "correlation_id", Id(r))
  BY <1>1, <1>2, <1>3, LineSays DEF Has
<1>5. \A name \in CallerNames : name \notin DOMAIN ErrorLine(r)
  BY <1>1, <1>2, <1>3, LineSays
<1>6. /\ Has(ErrorLine(r), "exception", "traceback")
      /\ Has(ErrorLine(r), "level", "error") /\ Has(ErrorLine(r), "msg", "unhandled")
  BY <1>1, <1>2, LineLevel
<1> QED BY <1>4, <1>5, <1>6

\* What the lines written inside the stack say.
LEMMA InnerSays ==
  ASSUME NEW r, NEW line \in Inner(r)
  PROVE  /\ Has(line, "correlation_id", Id(r))
         /\ ~Has(line, "level", "error")
         /\ \A name \in CallerNames :
              IF Has(line, "msg", "route") THEN Has(line, name, asked[r].caller)
              ELSE name \in DOMAIN line => line[name] = asked[r].caller
<1> DEFINE id    == Only("correlation_id", Id(r))
           whole == Update(id, CallerContext(r))
<1>1. /\ "correlation_id" \in DOMAIN id /\ id["correlation_id"] = Id(r)
      /\ \A name \in CallerNames : name \notin DOMAIN id
  BY OnlyHas DEF CallerNames
<1>2. /\ "correlation_id" \in DOMAIN whole /\ whole["correlation_id"] = Id(r)
      /\ \A name \in CallerNames : name \in DOMAIN whole /\ whole[name] = asked[r].caller
  <2>1. DOMAIN CallerContext(r) = CallerNames BY DEF CallerContext
  <2>2. "correlation_id" \notin CallerNames BY DEF CallerNames
  <2>3. \A name \in CallerNames : CallerContext(r)[name] = asked[r].caller
    BY DEF CallerContext
  <2> HIDE DEF id
  <2> QED BY <1>1, <2>1, <2>2, <2>3, UpdateHas
<1> HIDE DEF id, whole
<1>3. "correlation_id" \in Said /\ CallerNames \subseteq Said /\ DOMAIN Nothing = {}
  BY DEF Said, CallerNames, Nothing
<1>4. \/ line = Line("feature-flag-router", "info", "route", Nothing, whole)
      \/ line = AccessLine(whole)
      \/ line = AccessLine(id)
  BY DEF Inner, id, whole
<1>5. CASE line = Line("feature-flag-router", "info", "route", Nothing, whole)
  <2>1. Has(line, "correlation_id", Id(r)) BY <1>2, <1>3, <1>5, LineSays DEF Has
  <2>2. \A name \in CallerNames : Has(line, name, asked[r].caller)
    BY <1>2, <1>3, <1>5, LineSays DEF Has
  <2>3. ~Has(line, "level", "error") BY <1>5, LineLevel DEF Has
  <2> QED BY <2>1, <2>2, <2>3 DEF Has
<1>6. CASE line = AccessLine(whole)
  <2>1. Has(line, "correlation_id", Id(r))
    BY <1>2, <1>3, <1>6, LineSays DEF Has, AccessLine
  <2>2. \A name \in CallerNames : Has(line, name, asked[r].caller)
    BY <1>2, <1>3, <1>6, LineSays DEF Has, AccessLine
  <2>3. ~Has(line, "level", "error") BY <1>6, LineLevel DEF Has, AccessLine
  <2> QED BY <2>1, <2>2, <2>3 DEF Has
<1>7. CASE line = AccessLine(id)
  <2>1. Has(line, "correlation_id", Id(r))
    BY <1>1, <1>3, <1>7, LineSays DEF Has, AccessLine
  <2>2. \A name \in CallerNames : name \notin DOMAIN line
    BY <1>1, <1>3, <1>7, LineSays DEF AccessLine
  <2>3. Has(line, "msg", "access") /\ ~Has(line, "level", "error")
    BY <1>7, LineLevel DEF Has, AccessLine
  <2> QED BY <2>1, <2>2, <2>3 DEF Has
<1> QED BY <1>4, <1>5, <1>6, <1>7

\* What the line of a failed ping says.
LEMMA PingSays ==
  ASSUME NEW r, NEW line \in PingLines(r)
  PROVE  /\ Has(line, "correlation_id", Id(r))
         /\ \E event \in PingFailures : Has(line, "msg", event)
         /\ ~Has(line, "msg", "redis.ping.unexpected_result") => Has(line, "exception", "traceback")
         /\ ~Has(line, "msg", "route") /\ \A name \in CallerNames : name \notin DOMAIN line
<1> DEFINE id == Only("correlation_id", Id(r))
<1>1. /\ "correlation_id" \in DOMAIN id /\ id["correlation_id"] = Id(r)
      /\ \A name \in CallerNames : name \notin DOMAIN id
  BY OnlyHas DEF CallerNames
<1>2. "correlation_id" \in Said /\ CallerNames \subseteq Said
  BY DEF Said, CallerNames
<1> HIDE DEF id
<1>3. ASSUME NEW context, NEW event \in PingFailures, NEW kwargs,
             DOMAIN kwargs \cap Said = {}, line = Line(context, "error", event, kwargs, id)
      PROVE  /\ Has(line, "correlation_id", Id(r)) /\ Has(line, "msg", event)
             /\ \A name \in CallerNames : name \notin DOMAIN line
             /\ "exc_info" \in DOMAIN kwargs => Has(line, "exception", kwargs["exc_info"])
  <2>1. Has(line, "correlation_id", Id(r)) BY <1>1, <1>2, <1>3, LineSays DEF Has
  <2>2. \A name \in CallerNames : name \notin DOMAIN line BY <1>1, <1>2, <1>3, LineSays
  <2>3. /\ Has(line, "msg", event)
        /\ "exc_info" \in DOMAIN kwargs => Has(line, "exception", kwargs["exc_info"])
    BY <1>3, LineLevel
  <2> QED BY <2>1, <2>2, <2>3
<1>4. /\ DOMAIN Failure = {"exc_info"} /\ Failure["exc_info"] = "traceback"
      /\ DOMAIN Only("result", "pong") = {"result"}
  BY DEF Failure, Only
<1>5. DOMAIN Failure \cap Said = {} /\ DOMAIN Only("result", "pong") \cap Said = {}
  BY <1>4 DEF Said
<1>6. PICK event \in PingFailures :
        \E kwargs \in IF event = "redis.ping.unexpected_result" THEN {Only("result", "pong")} ELSE {Failure} :
          \E context : line = Line(context, "error", event, kwargs, id)
  BY DEF PingLines, PingFailures, id
<1>7. /\ Has(line, "correlation_id", Id(r)) /\ Has(line, "msg", event)
      /\ \A name \in CallerNames : name \notin DOMAIN line
      /\ event # "redis.ping.unexpected_result" => Has(line, "exception", "traceback")
  BY <1>3, <1>4, <1>5, <1>6
<1>8. event # "route" BY DEF PingFailures
<1> QED BY <1>7, <1>8 DEF Has

\* The clients' pings, UnhandledHttpExceptionHandler, UvicornLogHandler and its
\* filter: a failure is logged once, as an error under the id of its response,
\* and nothing else is.
THEOREM FailuresAreLoggedOnce == Spec => []OneErrorLinePerFailure
<1>1. Inv => OneErrorLinePerFailure
  <2> SUFFICES ASSUME Inv, Emitted("error"), NEW r \in Over
               PROVE  IF response[r].status \in {500, 503}
                        THEN \E n \in 1..Len(lines[r]) :
                               LET line == lines[r][n]
                               IN  /\ Errors(r) = {n}
                                   /\ Has(line, "correlation_id", response[r].x_request_id)
                                   /\ \E event \in FailureEvents(response[r].status) :
                                        Has(line, "msg", event)
                                   /\ ~Has(line, "msg", "redis.ping.unexpected_result")
                                        => Has(line, "exception", "traceback")
                        ELSE Errors(r) = {}
    BY DEF OneErrorLinePerFailure
  <2>1. r \in Requests /\ at[r] = "over" BY DEF Over
  <2>2. Staged(r) /\ Sent(r) /\ Written(r) /\ Found(r) BY <2>1 DEF Inv
  <2>3. mode[r] \in {"return", "raise"} /\ response[r] # None
    BY <2>1, <2>2 DEF Staged, Failed, Inv, Typed
  <2>4. /\ response[r].x_request_id = Id(r)
        /\ Failed(r) <=> response[r].status = 500
        /\ Unready(r) <=> response[r].status = 503
    BY <2>1, <2>2, <2>3 DEF Sent, Failed, Unready
  <2>5. CASE response[r].status = 500
    <3>1. PICK n \in 1..Len(lines[r]) : lines[r][n] = ErrorLine(r) /\ Errors(r) = {n}
      BY <2>2, <2>4, <2>5 DEF Found, Fault
    <3>2. /\ Has(lines[r][n], "correlation_id", Id(r)) /\ Has(lines[r][n], "msg", "unhandled")
          /\ Has(lines[r][n], "exception", "traceback")
      BY <3>1, ErrorSays
    <3>3. FailureEvents(response[r].status) = {"unhandled"} BY <2>5 DEF FailureEvents
    <3> QED BY <2>4, <2>5, <3>1, <3>2, <3>3
  <2>6. CASE response[r].status = 503
    <3>1. PICK n \in 1..Len(lines[r]) : lines[r][n] \in PingLines(r) /\ Errors(r) = {n}
      BY <2>2, <2>4, <2>6 DEF Found, Fault
    <3>2. /\ Has(lines[r][n], "correlation_id", Id(r))
          /\ \E event \in PingFailures : Has(lines[r][n], "msg", event)
          /\ ~Has(lines[r][n], "msg", "redis.ping.unexpected_result")
               => Has(lines[r][n], "exception", "traceback")
      BY <3>1, PingSays
    <3>3. FailureEvents(response[r].status) = PingFailures BY <2>6 DEF FailureEvents
    <3>4. Has(lines[r][n], "correlation_id", response[r].x_request_id)
      BY <2>4, <3>2
    <3> QED BY <2>6, <3>1, <3>2, <3>3, <3>4
  <2>7. CASE response[r].status \notin {500, 503}
    <3>1. lines[r] \in Seq(Inner(r)) BY <2>2, <2>4, <2>7, Sound
    <3>2. \A n \in 1..Len(lines[r]) : lines[r][n] \in Inner(r) BY <3>1, ElementOfSeq
    <3>3. Errors(r) = {} BY <3>2, InnerSays DEF Errors
    <3> QED BY <2>7, <3>3
  <2> QED BY <2>5, <2>6, <2>7
<1> QED BY <1>1, PipelineInvariant, PTL

\* LogManager's merge of the context under the call's arguments: a line is of
\* the request that wrote it, its caller included, and says so if it can.
THEOREM EveryLineIsAttributed == Spec => []LinesAreAttributed
<1>1. Inv => LinesAreAttributed
  <2> SUFFICES ASSUME Inv, NEW r \in Requests, NEW n \in 1..Len(lines[r])
               PROVE  LET line == lines[r][n]
                      IN  /\ \/ Has(line, "correlation_id", Id(r))
                             \/ /\ response[r] # None /\ response[r].status = 500
                                /\ Has(line, "msg", "access")
                                /\ "correlation_id" \notin DOMAIN line
                          /\ \A name \in CallerNames :
                               IF Has(line, "msg", "route") THEN Has(line, name, asked[r].caller)
                               ELSE name \in DOMAIN line => line[name] = asked[r].caller
    BY DEF LinesAreAttributed, Id
  <2> DEFINE line == lines[r][n]
  <2>1. Staged(r) /\ Sent(r) /\ Written(r) BY DEF Inv
  <2>2. \/ line \in Inner(r) \/ line = ErrorLine(r) \/ line \in PingLines(r)
        \/ Failed(r) /\ line = AccessLine(Nothing)
    <3>1. line \in Inner(r) \cup Further(r) BY <2>1, ElementOfSeq DEF Written
    <3> HIDE DEF line
    <3> QED BY <3>1 DEF Further, Fault
  <2> HIDE DEF line
  <2>3. CASE line \in Inner(r)
    BY <2>3, InnerSays DEF line
  <2>4. CASE line = ErrorLine(r)
    BY <2>4, ErrorSays DEF line, Has
  <2>5. CASE Failed(r) /\ line = AccessLine(Nothing)
    <3>1. response[r] # None /\ response[r].status = 500
      BY <2>1, <2>5 DEF Staged, Sent, Failed
    <3>2. Has(line, "msg", "access")
      BY <2>5, LineLevel DEF AccessLine
    <3>3. \A name \in Said : name \notin DOMAIN line
      BY <2>5, LineSays DEF AccessLine, Nothing
    <3>4. "correlation_id" \in Said /\ CallerNames \subseteq Said
      BY DEF Said, CallerNames
    <3> QED BY <3>1, <3>2, <3>3, <3>4 DEF line, Has
  <2>6. CASE line \in PingLines(r)
    BY <2>6, PingSays DEF line
  <2> QED BY <2>2, <2>3, <2>4, <2>5, <2>6
<1> QED BY <1>1, PipelineInvariant, PTL


-----------------------------------------------------------------------------
(* The HTTP metrics *)

\* PrometheusMiddleware has counted the request.
Past(r) ==
  \/ at[r] \in {"uvicorn", "over"}
  \/ at[r] \in {"secure", "server_error"} /\ mode[r] # "call"

\* The status it was counted under.
Status(r) == IF mode[r] = "raise" THEN 500 ELSE response[r].status

CountedUnder(route, status) ==
  {r \in Requests : Past(r) /\ asked[r].path = route /\ Status(r) = status}

WithInbound ==
  {r \in Requests : Past(r) /\ asked[r].path \notin Excluded /\ asked[r].x_request_id # None}

\* CountedAsAnswered made inductive: the series follow the requests that have
\* passed the middleware, whether or not they are answered yet.
Tally ==
  /\ series \in [Routes \X Statuses -> Nat]
  /\ \A route \in Routes, status \in Statuses :
       /\ IsFiniteSet(CountedUnder(route, status))
       /\ series[<<route, status>>] =
            IF route \in Excluded THEN 0 ELSE Cardinality(CountedUnder(route, status))
  /\ IsFiniteSet(WithInbound)
  /\ inbound = Cardinality(WithInbound)

\* What a request has been counted as stays what it was.
Settled(r) == Past(r) => asked'[r] = asked[r] /\ Status(r)' = Status(r)

LEMMA SameTally ==
  ASSUME Tally, UNCHANGED counters,
         \A r \in Requests : Past(r)' = Past(r) /\ Settled(r)
  PROVE  Tally'
<1>1. ASSUME NEW route \in Routes, NEW status \in Statuses
      PROVE  CountedUnder(route, status)' = CountedUnder(route, status)
  BY DEF CountedUnder, Settled
<1>2. WithInbound' = WithInbound
  BY DEF WithInbound, Settled
<1> QED BY <1>1, <1>2 DEF Tally, counters

\* A step of q says nothing of the others.
LEMMA OthersSettled ==
  ASSUME Inv, NEW q \in Requests, Theirs(q), Past(q)' = Past(q), Settled(q)
  PROVE  \A r \in Requests : Past(r)' = Past(r) /\ Settled(r)
<1> SUFFICES ASSUME NEW r \in Requests, r # q
             PROVE  Past(r)' = Past(r) /\ Settled(r)
  OBVIOUS
<1>1. /\ asked'[r] = asked[r] /\ at'[r] = at[r] /\ mode'[r] = mode[r]
      /\ response'[r] = response[r]
  BY DEF Inv, Typed, Theirs
<1> QED BY <1>1 DEF Past, Settled, Status

LEMMA EnterTally ==
  ASSUME Inv, Tally, NEW q \in Requests, Enter(q)
  PROVE  Tally'
<1>1. Theirs(q) BY DEF Theirs, Inv, Typed, Enter, Receive, EnterCorrelation, Descend,
                       BindCaller, CallHandler, To, Bind, Log
<1>2. Staged(q) BY DEF Inv
<1>3. ~Past(q) /\ ~Past(q)'
  BY <1>2 DEF Past, Staged, Inv, Typed, Enter, Receive, EnterCorrelation, Descend,
              BindCaller, CallHandler, To, In
<1>4. UNCHANGED counters
  BY DEF Enter, Receive, EnterCorrelation, Descend, BindCaller, CallHandler
<1>5. Past(q)' = Past(q) /\ Settled(q) BY <1>3 DEF Past, Settled
<1> QED BY <1>1, <1>4, <1>5, OthersSettled, SameTally

LEMMA AnswerTally ==
  ASSUME Inv, Tally, NEW q \in Requests, Answer(q) \/ CloseCaller(q)
  PROVE  Tally'
<1> USE DEF Answer, Reject, AnswerError, NotReady, AnswerOk, Fail, CloseCaller, HttpError
<1>1. Theirs(q) BY DEF Theirs, Inv, Typed, To, Becomes, Unbind, Log
<1>2. ~Past(q) /\ ~Past(q)' BY DEF Past, Inv, Typed, To, In
<1>3. UNCHANGED counters OBVIOUS
<1>4. Past(q)' = Past(q) /\ Settled(q) BY <1>2 DEF Past, Settled
<1> HIDE DEF Answer, CloseCaller
<1> QED BY <1>1, <1>3, <1>4, OthersSettled, SameTally

LEMMA LeaveTally ==
  ASSUME Inv, Tally, NEW q \in Requests,
         LeaveCorrelation(q) \/ HandleException(q) \/ Finish(q)
  PROVE  Tally'
<1> USE DEF LeaveCorrelation, HandleException, Finish
<1>1. Theirs(q) BY DEF Theirs, Inv, Typed, To, Unbind, Log
<1>2. Past(q) /\ Past(q)' BY DEF Past, Inv, Typed, To, In
<1>3. Settled(q) BY DEF Settled, Status, Inv, Typed, In
<1>4. UNCHANGED counters OBVIOUS
<1> QED BY <1>1, <1>2, <1>3, <1>4, OthersSettled, SameTally

\* The one step that counts: the request joins the set of its route and status,
\* and of no other.
LEMMA LeavePrometheusTally ==
  ASSUME Inv, Tally, NEW q \in Requests, LeavePrometheus(q)
  PROVE  Tally'
<1> USE DEF LeavePrometheus, To, In
<1> DEFINE status == Status(q)
           path   == asked[q].path
<1>1. ~Past(q) /\ Past(q)' /\ Status(q)' = status
  BY DEF Past, Status, Inv, Typed
<1>2. \A r \in Requests : r # q =>
        Past(r)' = Past(r) /\ asked'[r] = asked[r] /\ Status(r)' = Status(r)
  BY DEF Past, Status, Inv, Typed
<1>3. asked' = asked /\ path \in Routes /\ status \in Statuses
  <2>1. Staged(q) BY DEF Inv
  <2>2. asked[q] \in Asked BY <2>1 DEF Staged, Inv, Typed
  <2>3. mode[q] # "raise" => response[q] \in Responses
    BY <2>1 DEF Staged, Inv, Typed
  <2> QED BY <2>2, <2>3 DEF Asked, Status, Responses, Statuses
<1>4. ASSUME NEW r \in Routes, NEW s \in Statuses
      PROVE  /\ IsFiniteSet(CountedUnder(r, s)')
             /\ Cardinality(CountedUnder(r, s)') =
                  IF r = path /\ s = status THEN Cardinality(CountedUnder(r, s)) + 1
                  ELSE Cardinality(CountedUnder(r, s))
  <2>1. IsFiniteSet(CountedUnder(r, s)) /\ q \notin CountedUnder(r, s)
    <3> HIDE DEF LeavePrometheus, To, In
    <3>1. IsFiniteSet(CountedUnder(r, s)) BY DEF Tally
    <3>2. q \notin CountedUnder(r, s) BY <1>1 DEF CountedUnder
    <3> QED BY <3>1, <3>2
  <2>2. CASE r = path /\ s = status
    <3>1. CountedUnder(r, s)' = CountedUnder(r, s) \cup {q}
      BY <1>1, <1>2, <1>3, <2>2 DEF CountedUnder
    <3>2. /\ IsFiniteSet(CountedUnder(r, s) \cup {q})
          /\ Cardinality(CountedUnder(r, s) \cup {q}) = Cardinality(CountedUnder(r, s)) + 1
      <4> HIDE DEF LeavePrometheus, To, In
      <4> QED BY <2>1, FS_AddElement
    <3> QED BY <2>2, <3>1, <3>2
  <2>3. CASE ~(r = path /\ s = status)
    <3>1. CountedUnder(r, s)' = CountedUnder(r, s)
      BY <1>1, <1>2, <1>3, <2>3 DEF CountedUnder
    <3> QED BY <2>1, <2>3, <3>1
  <2> QED BY <2>2, <2>3
<1>5. ASSUME NEW r \in Routes, NEW s \in Statuses
      PROVE  series'[<<r, s>>] =
               IF r \in Excluded THEN 0 ELSE Cardinality(CountedUnder(r, s)')
  <2>1. series[<<r, s>>] = IF r \in Excluded THEN 0 ELSE Cardinality(CountedUnder(r, s))
    BY DEF Tally
  <2>2. CASE path \in Excluded
    <3>1. series' = series BY <2>2 DEF counters
    <3> QED BY <1>4, <2>1, <2>2, <3>1
  <2>3. CASE path \notin Excluded
    <3>1. series' = [series EXCEPT ![<<path, status>>] = @ + 1]
      BY <2>3 DEF Status
    <3>2. series'[<<r, s>>] =
            IF r = path /\ s = status THEN series[<<r, s>>] + 1 ELSE series[<<r, s>>]
      BY <1>3, <3>1 DEF Tally
    <3> QED BY <1>4, <2>1, <2>3, <3>2
  <2> QED BY <2>2, <2>3
<1>6. IsFiniteSet(WithInbound)' /\ inbound' = Cardinality(WithInbound)'
  <2>1. q \notin WithInbound /\ IsFiniteSet(WithInbound) /\ inbound = Cardinality(WithInbound)
    BY <1>1 DEF Tally, WithInbound
  <2>2. CASE path \notin Excluded /\ asked[q].x_request_id # None
    <3>1. WithInbound' = WithInbound \cup {q}
      BY <1>1, <1>2, <1>3, <2>2 DEF WithInbound
    <3>2. inbound' = inbound + 1 BY <2>2
    <3>3. /\ IsFiniteSet(WithInbound \cup {q})
          /\ Cardinality(WithInbound \cup {q}) = Cardinality(WithInbound) + 1
      <4> HIDE DEF LeavePrometheus, To, In
      <4> QED BY <2>1, FS_AddElement
    <3> QED BY <2>1, <3>1, <3>2, <3>3
  <2>3. CASE ~(path \notin Excluded /\ asked[q].x_request_id # None)
    <3>1. WithInbound' = WithInbound
      BY <1>1, <1>2, <1>3, <2>3 DEF WithInbound
    <3>2. inbound' = inbound BY <2>3 DEF counters
    <3> QED BY <2>1, <3>1, <3>2
  <2> QED BY <2>2, <2>3
<1>7. series' \in [Routes \X Statuses -> Nat]
  BY <1>3 DEF Tally, counters
<1> QED BY <1>4, <1>5, <1>6, <1>7 DEF Tally

LEMMA InitTally == Init => Tally
<1> SUFFICES ASSUME Init PROVE Tally OBVIOUS
<1>1. \A r \in Requests : ~Past(r) BY DEF Init, Past
<1>2. \A route, status : CountedUnder(route, status) = {} BY <1>1 DEF CountedUnder
<1>3. WithInbound = {} BY <1>1 DEF WithInbound
<1>4. series \in [Routes \X Statuses -> Nat] BY DEF Init
<1>5. \A route \in Routes, status \in Statuses : series[<<route, status>>] = 0
  BY DEF Init
<1> QED BY <1>2, <1>3, <1>4, <1>5, FS_EmptySet DEF Tally, Init

LEMMA NextTally == Inv /\ Tally /\ [Next]_vars => Tally'
<1> SUFFICES ASSUME Inv, Tally, [Next]_vars PROVE Tally' OBVIOUS
<1>1. ASSUME NEW q \in Requests, Enter(q) PROVE Tally' BY <1>1, EnterTally
<1>2. ASSUME NEW q \in Requests, Answer(q) PROVE Tally' BY <1>2, AnswerTally
<1>3. ASSUME NEW q \in Requests, Leave(q) PROVE Tally'
  BY <1>3, AnswerTally, LeavePrometheusTally, LeaveTally DEF Leave
<1>4. CASE UNCHANGED <<asked, at, mode, response, counters>>
  BY <1>4, SameTally DEF Past, Settled, Status
<1> QED BY <1>1, <1>2, <1>3, <1>4 DEF Next, Disconnect, vars, counters

\* PrometheusMiddleware's two callbacks: each product request is in the series
\* of its route and of the status its client was sent once, and in no other; the
\* ids that clients bring are counted once each.
THEOREM RequestsAreCountedOnce == Spec => []CountedAsAnswered
<1>1. Init => Tally BY InitTally
<1>2. Inv /\ Tally /\ [Next]_vars => Tally' BY NextTally
<1>3. Inv /\ Tally => CountedAsAnswered
  <2> SUFFICES ASSUME Inv, Tally, \A r \in Requests : at[r] \in {"client", "over"}
               PROVE  /\ \A route \in Routes, status \in Statuses :
                           CountedUnder(route, status) =
                             {r \in Over : asked[r].path = route /\ response[r].status = status}
                      /\ WithInbound = {r \in Over : asked[r].path \notin Excluded
                                                     /\ asked[r].x_request_id # None}
    BY DEF CountedAsAnswered, Tally
  <2>1. \A r \in Requests : Past(r) <=> r \in Over
    BY DEF Past, Over
  <2>2. ASSUME NEW r \in Over PROVE Status(r) = response[r].status
    <3>1. r \in Requests /\ at[r] = "over" BY DEF Over
    <3>2. Staged(r) /\ Sent(r) BY <3>1 DEF Inv
    <3> QED BY <3>1, <3>2 DEF Staged, Sent, Failed, Status, Inv, Typed
  <2>3. Over \subseteq Requests BY DEF Over
  <2> QED BY <2>1, <2>2, <2>3 DEF CountedUnder, WithInbound
<1> QED BY <1>1, <1>2, <1>3, PipelineInvariant, PTL DEF Spec
=============================================================================
