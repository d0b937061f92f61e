------------------------------ MODULE LogRecord ------------------------------
(***************************************************************************)
(* What LogManager makes of a call of a child logger: a line is a function *)
(* from names to values, and the processors of its chain say which of two  *)
(* values of one name survives.  Rendering and timestamps are left out.    *)
(***************************************************************************)
EXTENDS Naturals

CONSTANTS
  MinLevel,   \* LoggerConfig.MIN_LOG_LEVEL
  Identity    \* what the process says of itself: env, app, instance, app.version

\* LogLevel, with structlog's NAME_TO_LEVEL.
LogLevel == [debug |-> 10, info |-> 20, warning |-> 30, error |-> 40, critical |-> 50]

ResourceNames == {"env", "app", "instance", "app.version"}

ASSUME MinLevelAssumption == MinLevel \in DOMAIN LogLevel
ASSUME IdentityAssumption == DOMAIN Identity = ResourceNames

\* _structlog_method_for_level: uvicorn's TRACE (5) is below debug.
MethodForLevel(levelno) ==
  IF levelno < LogLevel["debug"] THEN "debug"
  ELSE CHOOSE level \in DOMAIN LogLevel :
         /\ LogLevel[level] <= levelno
         /\ \A other \in DOMAIN LogLevel :
              LogLevel[other] <= levelno => LogLevel[other] <= LogLevel[level]

Nothing == [name \in {} |-> FALSE]
Only(name, value) == [n \in {name} |-> value]

\* dict.update: what is new wins.
Update(old, new) ==
  [name \in DOMAIN old \cup DOMAIN new |->
     IF name \in DOMAIN new THEN new[name] ELSE old[name]]

Without(record, names) == [name \in DOMAIN record \ names |-> record[name]]

Has(record, name, value) == name \in DOMAIN record /\ record[name] = value

\* A record below the minimum is dropped before any processor runs.
Emitted(level) == LogLevel[level] >= LogLevel[MinLevel]

\* get_child_logger binds context; the call's own arguments go on top of it.
ChildRecord(context, event, kwargs) ==
  Update(Update(Only("context", context), kwargs), Only("event", event))

\* merge_contextvars: only names the record does not have yet.
MergeContextvars(record, bound) == Update(bound, record)

\* What the process says of itself wins over a call's arguments.
AddResourceFields(record) == Update(record, Identity)

AddLogLevel(record, level) == Update(record, Only("level", level))

\* exc_info becomes exception.
FormatExcInfo(record) ==
  IF "exc_info" \in DOMAIN record
    THEN Update(Without(record, {"exc_info"}), Only("exception", record["exc_info"]))
    ELSE record

\* EventRenamer: event becomes msg.
SetPropertyNames(record) ==
  Update(Without(record, {"event"}), Only("msg", record["event"]))

\* One call of a child logger while bound is what the context holds.
Line(context, level, event, kwargs, bound) ==
  SetPropertyNames(FormatExcInfo(AddLogLevel(AddResourceFields(
    MergeContextvars(ChildRecord(context, event, kwargs), bound)), level)))

\* The lines it writes: one, or none below the minimum level.
Lines(context, level, event, kwargs, bound) ==
  IF Emitted(level) THEN <<Line(context, level, event, kwargs, bound)>> ELSE <<>>
=============================================================================
