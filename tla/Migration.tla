------------------------------ MODULE Migration ------------------------------
(***************************************************************************)
(* Runs of alembic against the database of the service: env.py opens a     *)
(* connection of its own and applies the one revision, or takes it back,   *)
(* in one transaction.  A run may be killed or lose its server at any      *)
(* step; the deployment job that started it runs it again.  The table that *)
(* holds the revision is there; only its row comes and goes.               *)
(***************************************************************************)
EXTENDS Naturals

CONSTANTS
  Upgrades,    \* runs of alembic upgrade head
  Downgrades,  \* runs of alembic downgrade base
  Slow,        \* a statement of the revision outlasts STATEMENT_TIMEOUT_MS
  MaxKills     \* bound of the model: runs that are killed or lose the server

ASSUME MigrationAssumption ==
  Upgrades \cap Downgrades = {} /\ Slow \in BOOLEAN /\ MaxKills \in Nat

Runs    == Upgrades \cup Downgrades
Objects == {"feature_flags", "alembic_version"}   \* the table, the row of its revision

VARIABLES
  schema,    \* the objects that are committed
  progress,  \* where each run is
  changed,   \* the objects its open transaction has created or dropped
  kills      \* runs killed so far

migrationVars == <<schema, progress, changed, kills>>

MigrationInit ==
  /\ schema = {}
  /\ progress = [r \in Runs |-> "idle"]
  /\ changed = [r \in Runs |-> {}]
  /\ kills = 0

RunTo(r, p) == progress' = [progress EXCEPT ![r] = p]

\* Mutated form of ConnectArgs: those of PostgresClient.
ConnectArgsOfTheService == {"connect_timeout", "statement_timeout"}

\* "Statement timeout is omitted so slow DDL is not killed".
ConnectArgs == {"connect_timeout"}

Cancelled == Slow /\ "statement_timeout" \in ConnectArgs

\* Leaving connect() or begin_transaction() by an exception rolls back.
RollBack(r) ==
  /\ RunTo(r, "failed")
  /\ changed' = [changed EXCEPT ![r] = {}]
  /\ UNCHANGED schema

\* Mutated form of Apply: without begin_transaction each statement is committed.
ApplyAtOnce(r, object) ==
  /\ schema' = IF r \in Upgrades THEN schema \cup {object} ELSE schema \ {object}
  /\ UNCHANGED changed

\* A statement of the revision, in the transaction of its run.
Apply(r, object) ==
  /\ changed' = [changed EXCEPT ![r] = @ \cup {object}]
  /\ UNCHANGED schema

\* Another transaction has created or dropped the object and is still open.
Locked(r, object) == \E other \in Runs \ {r} : object \in changed[other]

\* There to be dropped, or not there to be created.
Applies(r, object) == object \in schema <=> r \in Downgrades

-----------------------------------------------------------------------------
Connect(r) ==
  /\ progress[r] \in {"idle", "failed"}
  /\ RunTo(r, "begun")
  /\ UNCHANGED <<schema, changed, kills>>

\* get_current_heads: nothing is run if the revision is there already.
ReadHeads(r) ==
  /\ progress[r] = "begun"
  /\ RunTo(r, IF Applies(r, "alembic_version") THEN "feature_flags" ELSE "commit")
  /\ UNCHANGED <<schema, changed, kills>>

\* create_table or drop_table, then the row of the revision.
Execute(r) ==
  /\ progress[r] \in Objects
  /\ ~Locked(r, progress[r])
  /\ IF Cancelled \/ ~Applies(r, progress[r]) THEN RollBack(r)
     ELSE /\ Apply(r, progress[r])
          /\ RunTo(r, IF progress[r] = "feature_flags" THEN "alembic_version" ELSE "commit")
  /\ UNCHANGED kills

Committed(r) ==
  IF r \in Upgrades THEN schema \cup changed[r] ELSE schema \ changed[r]

\* Mutated form of Commit: the connection is closed without one.
CommitForgotten(r) ==
  /\ progress[r] = "commit"
  /\ RunTo(r, "succeeded")
  /\ changed' = [changed EXCEPT ![r] = {}]
  /\ UNCHANGED <<schema, kills>>

Commit(r) ==
  /\ progress[r] = "commit"
  /\ schema' = Committed(r)
  /\ changed' = [changed EXCEPT ![r] = {}]
  /\ RunTo(r, "succeeded")
  /\ UNCHANGED kills

\* The run or its server goes; a COMMIT on its way may still have been made.
Kill(r) ==
  /\ kills < MaxKills
  /\ kills' = kills + 1
  /\ progress[r] \notin {"idle", "failed", "succeeded"}
  /\ \/ RollBack(r)
     \/ /\ progress[r] = "commit"
        /\ schema' = Committed(r)
        /\ changed' = [changed EXCEPT ![r] = {}]
        /\ RunTo(r, "failed")

Proceed(r) == Connect(r) \/ ReadHeads(r) \/ Execute(r) \/ Commit(r)

MigrationNext == \E r \in Runs : Proceed(r) \/ Kill(r)

\* Every run goes on, and one that failed is run again.
MigrationFairness == \A r \in Runs : WF_migrationVars(Proceed(r))

Spec == MigrationInit /\ [][MigrationNext]_migrationVars
FairSpec == Spec /\ MigrationFairness

-----------------------------------------------------------------------------
\* Whatever run dies at whatever step, and however two of them interleave: the
\* table is there exactly if its revision is recorded, so that the next upgrade
\* neither skips a table that is missing nor creates one that is there.
SchemaMatchesRevision == schema \in {{}, Objects}

\* "start only after the Job succeeded": once an upgrade exits with success, the
\* table is there, unless a downgrade has begun.
SuccessMeansMigrated ==
  (\E r \in Upgrades : progress[r] = "succeeded") /\ (\A r \in Downgrades : progress[r] = "idle")
    => schema = Objects

\* However slow its statements, a run that was begun succeeds in the end, no
\* other run keeps it waiting for good, and one that failed can be repeated.
MigrationsEnd == \A r \in Runs : progress[r] = "begun" ~> progress[r] = "succeeded"
=============================================================================
