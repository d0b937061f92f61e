--------------------------- MODULE DeploymentProofs ---------------------------
(***************************************************************************)
(* What must be right before the service serves.  For any distributions    *)
(* that are installed: the version is of this code.  For any number of     *)
(* runs of alembic, killed anywhere and any number of times: the table and *)
(* the record of its revision come and go together.                        *)
(***************************************************************************)
EXTENDS InstalledVersion, Migration, SequenceTheorems, TLAPS

LEMMA BoundedSeqIsSeq ==
  ASSUME NEW S, NEW n, NEW s \in BoundedSeq(S, n)
  PROVE  s \in Seq(S)
BY DEF BoundedSeq, SeqOf

-----------------------------------------------------------------------------
(* installed_app_version *)

Listed == Seq(Seq(Files))

\* A file the two loops have gone past.
Passed(d, n) == d < dist \/ (d = dist /\ n < file)

\* VersionIsOfThisCode made inductive: nothing the loops have gone past points
\* at this checkout.
SearchInv ==
  /\ status \in {"called", "searching", "missing", "raised", "found"}
  /\ catalog.dists \in Listed /\ catalog.mapped \in 0..Len(catalog.dists)
  /\ dist \in Nat /\ file \in Nat
  /\ status = "searching" =>
       /\ dist >= 1 /\ file >= 1
       /\ \A d \in 1..Len(catalog.dists) : \A n \in 1..Len(catalog.dists[d]) :
            Passed(d, n) => ~PointsAtSrc(catalog.dists[d][n])
  /\ VersionIsOfThisCode

LEMMA CatalogType ==
  ASSUME NEW c \in Catalogs
  PROVE  c.dists \in Listed /\ c.mapped \in 0..Len(c.dists)
<1>1. PICK ds \in BoundedSeq(Dists, MaxDists) : c \in [dists : {ds}, mapped : 0..Len(ds)]
  BY DEF Catalogs
<1>2. Dists \subseteq Seq(Files) BY BoundedSeqIsSeq DEF Dists
<1>3. ds \in Seq(Dists) BY BoundedSeqIsSeq
<1>4. ds \in Seq(Seq(Files)) BY <1>2, <1>3, SeqMonotonic
<1> QED BY <1>1, <1>4 DEF Listed

\* While it searches, the loops stand at a file that is there, and every
\* distribution that points at this checkout is this one or a later one.
LEMMA AtAFile ==
  ASSUME SearchInv, AtFile
  PROVE  /\ dist \in 1..Len(catalog.dists) /\ file \in 1..Len(catalog.dists[dist])
         /\ \A d \in 1..Len(catalog.dists) : \A n \in 1..Len(catalog.dists[d]) :
              PointsAtSrc(catalog.dists[d][n]) => dist <= d
<1>1. /\ Len(catalog.dists) \in Nat /\ dist \in 1..Len(catalog.dists)
      /\ Len(catalog.dists[dist]) \in Nat
  BY DEF SearchInv, AtFile, Searching, Listed
<1>2. file \in 1..Len(catalog.dists[dist])
  BY <1>1 DEF SearchInv, AtFile, Searching, Current
<1>3. \A d \in 1..Len(catalog.dists) : \A n \in 1..Len(catalog.dists[d]) :
        d < dist => ~PointsAtSrc(catalog.dists[d][n])
  BY DEF SearchInv, AtFile, Searching, Passed
<1> QED BY <1>1, <1>2, <1>3

LEMMA SearchInit == VersionInit => SearchInv
BY DEF VersionInit, SearchInv, VersionIsOfThisCode, Listed

LEMMA SearchNext == SearchInv /\ [VersionNext]_versionVars => SearchInv'
<1> SUFFICES ASSUME SearchInv, [VersionNext]_versionVars PROVE SearchInv'
  OBVIOUS
<1> USE DEF SearchInv
<1>1. CASE Discover
  <2>1. catalog'.dists \in Listed /\ catalog'.mapped \in 0..Len(catalog'.dists)
    BY <1>1, CatalogType DEF Discover
  <2>2. ASSUME NEW d \in 1..Len(catalog'.dists), NEW n \in 1..Len(catalog'.dists[d])
        PROVE  ~Passed(d, n)'
    <3>1. Len(catalog'.dists) \in Nat BY <2>1 DEF Listed
    <3>2. Len(catalog'.dists[d]) \in Nat BY <2>1 DEF Listed
    <3> QED BY <1>1, <3>1, <3>2 DEF Discover, Passed
  <2> QED BY <1>1, <2>1, <2>2 DEF Discover, VersionIsOfThisCode
<1>2. CASE TakeMapped
  BY <1>2 DEF TakeMapped, Searching, Found, VersionIsOfThisCode
<1>3. CASE ReadFile
  <2>0. UNCHANGED <<catalog, dist>> /\ AtFile /\ Searching BY <1>3 DEF ReadFile, AtFile
  <2>1. CASE PointsAtSrc(Current[file])
    <3>1. UNCHANGED file /\ status' = "found" /\ catalog.mapped = 0
      BY <1>3, <2>1 DEF ReadFile, AtFile, Found
    <3>2. VersionIsOfThisCode'
      BY <2>0, <2>1, <3>1, AtAFile DEF VersionIsOfThisCode, Current
    <3> QED BY <2>0, <3>1, <3>2
  <2>2. CASE ~PointsAtSrc(Current[file])
    BY <1>3, <2>0, <2>2
    DEF ReadFile, AtFile, Searching, Current, Passed, VersionIsOfThisCode, Listed
  <2> QED BY <2>1, <2>2
<1>4. CASE DecodeFails
  <2>1. /\ UNCHANGED <<catalog, dist, file>> /\ status' = "raised"
        /\ catalog.mapped = 0 /\ AtFile /\ Garbled(Current[file])
    BY <1>4 DEF DecodeFails, AtFile
  <2>2. VersionIsOfThisCode'
    BY <2>1, AtAFile DEF VersionIsOfThisCode, Current
  <2> QED BY <2>1, <2>2
<1>5. CASE NextDist
  BY <1>5 DEF NextDist, Searching, Current, Passed, VersionIsOfThisCode, Listed
<1>6. CASE NotFound
  BY <1>6 DEF NotFound, Searching, Passed, VersionIsOfThisCode, Listed
<1>7. CASE UNCHANGED versionVars
  BY <1>7 DEF versionVars, Passed, VersionIsOfThisCode
<1> QED BY <1>1, <1>2, <1>3, <1>4, <1>5, <1>6, <1>7 DEF VersionNext

\* installed_app_version: however many distributions are installed and whatever
\* their files, the version is of the distribution this code comes from.
THEOREM VersionIsItsOwn == VersionSpec => []VersionIsOfThisCode
<1>1. VersionInit => SearchInv BY SearchInit
<1>2. SearchInv /\ [VersionNext]_versionVars => SearchInv' BY SearchNext
<1>3. SearchInv => VersionIsOfThisCode BY DEF SearchInv
<1> QED BY <1>1, <1>2, <1>3, PTL DEF VersionSpec

-----------------------------------------------------------------------------
(* alembic *)

Stages == {"idle", "begun", "feature_flags", "alembic_version", "commit", "failed", "succeeded"}

Typed ==
  /\ progress \in [Runs -> Stages]
  /\ changed \in [Runs -> SUBSET Objects]

\* What the transaction of a run has changed at each of its steps.
Opened(r) ==
  /\ progress[r] = "alembic_version" => changed[r] = {"feature_flags"}
  /\ progress[r] = "commit" => changed[r] \in {{}, Objects}
  /\ progress[r] \notin {"alembic_version", "commit"} => changed[r] = {}

\* The table is changed first, so its lock keeps every other run out.
Alone == \A r, s \in Runs : changed[r] # {} /\ changed[s] # {} => r = s

\* An upgrade that has nothing to do, or no more, has found or made the schema.
Made ==
  (\A d \in Downgrades : progress[d] = "idle") =>
    \A r \in Upgrades :
      progress[r] = "succeeded" \/ (progress[r] = "commit" /\ changed[r] = {}) => schema = Objects

Inv ==
  /\ Typed
  /\ \A r \in Runs : Opened(r)
  /\ Alone
  /\ SchemaMatchesRevision
  /\ Made

-----------------------------------------------------------------------------
\* A run that moves on and changes nothing of its own.
LEMMA PassInv ==
  ASSUME Inv, NEW r \in Runs, NEW p \in Stages \ {"alembic_version", "idle"}, RunTo(r, p),
         changed' = changed, schema' = schema, progress[r] \in {"idle", "failed", "begun"},
         p = "commit" => ~Applies(r, "alembic_version"),
         p # "succeeded"
  PROVE  Inv'
<1>1. Typed' /\ Alone' /\ SchemaMatchesRevision'
  BY DEF Inv, Typed, Alone, SchemaMatchesRevision, RunTo
<1>2. ASSUME NEW s \in Runs PROVE Opened(s)'
  BY DEF Inv, Typed, Opened, RunTo
<1>3. Made'
  <2> SUFFICES ASSUME \A d \in Downgrades : progress'[d] = "idle", NEW s \in Upgrades,
                      progress'[s] = "succeeded" \/ (progress'[s] = "commit" /\ changed'[s] = {})
               PROVE  schema = Objects
    BY DEF Made
  <2>1. \A d \in Downgrades : progress[d] = "idle"
    BY DEF Inv, Typed, RunTo, Runs
  <2>2. CASE s # r
    BY <2>1, <2>2 DEF Inv, Made, Typed, RunTo
  <2>3. CASE s = r
    <3>1. p = "commit" BY <2>3 DEF Inv, Typed, RunTo, Runs
    <3>2. "alembic_version" \in schema
      BY <2>3, <3>1, MigrationAssumption DEF Applies
    <3> QED BY <3>2 DEF Inv, SchemaMatchesRevision, Objects
  <2> QED BY <2>2, <2>3
<1> QED BY <1>1, <1>2, <1>3 DEF Inv

\* A run that fails before its COMMIT.
LEMMA RollBackInv ==
  ASSUME Inv, NEW r \in Runs, RollBack(r), progress[r] # "idle"
  PROVE  Inv'
<1> USE DEF RollBack, RunTo
<1>1. Typed' /\ Alone' /\ SchemaMatchesRevision'
  BY DEF Inv, Typed, Alone, SchemaMatchesRevision, Stages
<1>2. ASSUME NEW s \in Runs PROVE Opened(s)'
  BY DEF Inv, Typed, Opened
<1>3. Made'
  BY DEF Inv, Made, Typed, Runs
<1> QED BY <1>1, <1>2, <1>3 DEF Inv

\* A statement waits for the lock of any other run that has changed something.
LEMMA ApplyInv ==
  ASSUME Inv, NEW r \in Runs, progress[r] \in Objects, ~Locked(r, progress[r]),
         Apply(r, progress[r]),
         RunTo(r, IF progress[r] = "feature_flags" THEN "alembic_version" ELSE "commit")
  PROVE  Inv'
<1> USE DEF Apply, RunTo, Objects
<1>1. Typed' /\ SchemaMatchesRevision'
  BY DEF Inv, Typed, SchemaMatchesRevision, Stages
<1>2. changed'[r] # {} /\ \A s \in Runs \ {r} : changed'[s] = changed[s] /\ progress'[s] = progress[s]
  BY DEF Inv, Typed
<1>3. \A s \in Runs \ {r} : changed[s] = {}
  <2>1. CASE progress[r] = "feature_flags"
    BY <2>1 DEF Inv, Typed, Opened, Locked
  <2>2. CASE progress[r] = "alembic_version"
    BY <2>2 DEF Inv, Typed, Opened, Alone
  <2> QED BY <2>1, <2>2
<1>4. Alone' BY <1>2, <1>3 DEF Alone
<1>5. ASSUME NEW s \in Runs PROVE Opened(s)'
  BY <1>2 DEF Inv, Typed, Opened
<1>6. Made'
  BY <1>2 DEF Inv, Made, Typed, Runs
<1> QED BY <1>1, <1>4, <1>5, <1>6 DEF Inv

\* A COMMIT that is made, whatever the run hears of it.
LEMMA CommittedInv ==
  ASSUME Inv, NEW r \in Runs, progress[r] = "commit", schema' = Committed(r),
         changed' = [changed EXCEPT ![r] = {}], NEW p \in {"failed", "succeeded"}, RunTo(r, p)
  PROVE  Inv'
<1> USE DEF RunTo
<1>1. Typed' /\ Alone' BY DEF Inv, Typed, Alone, Stages
<1>2. changed[r] \in {{}, Objects} BY DEF Inv, Opened
<1>3. /\ changed[r] = {} => schema' = schema
      /\ changed[r] = Objects => schema' = IF r \in Upgrades THEN Objects ELSE {}
  BY DEF Committed, Inv, SchemaMatchesRevision
<1>4. SchemaMatchesRevision' BY <1>2, <1>3 DEF Inv, SchemaMatchesRevision
<1>5. ASSUME NEW s \in Runs PROVE Opened(s)'
  BY DEF Inv, Typed, Opened
<1>6. Made'
  <2> SUFFICES ASSUME \A d \in Downgrades : progress'[d] = "idle", NEW s \in Upgrades,
                      progress'[s] = "succeeded" \/ (progress'[s] = "commit" /\ changed'[s] = {})
               PROVE  schema' = Objects
    BY DEF Made
  <2>1. r \in Upgrades /\ \A d \in Downgrades : progress[d] = "idle"
    BY DEF Inv, Typed, Runs
  <2>2. CASE changed[r] = Objects BY <1>3, <2>1, <2>2
  <2>3. CASE changed[r] = {}
    <3>1. schema = Objects BY <2>1, <2>3 DEF Inv, Made
    <3> QED BY <1>3, <2>3, <3>1
  <2> QED BY <1>2, <2>2, <2>3
<1> QED BY <1>1, <1>4, <1>5, <1>6 DEF Inv

-----------------------------------------------------------------------------
LEMMA InitInv == MigrationInit => Inv
BY DEF MigrationInit, Inv, Typed, Opened, Alone, Made, SchemaMatchesRevision, Stages, Runs

LEMMA NextInv == Inv /\ [MigrationNext]_migrationVars => Inv'
<1> SUFFICES ASSUME Inv, [MigrationNext]_migrationVars PROVE Inv' OBVIOUS
<1>1. ASSUME NEW r \in Runs, Connect(r) PROVE Inv'
  BY <1>1, PassInv DEF Connect, Stages
<1>2. ASSUME NEW r \in Runs, ReadHeads(r) PROVE Inv'
  <2>1. CASE Applies(r, "alembic_version")
    BY <1>2, <2>1, PassInv DEF ReadHeads, Stages
  <2>2. CASE ~Applies(r, "alembic_version")
    BY <1>2, <2>2, PassInv DEF ReadHeads, Stages
  <2> QED BY <2>1, <2>2
<1>3. ASSUME NEW r \in Runs, Execute(r) PROVE Inv'
  BY <1>3, RollBackInv, ApplyInv DEF Execute, Objects
<1>4. ASSUME NEW r \in Runs, Commit(r) PROVE Inv'
  BY <1>4, CommittedInv DEF Commit
<1>5. ASSUME NEW r \in Runs, Kill(r) PROVE Inv'
  BY <1>5, RollBackInv, CommittedInv DEF Kill
<1>6. CASE UNCHANGED migrationVars
  BY <1>6 DEF migrationVars, Inv, Typed, Opened, Alone, Made, SchemaMatchesRevision
<1> QED BY <1>1, <1>2, <1>3, <1>4, <1>5, <1>6 DEF MigrationNext, Proceed

\* Only one transaction has changes open, and they are all made or none.
THEOREM MigrationInvariant == Spec => []Inv
<1>1. MigrationInit => Inv BY InitInv
<1>2. Inv /\ [MigrationNext]_migrationVars => Inv' BY NextInv
<1> QED BY <1>1, <1>2, PTL DEF Spec

\* do_run_migrations: the table is there exactly if its revision is recorded.
THEOREM SchemaIsWhole == Spec => []SchemaMatchesRevision
<1>1. Inv => SchemaMatchesRevision BY DEF Inv
<1> QED BY <1>1, MigrationInvariant, PTL

\* The service may start after an upgrade that succeeded: the table is there.
THEOREM UpgradesMigrate == Spec => []SuccessMeansMigrated
<1>1. Inv => SuccessMeansMigrated BY DEF Inv, Made, SuccessMeansMigrated
<1> QED BY <1>1, MigrationInvariant, PTL
=============================================================================
