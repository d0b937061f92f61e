---------------------------- MODULE MCDeployment ----------------------------
(***************************************************************************)
(* The small machines of the repository, each by itself: in a behaviour    *)
(* only one of them leaves its initial state.                              *)
(***************************************************************************)
EXTENDS RedisKey, ConnectionUrl, InstalledVersion, Migration

\* Parts of a key: a separator, a length, and a run of nine characters whose
\* length next to another block has two digits.
Flag == <<"f">>
Lookalikes == {<<":">>, <<"1">>, <<"1", ":", "1", ":", "1", "1", ":", "1", ":">>}

\* Characters that end a part of a URL, and those of one of their escapes.
Separators == {"@", "/", ":", "?", "#", "%", "4", "0"}
Localhost == <<"h">>
Db == <<"d">>

Init == KeyInit /\ UrlInit /\ VersionInit /\ MigrationInit

Next ==
  \/ /\ UrlInit /\ VersionInit /\ MigrationInit
     /\ KeyNext
     /\ UNCHANGED <<urlVars, versionVars, migrationVars>>
  \/ /\ KeyInit /\ VersionInit /\ MigrationInit
     /\ UrlNext
     /\ UNCHANGED <<keyVars, versionVars, migrationVars>>
  \/ /\ KeyInit /\ UrlInit /\ MigrationInit
     /\ VersionNext
     /\ UNCHANGED <<keyVars, urlVars, migrationVars>>
  \/ /\ KeyInit /\ UrlInit /\ VersionInit
     /\ MigrationNext
     /\ UNCHANGED <<keyVars, urlVars, versionVars>>

vars == <<keyVars, urlVars, versionVars, migrationVars>>

\* The runs of alembic go on if it is theirs.
Fairness == \A r \in Runs : WF_vars(Proceed(r) /\ UNCHANGED <<keyVars, urlVars, versionVars>>)

MCSpec == Init /\ [][Next]_vars /\ Fairness
=============================================================================
