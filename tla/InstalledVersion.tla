-------------------------- MODULE InstalledVersion --------------------------
(***************************************************************************)
(* installed_app_version: which installed distribution the process takes   *)
(* its version from.  A distribution is the sequence of its files, a file  *)
(* what kind it is and which lines it has.                                 *)
(***************************************************************************)
EXTENDS Naturals, Sequences, SequencesExt

CONSTANTS
  MaxDists,   \* bound of the model: installed distributions
  MaxFiles    \* bound of the model: files recorded for one

VARIABLES
  catalog,    \* distributions(), with the names packages_distributions() maps
  dist, file, \* how far the two loops are
  status      \* "called", "searching", "missing", "raised", or "found": dist is the one

versionVars == <<catalog, dist, file, status>>

\* A .pth has lines that name src/, and lines that are blank or comments, unless
\* it cannot be opened or is not UTF-8.
Files ==
  [pth : {TRUE}, text : {"utf-8"}, lines : SUBSET {"src", "blank"}]
  \cup [pth : {TRUE}, text : {"unreadable", "garbled"}, lines : {{}}]
  \cup [pth : {FALSE}, text : {"utf-8", "garbled"}, lines : {{"src"}}]
Dists == BoundedSeq(Files, MaxFiles)

\* mapped is the distribution the import of a wheel is mapped to, or 0.
Catalogs ==
  UNION {[dists : {ds}, mapped : 0..Len(ds)] : ds \in BoundedSeq(Dists, MaxDists)}

VersionInit == catalog = [dists |-> <<>>, mapped |-> 0] /\ dist = 0 /\ file = 0 /\ status = "called"

Discover ==
  /\ status = "called"
  /\ \E c \in Catalogs : catalog' = c
  /\ dist' = 1 /\ file' = 1
  /\ status' = "searching"

Searching == status = "searching"
Found == status' = "found"

\* A wheel: lookup(dist_names[0]), which finds what it was given by the catalog.
TakeMapped ==
  /\ Searching
  /\ catalog.mapped # 0
  /\ dist' = catalog.mapped /\ Found
  /\ UNCHANGED <<catalog, file>>

Current == catalog.dists[dist]
AtFile == Searching /\ catalog.mapped = 0 /\ dist <= Len(catalog.dists) /\ file <= Len(Current)

PointsAtSrc(f) == f.pth /\ f.text = "utf-8" /\ "src" \in f.lines
Garbled(f) == f.pth /\ f.text = "garbled"

\* Mutated form of ReadFile: OSError ends the search in the distribution.
ReadFileOrGiveUp ==
  /\ AtFile /\ ~Garbled(Current[file])
  /\ IF PointsAtSrc(Current[file]) THEN Found /\ UNCHANGED file
     ELSE /\ file' = IF Current[file].text # "unreadable" THEN file + 1 ELSE Len(Current) + 1
          /\ UNCHANGED status
  /\ UNCHANGED <<catalog, dist>>

\* pth_points_at_src: anything but a .pth, and one that cannot be opened, is
\* passed over, and so are blank lines and comments.
ReadFile ==
  /\ AtFile /\ ~Garbled(Current[file])
  /\ IF PointsAtSrc(Current[file]) THEN Found /\ UNCHANGED file
     ELSE file' = file + 1 /\ UNCHANGED status
  /\ UNCHANGED <<catalog, dist>>

\* UnicodeDecodeError is no OSError: it leaves both loops.
DecodeFails ==
  /\ AtFile /\ Garbled(Current[file])
  /\ status' = "raised"
  /\ UNCHANGED <<catalog, dist, file>>

NextDist ==
  /\ Searching /\ catalog.mapped = 0
  /\ dist <= Len(catalog.dists) /\ file > Len(Current)
  /\ dist' = dist + 1 /\ file' = 1
  /\ UNCHANGED <<catalog, status>>

\* raise PackageNotFoundError
NotFound ==
  /\ Searching /\ catalog.mapped = 0
  /\ dist > Len(catalog.dists)
  /\ status' = "missing"
  /\ UNCHANGED <<catalog, dist, file>>

VersionNext == Discover \/ TakeMapped \/ ReadFile \/ DecodeFails \/ NextDist \/ NotFound

VersionSpec == VersionInit /\ [][VersionNext]_versionVars

-----------------------------------------------------------------------------
\* Whatever else is installed and cannot be opened, the version is that of the
\* wheel the import comes from, or else of the first distribution that points
\* at this checkout; it is missing only if there is none, and the lookup raises
\* anything else only over a garbled .pth it met before the one it looks for.
VersionIsOfThisCode ==
  LET Has(d, Test(_)) == \E n \in 1..Len(catalog.dists[d]) : Test(catalog.dists[d][n])
      editable == {d \in 1..Len(catalog.dists) : Has(d, PointsAtSrc)}
  IN  /\ status = "found" =>
           IF catalog.mapped # 0 THEN dist = catalog.mapped
           ELSE dist \in editable /\ \A d \in editable : dist <= d
      /\ status = "missing" => catalog.mapped = 0 /\ editable = {}
      /\ status = "raised" =>
           catalog.mapped = 0 /\ \E d \in 1..dist : Has(d, Garbled) /\ \A e \in editable : d <= e
=============================================================================
