---------------------------- MODULE LibraryProofs ----------------------------
(***************************************************************************)
(* Proofs about the project library, for any directories, roots, ids and   *)
(* bounds.  The argument goes by the values that the operations hand on:   *)
(* each of them (upsert, observe, ingest, discover, promote, refresh)      *)
(* turns a sound library into a sound one and keeps the paths of the       *)
(* projects it knows, so an action, which commits what they return, keeps  *)
(* the invariant.                                                          *)
(***************************************************************************)
EXTENDS Library, FiniteSetTheorems, WellFoundedInduction, SequenceTheorems, TLAPS

\* A record has all its columns.
ColumnNames ==
  {"path", "ready", "origin", "root", "name", "detected", "mark", "tasks", "indexed"}
Columns(r) == r = [x \in ColumnNames |-> r[x]]

\* A record that the properties hold of, where the roots are R.
SoundRow(r, R) ==
  /\ Columns(r)
  /\ r.path \in Paths
  /\ r.ready => r.indexed = <<r.path, r.name, r.mark>>
  /\ r.root # NoPath => r.root \in R /\ Within(r.path, r.root)
  /\ r.origin = "orphaned" => r.root = NoPath

KnownIn(rows) == {i \in Ids : rows[i] # NoProject}

\* Projects and modules that fit together: no two projects are at one path, and
\* the owner of a module is known.
Tables(rows, mods) ==
  /\ rows = [i \in Ids |-> rows[i]]
  /\ \A i \in KnownIn(rows) : Columns(rows[i]) /\ rows[i].path \in Paths
  /\ \A i, j \in KnownIn(rows) : rows[i].path = rows[j].path => i = j
  /\ mods \in [Paths -> [owner : KnownIn(rows) \cup {NoId}, ready : BOOLEAN]]

SoundTables(rows, mods, R) ==
  /\ Tables(rows, mods)
  /\ \A i \in KnownIn(rows) : SoundRow(rows[i], R)

\* A value that operations hand on.
Whole(l) ==
  l = [present |-> l.present, project |-> l.project, module |-> l.module,
       groups |-> l.groups, taken |-> l.taken]

Fit(l) == Whole(l) /\ Tables(l.project, l.module)
Sound(l, R) == Whole(l) /\ SoundTables(l.project, l.module, R)

\* What an operation makes of l: it forgets no project and moves none.
Keeps(l, k) ==
  /\ Known(l) \subseteq Known(k)
  /\ \A i \in Known(l) : k.project[i].path = l.project[i].path

\* A root that a project at p may name.
MayName(p, root, R) ==
  root # NoPath => root \in R /\ Within(p, root)

-----------------------------------------------------------------------------
\* Paths

\* What is within a directory is a directory, with its path as a prefix.
LEMMA WithinPaths ==
  ASSUME NEW q \in Paths, NEW p, Within(p, q)
  PROVE  p \in Paths /\ IsPrefix(q, p)
  BY DEF Within, Below

\* What is within a directory within another is within the other.
LEMMA WithinIsTransitive ==
  ASSUME NEW a \in Paths, NEW b \in Paths, NEW c, Within(b, a), Within(c, b)
  PROVE  Within(c, a)
  <1>1. c \in Paths /\ IsPrefix(a, b) /\ IsPrefix(b, c)
    BY WithinPaths
  <1>2. a \in Seq(STRING) /\ b \in Seq(STRING) /\ c \in Seq(STRING)
    BY <1>1, LibraryAssumption
  <1>3. Len(a) \in Nat /\ Len(b) \in Nat /\ Len(c) \in Nat
    BY <1>2
  <1>4. Len(a) <= Len(b) /\ Len(b) <= Len(c)
    BY <1>1 DEF IsPrefix
  <1>5. \A k \in 1 .. Len(a) : a[k] = b[k]
    <2> SUFFICES ASSUME NEW k \in 1 .. Len(a) PROVE a[k] = b[k]
      OBVIOUS
    <2>1. SubSeq(a, 1, Len(a))[k] = a[k] /\ SubSeq(b, 1, Len(a))[k] = b[k]
      BY <1>2, <1>3, <1>4
    <2> QED BY <1>1, <2>1 DEF IsPrefix
  <1>6. \A k \in 1 .. Len(b) : b[k] = c[k]
    <2> SUFFICES ASSUME NEW k \in 1 .. Len(b) PROVE b[k] = c[k]
      OBVIOUS
    <2>1. SubSeq(b, 1, Len(b))[k] = b[k] /\ SubSeq(c, 1, Len(b))[k] = c[k]
      BY <1>2, <1>3, <1>4
    <2> QED BY <1>1, <2>1 DEF IsPrefix
  <1>7. SubSeq(a, 1, Len(a)) = SubSeq(c, 1, Len(a))
    BY <1>2, <1>3, <1>4, <1>5, <1>6
  <1>8. IsPrefix(a, c)
    BY <1>3, <1>4, <1>7 DEF IsPrefix
  <1> QED BY <1>1, <1>8 DEF Within, Below

\* No directory has the empty path, so NoPath is none.
LEMMA PathsHaveLengths == \A p \in Paths : Len(p) \in Nat /\ p # NoPath
  BY LibraryAssumption

Less == {x \in Nat \X Nat : x[1] < x[2]}

\* Every set of numbers that is not empty has a least one.
LEMMA LeastNumber ==
  ASSUME NEW T \in SUBSET Nat, T # {}
  PROVE  \E n \in T : \A m \in T : n <= m
  <1>1. Less = OpToRel(<, Nat)
    BY DEF Less, OpToRel
  <1>2. IsWellFoundedOn(Less, Nat)
    BY <1>1, NatLessThanWellFounded
  <1>3. PICK n \in T : \A m \in T : ~ (<<m, n>> \in Less)
    BY <1>2, WFMin
  <1>4. \A m \in T : ~ (m < n)
    BY <1>3 DEF Less
  <1> QED BY <1>4

\* Of the directories around p one is the deepest.
LEMMA LongestAround ==
  ASSUME NEW p \in Paths, NEW S \in SUBSET Paths, S # {}, \A q \in S : Within(p, q)
  PROVE  Longest(S) \in S
  <1> DEFINE T == {n \in Nat : \E q \in S : Len(q) + n = Len(p)}
  <1>1. \A q \in S : Len(q) \in Nat /\ Len(p) \in Nat /\ Len(q) <= Len(p)
    BY WithinPaths, PathsHaveLengths DEF IsPrefix
  <1>2. \A q \in S : Len(p) - Len(q) \in Nat /\ Len(q) + (Len(p) - Len(q)) = Len(p)
    BY <1>1
  <1>3. T # {}
    BY <1>2
  <1>4. PICK n \in T : \A m \in T : n <= m
    BY <1>3, LeastNumber
  <1>5. PICK q \in S : Len(q) + n = Len(p)
    BY <1>4
  <1>6. \A r \in S : Len(r) <= Len(q)
    <2> SUFFICES ASSUME NEW r \in S PROVE Len(r) <= Len(q)
      OBVIOUS
    <2>1. Len(p) - Len(r) \in T
      BY <1>2
    <2>2. n <= Len(p) - Len(r)
      BY <1>4, <2>1
    <2> QED BY <1>1, <1>5, <2>2
  <1> QED BY <1>6 DEF Longest

\* The root that is found for a directory is authorized and around it.
LEMMA MatchingCovers ==
  ASSUME roots \subseteq Paths, NEW p \in Paths
  PROVE  Matching(p) # NoPath => Matching(p) \in roots /\ Within(p, Matching(p))
  <1> DEFINE S == {r \in roots : Within(p, r)}
  <1>1. CASE S = {}
    BY <1>1 DEF Matching
  <1>2. CASE S # {}
    <2>1. Longest(S) \in S
      BY <1>2, LongestAround
    <2>2. Matching(p) = Longest(S)
      BY <1>2 DEF Matching
    <2> QED BY <2>1, <2>2
  <1> QED BY <1>1, <1>2

-----------------------------------------------------------------------------
\* Values

\* The ids of a library's projects are ids of the pool; NoId is none of them.
LEMMA KnownProjects ==
  ASSUME NEW l
  PROVE  Known(l) = KnownIn(l.project) /\ NoId \notin Ids /\ Known(l) \subseteq Ids
  BY LibraryAssumption DEF Known, KnownIn

\* A record is told from the absence of one by its path.
LEMMA RecordsExist ==
  ASSUME NEW r, r.path \in Paths
  PROVE  r # NoProject
  BY LibraryAssumption DEF NoProject

\* The id at a path, if there is one.
LEMMA IdAtFinds ==
  ASSUME NEW l, NEW p
  PROVE  \/ IdAt(l, p) = NoId /\ \A j \in Known(l) : l.project[j].path # p
         \/ IdAt(l, p) \in Known(l) /\ IdAt(l, p) # NoId /\ l.project[IdAt(l, p)].path = p
  <1>1. CASE \E i \in Known(l) : l.project[i].path = p
    <2>1. IdAt(l, p) \in Known(l) /\ l.project[IdAt(l, p)].path = p
      BY <1>1 DEF IdAt
    <2> QED BY <2>1, KnownProjects
  <1>2. CASE ~ \E i \in Known(l) : l.project[i].path = p
    BY <1>2 DEF IdAt
  <1> QED BY <1>1, <1>2

\* A new id is not that of a project.
LEMMA FreshIsNew ==
  ASSUME NEW l
  PROVE  Fresh(l) = NoId \/ Fresh(l) \in Ids \ Known(l)
  <1>1. CASE Unused(l) = {}
    BY <1>1 DEF Fresh
  <1>2. CASE Unused(l) # {}
    <2>1. Unused(l) \in SUBSET Nat
      BY LibraryAssumption DEF Unused
    <2>2. \E i \in Unused(l) : \A j \in Unused(l) : i <= j
      BY <1>2, <2>1, LeastNumber
    <2>3. Fresh(l) \in Unused(l)
      BY <1>2, <2>2 DEF Fresh
    <2> QED BY <2>3 DEF Unused
  <1> QED BY <1>1, <1>2

\* One record is written.
Put(l, i, r) == [l EXCEPT !.project[i] = r]

\* Writing one record changes that row and nothing else of the library.
LEMMA PutWrites ==
  ASSUME NEW l, Whole(l), l.project = [j \in Ids |-> l.project[j]], NEW i, NEW r
  PROVE  /\ Whole(Put(l, i, r))
         /\ Put(l, i, r).project = [l.project EXCEPT ![i] = r]
         /\ Put(l, i, r).module = l.module
         /\ Put(l, i, r).present = l.present
         /\ Put(l, i, r).groups = l.groups
         /\ i \notin Ids => Put(l, i, r) = l
         /\ i \in Ids => /\ Put(l, i, r).project[i] = r
                         /\ \A j \in Ids \ {i} : Put(l, i, r).project[j] = l.project[j]
  <1> DEFINE rows == [l.project EXCEPT ![i] = r]
  <1>1. Put(l, i, r) = [l EXCEPT !.project = rows]
    BY DEF Put
  <1>2. Put(l, i, r) = [present |-> l.present, project |-> rows, module |-> l.module,
                        groups |-> l.groups, taken |-> l.taken]
    BY <1>1 DEF Whole
  <1>3. i \notin Ids => rows = l.project
    <2> SUFFICES ASSUME i \notin Ids PROVE rows = l.project
      OBVIOUS
    <2>1. rows = [j \in Ids |-> l.project[j]]
      OBVIOUS
    <2> QED BY <2>1
  <1>4. i \in Ids => rows[i] = r /\ \A j \in Ids \ {i} : rows[j] = l.project[j]
    OBVIOUS
  <1> HIDE DEF rows
  <1>5. i \notin Ids => Put(l, i, r) = l
    BY <1>2, <1>3 DEF Whole
  <1> QED BY <1>2, <1>4, <1>5 DEF Whole, rows

\* A record with a path of its own fits.
LEMMA PutFits ==
  ASSUME NEW l, Fit(l), NEW i \in Ids, NEW r, Columns(r), r.path \in Paths,
         \A j \in Known(l) \ {i} : l.project[j].path # r.path
  PROVE  /\ Fit(Put(l, i, r))
         /\ Known(Put(l, i, r)) = Known(l) \cup {i}
         /\ (i \in Known(l) => l.project[i].path = r.path) => Keeps(l, Put(l, i, r))
  <1> DEFINE k == Put(l, i, r)
  <1>1. Whole(l) /\ l.project = [j \in Ids |-> l.project[j]]
    BY DEF Fit, Tables
  <1>2. /\ Whole(k) /\ k.project = [l.project EXCEPT ![i] = r] /\ k.module = l.module
        /\ k.project[i] = r /\ \A j \in Ids \ {i} : k.project[j] = l.project[j]
    BY <1>1, PutWrites
  <1> HIDE DEF k
  <1>3. Known(k) = Known(l) \cup {i}
    BY <1>2, RecordsExist DEF Known
  <1>4. k.project = [j \in Ids |-> k.project[j]]
    BY <1>1, <1>2
  <1>5. \A j \in Known(k) : Columns(k.project[j]) /\ k.project[j].path \in Paths
    BY <1>2, <1>3, KnownProjects DEF Fit, Tables
  <1>6. \A j, h \in Known(k) : k.project[j].path = k.project[h].path => j = h
    BY <1>2, <1>3, KnownProjects DEF Fit, Tables
  <1>7. k.module \in [Paths -> [owner : Known(k) \cup {NoId}, ready : BOOLEAN]]
    BY <1>2, <1>3, KnownProjects DEF Fit, Tables
  <1>8. Fit(k)
    BY <1>2, <1>4, <1>5, <1>6, <1>7, KnownProjects DEF Fit, Tables
  <1>9. (i \in Known(l) => l.project[i].path = r.path) => Keeps(l, k)
    BY <1>2, <1>3, KnownProjects DEF Keeps
  <1> QED BY <1>3, <1>8, <1>9 DEF k

\* Soundness of a library is fitting tables and a sound record of each project.
LEMMA SoundIsFit ==
  ASSUME NEW l, NEW R
  PROVE  Sound(l, R) <=>
           Fit(l) /\ \A i \in Known(l) : SoundRow(l.project[i], R)
  BY KnownProjects DEF Sound, SoundTables, Fit

\* What an operation keeps, two keep.
LEMMA KeepsAgain ==
  ASSUME NEW l, NEW k, NEW h, Keeps(l, k), Keeps(k, h)
  PROVE  Keeps(l, h)
  BY DEF Keeps

\* Every library keeps itself.
LEMMA KeepsItself == \A l : Keeps(l, l)
  BY DEF Keeps

-----------------------------------------------------------------------------
\* upsert_project

\* The record that an upsert writes.
Overwritten(old, origin, root, name, detected, tasks) ==
  [old EXCEPT !.ready = TRUE, !.origin = origin, !.root = root, !.name = name,
              !.detected = detected, !.tasks = tasks]

Renewed(old, tasks, p, root, origin) ==
  Overwritten(old, IF old.origin = "manual" THEN old.origin ELSE origin, root,
              IF old.name = old.detected THEN p ELSE old.name, p, tasks)

Created(l, i, p, root, origin) ==
  [path |-> p, ready |-> TRUE, origin |-> origin, root |-> root,
   name |-> p, detected |-> p, mark |-> 0,
   tasks |-> MergedTasks(l, i, p, {}), indexed |-> <<>>]

\* upsert_project writes one record: the one at the path, renewed, or a new one.
LEMMA UpsertPuts ==
  ASSUME NEW l, NEW p, NEW root, NEW origin
  PROVE  /\ IdAt(l, p) # NoId =>
              Upsert(l, p, root, origin) =
                Put(l, IdAt(l, p),
                    Reindexed(Renewed(l.project[IdAt(l, p)],
                      MergedTasks(l, IdAt(l, p), p, l.project[IdAt(l, p)].tasks), p, root, origin)))
         /\ IdAt(l, p) = NoId =>
              Upsert(l, p, root, origin) =
                Put(l, Fresh(l), Reindexed(Created(l, Fresh(l), p, root, origin)))
  BY DEF Upsert, Put, Renewed, Overwritten, Created

\* A record that was indexed again can be found.
LEMMA ReindexedRow ==
  ASSUME NEW r, Columns(r)
  PROVE  /\ Columns(Reindexed(r))
         /\ Reindexed(r).indexed = <<r.path, r.name, r.mark>>
         /\ Reindexed(r).path = r.path /\ Reindexed(r).name = r.name
         /\ Reindexed(r).mark = r.mark /\ Reindexed(r).root = r.root
         /\ Reindexed(r).origin = r.origin /\ Reindexed(r).ready = r.ready
  BY DEF Columns, ColumnNames, Reindexed

\* The columns that an upsert sets.
LEMMA RenewedColumns ==
  ASSUME NEW old, Columns(old), NEW origin, NEW root, NEW name, NEW detected, NEW tasks
  PROVE  LET r == Overwritten(old, origin, root, name, detected, tasks)
         IN  /\ Columns(r) /\ r.path = old.path /\ r.origin = origin
             /\ r.root = root /\ r.name = name /\ r.mark = old.mark
  BY DEF Overwritten, Columns, ColumnNames

\* What an upsert writes is sound when it may name the root.
LEMMA WrittenRow ==
  ASSUME NEW r, Columns(r), r.path \in Paths, NEW R,
         MayName(r.path, r.root, R), r.origin = "orphaned" => r.root = NoPath
  PROVE  SoundRow(Reindexed(r), R) /\ Reindexed(r).path = r.path
  BY ReindexedRow DEF SoundRow, MayName

\* The record of a project that an upsert creates is sound.
LEMMA CreatedRow ==
  ASSUME NEW l, NEW i, NEW p \in Paths, NEW root, NEW origin, NEW R,
         MayName(p, root, R), origin = "orphaned" => root = NoPath
  PROVE  /\ SoundRow(Reindexed(Created(l, i, p, root, origin)), R)
         /\ Reindexed(Created(l, i, p, root, origin)).path = p
  <1> DEFINE r == Created(l, i, p, root, origin)
  <1>1. Columns(r) /\ r.path = p /\ r.root = root /\ r.origin = origin
    BY DEF Created, Columns, ColumnNames
  <1> HIDE DEF r
  <1>2. SoundRow(Reindexed(r), R) /\ Reindexed(r).path = p
    BY <1>1, WrittenRow
  <1> QED BY <1>2 DEF r

\* The record of a project that an upsert meets again is sound.
LEMMA RenewedRow ==
  ASSUME NEW old, Columns(old), old.path \in Paths, NEW tasks, NEW root, NEW origin,
         NEW R,
         MayName(old.path, root, R), origin = "orphaned" => root = NoPath
  PROVE  /\ SoundRow(Reindexed(Renewed(old, tasks, old.path, root, origin)), R)
         /\ Reindexed(Renewed(old, tasks, old.path, root, origin)).path = old.path
  <1> DEFINE r == Renewed(old, tasks, old.path, root, origin)
             from == IF old.origin = "manual" THEN old.origin ELSE origin
             name == IF old.name = old.detected THEN old.path ELSE old.name
  <1>1. r = Overwritten(old, from, root, name, old.path, tasks)
    BY DEF Renewed
  <1>2. from = "manual" \/ from = origin
    OBVIOUS
  <1> HIDE DEF r, from, name
  <1>3. Columns(r) /\ r.path = old.path /\ r.root = root /\ r.origin = from
    BY <1>1, RenewedColumns
  <1>4. r.origin = "orphaned" => r.root = NoPath
    BY <1>2, <1>3
  <1>5. SoundRow(Reindexed(r), R) /\ Reindexed(r).path = old.path
    BY <1>3, <1>4, WrittenRow
  <1> QED BY <1>5 DEF r

\* A sound record in the place of one at its path.
LEMMA PutIsSound ==
  ASSUME NEW l, Fit(l), NEW R, NEW i \in Ids, NEW r, SoundRow(r, R),
         \A j \in Known(l) \ {i} : l.project[j].path # r.path,
         \A j \in Known(l) \ {i} : SoundRow(l.project[j], R)
  PROVE  /\ Sound(Put(l, i, r), R)
         /\ (i \in Known(l) => l.project[i].path = r.path) => Keeps(l, Put(l, i, r))
  <1> DEFINE k == Put(l, i, r)
  <1>1. Whole(l) /\ l.project = [j \in Ids |-> l.project[j]]
    BY DEF Fit, Tables
  <1>2. /\ Fit(k) /\ Known(k) = Known(l) \cup {i}
        /\ (i \in Known(l) => l.project[i].path = r.path) => Keeps(l, k)
    BY PutFits DEF SoundRow
  <1>3. /\ Whole(k) /\ k.project = [l.project EXCEPT ![i] = r] /\ k.module = l.module
        /\ k.project[i] = r /\ \A j \in Ids \ {i} : k.project[j] = l.project[j]
    BY <1>1, PutWrites
  <1> HIDE DEF k
  <1>4. \A j \in Known(k) : SoundRow(k.project[j], R)
    BY <1>2, <1>3, KnownProjects
  <1>5. Sound(k, R)
    BY <1>2, <1>4, SoundIsFit
  <1> QED BY <1>2, <1>5 DEF k

\* An upsert makes sound whatever was unsound at its path only.
LEMMA UpsertIsSound ==
  ASSUME NEW l, Fit(l), NEW p \in Paths, NEW root, NEW origin, NEW R,
         \A j \in Known(l) : l.project[j].path # p => SoundRow(l.project[j], R),
         MayName(p, root, R), origin = "orphaned" => root = NoPath
  PROVE  Sound(Upsert(l, p, root, origin), R) /\ Keeps(l, Upsert(l, p, root, origin))
  <1> DEFINE k == Upsert(l, p, root, origin)
  <1>1. Whole(l) /\ l.project = [j \in Ids |-> l.project[j]]
        /\ \A j \in Known(l) : Columns(l.project[j]) /\ l.project[j].path \in Paths
    BY KnownProjects DEF Fit, Tables
  <1>3. CASE IdAt(l, p) # NoId
    <2> DEFINE i == IdAt(l, p)
               old == l.project[i]
               tasks == MergedTasks(l, i, p, old.tasks)
               r == Reindexed(Renewed(old, tasks, p, root, origin))
    <2>1. i \in Known(l) /\ l.project[i].path = p /\ i \in Ids
      BY <1>3, IdAtFinds, KnownProjects
    <2>2. k = Put(l, i, r)
      BY <1>3, UpsertPuts
    <2> HIDE DEF i
    <2>3. Columns(old) /\ old.path = p
      BY <1>1, <2>1
    <2> HIDE DEF tasks, old
    <2>4. SoundRow(r, R) /\ r.path = p
      <3>1. MayName(old.path, root, R) /\ old.path \in Paths
        BY <2>3
      <3>2. /\ SoundRow(Reindexed(Renewed(old, tasks, old.path, root, origin)), R)
            /\ Reindexed(Renewed(old, tasks, old.path, root, origin)).path = old.path
        BY <2>3, <3>1, RenewedRow
      <3> QED BY <2>3, <3>2
    <2> USE DEF old
    <2> HIDE DEF r
    <2>5. \A j \in Known(l) \ {i} : l.project[j].path # p
      BY <2>1, KnownProjects DEF Fit, Tables
    <2>6. \A j \in Known(l) \ {i} : SoundRow(l.project[j], R)
      BY <2>5
    <2> QED BY <2>1, <2>2, <2>4, <2>5, <2>6, PutIsSound
  <1>4. CASE IdAt(l, p) = NoId
    <2> DEFINE i == Fresh(l)
               r == Reindexed(Created(l, i, p, root, origin))
    <2>1. \A j \in Known(l) : l.project[j].path # p
      BY <1>4, IdAtFinds
    <2>2. k = Put(l, i, r)
      BY <1>4, UpsertPuts
    <2>3. i = NoId \/ i \in Ids \ Known(l)
      BY FreshIsNew
    <2> HIDE DEF i
    <2>3a. SoundRow(r, R) /\ r.path = p
      BY CreatedRow
    <2> HIDE DEF r
    <2>4. CASE i = NoId
      <3>1. k = l
        BY <1>1, <2>2, <2>4, PutWrites, KnownProjects
      <3> QED BY <2>1, <3>1, SoundIsFit, KeepsItself
    <2>5. CASE i \in Ids \ Known(l)
      BY <2>1, <2>2, <2>3a, <2>5, PutIsSound
    <2> QED BY <2>3, <2>4, <2>5
  <1> QED BY <1>3, <1>4

-----------------------------------------------------------------------------
\* Modules

\* What a sound library gives to a proof.
LEMMA SoundParts ==
  ASSUME NEW l, NEW R, Sound(l, R)
  PROVE  /\ Fit(l) /\ Whole(l) /\ l.project = [j \in Ids |-> l.project[j]]
         /\ l.module \in [Paths -> [owner : Known(l) \cup {NoId}, ready : BOOLEAN]]
         /\ \A i \in Known(l) : /\ SoundRow(l.project[i], R)
                                /\ Columns(l.project[i]) /\ l.project[i].path \in Paths /\ i \in Ids
         /\ \A i, j \in Known(l) : l.project[i].path = l.project[j].path => i = j
  BY SoundIsFit, KnownProjects DEF Fit, Tables

\* Writing a sound record with the same path.
LEMMA RewritingIsSound ==
  ASSUME NEW l, NEW R, Sound(l, R), NEW i \in Known(l), NEW r,
         SoundRow(r, R), r.path = l.project[i].path
  PROVE  /\ Sound(Put(l, i, r), R) /\ Keeps(l, Put(l, i, r))
         /\ Known(Put(l, i, r)) = Known(l)
  <1>0. Columns(r) /\ r.path \in Paths
    BY DEF SoundRow
  <1>1. /\ Fit(l) /\ i \in Ids
        /\ \A j \in Known(l) : SoundRow(l.project[j], R)
        /\ \A j, h \in Known(l) : l.project[j].path = l.project[h].path => j = h
    BY SoundParts
  <1>2. \A j \in Known(l) \ {i} : l.project[j].path # r.path
    BY <1>1
  <1>3. Sound(Put(l, i, r), R) /\ Keeps(l, Put(l, i, r))
    BY <1>0, <1>1, <1>2, PutIsSound
  <1>4. Known(Put(l, i, r)) = Known(l) \cup {i}
    BY <1>0, <1>1, <1>2, PutFits
  <1> QED BY <1>3, <1>4

\* Other tasks make no difference.
LEMMA TasksOfRow ==
  ASSUME NEW r, NEW R, SoundRow(r, R), NEW ts
  PROVE  /\ SoundRow([r EXCEPT !.tasks = ts], R)
         /\ [r EXCEPT !.tasks = ts].path = r.path
  BY DEF SoundRow, Columns, ColumnNames

\* Writing a task list keeps the library sound, for a project or for none.
LEMMA TasksAreSound ==
  ASSUME NEW l, NEW R, Sound(l, R), NEW i, i \in Known(l) \/ i \notin Ids,
         NEW ts
  PROVE  /\ Sound(WithTasks(l, i, ts), R) /\ Keeps(l, WithTasks(l, i, ts))
  <1> DEFINE r == [l.project[i] EXCEPT !.tasks = ts]
  <1>1. WithTasks(l, i, ts) = Put(l, i, r)
    BY DEF WithTasks, Put
  <1>2. CASE i \notin Ids
    <2>1. Put(l, i, r) = l
      BY <1>2, SoundParts, PutWrites
    <2> QED BY <1>1, <2>1, KeepsItself
  <1>3. CASE i \in Known(l)
    <2>1. SoundRow(l.project[i], R)
      BY <1>3, SoundParts
    <2>2. SoundRow(r, R) /\ r.path = l.project[i].path
      BY <2>1, TasksOfRow
    <2> HIDE DEF r
    <2> QED BY <1>1, <1>3, <2>2, RewritingIsSound
  <1> QED BY <1>2, <1>3

\* Another list of modules.
LEMMA ModulesAreSound ==
  ASSUME NEW l, NEW R, Sound(l, R), NEW mods,
         mods \in [Paths -> [owner : Known(l) \cup {NoId}, ready : BOOLEAN]]
  PROVE  Sound([l EXCEPT !.module = mods], R) /\ Keeps(l, [l EXCEPT !.module = mods])
  <1> DEFINE k == [l EXCEPT !.module = mods]
  <1>0. Whole(l)
    BY SoundParts
  <1>1. k = [present |-> l.present, project |-> l.project, module |-> mods,
             groups |-> l.groups, taken |-> l.taken]
    BY <1>0 DEF Whole
  <1> HIDE DEF k
  <1>2. Whole(k) /\ k.project = l.project /\ k.module = mods
    BY <1>1 DEF Whole
  <1>3. Known(k) = Known(l)
    BY <1>2 DEF Known
  <1>4. Sound(k, R) /\ Keeps(l, k)
    BY <1>2, <1>3, KnownProjects DEF Sound, SoundTables, Tables, Keeps
  <1> QED BY <1>4 DEF k

\* Listing a module under a project that is known keeps the library sound.
LEMMA OwnershipIsSound ==
  ASSUME NEW l, NEW R, Sound(l, R), NEW i \in Known(l), NEW m \in Paths
  PROVE  /\ Sound([l EXCEPT !.module[m] = [owner |-> i, ready |-> TRUE]], R)
         /\ Keeps(l, [l EXCEPT !.module[m] = [owner |-> i, ready |-> TRUE]])
  <1> DEFINE mods == [l.module EXCEPT ![m] = [owner |-> i, ready |-> TRUE]]
  <1>1. mods \in [Paths -> [owner : Known(l) \cup {NoId}, ready : BOOLEAN]]
    <2>1. l.module \in [Paths -> [owner : Known(l) \cup {NoId}, ready : BOOLEAN]]
      BY SoundParts
    <2>2. [owner |-> i, ready |-> TRUE] \in [owner : Known(l) \cup {NoId}, ready : BOOLEAN]
      OBVIOUS
    <2> QED BY <2>1, <2>2
  <1>2. [l EXCEPT !.module[m] = [owner |-> i, ready |-> TRUE]] = [l EXCEPT !.module = mods]
    OBVIOUS
  <1> HIDE DEF mods
  <1>3. Sound([l EXCEPT !.module = mods], R) /\ Keeps(l, [l EXCEPT !.module = mods])
    BY <1>1, ModulesAreSound
  <1> QED BY <1>2, <1>3

\* reindex_project leaves a sound record sound.
LEMMA IndexingIsSound ==
  ASSUME NEW l, NEW R, Sound(l, R), NEW i \in Known(l)
  PROVE  /\ Sound([l EXCEPT !.project[i] = Reindexed(@)], R)
         /\ Keeps(l, [l EXCEPT !.project[i] = Reindexed(@)])
  <1> DEFINE r == Reindexed(l.project[i])
  <1>1. [l EXCEPT !.project[i] = Reindexed(@)] = Put(l, i, r)
    BY DEF Put
  <1>2. SoundRow(l.project[i], R)
    BY SoundParts
  <1>3. SoundRow(r, R) /\ r.path = l.project[i].path
    BY <1>2, ReindexedRow DEF SoundRow
  <1> HIDE DEF r
  <1>4. Sound(Put(l, i, r), R) /\ Keeps(l, Put(l, i, r))
    BY <1>3, RewritingIsSound
  <1> QED BY <1>1, <1>4

\* observe_module
LEMMA ObservingIsSound ==
  ASSUME NEW l, NEW R, Sound(l, R), NEW i \in Known(l), NEW m \in Paths
  PROVE  Sound(Observe(l, i, m), R) /\ Keeps(l, Observe(l, i, m))
  <1> DEFINE moving == Moving(l, i, m)
             from == l.module[m].owner
             left == IF moving = {} THEN l
                     ELSE WithTasks(l, from, l.project[from].tasks \ moving)
             owned == [left EXCEPT !.module[m] = [owner |-> i, ready |-> TRUE]]
             taken == WithTasks(owned, i, TasksWithModule(l, i, m, moving))
  <1>1. Sound(left, R) /\ Keeps(l, left)
    <2>1. from \in Known(l) \cup {NoId}
      BY SoundParts
    <2>2. from \in Known(l) \/ from \notin Ids
      BY <2>1, KnownProjects
    <2> HIDE DEF from
    <2>3. /\ Sound(WithTasks(l, from, l.project[from].tasks \ moving), R)
          /\ Keeps(l, WithTasks(l, from, l.project[from].tasks \ moving))
      BY <2>2, TasksAreSound
    <2> QED BY <2>3, KeepsItself
  <1>2. Observe(l, i, m) = [taken EXCEPT !.project[i] = Reindexed(@)]
    BY DEF Observe
  <1> HIDE DEF left, moving, from
  <1>3. i \in Known(left)
    BY <1>1 DEF Keeps
  <1>4. Sound(owned, R) /\ Keeps(left, owned)
    BY <1>1, <1>3, OwnershipIsSound
  <1> HIDE DEF owned
  <1>5. i \in Known(owned)
    BY <1>3, <1>4 DEF Keeps
  <1>6. Sound(taken, R) /\ Keeps(owned, taken)
    BY <1>4, <1>5, TasksAreSound
  <1> HIDE DEF taken
  <1>7. i \in Known(taken)
    BY <1>5, <1>6 DEF Keeps
  <1>8. Sound(Observe(l, i, m), R) /\ Keeps(taken, Observe(l, i, m))
    BY <1>2, <1>6, <1>7, IndexingIsSound
  <1>9. Keeps(l, owned)
    BY <1>1, <1>4, KeepsAgain
  <1>10. Keeps(l, taken)
    BY <1>6, <1>9, KeepsAgain
  <1>11. Keeps(l, Observe(l, i, m))
    BY <1>8, <1>10, KeepsAgain
  <1> QED BY <1>8, <1>11

\* ingest_directory
LEMMA IngestingIsSound ==
  ASSUME NEW l, NEW R, Sound(l, R), NEW p \in Paths, NEW root,
         MayName(p, root, R)
  PROVE  Sound(Ingest(l, p, root), R) /\ Keeps(l, Ingest(l, p, root))
  <1> DEFINE parent == ParentOf(l, p)
             next == IF Independent(l, p) THEN Upsert(l, p, root, "scan") ELSE l
  <1>1. Sound(next, R) /\ Keeps(l, next)
    <2>1. Sound(Upsert(l, p, root, "scan"), R) /\ Keeps(l, Upsert(l, p, root, "scan"))
      BY SoundParts, UpsertIsSound
    <2> QED BY <2>1, KeepsItself
  <1>2. parent \in Known(l) \/ parent = NoId
    BY IdAtFinds DEF ParentOf
  <1>3. Ingest(l, p, root) = IF parent = NoId THEN next ELSE Observe(next, parent, p)
    BY DEF Ingest
  <1> HIDE DEF next, parent
  <1>4. CASE parent = NoId
    BY <1>1, <1>3, <1>4
  <1>5. CASE parent # NoId
    <2>1. parent \in Known(next)
      BY <1>1, <1>2, <1>5 DEF Keeps
    <2>2. Sound(Observe(next, parent, p), R) /\ Keeps(next, Observe(next, parent, p))
      BY <1>1, <2>1, ObservingIsSound
    <2> QED BY <1>1, <1>3, <1>5, <2>2, KeepsAgain
  <1> QED BY <1>4, <1>5

\* update_missing_modules
LEMMA MissingAreSound ==
  ASSUME NEW l, NEW R, Sound(l, R), NEW i
  PROVE  Sound(MissingModules(l, i), R) /\ Keeps(l, MissingModules(l, i))
  <1> DEFINE mods == [m \in Paths |->
               IF m \in Owned(l, i) /\ (m \notin l.present \/ (IdAt(l, m) = NoId /\ ~Marker(m)))
               THEN [l.module[m] EXCEPT !.ready = FALSE] ELSE l.module[m]]
  <1>1. MissingModules(l, i) = [l EXCEPT !.module = mods]
    BY DEF MissingModules
  <1>2. l.module \in [Paths -> [owner : Known(l) \cup {NoId}, ready : BOOLEAN]]
    BY SoundParts
  <1>3. \A x \in [owner : Known(l) \cup {NoId}, ready : BOOLEAN] :
           [x EXCEPT !.ready = FALSE] \in [owner : Known(l) \cup {NoId}, ready : BOOLEAN]
    OBVIOUS
  <1>4. mods \in [Paths -> [owner : Known(l) \cup {NoId}, ready : BOOLEAN]]
    BY <1>2, <1>3
  <1> HIDE DEF mods
  <1> QED BY <1>1, <1>4, ModulesAreSound

-----------------------------------------------------------------------------
\* Discovery: one directory after the other

\* There are finitely many directories.
LEMMA PathsAreCounted == Cardinality(Paths) \in Nat
  BY FS_CardinalityType, LibraryAssumption

DiscoverySteps(l, S, root, n, f) ==
  f = [k \in 0 .. n |-> IF k = 0 THEN l ELSE Discovery(f[k - 1], S, root, k)]

\* The recursion of Discovered has a value at every length.
LEMMA DiscoveryExists ==
  ASSUME NEW l, NEW S, NEW root, NEW N \in Nat
  PROVE  \E f : DiscoverySteps(l, S, root, N, f)
  <1> DEFINE T == {n \in Nat : ~ \E f : DiscoverySteps(l, S, root, n, f)}
  <1> SUFFICES ASSUME T # {} PROVE FALSE
    OBVIOUS
  <1>1. PICK n \in T : \A m \in T : n <= m
    BY LeastNumber
  <1>2. n # 0
    <2> DEFINE f == [k \in 0 .. 0 |-> l]
    <2>1. f = [k \in 0 .. 0 |-> IF k = 0 THEN l ELSE Discovery(f[k - 1], S, root, k)]
      OBVIOUS
    <2>2. DiscoverySteps(l, S, root, 0, f)
      BY <2>1 DEF DiscoverySteps
    <2> QED BY <2>2
  <1>3. n - 1 \in Nat /\ n - 1 \notin T
    BY <1>1, <1>2
  <1>4. PICK g : DiscoverySteps(l, S, root, n - 1, g)
    BY <1>3
  <1> DEFINE f == [k \in 0 .. n |-> IF k = n THEN Discovery(g[n - 1], S, root, n) ELSE g[k]]
  <1>5. \A k \in 0 .. n : f[k] = IF k = 0 THEN l ELSE Discovery(f[k - 1], S, root, k)
    <2> SUFFICES ASSUME NEW k \in 0 .. n
                 PROVE  f[k] = IF k = 0 THEN l ELSE Discovery(f[k - 1], S, root, k)
      OBVIOUS
    <2>1. \A j \in 0 .. n - 1 : g[j] = IF j = 0 THEN l ELSE Discovery(g[j - 1], S, root, j)
      BY <1>4 DEF DiscoverySteps
    <2>2. CASE k = n
      <3>1. n - 1 \in 0 .. n /\ n - 1 # n /\ n \in 0 .. n
        BY <1>3
      <3>2. f[n] = Discovery(g[n - 1], S, root, n) /\ f[n - 1] = g[n - 1]
        BY <3>1
      <3> HIDE DEF f
      <3> QED BY <1>2, <2>2, <3>2
    <2>3. CASE k # n
      <3>1. k \in 0 .. n - 1 /\ (k # 0 => k - 1 \in 0 .. n /\ k - 1 # n)
        BY <2>3
      <3>2. f[k] = g[k] /\ (k # 0 => f[k - 1] = g[k - 1])
        BY <2>3, <3>1
      <3> HIDE DEF f
      <3> QED BY <2>1, <3>1, <3>2
    <2> QED BY <2>2, <2>3
  <1>6. f = [k \in 0 .. n |-> f[k]]
    OBVIOUS
  <1> HIDE DEF f
  <1>7. DiscoverySteps(l, S, root, n, f)
    BY <1>5, <1>6 DEF DiscoverySteps
  <1> QED BY <1>7

\* Discovered is the last value of its recursion.
LEMMA DiscoveredIsReached ==
  ASSUME NEW l, NEW S, NEW root
  PROVE  \E f : /\ DiscoverySteps(l, S, root, Cardinality(Paths), f)
                /\ Discovered(l, S, root) = f[Cardinality(Paths)]
  <1> DEFINE f == CHOOSE f : DiscoverySteps(l, S, root, Cardinality(Paths), f)
  <1>1. DiscoverySteps(l, S, root, Cardinality(Paths), f)
    BY DiscoveryExists, PathsAreCounted
  <1>2. Discovered(l, S, root) = f[Cardinality(Paths)]
    BY DEF Discovered, DiscoverySteps
  <1> QED BY <1>1, <1>2

\* Discovery keeps a library sound when all it meets may name the root.
LEMMA DiscoveryIsSound ==
  ASSUME NEW l, NEW R, Sound(l, R), NEW S \in SUBSET Paths, NEW root,
         \A p \in S : MayName(p, root, R)
  PROVE  Sound(Discovered(l, S, root), R) /\ Keeps(l, Discovered(l, S, root))
  <1> DEFINE N == Cardinality(Paths)
  <1>0. N \in Nat
    BY PathsAreCounted
  <1>1. PICK f : DiscoverySteps(l, S, root, N, f) /\ Discovered(l, S, root) = f[N]
    BY DiscoveredIsReached
  <1> HIDE DEF N
  <1> DEFINE Good(k) == Sound(f[k], R) /\ Keeps(l, f[k])
             T == {n \in Nat : n \in 0 .. N /\ ~ Good(n)}
  <1>2. \A k \in 0 .. N : f[k] = IF k = 0 THEN l ELSE Discovery(f[k - 1], S, root, k)
    BY <1>1 DEF DiscoverySteps
  <1>3. ASSUME T # {} PROVE FALSE
    <2>1. PICK n \in T : \A m \in T : n <= m
      BY <1>3, LeastNumber
    <2>2. n # 0
      <3>1. 0 \in 0 .. N
        BY <1>0
      <3>2. f[0] = l
        BY <1>2, <3>1
      <3>3. Good(0)
        BY <3>2, KeepsItself
      <3> QED BY <2>1, <3>3
    <2>3. n - 1 \in 0 .. N /\ n \in 0 .. N /\ n - 1 \notin T /\ n - 1 \in Nat
      BY <1>0, <2>1, <2>2
    <2>4. Sound(f[n - 1], R) /\ Keeps(l, f[n - 1])
      BY <2>3
    <2>5. f[n] = Discovery(f[n - 1], S, root, n)
      BY <1>2, <2>2, <2>3
    <2>6. CASE Outward[n] \notin S
      BY <2>1, <2>4, <2>5, <2>6 DEF Discovery
    <2>7. CASE Outward[n] \in S
      <3>1. f[n] = Ingest(f[n - 1], Outward[n], root)
        BY <2>5, <2>7 DEF Discovery
      <3>2. Outward[n] \in Paths /\ MayName(Outward[n], root, R)
        BY <2>7
      <3>3. /\ Sound(Ingest(f[n - 1], Outward[n], root), R)
            /\ Keeps(f[n - 1], Ingest(f[n - 1], Outward[n], root))
        BY <2>4, <3>2, IngestingIsSound
      <3>4. Keeps(l, Ingest(f[n - 1], Outward[n], root))
        BY <2>4, <3>3, KeepsAgain
      <3>5. Good(n)
        BY <3>1, <3>3, <3>4
      <3> QED BY <2>1, <3>5
    <2> QED BY <2>6, <2>7
  <1>4. Good(N)
    BY <1>0, <1>3
  <1> QED BY <1>1, <1>4

\* discover_modules
LEMMA DiscoveringIsSound ==
  ASSUME NEW l, NEW R \in SUBSET Paths, Sound(l, R), NEW i
  PROVE  Sound(DiscoverModules(l, i), R) /\ Keeps(l, DiscoverModules(l, i))
  <1> DEFINE top == l.project[i].path
             root == l.project[i].root
             inside == Walk(l, top) \ {top}
             found == Discovered(l, inside, root)
  <1>1. CASE i \notin Known(l)
    BY <1>1, KeepsItself DEF DiscoverModules
  <1>2. CASE i \in Known(l)
    <2>0. SoundRow(l.project[i], R)
      BY <1>2, SoundParts
    <2>1. top \in Paths /\ (root # NoPath => root \in R /\ Within(top, root))
      BY <2>0 DEF SoundRow
    <2>2. \A p \in inside : p \in Paths /\ Within(p, top)
      BY <2>1, WithinPaths DEF Walk
    <2>3. DiscoverModules(l, i) = MissingModules(found, i)
      BY <1>2 DEF DiscoverModules
    <2> HIDE DEF top, root, inside
    <2>4. ASSUME NEW p \in inside
          PROVE  MayName(p, root, R)
      <3> SUFFICES ASSUME root # NoPath PROVE root \in R /\ Within(p, root)
        BY DEF MayName
      <3>1. root \in Paths
        BY <2>1
      <3>2. Within(p, root)
        BY <2>1, <2>2, <3>1, WithinIsTransitive
      <3> QED BY <2>1, <3>2
    <2>5. Sound(found, R) /\ Keeps(l, found)
      BY <2>2, <2>4, DiscoveryIsSound
    <2> HIDE DEF found
    <2>6. Sound(MissingModules(found, i), R) /\ Keeps(found, MissingModules(found, i))
      BY <2>5, MissingAreSound
    <2> QED BY <2>3, <2>5, <2>6, KeepsAgain
  <1> QED BY <1>1, <1>2

-----------------------------------------------------------------------------
\* Promotion, refresh and removal

\* promote_module_inner, for a module inside the project
LEMMA PromotingIsSound ==
  ASSUME NEW l, NEW R \in SUBSET Paths, Sound(l, R),
         NEW i \in Known(l), NEW m \in Paths, Within(m, l.project[i].path)
  PROVE  Sound(PromoteModule(l, i, m), R) /\ Keeps(l, PromoteModule(l, i, m))
  <1> DEFINE root == l.project[i].root
             added == Upsert(l, m, root, "manual")
             child == IdAt(added, m)
             Parted(ts, us) == WithTasks(WithTasks(added, i, ts), child, us)
  <1>1. SoundRow(l.project[i], R) /\ Fit(l)
        /\ \A j \in Known(l) : SoundRow(l.project[j], R)
    BY SoundParts
  <1>2. MayName(m, root, R)
    <2> SUFFICES ASSUME root # NoPath PROVE root \in R /\ Within(m, root)
      BY DEF MayName
    <2>1. root \in R /\ Within(l.project[i].path, root) /\ l.project[i].path \in Paths
      BY <1>1 DEF SoundRow
    <2>2. root \in Paths
      BY <2>1
    <2> QED BY <2>1, <2>2, WithinIsTransitive
  <1>3. Sound(added, R) /\ Keeps(l, added)
    BY <1>1, <1>2, UpsertIsSound
  <1>4. i \in Known(added)
    BY <1>3 DEF Keeps
  <1>5. child \in Known(added) \/ child \notin Ids
    BY IdAtFinds, KnownProjects
  <1>6. PromoteModule(l, i, m) =
          LET mine == TasksOf(l, i, m)
              found == {t \in added.project[child].tasks :
                           ~(t.inferred /\ \E u \in mine : u.sig = t.sig)}
              moved == {[t EXCEPT !.cwd = IF @ = m THEN NoPath ELSE @] :
                           t \in {u \in mine : \A t \in found : t.id # u.id}}
          IN  DiscoverModules(Observe(Parted(added.project[i].tasks \ mine, found \cup moved), i, m),
                              child)
    BY DEF PromoteModule
  <1> HIDE DEF added, child
  <1>7. ASSUME NEW ts, NEW us
        PROVE  /\ Sound(Parted(ts, us), R) /\ Keeps(added, Parted(ts, us))
    <2> DEFINE k == WithTasks(added, i, ts)
    <2>1. Sound(k, R) /\ Keeps(added, k)
      BY <1>3, <1>4, TasksAreSound
    <2> HIDE DEF k
    <2>2. child \in Known(k) \/ child \notin Ids
      BY <1>5, <2>1 DEF Keeps
    <2>3. Sound(WithTasks(k, child, us), R) /\ Keeps(k, WithTasks(k, child, us))
      BY <2>1, <2>2, TasksAreSound
    <2>4. Keeps(added, WithTasks(k, child, us))
      BY <2>1, <2>3, KeepsAgain
    <2> QED BY <2>3, <2>4 DEF k
  <1>8. ASSUME NEW ts, NEW us
        PROVE  LET k == DiscoverModules(Observe(Parted(ts, us), i, m), child)
               IN  Sound(k, R) /\ Keeps(l, k)
    <2> DEFINE parted == Parted(ts, us)
    <2>1. Sound(parted, R) /\ Keeps(added, parted)
      BY <1>7
    <2>2. Keeps(l, parted)
      BY <1>3, <2>1, KeepsAgain
    <2> HIDE DEF parted
    <2>3. i \in Known(parted)
      BY <1>4, <2>1 DEF Keeps
    <2> DEFINE observed == Observe(parted, i, m)
    <2>4. Sound(observed, R) /\ Keeps(parted, observed)
      BY <2>1, <2>3, ObservingIsSound
    <2>5. Keeps(l, observed)
      BY <2>2, <2>4, KeepsAgain
    <2> HIDE DEF observed
    <2>6. /\ Sound(DiscoverModules(observed, child), R)
          /\ Keeps(observed, DiscoverModules(observed, child))
      BY <2>4, DiscoveringIsSound
    <2>7. Keeps(l, DiscoverModules(observed, child))
      BY <2>5, <2>6, KeepsAgain
    <2> QED BY <2>6, <2>7 DEF observed, parted
  <1> HIDE DEF Parted
  <1> QED BY <1>6, <1>8

\* refresh_project_inner, when the record of the project may be behind
LEMMA RefreshingIsSound ==
  ASSUME NEW l, NEW R \in SUBSET Paths, Fit(l), NEW i \in Known(l),
         \A j \in Known(l) \ {i} : SoundRow(l.project[j], R),
         MayName(l.project[i].path, l.project[i].root, R),
         l.project[i].origin = "orphaned" => l.project[i].root = NoPath
  PROVE  Sound(RefreshRecord(l, i), R) /\ Keeps(l, RefreshRecord(l, i))
  <1> DEFINE r == l.project[i]
  <1>1. /\ Whole(l) /\ l.project = [j \in Ids |-> l.project[j]] /\ i \in Ids
        /\ Columns(r) /\ r.path \in Paths
    BY KnownProjects DEF Fit, Tables
  <1>2. \A j \in Known(l) \ {i} : l.project[j].path # r.path
    BY KnownProjects DEF Fit, Tables
  <1>3. CASE r.path \notin l.present
    <2> DEFINE gone == [r EXCEPT !.ready = FALSE]
    <2>1. Columns(gone) /\ gone.path = r.path /\ gone.root = r.root /\ gone.origin = r.origin
          /\ ~ gone.ready
      BY <1>1 DEF Columns, ColumnNames
    <2>2. RefreshRecord(l, i) = Put(l, i, gone)
      BY <1>3 DEF RefreshRecord, Put
    <2> HIDE DEF gone
    <2>3. SoundRow(gone, R) /\ gone.path = r.path
      BY <1>1, <2>1 DEF SoundRow, MayName
    <2> QED BY <1>1, <1>2, <2>2, <2>3, PutIsSound
  <1>4. CASE r.path \in l.present
    <2> DEFINE next == Upsert(l, r.path, r.root, r.origin)
    <2>1. \A j \in Known(l) : l.project[j].path # r.path => SoundRow(l.project[j], R)
      OBVIOUS
    <2>2. Sound(next, R) /\ Keeps(l, next)
      BY <1>1, <2>1, UpsertIsSound
    <2>3. RefreshRecord(l, i) = DiscoverModules(next, i)
      BY <1>4 DEF RefreshRecord
    <2> HIDE DEF next
    <2>4. Sound(DiscoverModules(next, i), R) /\ Keeps(next, DiscoverModules(next, i))
      BY <2>2, DiscoveringIsSound
    <2> QED BY <2>2, <2>3, <2>4, KeepsAgain
  <1> QED BY <1>3, <1>4

\* Records that are removed take their modules along.
LEMMA UnlistingIsSound ==
  ASSUME NEW l, NEW R, Sound(l, R), NEW S
  PROVE  /\ Sound(Unlisted(l, S), R)
         /\ Known(Unlisted(l, S)) = Known(l) \ S
         /\ \A i \in Known(l) \ S : Unlisted(l, S).project[i] = l.project[i]
  <1> DEFINE k == Unlisted(l, S)
             rows == [i \in Ids |-> IF i \in S THEN NoProject ELSE l.project[i]]
             mods == [m \in Paths |-> IF l.module[m].owner \in S
                                      THEN [owner |-> NoId, ready |-> FALSE] ELSE l.module[m]]
             groups1 == l.groups \ S
  <1>0. Whole(l)
    BY SoundParts
  <1>1. k = [[[l EXCEPT !.project = rows] EXCEPT !.module = mods] EXCEPT !.groups = groups1]
    BY DEF Unlisted
  <1>2. /\ l.project = [j \in Ids |-> l.project[j]]
        /\ l.module \in [Paths -> [owner : Known(l) \cup {NoId}, ready : BOOLEAN]]
    BY SoundParts
  <1>3. \A i \in Known(l) : SoundRow(l.project[i], R)
                            /\ Columns(l.project[i]) /\ l.project[i].path \in Paths
    BY SoundParts
  <1>4. rows = [i \in Ids |-> rows[i]] /\ \A i \in Ids : rows[i] = IF i \in S THEN NoProject ELSE l.project[i]
    OBVIOUS
  <1>5. mods \in [Paths -> [owner : (Known(l) \ S) \cup {NoId}, ready : BOOLEAN]]
    <2> SUFFICES ASSUME NEW m \in Paths
                 PROVE  mods[m] \in [owner : (Known(l) \ S) \cup {NoId}, ready : BOOLEAN]
      OBVIOUS
    <2>1. l.module[m] \in [owner : Known(l) \cup {NoId}, ready : BOOLEAN]
      BY <1>2
    <2>2. CASE l.module[m].owner \in S
      BY <2>2
    <2>3. CASE l.module[m].owner \notin S
      BY <2>1, <2>3
    <2> QED BY <2>2, <2>3
  <1> HIDE DEF rows, mods, groups1, k
  <1>6. k = [present |-> l.present, project |-> rows, module |-> mods,
             groups |-> groups1, taken |-> l.taken]
    BY <1>0, <1>1 DEF Whole
  <1>7. Whole(k) /\ k.project = rows /\ k.module = mods
    BY <1>6 DEF Whole
  <1>8. Known(k) = Known(l) \ S
    BY <1>4, <1>7 DEF Known
  <1>9. \A i \in Known(k) : i \in Known(l) /\ i \notin S /\ k.project[i] = l.project[i]
    BY <1>4, <1>7, <1>8, KnownProjects
  <1>10. \A i, j \in Known(l) : l.project[i].path = l.project[j].path => i = j
    BY SoundParts
  <1>11. Tables(k.project, k.module)
    BY <1>3, <1>4, <1>5, <1>7, <1>8, <1>9, <1>10, KnownProjects DEF Tables
  <1>12. \A i \in Known(k) : SoundRow(k.project[i], R)
    BY <1>3, <1>9
  <1>13. Sound(k, R)
    BY <1>7, <1>11, <1>12, KnownProjects DEF Sound, SoundTables
  <1> QED BY <1>8, <1>9, <1>13 DEF k

\* A record whose root is withdrawn names none.
LEMMA OrphanedRow ==
  ASSUME NEW r, NEW R, SoundRow(r, R), NEW S
  PROVE  /\ r.root \notin S => SoundRow(r, R \ S)
         /\ SoundRow(WithoutRoot(r), R \ S) /\ WithoutRoot(r).path = r.path
  BY DEF SoundRow, Columns, ColumnNames, WithoutRoot

\* No project names a root that was taken from all that named it.
LEMMA OrphaningIsSound ==
  ASSUME NEW l, NEW R, Sound(l, R), NEW S
  PROVE  Sound(Orphaned(l, S), R \ S)
  <1> DEFINE k == Orphaned(l, S)
             rows == [i \in Ids |-> IF i \in Known(l) /\ l.project[i].root \in S
                                    THEN WithoutRoot(l.project[i]) ELSE l.project[i]]
  <1>0. Whole(l)
    BY SoundParts
  <1>1. k = [l EXCEPT !.project = rows]
    BY DEF Orphaned
  <1>2. \A i \in Known(l) : SoundRow(l.project[i], R) /\ l.project[i].path \in Paths
    BY SoundParts
  <1>3. /\ l.project = [j \in Ids |-> l.project[j]]
        /\ l.module \in [Paths -> [owner : Known(l) \cup {NoId}, ready : BOOLEAN]]
        /\ \A i, j \in Known(l) : l.project[i].path = l.project[j].path => i = j
    BY SoundParts
  <1>4. rows = [i \in Ids |-> rows[i]]
    OBVIOUS
  <1>5. \A i \in Known(l) : SoundRow(rows[i], R \ S) /\ rows[i].path = l.project[i].path
    <2> SUFFICES ASSUME NEW i \in Known(l)
                 PROVE  SoundRow(rows[i], R \ S) /\ rows[i].path = l.project[i].path
      OBVIOUS
    <2>1. i \in Ids /\ SoundRow(l.project[i], R)
      BY <1>2, KnownProjects
    <2>2. CASE l.project[i].root \in S
      <3>1. SoundRow(WithoutRoot(l.project[i]), R \ S) /\ WithoutRoot(l.project[i]).path = l.project[i].path
        BY <2>1, OrphanedRow
      <3> QED BY <2>1, <2>2, <3>1
    <2>3. CASE l.project[i].root \notin S
      <3>1. SoundRow(l.project[i], R \ S)
        BY <2>1, <2>3, OrphanedRow
      <3> QED BY <2>1, <2>3, <3>1
    <2> QED BY <2>2, <2>3
  <1>6. \A i \in Ids \ Known(l) : rows[i] = NoProject
    BY DEF Known
  <1> HIDE DEF rows, k
  <1>7. k = [present |-> l.present, project |-> rows, module |-> l.module,
             groups |-> l.groups, taken |-> l.taken]
    BY <1>0, <1>1 DEF Whole
  <1>8. Whole(k) /\ k.project = rows /\ k.module = l.module
    BY <1>7 DEF Whole
  <1>9. \A i \in Known(l) : rows[i].path \in Paths /\ Columns(rows[i])
    BY <1>5 DEF SoundRow
  <1>10. Known(k) = Known(l)
    <2>1. \A i \in Known(l) : rows[i] # NoProject
      BY <1>9, RecordsExist
    <2> QED BY <1>6, <1>8, <2>1, KnownProjects DEF Known
  <1>11. Tables(k.project, k.module)
    BY <1>3, <1>4, <1>5, <1>8, <1>9, <1>10, KnownProjects DEF Tables
  <1>12. Sound(k, R \ S)
    BY <1>5, <1>8, <1>10, <1>11, KnownProjects DEF Sound, SoundTables
  <1> QED BY <1>12 DEF k

-----------------------------------------------------------------------------
\* Grouping: one promotion after the other

PromotionSteps(l, i, S, n, f) ==
  f = [k \in 0 .. n |-> IF k = 0 THEN l ELSE Promotion(f[k - 1], i, S, k)]

\* The recursion of Promoted has a value at every length.
LEMMA PromotionExists ==
  ASSUME NEW l, NEW i, NEW S, NEW N \in Nat
  PROVE  \E f : PromotionSteps(l, i, S, N, f)
  <1> DEFINE T == {n \in Nat : ~ \E f : PromotionSteps(l, i, S, n, f)}
  <1> SUFFICES ASSUME T # {} PROVE FALSE
    OBVIOUS
  <1>1. PICK n \in T : \A m \in T : n <= m
    BY LeastNumber
  <1>2. n # 0
    <2> DEFINE f == [k \in 0 .. 0 |-> l]
    <2>1. f = [k \in 0 .. 0 |-> IF k = 0 THEN l ELSE Promotion(f[k - 1], i, S, k)]
      OBVIOUS
    <2>2. PromotionSteps(l, i, S, 0, f)
      BY <2>1 DEF PromotionSteps
    <2> QED BY <2>2
  <1>3. n - 1 \in Nat /\ n - 1 \notin T
    BY <1>1, <1>2
  <1>4. PICK g : PromotionSteps(l, i, S, n - 1, g)
    BY <1>3
  <1> DEFINE f == [k \in 0 .. n |-> IF k = n THEN Promotion(g[n - 1], i, S, n) ELSE g[k]]
  <1>5. \A k \in 0 .. n : f[k] = IF k = 0 THEN l ELSE Promotion(f[k - 1], i, S, k)
    <2> SUFFICES ASSUME NEW k \in 0 .. n
                 PROVE  f[k] = IF k = 0 THEN l ELSE Promotion(f[k - 1], i, S, k)
      OBVIOUS
    <2>1. \A j \in 0 .. n - 1 : g[j] = IF j = 0 THEN l ELSE Promotion(g[j - 1], i, S, j)
      BY <1>4 DEF PromotionSteps
    <2>2. CASE k = n
      <3>1. n - 1 \in 0 .. n /\ n - 1 # n /\ n \in 0 .. n
        BY <1>3
      <3>2. f[n] = Promotion(g[n - 1], i, S, n) /\ f[n - 1] = g[n - 1]
        BY <3>1
      <3> HIDE DEF f
      <3> QED BY <1>2, <2>2, <3>2
    <2>3. CASE k # n
      <3>1. k \in 0 .. n - 1 /\ (k # 0 => k - 1 \in 0 .. n /\ k - 1 # n)
        BY <2>3
      <3>2. f[k] = g[k] /\ (k # 0 => f[k - 1] = g[k - 1])
        BY <2>3, <3>1
      <3> HIDE DEF f
      <3> QED BY <2>1, <3>1, <3>2
    <2> QED BY <2>2, <2>3
  <1>6. f = [k \in 0 .. n |-> f[k]]
    OBVIOUS
  <1> HIDE DEF f
  <1>7. PromotionSteps(l, i, S, n, f)
    BY <1>5, <1>6 DEF PromotionSteps
  <1> QED BY <1>7

\* Promoted is the last value of its recursion.
LEMMA PromotedIsReached ==
  ASSUME NEW l, NEW i, NEW S
  PROVE  \E f : /\ PromotionSteps(l, i, S, Cardinality(Paths), f)
                /\ Promoted(l, i, S) = f[Cardinality(Paths)]
  <1> DEFINE f == CHOOSE f : PromotionSteps(l, i, S, Cardinality(Paths), f)
  <1>1. PromotionSteps(l, i, S, Cardinality(Paths), f)
    BY PromotionExists, PathsAreCounted
  <1>2. Promoted(l, i, S) = f[Cardinality(Paths)]
    BY DEF Promoted, PromotionSteps
  <1> QED BY <1>1, <1>2

\* set_directory_group keeps a library sound: each module of S is inside the
\* project when its turn comes, for no promotion moves a project.
LEMMA GroupingIsSound ==
  ASSUME NEW l, NEW R \in SUBSET Paths, Sound(l, R), NEW i \in Known(l),
         NEW S \in SUBSET Paths, \A m \in S : Within(m, l.project[i].path)
  PROVE  Sound(Promoted(l, i, S), R)
  <1> DEFINE N == Cardinality(Paths)
  <1>0. N \in Nat
    BY PathsAreCounted
  <1>1. PICK f : PromotionSteps(l, i, S, N, f) /\ Promoted(l, i, S) = f[N]
    BY PromotedIsReached
  <1> HIDE DEF N
  <1> DEFINE Good(k) == Sound(f[k], R) /\ Keeps(l, f[k])
             T == {n \in Nat : n \in 0 .. N /\ ~ Good(n)}
  <1>2. \A k \in 0 .. N : f[k] = IF k = 0 THEN l ELSE Promotion(f[k - 1], i, S, k)
    BY <1>1 DEF PromotionSteps
  <1>3. ASSUME T # {} PROVE FALSE
    <2>1. PICK n \in T : \A m \in T : n <= m
      BY <1>3, LeastNumber
    <2>2. n # 0
      <3>1. 0 \in 0 .. N
        BY <1>0
      <3>2. f[0] = l
        BY <1>2, <3>1
      <3>3. Good(0)
        BY <3>2, KeepsItself
      <3> QED BY <2>1, <3>3
    <2>3. n - 1 \in 0 .. N /\ n \in 0 .. N /\ n - 1 \notin T /\ n - 1 \in Nat
      BY <1>0, <2>1, <2>2
    <2>4. Sound(f[n - 1], R) /\ Keeps(l, f[n - 1])
      BY <2>3
    <2>5. f[n] = Promotion(f[n - 1], i, S, n)
      BY <1>2, <2>2, <2>3
    <2>6. CASE Outward[n] \notin S \cap Owned(f[n - 1], i)
      BY <2>1, <2>4, <2>5, <2>6 DEF Promotion
    <2>7. CASE Outward[n] \in S \cap Owned(f[n - 1], i)
      <3>1. f[n] = PromoteModule(f[n - 1], i, Outward[n])
        BY <2>5, <2>7 DEF Promotion
      <3>2. /\ i \in Known(f[n - 1]) /\ Outward[n] \in Paths
            /\ Within(Outward[n], f[n - 1].project[i].path)
        BY <2>4, <2>7 DEF Keeps
      <3>3. /\ Sound(PromoteModule(f[n - 1], i, Outward[n]), R)
            /\ Keeps(f[n - 1], PromoteModule(f[n - 1], i, Outward[n]))
        BY <2>4, <3>2, PromotingIsSound
      <3>4. Keeps(l, PromoteModule(f[n - 1], i, Outward[n]))
        BY <2>4, <3>3, KeepsAgain
      <3>5. Good(n)
        BY <3>1, <3>3, <3>4
      <3> QED BY <2>1, <3>5
    <2> QED BY <2>6, <2>7
  <1>4. Good(N)
    BY <1>0, <1>3
  <1> QED BY <1>1, <1>4

-----------------------------------------------------------------------------
\* Actions

ScanNames == {"phase", "root", "folder", "todo", "found", "seen"}

\* What a scan has still to look at is inside its root.
ScanStaysInside ==
  /\ scan = [x \in ScanNames |-> scan[x]]
  /\ scan.todo \subseteq Paths
  /\ \A p \in scan.todo : scan.root \in Paths /\ Within(p, scan.root)

LibraryInv ==
  /\ roots \subseteq Paths
  /\ present \subseteq Paths
  /\ ScanStaysInside
  /\ SoundTables(project, module, roots)

\* The value that the actions begin with, whatever directories they see.
LEMMA SeeingIsSound ==
  ASSUME NEW R, SoundTables(project, module, R), NEW dirs
  PROVE  /\ Sound(Seeing(dirs), R)
         /\ Seeing(dirs).project = project /\ Seeing(dirs).module = module
         /\ Seeing(dirs).present = dirs
         /\ Known(Seeing(dirs)) = KnownIn(project)
  <1>1. /\ Whole(Seeing(dirs)) /\ Seeing(dirs).project = project
        /\ Seeing(dirs).module = module /\ Seeing(dirs).present = dirs
    BY DEF Whole, Seeing
  <1> QED BY <1>1, KnownProjects DEF Sound

\* The value that an action begins with is the library as it is.
LEMMA HereIsSound ==
  ASSUME NEW R, SoundTables(project, module, R)
  PROVE  /\ Sound(Here, R) /\ Here.project = project /\ Here.module = module
         /\ Here.present = present
         /\ Known(Here) = KnownIn(project)
  BY SeeingIsSound DEF Here

\* An action that commits a sound value keeps the tables sound.
LEMMA CommittingIsSound ==
  ASSUME NEW l, Sound(l, roots'),
         project' = l.project, module' = l.module
  PROVE  SoundTables(project', module', roots')
  BY DEF Sound

\* More roots do no harm.
LEMMA MoreRootsAreSound ==
  ASSUME NEW rows, NEW mods, NEW R, SoundTables(rows, mods, R),
         NEW S, R \subseteq S
  PROVE  SoundTables(rows, mods, S)
  BY DEF SoundTables, SoundRow

\* The directories and the roots
LEMMA RootsStaySound ==
  ASSUME SoundTables(project, module, roots), NEW p, AddScanRoot(p)
  PROVE  SoundTables(project', module', roots')
  BY MoreRootsAreSound DEF AddScanRoot

\* Removing records, roots or folders keeps the tables sound: no project names a
\* root that is gone, no module an owner that is.
LEMMA RemovalStaysSound ==
  ASSUME SoundTables(project, module, roots),
         \/ \E i \in Ids : RemoveProjectRecord(i)
         \/ \E r \in RootPaths, also \in BOOLEAN : RemoveScanRoot(r, also)
         \/ \E S \in SUBSET Known(Here), R \in SUBSET roots : RemoveFolder(S, R)
  PROVE  SoundTables(project', module', roots')
  <1>1. Sound(Here, roots) /\ Here.project = project
    BY HereIsSound
  <1>2. ASSUME NEW i \in Ids, RemoveProjectRecord(i)
        PROVE  SoundTables(project', module', roots')
    <2>1. Sound(Unlisted(Here, {i}), roots')
      BY <1>1, <1>2, UnlistingIsSound DEF RemoveProjectRecord
    <2> QED BY <1>2, <2>1, CommittingIsSound DEF RemoveProjectRecord, Commit
  <1>3. ASSUME NEW r \in RootPaths, RemoveScanRoot(r, TRUE)
        PROVE  SoundTables(project', module', roots')
    <2> DEFINE listed == {i \in Known(Here) : project[i].root = r}
               k == Unlisted(Here, listed)
    <2>1. Sound(k, roots) /\ Known(k) = Known(Here) \ listed
          /\ \A i \in Known(Here) \ listed : k.project[i] = Here.project[i]
      BY <1>1, UnlistingIsSound
    <2>2. roots' = roots \ {r} /\ project' = k.project /\ module' = k.module
      BY <1>3 DEF RemoveScanRoot, Commit
    <2>3. \A i \in Known(k) : k.project[i].root # r
      BY <1>1, <2>1
    <2> HIDE DEF k
    <2>4. \A i \in Known(k) : SoundRow(k.project[i], roots \ {r})
      <3>1. \A i \in Known(k) : SoundRow(k.project[i], roots)
        BY <2>1, SoundIsFit
      <3> QED BY <2>3, <3>1 DEF SoundRow
    <2>5. Sound(k, roots \ {r})
      BY <2>1, <2>4, SoundIsFit
    <2> QED BY <2>2, <2>5, CommittingIsSound
  <1>4. ASSUME NEW r \in RootPaths, RemoveScanRoot(r, FALSE)
        PROVE  SoundTables(project', module', roots')
    <2>1. Sound(Orphaned(Here, {r}), roots \ {r})
      BY <1>1, OrphaningIsSound
    <2> QED BY <1>4, <2>1, CommittingIsSound DEF RemoveScanRoot, Commit
  <1>5. ASSUME NEW S \in SUBSET Known(Here), NEW R \in SUBSET roots, RemoveFolder(S, R)
        PROVE  SoundTables(project', module', roots')
    <2>1. Sound(Unlisted(Here, S), roots)
      BY <1>1, UnlistingIsSound
    <2>2. Sound(Orphaned(Unlisted(Here, S), R), roots \ R)
      BY <2>1, OrphaningIsSound
    <2> QED BY <1>5, <2>2, CommittingIsSound DEF RemoveFolder, Commit
  <1> QED BY <1>2, <1>3, <1>4, <1>5

\* Registration: an adopted directory gets the root around it, a promoted one
\* that of its project.
LEMMA RegisteringStaysSound ==
  ASSUME roots \subseteq Paths, SoundTables(project, module, roots),
         NEW p \in Paths, Register(p)
  PROVE  SoundTables(project', module', roots')
  <1> DEFINE owner == module[p].owner
             promoted == PromoteModule(Here, owner, p)
             adopted == Upsert(Here, p, Matching(p), "manual")
             next == IF owner # NoId THEN promoted ELSE adopted
  <1>1. /\ Sound(Here, roots) /\ Here.project = project /\ Here.module = module
    BY HereIsSound
  <1>2. owner \in Known(Here) \cup {NoId}
    BY <1>1, SoundParts
  <1>3. /\ project' = DiscoverModules(next, IdAt(next, p)).project
        /\ module' = DiscoverModules(next, IdAt(next, p)).module /\ roots' = roots
    BY DEF Register, Commit
  <1>4. owner # NoId => Within(p, Here.project[owner].path)
    BY <1>1 DEF Register
  <1>5. owner # NoId => Sound(promoted, roots)
    <2> HIDE DEF owner
    <2> SUFFICES ASSUME owner # NoId PROVE Sound(promoted, roots)
      OBVIOUS
    <2>1. owner \in Known(Here) /\ Within(p, Here.project[owner].path)
      BY <1>2, <1>4
    <2> QED BY <1>1, <2>1, PromotingIsSound
  <1>6. Sound(adopted, roots)
    <2>1. MayName(p, Matching(p), roots)
      BY MatchingCovers DEF MayName
    <2>2. Fit(Here) /\ \A j \in Known(Here) : SoundRow(Here.project[j], roots)
      BY <1>1, SoundIsFit
    <2> QED BY <2>1, <2>2, UpsertIsSound
  <1> HIDE DEF owner, promoted, adopted
  <1>7. Sound(next, roots)
    BY <1>5, <1>6
  <1> HIDE DEF next
  <1>8. Sound(DiscoverModules(next, IdAt(next, p)), roots)
    BY <1>7, DiscoveringIsSound
  <1> QED BY <1>3, <1>8, CommittingIsSound

\* The record of a project that has moved names the root around the new place.
LEMMA MovedRow ==
  ASSUME NEW r, Columns(r), NEW p
  PROVE  /\ Columns(MovedTo(r, p)) /\ MovedTo(r, p).path = p
         /\ MovedTo(r, p).root = Matching(p) /\ MovedTo(r, p).origin = "manual"
  BY DEF MovedTo, Columns, ColumnNames

\* Relocation: the record is behind until it is refreshed.
LEMMA RelocatingStaysSound ==
  ASSUME roots \subseteq Paths, SoundTables(project, module, roots),
         NEW i \in Ids, NEW p \in Paths, NEW gone \in BOOLEAN, Relocate(i, p, gone)
  PROVE  SoundTables(project', module', roots')
  <1> DEFINE there == IF gone THEN {q \in present : ~Within(q, p)} ELSE present
             seen == Seeing(there)
             r == MovedTo(seen.project[i], p)
             adopted == Put(seen, i, r)
  <1>1. /\ project' = RefreshRecord(adopted, i).project
        /\ module' = RefreshRecord(adopted, i).module /\ roots' = roots
    BY DEF Relocate, Commit, Put
  <1>2. /\ Sound(seen, roots) /\ seen.project = project
        /\ Known(seen) = KnownIn(project)
    BY SeeingIsSound
  <1>3. i \in Known(seen) /\ IdAt(Here, p) \in {NoId, i}
    BY <1>2, HereIsSound DEF Relocate
  <1>4. \A j \in Known(seen) \ {i} : seen.project[j].path # p
    <2>1. /\ Known(Here) = Known(seen) /\ Here.project = seen.project
          /\ NoId \notin Known(seen)
      BY <1>2, HereIsSound, KnownProjects
    <2>2. \A j, h \in Known(seen) : seen.project[j].path = seen.project[h].path => j = h
      BY <1>2, SoundParts
    <2>3. \/ IdAt(Here, p) = NoId /\ \A j \in Known(Here) : Here.project[j].path # p
          \/ IdAt(Here, p) \in Known(Here) /\ Here.project[IdAt(Here, p)].path = p
      BY IdAtFinds
    <2> HIDE DEF seen
    <2> SUFFICES ASSUME NEW j \in Known(seen) \ {i}, seen.project[j].path = p PROVE FALSE
      OBVIOUS
    <2>4. IdAt(Here, p) \in Known(seen) /\ seen.project[IdAt(Here, p)].path = p
      BY <2>1, <2>3
    <2> QED BY <1>3, <2>1, <2>2, <2>4
  <1> HIDE DEF seen
  <1>5a. Whole(seen) /\ seen.project = [j \in Ids |-> seen.project[j]]
    BY <1>2, SoundParts
  <1>5b. Fit(seen)
    BY <1>2, SoundParts
  <1>5. /\ Columns(seen.project[i])
        /\ \A j \in Known(seen) : SoundRow(seen.project[j], roots)
    BY <1>2, <1>3, SoundParts
  <1>6. Columns(r) /\ r.path = p /\ r.root = Matching(p) /\ r.origin = "manual"
    BY <1>5, MovedRow
  <1> HIDE DEF r
  <1>7. adopted.project[i] = r /\ \A j \in Ids \ {i} : adopted.project[j] = seen.project[j]
    <2>1. adopted.project = [seen.project EXCEPT ![i] = r]
      BY <1>5a, PutWrites
    <2> HIDE DEF adopted
    <2> QED BY <1>5a, <2>1
  <1>8. Fit(adopted) /\ Known(adopted) = Known(seen) \cup {i}
    BY <1>4, <1>6, <1>5b, PutFits
  <1> HIDE DEF adopted
  <1>9. i \in Known(adopted)
    BY <1>8
  <1>10. \A j \in Known(adopted) \ {i} : SoundRow(adopted.project[j], roots)
    BY <1>5, <1>7, <1>8, KnownProjects
  <1>11. MayName(adopted.project[i].path, adopted.project[i].root, roots)
    BY <1>6, <1>7, MatchingCovers DEF MayName
  <1>12. adopted.project[i].origin = "orphaned" => adopted.project[i].root = NoPath
    BY <1>6, <1>7
  <1>13. Sound(RefreshRecord(adopted, i), roots)
    BY <1>8, <1>9, <1>10, <1>11, <1>12, RefreshingIsSound
  <1> QED BY <1>1, <1>13, CommittingIsSound

\* An edit keeps the path, the root and the origin of a record.
LEMMA EditedRow ==
  ASSUME NEW r, NEW R, SoundRow(r, R), NEW k, Columns(k),
         k.path = r.path, k.root = r.root, k.origin = r.origin
  PROVE  SoundRow(Reindexed(k), R) /\ Reindexed(k).path = r.path
  <1>1. k.path \in Paths /\ MayName(k.path, k.root, R)
        /\ (k.origin = "orphaned" => k.root = NoPath)
    BY DEF SoundRow, MayName
  <1> QED BY <1>1, WrittenRow

\* What users and agents edit.
LEMMA EditingStaysSound ==
  ASSUME SoundTables(project, module, roots),
         NEW i \in Known(Here), NEW k, Columns(k), k.path = project[i].path,
         k.root = project[i].root, k.origin = project[i].origin, Edited(i, k)
  PROVE  SoundTables(project', module', roots')
  <1> DEFINE r == Reindexed(k)
  <1>1. Sound(Here, roots) /\ Here.project = project
    BY HereIsSound
  <1>2. SoundRow(Here.project[i], roots)
    BY <1>1, SoundParts
  <1>3. SoundRow(r, roots) /\ r.path = Here.project[i].path
    BY <1>1, <1>2, EditedRow
  <1>4. project' = Put(Here, i, r).project /\ module' = Put(Here, i, r).module /\ roots' = roots
    BY DEF Edited, Commit, Put
  <1> HIDE DEF r
  <1>5. Sound(Put(Here, i, r), roots)
    BY <1>1, <1>3, RewritingIsSound
  <1> QED BY <1>4, <1>5, CommittingIsSound

\* A column that an edit changes is none of those that the properties relate.
LEMMA ColumnsKept ==
  ASSUME NEW r, Columns(r), NEW v
  PROVE  /\ LET k == [r EXCEPT !.name = v]
            IN  Columns(k) /\ k.path = r.path /\ k.root = r.root /\ k.origin = r.origin
         /\ LET k == [r EXCEPT !.mark = v]
            IN  Columns(k) /\ k.path = r.path /\ k.root = r.root /\ k.origin = r.origin
         /\ LET k == [r EXCEPT !.tasks = v]
            IN  Columns(k) /\ k.path = r.path /\ k.root = r.root /\ k.origin = r.origin
  BY DEF Columns, ColumnNames

\* Every edit of a user or an agent keeps the tables sound.
LEMMA EditsStaySound ==
  ASSUME SoundTables(project, module, roots), UserEdit
  PROVE  SoundTables(project', module', roots')
  <1>1. \A i \in Known(Here) : Columns(project[i])
    BY HereIsSound, SoundParts
  <1>2. ASSUME NEW i \in Ids, Rename(i)
        PROVE  SoundTables(project', module', roots')
    <2>1. i \in Known(Here) /\ Edited(i, [project[i] EXCEPT !.name = Mine])
      BY <1>2 DEF Rename
    <2> QED BY <1>1, <2>1, ColumnsKept, EditingStaysSound
  <1>3. ASSUME NEW i \in Ids, Annotate(i)
        PROVE  SoundTables(project', module', roots')
    <2>1. i \in Known(Here) /\ Edited(i, [project[i] EXCEPT !.mark = project[i].mark + 1])
      BY <1>3 DEF Annotate
    <2> QED BY <1>1, <2>1, ColumnsKept, EditingStaysSound
  <1>4. ASSUME NEW i \in Known(Here), NEW ts, Edited(i, [project[i] EXCEPT !.tasks = ts])
        PROVE  SoundTables(project', module', roots')
    BY <1>1, <1>4, ColumnsKept, EditingStaysSound
  <1>5. ASSUME NEW i \in Known(Here), NEW u, NEW dir, AddTask(i, u, dir)
        PROVE  SoundTables(project', module', roots')
    <2> DEFINE new == [id |-> <<"user", u>>, sig |-> "custom", cwd |-> dir, inferred |-> FALSE]
               ts == {t \in project[i].tasks : t.id # new.id} \cup {new}
    <2>1. Edited(i, [project[i] EXCEPT !.tasks = ts])
      BY <1>5 DEF AddTask
    <2> QED BY <1>4, <2>1
  <1>6. ASSUME NEW i \in Known(Here), NEW id, UpdateTask(i, id)
        PROVE  SoundTables(project', module', roots')
    <2> DEFINE ts == {IF t.id = id THEN [t EXCEPT !.inferred = FALSE] ELSE t :
                        t \in project[i].tasks}
    <2>1. Edited(i, [project[i] EXCEPT !.tasks = ts])
      BY <1>6 DEF UpdateTask
    <2> QED BY <1>4, <2>1
  <1>7. ASSUME NEW i \in Known(Here), NEW id, RemoveTask(i, id)
        PROVE  SoundTables(project', module', roots')
    <2> DEFINE ts == {t \in project[i].tasks : t.id # id}
    <2>1. Edited(i, [project[i] EXCEPT !.tasks = ts])
      BY <1>7 DEF RemoveTask
    <2> QED BY <1>4, <2>1
  <1> QED BY <1>2, <1>3, <1>5, <1>6, <1>7 DEF UserEdit

\* Refresh, promotion and grouping
LEMMA RefreshStaysSound ==
  ASSUME roots \subseteq Paths, SoundTables(project, module, roots),
         NEW i \in Ids, Refresh(i)
  PROVE  SoundTables(project', module', roots')
  <1>1. Sound(Here, roots) /\ i \in Known(Here)
    BY HereIsSound DEF Refresh
  <1>2. Fit(Here) /\ \A j \in Known(Here) : SoundRow(Here.project[j], roots)
    BY <1>1, SoundIsFit
  <1>3. /\ MayName(Here.project[i].path, Here.project[i].root, roots)
        /\ Here.project[i].origin = "orphaned" => Here.project[i].root = NoPath
    BY <1>1, <1>2 DEF SoundRow, MayName
  <1>4. Sound(RefreshRecord(Here, i), roots)
    BY <1>1, <1>2, <1>3, RefreshingIsSound
  <1> QED BY <1>4, CommittingIsSound DEF Refresh, Commit

\* The path of a module is resolved, so it is below its project.
LEMMA PromotionStaysSound ==
  ASSUME roots \subseteq Paths, SoundTables(project, module, roots),
         NEW i \in Ids, NEW m \in Paths, Promote(i, m)
  PROVE  SoundTables(project', module', roots')
  <1>1. /\ Sound(Here, roots) /\ i \in Known(Here)
        /\ Within(m, Here.project[i].path)
    BY HereIsSound DEF Promote, ResolvesTo
  <1>2. Sound(PromoteModule(Here, i, m), roots)
    BY <1>1, PromotingIsSound
  <1> QED BY <1>2, CommittingIsSound DEF Promote, Commit

\* The groups are no part of what is sound.
LEMMA GroupsAreSound ==
  ASSUME NEW l, NEW R, Sound(l, R), NEW gs
  PROVE  Sound([l EXCEPT !.groups = gs], R)
  <1>1. Whole(l)
    BY SoundParts
  <1>2. [l EXCEPT !.groups = gs] =
          [present |-> l.present, project |-> l.project, module |-> l.module,
           groups |-> gs, taken |-> l.taken]
    BY <1>1 DEF Whole
  <1> QED BY <1>2 DEF Sound, Whole

\* Grouping a project promotes resolved modules only; ungrouping promotes none.
LEMMA GroupsStaySound ==
  ASSUME roots \subseteq Paths, SoundTables(project, module, roots),
         NEW i \in Ids, NEW enabled \in BOOLEAN, SetDirectoryGroup(i, enabled)
  PROVE  SoundTables(project', module', roots')
  <1> DEFINE nested == {m \in Owned(Here, i) : IdAt(Here, m) = NoId}
             promoted == Promoted(Here, i, nested)
             chosen == [promoted EXCEPT !.groups = promoted.groups \cup {i}]
             left == [Here EXCEPT !.groups = Here.groups \ {i}]
  <1>1. Sound(Here, roots) /\ i \in Known(Here)
    BY HereIsSound DEF SetDirectoryGroup
  <1>2. /\ roots' = roots
        /\ enabled => project' = chosen.project /\ module' = chosen.module
        /\ ~enabled => project' = left.project /\ module' = left.module
    BY DEF SetDirectoryGroup, Commit
  <1>3. enabled => Sound(chosen, roots)
    <2> SUFFICES ASSUME enabled PROVE Sound(chosen, roots)
      OBVIOUS
    <2>1. nested \in SUBSET Paths /\ \A m \in nested : Within(m, Here.project[i].path)
      BY DEF Owned, SetDirectoryGroup, ResolvesTo
    <2> HIDE DEF nested
    <2>2. Sound(promoted, roots)
      BY <1>1, <2>1, GroupingIsSound
    <2> HIDE DEF promoted
    <2> QED BY <2>2, GroupsAreSound
  <1>4. Sound(left, roots)
    BY <1>1, GroupsAreSound
  <1> HIDE DEF chosen, left
  <1>5. CASE enabled
    BY <1>2, <1>3, <1>5, CommittingIsSound
  <1>6. CASE ~enabled
    BY <1>2, <1>4, <1>6, CommittingIsSound
  <1> QED BY <1>5, <1>6

-----------------------------------------------------------------------------
\* Scans

\* A directory is ingested under a root around it.
LEMMA IngestStaysSound ==
  ASSUME roots \subseteq Paths, ScanStaysInside,
         SoundTables(project, module, roots), NEW p, IngestNext(p)
  PROVE  SoundTables(project', module', roots')
  <1>1. Sound(Here, roots)
    BY HereIsSound
  <1>2. CASE scan.root \in roots
    <2>1. p \in Paths /\ MayName(p, scan.root, roots)
      BY <1>2 DEF IngestNext, ScanStaysInside, MayName
    <2>2. Sound(Ingest(Here, p, scan.root), roots)
      BY <1>1, <2>1, IngestingIsSound
    <2> QED BY <1>2, <2>2, CommittingIsSound DEF IngestNext, Commit
  <1>3. CASE scan.root \notin roots
    BY <1>3 DEF IngestNext
  <1> QED BY <1>2, <1>3

\* A project that is marked missing claims less.
LEMMA MarkedRow ==
  ASSUME NEW r, NEW R, SoundRow(r, R)
  PROVE  /\ SoundRow([r EXCEPT !.ready = FALSE], R)
         /\ [r EXCEPT !.ready = FALSE].path = r.path
  BY DEF SoundRow, Columns, ColumnNames

\* Marking a project missing keeps the tables sound.
LEMMA MarkingStaysSound ==
  ASSUME SoundTables(project, module, roots),
         NEW i, NEW p, MarkMissing(i, p)
  PROVE  SoundTables(project', module', roots')
  <1> DEFINE r == [project[i] EXCEPT !.ready = FALSE]
             missing == [project EXCEPT ![i] = r]
  <1>1. /\ Sound(Here, roots) /\ Here.project = project /\ Here.module = module
    BY HereIsSound
  <1>2. CASE project' = project
    BY <1>2 DEF MarkMissing
  <1>3. CASE project' = missing /\ i \in Known(Here)
    <2>1. SoundRow(r, roots) /\ r.path = Here.project[i].path
      BY <1>1, <1>3, SoundParts, MarkedRow
    <2> HIDE DEF r
    <2>2. Sound(Put(Here, i, r), roots)
      BY <1>1, <1>3, <2>1, RewritingIsSound
    <2>3. Put(Here, i, r).project = missing /\ Put(Here, i, r).module = module
      BY DEF Put, Here, Seeing
    <2>4. project' = Put(Here, i, r).project /\ module' = Put(Here, i, r).module
          /\ roots' = roots
      BY <1>3, <2>3 DEF MarkMissing
    <2> QED BY <2>2, <2>4, CommittingIsSound
  <1> QED BY <1>2, <1>3 DEF MarkMissing

\* Looking at the modules of a found project once more keeps the tables sound.
LEMMA FinishingStaysSound ==
  ASSUME SoundTables(project, module, roots), NEW i, FinishFound(i)
  PROVE  SoundTables(project', module', roots')
  <1>1. Sound(MissingModules(Here, i), roots)
    BY HereIsSound, MissingAreSound
  <1>2. CASE i \in Known(Here)
    BY <1>1, <1>2, CommittingIsSound DEF FinishFound, Commit
  <1>3. CASE i \notin Known(Here)
    BY <1>3 DEF FinishFound
  <1> QED BY <1>2, <1>3

\* The directories that a folder scan looks at are below the root that it gives
\* to what it finds.
LEMMA TargetsAreCovered ==
  ASSUME roots \subseteq Paths, NEW folder \in Paths, NEW t \in FolderScanTargets(folder)
  PROVE  t[1] \in roots /\ \A p \in Walk(Here, t[2]) : Within(p, t[1])
  <1> DEFINE around == {r \in roots : Within(folder, r)}
  <1>1. CASE around # {}
    <2>1. t = <<Longest(around), folder>>
      BY <1>1 DEF FolderScanTargets
    <2>2. Longest(around) \in around
      BY <1>1, LongestAround
    <2> HIDE DEF around
    <2>3. t[1] \in roots /\ Within(folder, t[1]) /\ t[2] = folder
      BY <2>1, <2>2 DEF around
    <2> QED BY <2>3, WithinIsTransitive DEF Walk
  <1>2. CASE around = {}
    <2>1. PICK r \in roots : t = <<r, r>>
      BY <1>2 DEF FolderScanTargets
    <2> QED BY <2>1 DEF Walk
  <1> QED BY <1>1, <1>2

\* A scan never looks outside its root.
LEMMA ScanStays ==
  ASSUME roots \subseteq Paths, ScanStaysInside, present \subseteq Paths, LibraryNext
  PROVE  ScanStaysInside'
  <1>1. IdleScan = [x \in ScanNames |-> IdleScan[x]] /\ IdleScan.todo = {}
    BY DEF IdleScan, ScanNames
  <1>2. CASE scan' = IdleScan
    BY <1>1, <1>2 DEF ScanStaysInside
  <1>3. ASSUME NEW v, \/ scan' = [scan EXCEPT !.found = v]
                      \/ scan' = [scan EXCEPT !.seen = v]
                      \/ scan' = [scan EXCEPT !.phase = "marking", !.seen = v]
        PROVE  ScanStaysInside'
    BY <1>3 DEF ScanStaysInside, ScanNames
  <1>4. ASSUME NEW p, NEW v, scan' = [scan EXCEPT !.todo = scan.todo \ {p}, !.found = v]
        PROVE  ScanStaysInside'
    BY <1>4 DEF ScanStaysInside, ScanNames
  <1>5. ASSUME NEW folder \in Paths, ScanFolder(folder)
        PROVE  ScanStaysInside'
    <2>1. PICK t \in FolderScanTargets(folder) :
            scan' = [IdleScan EXCEPT !.phase = "ingesting", !.root = t[1],
                                     !.folder = t[2], !.todo = Walk(Here, t[2])]
      BY <1>5 DEF ScanFolder
    <2>2. scan' = [x \in ScanNames |-> scan'[x]] /\ scan'.root = t[1]
          /\ scan'.todo = Walk(Here, t[2])
      BY <2>1 DEF IdleScan, ScanNames
    <2>3. t[1] \in roots /\ \A p \in Walk(Here, t[2]) : Within(p, t[1])
      BY TargetsAreCovered
    <2>4. Walk(Here, t[2]) \subseteq Paths
      BY DEF Walk, Here, Seeing
    <2> QED BY <2>2, <2>3, <2>4 DEF ScanStaysInside
  <1>6. ASSUME NEW p, IngestNext(p)
        PROVE  ScanStaysInside'
    BY <1>2, <1>4, <1>6 DEF IngestNext
  <1>7. ASSUME BeginMarking
        PROVE  ScanStaysInside'
    BY <1>2, <1>3, <1>7 DEF BeginMarking
  <1>8. ASSUME NEW i, NEW p, MarkMissing(i, p)
        PROVE  ScanStaysInside'
    BY <1>3, <1>8 DEF MarkMissing
  <1>9. ASSUME NEW i, FinishFound(i)
        PROVE  ScanStaysInside'
    BY <1>2, <1>3, <1>9 DEF FinishFound
  <1>10. CASE EndScan \/ CancelScan
    BY <1>2, <1>10 DEF EndScan, CancelScan
  <1>11. CASE scan' = scan
    BY <1>11 DEF ScanStaysInside
  <1>12. UserEdit => scan' = scan
    BY DEF UserEdit, Rename, Annotate, AddTask, UpdateTask, RemoveTask, Edited
  <1>13. Removal => scan' = scan
    BY DEF Removal, RemoveProjectRecord, RemoveScanRoot, RemoveFolder
  <1>14. Restructuring => scan' = scan
    BY DEF Restructuring, Register, AddScanRoot, RemoveScanRoot, Relocate, Refresh,
           Promote, SetDirectoryGroup
  <1>15. \A p : Vanish(p) \/ Appear(p) \/ RunStarts(p) \/ RunEnds(p) => scan' = scan
    BY DEF Vanish, Appear, RunStarts, RunEnds
  <1> QED BY <1>5, <1>6, <1>7, <1>8, <1>9, <1>10, <1>11, <1>12, <1>13, <1>14, <1>15
          DEF LibraryNext, ScanStep

-----------------------------------------------------------------------------
\* Every step of the library keeps its tables sound.
LEMMA LibraryStepIsSound ==
  ASSUME roots \subseteq Paths, ScanStaysInside, SoundTables(project, module, roots),
         [LibraryNext]_libraryVars
  PROVE  SoundTables(project', module', roots')
  <1> DEFINE Goal == SoundTables(project', module', roots')
  <1>1. project' = project /\ module' = module /\ roots' = roots => Goal
    OBVIOUS
  <1>2. CASE UserEdit
    BY <1>2, EditsStaySound
  <1>3. CASE Removal
    BY <1>3, RemovalStaysSound DEF Removal
  <1>4. CASE Restructuring
    <2>1. ASSUME NEW p \in Paths, Register(p) PROVE Goal
      BY <2>1, RegisteringStaysSound
    <2>2. ASSUME NEW p \in Paths, AddScanRoot(p) PROVE Goal
      BY <2>2, RootsStaySound
    <2>3. ASSUME NEW r \in RootPaths, RemoveScanRoot(r, FALSE) PROVE Goal
      BY <2>3, RemovalStaysSound
    <2>4. ASSUME NEW i \in Ids, NEW p \in Paths, NEW gone \in BOOLEAN, Relocate(i, p, gone)
          PROVE  Goal
      BY <2>4, RelocatingStaysSound
    <2>5. ASSUME NEW i \in Ids, Refresh(i) PROVE Goal
      BY <2>5, RefreshStaysSound
    <2>6. ASSUME NEW i \in Ids, NEW m \in Paths, Promote(i, m) PROVE Goal
      BY <2>6, PromotionStaysSound
    <2>7. ASSUME NEW i \in Ids, NEW enabled \in BOOLEAN, SetDirectoryGroup(i, enabled)
          PROVE  Goal
      BY <2>7, GroupsStaySound
    <2> QED BY <1>4, <2>1, <2>2, <2>3, <2>4, <2>5, <2>6, <2>7 DEF Restructuring
  <1>5. CASE ScanStep
    <2>1. ASSUME NEW p, IngestNext(p) PROVE Goal
      BY <2>1, IngestStaysSound
    <2>2. ASSUME NEW i, NEW p, MarkMissing(i, p) PROVE Goal
      BY <2>2, MarkingStaysSound
    <2>3. ASSUME NEW i, FinishFound(i) PROVE Goal
      BY <2>3, FinishingStaysSound
    <2>4. BeginMarking \/ EndScan => Goal
      BY <1>1 DEF BeginMarking, EndScan
    <2> QED BY <1>5, <2>1, <2>2, <2>3, <2>4 DEF ScanStep
  <1>6. \A p : Vanish(p) \/ Appear(p) \/ ScanFolder(p) \/ RunStarts(p) \/ RunEnds(p) => Goal
    BY <1>1 DEF Vanish, Appear, ScanFolder, RunStarts, RunEnds
  <1>7. CancelScan \/ UNCHANGED libraryVars => Goal
    BY <1>1 DEF CancelScan, libraryVars
  <1>8. Goal
    BY <1>2, <1>3, <1>4, <1>5, <1>6, <1>7 DEF LibraryNext
  <1> QED BY <1>8 DEF Goal

\* What is authorized and what exists are directories.
LEMMA DirectoriesStay ==
  ASSUME roots \subseteq Paths, present \subseteq Paths, [LibraryNext]_libraryVars
  PROVE  roots' \subseteq Paths /\ present' \subseteq Paths
  <1>1. UserEdit => roots' = roots /\ present' = present
    BY DEF UserEdit, Rename, Annotate, AddTask, UpdateTask, RemoveTask, Edited
  <1>2. Removal => roots' \subseteq roots /\ present' = present
    BY DEF Removal, RemoveProjectRecord, RemoveScanRoot, RemoveFolder
  <1>3. Restructuring => roots' \subseteq roots \cup RootPaths /\ present' \subseteq present
    BY DEF Restructuring, Register, AddScanRoot, RemoveScanRoot, Relocate, Refresh,
           Promote, SetDirectoryGroup
  <1>4. ScanStep \/ CancelScan \/ UNCHANGED libraryVars => roots' = roots /\ present' = present
    BY DEF ScanStep, IngestNext, BeginMarking, MarkMissing, FinishFound, EndScan,
           CancelScan, libraryVars
  <1>5. \A p : Vanish(p) \/ Appear(p) \/ ScanFolder(p) \/ RunStarts(p) \/ RunEnds(p)
               => roots' = roots /\ present' \subseteq present \cup Paths
    BY DEF Vanish, Appear, ScanFolder, RunStarts, RunEnds
  <1> QED BY <1>1, <1>2, <1>3, <1>4, <1>5, LibraryAssumption DEF LibraryNext

\* The library starts empty.
LEMMA LibraryStartsSound ==
  ASSUME LibraryInit
  PROVE  LibraryInv
  <1>1. ScanStaysInside
    BY DEF LibraryInit, ScanStaysInside, IdleScan, ScanNames
  <1>2. KnownIn(project) = {}
    BY DEF LibraryInit, KnownIn
  <1>3. SoundTables(project, module, roots)
    BY <1>2 DEF LibraryInit, SoundTables, Tables
  <1> QED BY <1>1, <1>3 DEF LibraryInit, LibraryInv

\* The invariant is inductive.
LEMMA LibraryInvStep == LibraryInv /\ [LibraryNext]_libraryVars => LibraryInv'
  <1> SUFFICES ASSUME LibraryInv, [LibraryNext]_libraryVars PROVE LibraryInv'
    OBVIOUS
  <1>1. SoundTables(project', module', roots')
    BY LibraryStepIsSound DEF LibraryInv
  <1>2. roots' \subseteq Paths /\ present' \subseteq Paths
    BY DirectoriesStay DEF LibraryInv
  <1>3. ScanStaysInside'
    <2>1. CASE LibraryNext
      BY <2>1, ScanStays DEF LibraryInv
    <2>2. CASE UNCHANGED libraryVars
      BY <2>2 DEF LibraryInv, ScanStaysInside, libraryVars
    <2> QED BY <2>1, <2>2
  <1> QED BY <1>1, <1>2, <1>3 DEF LibraryInv

\* In every reachable state the tables fit together, no two projects are at one
\* path, and a scan looks only inside its root.
THEOREM LibraryInvariant == LibrarySpec => []LibraryInv
  <1>1. LibraryInit => LibraryInv
    BY LibraryStartsSound
  <1>2. LibraryInv /\ [LibraryNext]_libraryVars => LibraryInv'
    BY LibraryInvStep
  <1> QED BY <1>1, <1>2, PTL DEF LibrarySpec

\* Search finds every available project under what its record says: each path
\* through upsert_project, observe_module, promote_module_inner and the edits
\* ends with reindex_project or leaves the project unavailable.
THEOREM SearchableProjects == LibrarySpec => []ReadyProjectsAreSearchable
  <1>1. LibraryInv => ReadyProjectsAreSearchable
    BY HereIsSound DEF LibraryInv, SoundTables, SoundRow, ReadyProjectsAreSearchable
  <1> QED BY <1>1, LibraryInvariant, PTL

\* A project names only an authorized root around it, and an orphan none: what a
\* scan, a promotion or a walk below a project hands on is around what it finds,
\* since every path is looked for, or resolved, below the one that names the root.
THEOREM RootsFollow == LibrarySpec => []OriginsFollowRoots
  <1>1. LibraryInv => OriginsFollowRoots
    BY HereIsSound DEF LibraryInv, SoundTables, SoundRow, OriginsFollowRoots
  <1> QED BY <1>1, LibraryInvariant, PTL
=============================================================================
