------------------------------ MODULE Library ------------------------------
(***************************************************************************)
(* The project library of repoatlas-core: scan roots, project records,     *)
(* modules (directories below a project that are not projects themselves), *)
(* task lists and the search index, with the operations that the desktop   *)
(* application and repoatlas-mcp run on the shared database.  An action is *)
(* one SQLite transaction; a scan is a job of many.                        *)
(*                                                                         *)
(* A path is the sequence of its names.  A project's id is a number of the *)
(* pool Ids; an operation that would need more than MaxProjects of them is *)
(* left out.  One value, mark, stands for the notes, description, tags and *)
(* flags of a record; the command of a task is its sig.                    *)
(***************************************************************************)
EXTENDS Naturals, FiniteSets, SequencesExt

CONSTANTS Paths,          \* directories
          Checkouts,      \* those with a .git or .svn entry
          Manifests,      \* those with a manifest of some ecosystem
          Detected,       \* Detected[p]: commands detection infers at p
          RootPaths,      \* directories a user authorizes as scan roots
          Volatile,       \* directories that vanish and come back
          Ids,            \* project ids
          MaxProjects,    \* bound on project records
          MaxOperations,  \* bound on what users and directories do
          TaskNames,      \* TaskNames[i]: ids given to tasks of project i by hand
          TaskDirs        \* working directories of those tasks

NoPath == <<>>
NoId == 0

ASSUME LibraryAssumption ==
    /\ Paths \subseteq Seq(STRING) \ {NoPath} /\ IsFiniteSet(Paths)
    /\ Checkouts \subseteq Paths /\ Manifests \subseteq Paths
    /\ RootPaths \subseteq Paths /\ Volatile \subseteq Paths
    /\ Ids \subseteq Nat \ {NoId} /\ IsFiniteSet(Ids)

NoProject == [path |-> NoPath]
Mine == <<"renamed">>

VARIABLES present,   \* directories that exist
          roots,     \* rows of scan_roots, named by their path
          project,   \* rows of projects
          module,    \* rows of project_modules, by path
          groups,    \* rows of project_directory_groups
          running,   \* projects with an active run or a starting approval
          scan,      \* the scan in progress
          operations \* operations so far

libraryVars ==
    <<present, roots, project, module, groups, running, scan, operations>>

Below == [q \in Paths |-> {p \in Paths : IsPrefix(q, p)}]
Within(p, q) == p \in Below[q]
Marker(p) == p \in Checkouts \cup Manifests
Longest(S) == CHOOSE p \in S : \A q \in S : Len(q) <= Len(p)
Outward == SetToSortSeq(Paths, LAMBDA p, q : Len(p) < Len(q))

-----------------------------------------------------------------------------
\* A value l is the part of the database that the operations hand on:
\* the directories seen, the projects, the modules and the groups.
Seeing(dirs) ==
    [present |-> dirs, project |-> project, module |-> module,
     groups |-> groups, taken |-> scan.found \cup {x[1] : x \in scan.seen}]
Here == Seeing(present)

Known(l) == {i \in Ids : l.project[i] # NoProject}
IdAt(l, p) ==
    IF \E i \in Known(l) : l.project[i].path = p
    THEN CHOOSE i \in Known(l) : l.project[i].path = p ELSE NoId
Unused(l) == Ids \ (Known(l) \cup l.taken)
Fresh(l) == IF Unused(l) = {} THEN NoId
            ELSE CHOOSE i \in Unused(l) : \A j \in Unused(l) : i <= j
Owned(l, i) == {m \in Paths : l.module[m].owner = i}

\* The root that covers p most tightly.
Matching(p) ==
    LET covering == {r \in roots : Within(p, r)}
    IN  IF covering = {} THEN NoPath ELSE Longest(covering)

\* The tasks of project i that belong to its module m: those whose
\* directory has no deeper module, unless m is a project by now.
TasksOf(l, i, m) ==
    {t \in l.project[i].tasks :
        LET around == IF t.cwd = NoPath THEN {} ELSE {n \in Owned(l, i) : Within(t.cwd, n)}
        IN  around # {} /\ Longest(around) = m /\ IdAt(l, m) = NoId}

Reindexed(r) == [r EXCEPT !.indexed = <<r.path, r.name, r.mark>>]
WithTasks(l, i, ts) == [l EXCEPT !.project[i].tasks = ts]

\* Mutant of MergedTasks: detection replaces the tasks of a user.
MergedTasksOfDetection(l, i, p, old) ==
    {[id |-> <<"root", i, p, s>>, sig |-> s, cwd |-> NoPath, inferred |-> TRUE] :
        s \in IF p \in l.present THEN Detected[p] ELSE {}}
    \cup {t \in old : t.inferred /\ \E m \in Owned(l, i) : t \in TasksOf(l, i, m)}

\* What detection says now against what the record holds: tasks of the
\* user stay, an inferred task keeps its id, tasks of modules stay.
MergedTasks(l, i, p, old) ==
    LET own == {t \in old : ~t.inferred}
        found == IF p \in l.present THEN Detected[p] ELSE {}
        same(s) == {t \in old : t.sig = s /\ t.cwd = NoPath}
    IN  own
        \cup {[id |-> IF same(s) # {} THEN (CHOOSE t \in same(s) : TRUE).id
                      ELSE <<"root", i, p, s>>,
               sig |-> s, cwd |-> NoPath, inferred |-> TRUE] :
              s \in {s \in found : \A t \in own : ~(t.sig = s /\ t.cwd = NoPath)}}
        \cup {t \in old : t.inferred /\ \E m \in Owned(l, i) : t \in TasksOf(l, i, m)}

Upsert(l, p, root, origin) ==
    LET known == IdAt(l, p)
        i == IF known # NoId THEN known ELSE Fresh(l)
        new == [path |-> p, ready |-> TRUE, origin |-> origin, root |-> root,
                name |-> p, detected |-> p, mark |-> 0,
                tasks |-> MergedTasks(l, i, p, {}), indexed |-> <<>>]
        old == l.project[i]
        updated == [old EXCEPT
                      !.ready = TRUE,
                      !.origin = IF @ = "manual" THEN @ ELSE origin,
                      !.root = root,
                      !.name = IF @ = old.detected THEN p ELSE @,
                      !.detected = p,
                      !.tasks = MergedTasks(l, i, p, @)]
    IN  [l EXCEPT !.project[i] = Reindexed(IF known # NoId THEN updated ELSE new)]

OfModule(t, m) == t.id[1] = "module" /\ t.id[2] = m

\* The tasks that leave the project which had directory m as a module.
Moving(l, i, m) ==
    LET from == l.module[m].owner
    IN  IF from \in {NoId, i} THEN {}
        ELSE {t \in l.project[from].tasks : OfModule(t, m)} \cup TasksOf(l, from, m)

\* The tasks of project i with those moving in and the commands detected in
\* m, unless m is a project of its own.
TasksWithModule(l, i, m, moving) ==
    LET all == l.project[i].tasks \cup moving
        kept == {t \in all : ~(OfModule(t, m) /\ t.inferred)}
        name(s) == LET old == {t \in all : OfModule(t, m) /\ t.sig = s /\ t.cwd = m}
                   IN  IF old # {} THEN (CHOOSE t \in old : TRUE).id ELSE <<"module", m, s>>
        found == IF IdAt(l, m) # NoId \/ m \notin l.present THEN {} ELSE Detected[m]
    IN  kept \cup {[id |-> name(s), sig |-> s, cwd |-> m, inferred |-> TRUE] :
                      s \in {s \in found : \A t \in kept : t.id # name(s)}}

\* Directory m is a module of project i from now on.
Observe(l, i, m) ==
    LET moving == Moving(l, i, m)
        from == l.module[m].owner
        left == IF moving = {} THEN l
                ELSE WithTasks(l, from, l.project[from].tasks \ moving)
        taken == WithTasks([left EXCEPT !.module[m] = [owner |-> i, ready |-> TRUE]],
                           i, TasksWithModule(l, i, m, moving))
    IN  [taken EXCEPT !.project[i] = Reindexed(@)]

Above(l, p) == {q \in Paths : q # p /\ Within(p, q) /\ IdAt(l, q) # NoId}
ParentOf(l, p) == IF Above(l, p) = {} THEN NoId ELSE IdAt(l, Longest(Above(l, p)))

\* A directory with a marker is a project if it is known or a checkout, or
\* if nothing owns it; in any case the project around it lists it.
Independent(l, p) ==
    \/ IdAt(l, p) # NoId
    \/ p \in Checkouts /\ p \in l.present
    \/ ParentOf(l, p) = NoId
    \/ ParentOf(l, p) \in l.groups

Ingest(l, p, root) ==
    LET parent == ParentOf(l, p)
        next == IF Independent(l, p) THEN Upsert(l, p, root, "scan") ELSE l
    IN  IF parent = NoId THEN next ELSE Observe(next, parent, p)

IngestedId(l, p) ==
    IF Independent(l, p) THEN IdAt(Upsert(l, p, NoPath, "scan"), p) ELSE ParentOf(l, p)

MissingModules(l, i) ==
    [l EXCEPT !.module = [m \in Paths |->
        IF m \in Owned(l, i) /\ (m \notin l.present \/ (IdAt(l, m) = NoId /\ ~Marker(m)))
        THEN [@[m] EXCEPT !.ready = FALSE] ELSE @[m]]]

Walk(l, folder) == {p \in l.present : Within(p, folder) /\ Marker(p)}

\* The walk meets a directory before those inside it.
Discovery(l, S, root, k) ==
    IF Outward[k] \in S THEN Ingest(l, Outward[k], root) ELSE l

Discovered(l, S, root) ==
    LET after[k \in 0 .. Cardinality(Paths)] ==
            IF k = 0 THEN l ELSE Discovery(after[k - 1], S, root, k)
    IN  after[Cardinality(Paths)]

DiscoverModules(l, i) ==
    LET top == l.project[i].path
        inside == Walk(l, top) \ {top}
    IN  IF i \in Known(l) THEN MissingModules(Discovered(l, inside, l.project[i].root), i) ELSE l

\* Module m of project i becomes a project and takes its tasks along.
PromoteModule(l, i, m) ==
    LET mine == TasksOf(l, i, m)
        added == Upsert(l, m, l.project[i].root, "manual")
        child == IdAt(added, m)
        found == {t \in added.project[child].tasks :
                     ~(t.inferred /\ \E u \in mine : u.sig = t.sig)}
        moved == {[t EXCEPT !.cwd = IF @ = m THEN NoPath ELSE @] :
                     t \in {u \in mine : \A t \in found : t.id # u.id}}
        parted == WithTasks(WithTasks(added, i, added.project[i].tasks \ mine),
                            child, found \cup moved)
    IN  DiscoverModules(Observe(parted, i, m), child)

RefreshRecord(l, i) ==
    LET r == l.project[i]
    IN  IF r.path \notin l.present THEN [l EXCEPT !.project[i].ready = FALSE]
        ELSE DiscoverModules(Upsert(l, r.path, r.root, r.origin), i)

Unlisted(l, S) ==
    [l EXCEPT !.project = [i \in Ids |-> IF i \in S THEN NoProject ELSE @[i]],
              !.module = [m \in Paths |-> IF @[m].owner \in S
                                          THEN [owner |-> NoId, ready |-> FALSE] ELSE @[m]],
              !.groups = @ \ S]

\* Mutant of Orphaned: only a project that a scan found loses its root.
OrphanedIfScanned(l, R) ==
    [l EXCEPT !.project = [i \in Ids |->
        IF i \in Known(l) /\ @[i].root \in R /\ @[i].origin = "scan"
        THEN [@[i] EXCEPT !.root = NoPath, !.origin = "orphaned"] ELSE @[i]]]

WithoutRoot(r) ==
    [r EXCEPT !.root = NoPath, !.origin = IF @ = "scan" THEN "orphaned" ELSE @]

Orphaned(l, R) ==
    [l EXCEPT !.project = [i \in Ids |->
        IF i \in Known(l) /\ @[i].root \in R THEN WithoutRoot(@[i]) ELSE @[i]]]

\* What users, agents and directories do is bounded; a scan ends by itself.
\* An operation that would need more ids than there are is left out.
Counted == operations < MaxOperations /\ operations' = operations + 1

Commit(l) ==
    /\ Cardinality(Known(l)) <= MaxProjects
    /\ Unused(l) # {}
    /\ project' = l.project
    /\ module' = l.module
    /\ groups' = l.groups

-----------------------------------------------------------------------------
IdleScan == [phase |-> "idle", root |-> NoPath, folder |-> NoPath,
             todo |-> {}, found |-> {}, seen |-> {}]

LibraryInit ==
    /\ present = Paths
    /\ roots = {}
    /\ project = [i \in Ids |-> NoProject]
    /\ module = [m \in Paths |-> [owner |-> NoId, ready |-> FALSE]]
    /\ groups = {}
    /\ running = {}
    /\ scan = IdleScan
    /\ operations = 0

\* The directories change behind the program's back.
Vanish(p) ==
    /\ Counted
    /\ p \in present \cap Volatile
    /\ present' = {q \in present : ~Within(q, p)}
    /\ UNCHANGED <<roots, project, module, groups, running, scan>>

Appear(p) ==
    /\ Counted
    /\ p \in Volatile \ present
    /\ present' = present \cup {q \in Paths : Within(q, p)}
    /\ UNCHANGED <<roots, project, module, groups, running, scan>>

AddScanRoot(p) ==
    /\ Counted
    /\ p \in present \cap RootPaths
    /\ p \notin roots
    /\ roots' = roots \cup {p}
    /\ UNCHANGED <<present, project, module, groups, running, scan>>

RemoveScanRoot(r, alsoRecords) ==
    LET listed == {i \in Known(Here) : project[i].root = r}
    IN  /\ Counted
        /\ r \in roots
        /\ alsoRecords => listed \cap running = {}
        /\ Commit(IF alsoRecords THEN Unlisted(Here, listed) ELSE Orphaned(Here, {r}))
        /\ roots' = roots \ {r}
        /\ UNCHANGED <<present, running, scan>>

RemoveProjectRecord(i) ==
    /\ Counted
    /\ i \in Known(Here) \ running
    /\ Commit(Unlisted(Here, {i}))
    /\ UNCHANGED <<present, roots, running, scan>>

RemoveFolder(S, R) ==
    /\ Counted
    /\ S \subseteq Known(Here) \ running
    /\ R \subseteq roots
    /\ Commit(Orphaned(Unlisted(Here, S), R))
    /\ roots' = roots \ R
    /\ UNCHANGED <<present, running, scan>>

\* A directory listed as a module is promoted, any other is adopted.  One that
\* is listed under a project which has moved away from it is refused.
Register(p) ==
    LET owner == module[p].owner
        next == IF owner # NoId THEN PromoteModule(Here, owner, p)
                ELSE Upsert(Here, p, Matching(p), "manual")
    IN  /\ Counted
        /\ p \in present
        /\ owner \notin running
        /\ owner # NoId => Within(p, project[owner].path)
        /\ IdAt(next, p) # NoId
        /\ Commit(DiscoverModules(next, IdAt(next, p)))
        /\ UNCHANGED <<present, roots, running, scan>>

MovedTo(r, p) ==
    [r EXCEPT !.path = p, !.ready = TRUE, !.root = Matching(p), !.origin = "manual"]

\* The target is checked before the transaction: it may be gone in it.
Relocate(i, p, gone) ==
    LET there == IF gone THEN {q \in present : ~Within(q, p)} ELSE present
        adopted == [Seeing(there) EXCEPT !.project[i] = MovedTo(@, p)]
    IN  /\ Counted
        /\ i \in Known(Here)
        /\ p \in present
        /\ gone => p \in Volatile
        /\ IdAt(Here, p) \in {NoId, i}
        /\ present' = there
        /\ Commit(RefreshRecord(adopted, i))
        /\ UNCHANGED <<roots, running, scan>>

Refresh(i) ==
    /\ Counted
    /\ i \in Known(Here)
    /\ Commit(RefreshRecord(Here, i))
    /\ UNCHANGED <<present, roots, running, scan>>

\* Mutant of ResolvesTo: the project of the module is not looked at.
ResolvesAnywhere(l, i, m) == m \in l.present

\* The path of a module must exist below its project.
ResolvesTo(l, i, m) == m \in l.present /\ Within(m, l.project[i].path)

Promote(i, m) ==
    /\ Counted
    /\ i \in Known(Here) \ running
    /\ m \in Owned(Here, i)
    /\ ResolvesTo(Here, i, m)
    /\ Commit(PromoteModule(Here, i, m))
    /\ UNCHANGED <<present, roots, running, scan>>

\* The modules of S are promoted in turn, unless one promoted before has
\* taken them over.
Promotion(l, i, S, k) ==
    IF Outward[k] \in S \cap Owned(l, i) THEN PromoteModule(l, i, Outward[k]) ELSE l

Promoted(l, i, S) ==
    LET after[k \in 0 .. Cardinality(Paths)] ==
            IF k = 0 THEN l ELSE Promotion(after[k - 1], i, S, k)
    IN  after[Cardinality(Paths)]

SetDirectoryGroup(i, enabled) ==
    LET nested == {m \in Owned(Here, i) : IdAt(Here, m) = NoId}
    IN  /\ Counted
        /\ i \in Known(Here)
        /\ IF enabled
           THEN /\ nested # {} => i \notin running
                /\ \A m \in nested : ResolvesTo(Here, i, m)
                /\ Commit([Promoted(Here, i, nested) EXCEPT !.groups = @ \cup {i}])
           ELSE Commit([Here EXCEPT !.groups = @ \ {i}])
        /\ UNCHANGED <<present, roots, running, scan>>

-----------------------------------------------------------------------------
\* What users and agents change by hand.
UniqueIds(ts) == \A t, u \in ts : t.id = u.id => t = u

\* Mutant of Edited: the search index is left as it was.
EditedUnindexed(i, r) ==
    /\ Counted
    /\ UniqueIds(r.tasks)
    /\ Commit([Here EXCEPT !.project[i] = r])
    /\ UNCHANGED <<present, roots, running, scan>>

Edited(i, r) ==
    /\ Counted
    /\ UniqueIds(r.tasks)
    /\ Commit([Here EXCEPT !.project[i] = Reindexed(r)])
    /\ UNCHANGED <<present, roots, running, scan>>

Rename(i) ==
    /\ i \in Known(Here)
    /\ Edited(i, [project[i] EXCEPT !.name = Mine])

Annotate(i) ==
    /\ i \in Known(Here)
    /\ Edited(i, [project[i] EXCEPT !.mark = @ + 1])

AddTask(i, u, dir) ==
    LET new == [id |-> <<"user", u>>, sig |-> "custom", cwd |-> dir, inferred |-> FALSE]
    IN  /\ i \in Known(Here)
        /\ dir # NoPath => Within(dir, project[i].path)
        /\ Edited(i, [project[i] EXCEPT !.tasks = {t \in @ : t.id # new.id} \cup {new}])
    
\* An edited task is the user's from then on; here the command stays.
UpdateTask(i, id) ==
    /\ i \in Known(Here)
    /\ \E t \in project[i].tasks : t.id = id
    /\ Edited(i, [project[i] EXCEPT
           !.tasks = {IF t.id = id THEN [t EXCEPT !.inferred = FALSE] ELSE t : t \in @}])

RemoveTask(i, id) ==
    /\ i \in Known(Here)
    /\ \E t \in project[i].tasks : t.id = id
    /\ Edited(i, [project[i] EXCEPT !.tasks = {t \in @ : t.id # id}])

RunStarts(i) ==
    /\ Counted
    /\ i \in Known(Here) \ running
    /\ project[i].tasks # {}
    /\ running' = running \cup {i}
    /\ UNCHANGED <<present, roots, project, module, groups, scan>>

RunEnds(i) ==
    /\ Counted
    /\ i \in running
    /\ running' = running \ {i}
    /\ UNCHANGED <<present, roots, project, module, groups, scan>>

-----------------------------------------------------------------------------
\* The authorized part of a folder: the folder, below the deepest root
\* around it, else the outermost roots inside it.
FolderScanTargets(folder) ==
    LET around == {r \in roots : Within(folder, r)}
        inside == {r \in roots : Within(r, folder)}
    IN  IF around # {} THEN {<<Longest(around), folder>>}
        ELSE {<<r, r>> : r \in {r \in inside : \A q \in inside : Within(r, q) => q = r}}

ScanFolder(folder) ==
    /\ Counted
    /\ scan.phase = "idle"
    /\ folder \in present
    /\ \E target \in FolderScanTargets(folder) :
          scan' = [IdleScan EXCEPT !.phase = "ingesting",
                                   !.root = target[1], !.folder = target[2],
                                   !.todo = Walk(Here, target[2])]
    /\ UNCHANGED <<present, roots, project, module, groups, running>>

\* One discovered directory, in a transaction of its own, after those around
\* it.  Without its root the scan fails.
IngestNext(p) ==
    /\ scan.phase = "ingesting"
    /\ p \in scan.todo
    /\ \A q \in scan.todo : Within(p, q) => q = p
    /\ IF scan.root \in roots
       THEN /\ Commit(Ingest(Here, p, scan.root))
            /\ scan' = [scan EXCEPT !.todo = @ \ {p},
                                    !.found = @ \cup {IngestedId(Here, p)}]
       ELSE scan' = IdleScan /\ UNCHANGED <<project, module, groups>>
    /\ UNCHANGED <<present, roots, running, operations>>

\* A canceled scan stops between two directories and marks nothing.
CancelScan ==
    /\ scan.phase = "ingesting"
    /\ scan' = IdleScan
    /\ UNCHANGED <<present, roots, project, module, groups, running, operations>>

\* The projects of the root are read once; each is then judged on its own.
BeginMarking ==
    /\ scan.phase = "ingesting"
    /\ scan.todo = {}
    /\ scan' = IF scan.root \in roots
               THEN [scan EXCEPT !.phase = "marking",
                        !.seen = {<<i, project[i].path>> :
                                     i \in {i \in Known(Here) : project[i].root = scan.root}}]
               ELSE IdleScan
    /\ UNCHANGED <<present, roots, project, module, groups, running, operations>>

MarkMissing(i, p) ==
    /\ scan.phase = "marking"
    /\ <<i, p>> \in scan.seen
    /\ project' = IF /\ Within(p, scan.folder)
                     /\ i \notin scan.found
                     /\ p \notin present
                     /\ i \in Known(Here)
                  THEN [project EXCEPT ![i].ready = FALSE] ELSE project
    /\ scan' = [scan EXCEPT !.seen = @ \ {<<i, p>>}]
    /\ UNCHANGED <<present, roots, module, groups, running, operations>>

\* The modules of each project found are looked at once more; a project
\* that was removed meanwhile makes the scan fail.
FinishFound(i) ==
    /\ scan.phase = "marking"
    /\ scan.seen = {}
    /\ i \in scan.found
    /\ IF i \in Known(Here)
       THEN /\ Commit(MissingModules(Here, i))
            /\ scan' = [scan EXCEPT !.found = @ \ {i}]
       ELSE scan' = IdleScan /\ UNCHANGED <<project, module, groups>>
    /\ UNCHANGED <<present, roots, running, operations>>

EndScan ==
    /\ scan.phase = "marking"
    /\ scan.seen = {}
    /\ scan.found = {}
    /\ scan' = IdleScan
    /\ UNCHANGED <<present, roots, project, module, groups, running, operations>>

ScanStep ==
    \/ \E p \in scan.todo : IngestNext(p)
    \/ BeginMarking
    \/ \E x \in scan.seen : MarkMissing(x[1], x[2])
    \/ \E i \in scan.found : FinishFound(i)
    \/ EndScan

UserEdit ==
    \/ \E i \in Ids : Rename(i) \/ Annotate(i)
    \/ \E i \in Known(Here), dir \in TaskDirs : \E u \in TaskNames[i] : AddTask(i, u, dir)
    \/ \E i \in Known(Here) : \E t \in project[i].tasks :
          UpdateTask(i, t.id) \/ RemoveTask(i, t.id)

Removal ==
    \/ \E i \in Ids : RemoveProjectRecord(i)
    \/ \E r \in RootPaths : RemoveScanRoot(r, TRUE)
    \/ \E S \in SUBSET Known(Here), R \in SUBSET roots : RemoveFolder(S, R)

Restructuring ==
    \/ \E p \in Paths : Register(p) \/ AddScanRoot(p)
    \/ \E r \in RootPaths : RemoveScanRoot(r, FALSE)
    \/ \E i \in Ids, p \in Paths, gone \in BOOLEAN : Relocate(i, p, gone)
    \/ \E i \in Ids : Refresh(i)
    \/ \E i \in Ids, m \in Paths : Promote(i, m)
    \/ \E i \in Ids, enabled \in BOOLEAN : SetDirectoryGroup(i, enabled)

LibraryNext ==
    \/ UserEdit \/ Removal \/ Restructuring
    \/ \E p \in Paths : Vanish(p) \/ Appear(p) \/ ScanFolder(p)
    \/ \E i \in Ids : RunStarts(i) \/ RunEnds(i)
    \/ ScanStep \/ CancelScan

LibrarySpec == LibraryInit /\ [][LibraryNext]_libraryVars
-----------------------------------------------------------------------------
\* Search finds every available project under what its record says now: its
\* path, its name and its notes and tags.  The index is a table of its own
\* that each operation keeps up with the record (reindex_project).
ReadyProjectsAreSearchable ==
    \A i \in Known(Here) : project[i].ready =>
        project[i].indexed = <<project[i].path, project[i].name, project[i].mark>>

\* A project names only a root that is still authorized and around it, and an
\* orphan names none, whichever root was removed and however often the project
\* was refreshed, promoted, relocated, found below another project or scanned
\* from another root since.
OriginsFollowRoots ==
    \A i \in Known(Here) :
        /\ project[i].root # NoPath =>
              project[i].root \in roots /\ Within(project[i].path, project[i].root)
        /\ project[i].origin = "orphaned" => project[i].root = NoPath

HandTasks == {x \in Known(Here) \X UNION {project[i].tasks : i \in Known(Here)} :
                 x[2] \in project[x[1]].tasks /\ ~x[2].inferred}

EntriesKept ==
    /\ \A i \in Known(Here) :
          /\ i \in Known(Here)'
          /\ project'[i].mark = project[i].mark
          /\ project[i].name = Mine => project'[i].name = Mine
    /\ \A x \in HandTasks :
          Cardinality({y \in HandTasks' : y[2].id = x[2].id})
            >= Cardinality({y \in HandTasks : y[2].id = x[2].id})

\* Nothing but an edit or a removal touches what a user entered: a scan, a
\* refresh, a promotion, a relocation or the loss of a root keeps the name
\* a user gave, the notes and tags, and every task of a user, with its id,
\* in some project (upsert_project, observe_module, promote_module_inner).
UserEntriesSurvive == [][EntriesKept \/ UserEdit \/ Removal]_libraryVars
=============================================================================
