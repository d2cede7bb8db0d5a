------------------------------ MODULE Transfer ------------------------------
(***************************************************************************)
(* Carrying the library elsewhere (repoatlas-core::import_export): the     *)
(* readable export file and its import into this or another store, among   *)
(* the edits that the desktop and repoatlas-mcp make to projects and       *)
(* collections meanwhile.                                                  *)
(*                                                                         *)
(* A project is named by its canonical path.  The field details stands for *)
(* what an import replaces (notes, tags, archived, favorite, last          *)
(* opening), description for what it replaces only by something (the       *)
(* description, the icon), facts for what detection found.  The display    *)
(* name is a field of its own, beside the one that detection last found    *)
(* (detected_name): a detection tells by it whether a user gave the name.  *)
(***************************************************************************)
EXTENDS Naturals, FiniteSets, TLC

CONSTANTS Dirs,            \* directories that may hold a project
          Shelves,         \* names of collections
          MaxTransferEdits \* bound on edits, authorizations and moves

ASSUME TransferAssumption == IsFiniteSet(Dirs) /\ MaxTransferEdits \in Nat

Themes == {"system", "dark"}
NoText == ""
NoExport == [theme |-> "none"]

VARIABLES catalog,   \* settings, scan_roots, projects, search index, collections
          disk,      \* directories that exist
          exportFile,\* the last export written
          exporting, \* an export in progress: what it read so far
          importing, \* an import in progress
          transferEdits

transferVars == <<catalog, disk, exportFile, exporting, importing, transferEdits>>
transfers == <<exportFile, exporting, importing>>

EmptyCatalog ==
    [theme |-> "system", roots |-> {}, row |-> <<>>, indexed |-> <<>>, shelf |-> <<>>]

TransferInit ==
    /\ catalog = EmptyCatalog
    /\ disk = Dirs
    /\ exportFile = NoExport /\ exporting = NoExport /\ importing = FALSE
    /\ transferEdits = 0

Edits == transferEdits < MaxTransferEdits /\ transferEdits' = transferEdits + 1

-----------------------------------------------------------------------------
\* The search index of a project: what can be found by it.
Words(row) == {word \in {"name", "details", "description", "facts"} :
                  CASE word = "name" -> row.name = "typed"
                    [] word = "details" -> row.details = "typed"
                    [] word = "description" -> row.description # NoText
                    [] word = "facts" -> row.facts}

With(f, key, value) == [k \in DOMAIN f \cup {key} |-> IF k = key THEN value ELSE f[k]]
Without(f, key) == [k \in DOMAIN f \ {key} |-> f[k]]

\* A row is written and reindexed.
Written(p, row) ==
    [catalog EXCEPT !.row = With(catalog.row, p, row),
                    !.indexed = With(catalog.indexed, p, Words(row))]

NewProject == [name |-> "found", found |-> "found", details |-> "found",
               description |-> NoText, group |-> FALSE, facts |-> TRUE]

\* upsert_project: a name that differs from the one found before is the
\* user's and stays.
Redetected(row) == [row EXCEPT !.name = IF @ = row.found THEN "found" ELSE @,
                                !.found = "found", !.facts = TRUE]

\* add_project and scans.
DetectProject(p) ==
    /\ Edits /\ p \in disk
    /\ catalog' = Written(p, IF p \in DOMAIN catalog.row THEN Redetected(catalog.row[p]) ELSE NewProject)
    /\ UNCHANGED <<disk, transfers>>

\* update_project and set_directory_group.
EditProject(p, description, group) ==
    /\ Edits /\ p \in DOMAIN catalog.row
    /\ catalog' = Written(p, [catalog.row[p] EXCEPT !.name = "typed", !.details = "typed",
                                 !.description = description, !.group = group])
    /\ UNCHANGED <<disk, transfers>>

\* remove_project: its memberships go with it.
ForgetProject(p) ==
    /\ Edits /\ p \in DOMAIN catalog.row
    /\ catalog' = [catalog EXCEPT !.row = Without(@, p), !.indexed = Without(@, p),
                                  !.shelf = [s \in DOMAIN @ |-> @[s] \ {p}]]
    /\ UNCHANGED <<disk, transfers>>

\* save_collection_with_members, create_, update_ and set_collection_members:
\* every member must be a project.
SaveCollection(s, members) ==
    /\ Edits /\ members \subseteq DOMAIN catalog.row
    /\ catalog' = [catalog EXCEPT !.shelf = With(@, s, members)]
    /\ UNCHANGED <<disk, transfers>>

DeleteCollection(s) ==
    /\ Edits /\ s \in DOMAIN catalog.shelf
    /\ catalog' = [catalog EXCEPT !.shelf = Without(@, s)]
    /\ UNCHANGED <<disk, transfers>>

ChangeTheme(theme) ==
    /\ Edits /\ catalog' = [catalog EXCEPT !.theme = theme]
    /\ UNCHANGED <<disk, transfers>>

AuthorizeRoot(p) ==
    /\ Edits /\ p \in disk
    /\ catalog' = [catalog EXCEPT !.roots = @ \cup {p}]
    /\ UNCHANGED <<disk, transfers>>

-----------------------------------------------------------------------------
\* export: settings and roots, then projects, then collections, each a read
\* of its own that sees what other processes have committed.
Entry(row) == [name |-> row.name, details |-> row.details,
               description |-> row.description, group |-> row.group]

ExportSettings ==
    /\ exporting = NoExport /\ ~importing
    /\ exporting' = [theme |-> catalog.theme, roots |-> catalog.roots]
    /\ UNCHANGED <<catalog, disk, exportFile, importing, transferEdits>>

ExportProjects ==
    /\ DOMAIN exporting = {"theme", "roots"}
    /\ exporting' = [theme |-> exporting.theme, roots |-> exporting.roots,
                     projects |-> [p \in DOMAIN catalog.row |-> Entry(catalog.row[p])]]
    /\ UNCHANGED <<catalog, disk, exportFile, importing, transferEdits>>

ExportCollections ==
    /\ "projects" \in DOMAIN exporting
    /\ exportFile' = [theme |-> exporting.theme, roots |-> exporting.roots,
                      projects |-> exporting.projects, shelves |-> catalog.shelf]
    /\ exporting' = NoExport
    /\ UNCHANGED <<catalog, disk, importing, transferEdits>>

\* import_into: every root of the file must be a directory of its own before
\* the write lock is taken.
ValidateImport ==
    /\ exportFile # NoExport /\ exporting = NoExport /\ ~importing
    /\ exportFile.roots \subseteq disk
    /\ importing' = TRUE
    /\ UNCHANGED <<catalog, disk, exportFile, exporting, transferEdits>>

\* Mutant of InGroup: a group is entered and never left.
InGroupAlready(p) == exportFile.projects[p].group \/ (p \in DOMAIN catalog.row /\ catalog.row[p].group)

InGroup(p) == exportFile.projects[p].group

\* Projects and members that are not directories now are left out.  A new
\* record takes the name of the file for the one that was found, too.
Imported ==
    LET here == DOMAIN exportFile.projects \cap disk
        Known(p) == p \in DOMAIN catalog.row
        Row(p) == LET entry == exportFile.projects[p] IN
            [name |-> entry.name, details |-> entry.details, group |-> InGroup(p),
             found |-> IF Known(p) THEN catalog.row[p].found ELSE entry.name,
             description |-> IF entry.description = NoText /\ Known(p)
                             THEN catalog.row[p].description ELSE entry.description,
             facts |-> Known(p) /\ catalog.row[p].facts]
        rows == [p \in DOMAIN catalog.row \cup here |-> IF p \in here THEN Row(p) ELSE catalog.row[p]]
    IN  [theme |-> exportFile.theme,
         roots |-> catalog.roots \cup exportFile.roots,
         row |-> rows,
         indexed |-> [p \in DOMAIN rows |->
                        IF p \in here THEN Words(exportFile.projects[p] @@ [facts |-> FALSE])
                                      ELSE catalog.indexed[p]],
         shelf |-> [s \in DOMAIN catalog.shelf \cup DOMAIN exportFile.shelves |->
                      IF s \in DOMAIN exportFile.shelves
                      THEN exportFile.shelves[s] \cap disk \cap DOMAIN rows
                      ELSE catalog.shelf[s]]]

\* One transaction.
ApplyImport ==
    /\ importing
    /\ catalog' = Imported /\ importing' = FALSE
    /\ UNCHANGED <<disk, exportFile, exporting, transferEdits>>

\* A directory went while it was resolved, or the database failed: rollback.
FailImport ==
    /\ importing
    /\ importing' = FALSE
    /\ UNCHANGED <<catalog, disk, exportFile, exporting, transferEdits>>

-----------------------------------------------------------------------------
DirectoryChanges(p) ==
    /\ Edits /\ disk' = (disk \ {p}) \cup ({p} \ disk)
    /\ UNCHANGED <<catalog, transfers>>

\* The file is taken to a machine where the library is empty.
MoveFile ==
    /\ Edits /\ exportFile # NoExport
    /\ exporting' = NoExport /\ importing' = FALSE
    /\ catalog' = EmptyCatalog
    /\ UNCHANGED <<disk, exportFile>>

TransferNext ==
    \/ \E theme \in Themes : ChangeTheme(theme)
    \/ \E p \in Dirs : \/ DetectProject(p) \/ ForgetProject(p)
                       \/ AuthorizeRoot(p) \/ DirectoryChanges(p)
                       \/ \E description \in {NoText, "text"}, group \in BOOLEAN :
                             EditProject(p, description, group)
    \/ \E s \in Shelves : \/ DeleteCollection(s)
                          \/ \E members \in SUBSET Dirs : SaveCollection(s, members)
    \/ ExportSettings \/ ExportProjects \/ ExportCollections
    \/ ValidateImport \/ ApplyImport \/ FailImport
    \/ MoveFile

TransferSpec == TransferInit /\ [][TransferNext]_transferVars
-----------------------------------------------------------------------------
\* What an import brings back is what the export kept: exporting again gives
\* the same entry for every project of the file whose directory is here (a
\* description is kept where the file has none) and the same members of its
\* collections, and leaves alone the projects and roots the file does not name.
ImportsRestoreEntries ==
    [][ApplyImport =>
         /\ \A p \in DOMAIN exportFile.projects \cap disk :
               LET entry == exportFile.projects[p]  row == Entry(catalog'.row[p]) IN
               \/ row = entry
               \/ entry.description = NoText /\ row = [entry EXCEPT !.description = row.description]
         /\ \A s \in DOMAIN exportFile.shelves :
               \A p \in DOMAIN exportFile.projects \cap disk :
                  p \in exportFile.shelves[s] <=> p \in catalog'.shelf[s]
         /\ \A p \in DOMAIN catalog.row \ DOMAIN exportFile.projects : catalog'.row[p] = catalog.row[p]
         /\ catalog.roots \subseteq catalog'.roots]_transferVars

\* "Local search combines token-oriented indexing for English and structured
\* metadata" (docs/adr/0012): the index has all of a project's record.  (A
\* search that finds no project in the index looks at some fields itself.)
RecordsAreSearchable ==
    \A p \in DOMAIN catalog.row : Words(catalog.row[p]) \subseteq catalog.indexed[p]
=============================================================================
