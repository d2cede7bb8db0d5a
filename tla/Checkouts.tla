------------------------------ MODULE Checkouts ------------------------------
(***************************************************************************)
(* The projects' locations, a column of the table projects, and the        *)
(* repositories that these locations lie in.  A project may be a directory *)
(* below the root of its checkout, so several may share a repository.      *)
(*                                                                         *)
(* The desktop and the MCP server move and remove projects, each in one    *)
(* transaction.                                                            *)
(***************************************************************************)
EXTENDS Naturals

CONSTANTS
  Projects, Paths, Roots,
  RootOf,      \* RootOf[d] is the root of the checkout that holds path d
  MaxVersion,  \* bound: versions of a repository
  NoPath

ASSUME CheckoutsAssumption ==
  /\ RootOf \in [Paths -> Roots]
  /\ MaxVersion \in Nat
  /\ NoPath \notin Paths

VARIABLES
  path,     \* projects.canonical_path; NoPath when the project is removed
  version   \* the version of each repository, which never comes back

checkoutVars == <<path, version>>

Versions == 0 .. MaxVersion

Recorded(p) == path[p] # NoPath
RepositoryOf(d) == version[RootOf[d]]

CheckoutsInit ==
  /\ path \in [Projects -> Paths]
  /\ \A p, q \in Projects : path[p] = path[q] => p = q
  /\ version = [r \in Roots |-> 0]

\* relocate_project: the new location is not another project's.
Relocate(p, d) ==
  /\ Recorded(p)
  /\ \A q \in Projects \ {p} : path[q] # d
  /\ path' = [path EXCEPT ![p] = d]
  /\ UNCHANGED version

RemoveRecord(p) ==
  /\ Recorded(p)
  /\ path' = [path EXCEPT ![p] = NoPath]
  /\ UNCHANGED version

\* A commit, a checkout, a pull, ... in the repository.
ChangeRepository(r) ==
  /\ version[r] < MaxVersion
  /\ version' = [version EXCEPT ![r] = @ + 1]
  /\ UNCHANGED path

CheckoutsTypeOK ==
  /\ path \in [Projects -> Paths \cup {NoPath}]
  /\ version \in [Roots -> Versions]
=============================================================================
