----------------------------- MODULE Environment ------------------------------
(***************************************************************************)
(* The inspection of a runtime (repoatlas-core/src/environment.rs): the    *)
(* version that is installed, as its program tells it, and whether it is   *)
(* in the range that the project declares.  Candidates are asked outside   *)
(* the Core mutex, by several threads at once, with a deadline, and what   *)
(* they say is believed for a minute.                                      *)
(***************************************************************************)
EXTENDS Integers, Sequences, FiniteSets

CONSTANTS
  Inspectors,      \* threads that inspect the runtime
  Candidates,      \* its programs in the order they are asked: python, python3
  Installable,     \* versions that somebody may install: <<major, minor, patch>>
  Absent,          \* no program tells a version
  Undeclared,      \* a project without a range
  Disjunction,     \* a range with ||
  DeclaredRanges,  \* the other ranges: sequences of [op, parts]
  VersionTimeout,  \* VERSION_TIMEOUT, in ticks of the clock
  CacheTtl,        \* VERSION_CACHE_TTL
  MaxTime,         \* bound: ticks
  MaxInstalls      \* bound: changes of the programs

Operators == {"", "=", ">=", "<=", ">", "<", "^", "~"}

ASSUME EnvironmentAssumption ==
  /\ Installable \subseteq Nat \X Nat \X Nat
  /\ Candidates \in Seq(STRING) /\ Candidates # <<>>
  /\ DeclaredRanges \subseteq Seq([op : Operators, parts : Seq(Nat)])
  \* parse_semver reads no more than three numbers of a bound.
  /\ \A range \in DeclaredRanges : \A k \in DOMAIN range : Len(range[k].parts) <= 3
  /\ Undeclared \notin DeclaredRanges /\ Disjunction \notin DeclaredRanges
  /\ {VersionTimeout, CacheTtl, MaxTime, MaxInstalls} \subseteq Nat /\ CacheTtl > 0

VARIABLES
  time,
  installed,      \* what every program would tell
  installs,       \* changes so far
  cached,         \* CachedVersion
  inspector,      \* the threads
  lastInstalled   \* history: when a version was there last

environmentVars == <<time, installed, installs, cached, inspector, lastInstalled>>

Never == - (VersionTimeout + CacheTtl + 1)
NotCached == [version |-> Absent, at |-> - CacheTtl]
Waiting == [at |-> "waiting"]
Told(version) == [at |-> "told", version |-> version, when |-> time]

Holds(v) == \E k \in DOMAIN Candidates : installed[k] = v

EnvironmentInit ==
  /\ time = 0
  /\ installed \in [DOMAIN Candidates -> Installable \cup {Absent}]
  /\ installs = 0
  /\ cached = NotCached
  /\ inspector = [i \in Inspectors |-> Waiting]
  /\ lastInstalled = [v \in Installable |-> IF Holds(v) THEN 0 ELSE Never]

-----------------------------------------------------------------------------
\* Ranges

\* parse_semver: parts that are not written are zero.
Padded(parts) == [k \in 1 .. 3 |-> IF k <= Len(parts) THEN parts[k] ELSE 0]

Before(v, w) ==
  \E k \in 1 .. 3 : v[k] < w[k] /\ \A j \in 1 .. k - 1 : v[j] = w[j]

CaretEnd(b) ==
  IF b[1] > 0 THEN <<b[1] + 1, 0, 0>>
  ELSE IF b[2] > 0 THEN <<0, b[2] + 1, 0>>
  ELSE <<0, 0, b[3] + 1>>

\* constraint_matches for one part that has a number.
Satisfies(v, part) ==
  LET b == Padded(part.parts)
  IN  CASE part.op = ">=" -> ~ Before(v, b)
        [] part.op = "<=" -> ~ Before(b, v)
        [] part.op = ">" -> Before(b, v)
        [] part.op = "<" -> Before(v, b)
        [] part.op = "^" -> ~ Before(v, b) /\ Before(v, CaretEnd(b))
        [] part.op = "~" -> ~ Before(v, b) /\ Before(v, <<b[1], b[2] + 1, 0>>)
        [] part.op = "=" -> v = b
        [] part.op = "" -> /\ v[1] = b[1]
                           /\ b[2] # 0 \/ b[3] # 0 => v[2] = b[2]
                           /\ b[3] # 0 => v[3] = b[3]

\* A part without a number, as in "stable", leaves the whole range undecided.
\* The empty range is the one of "*".
Verdict(range, version) ==
  IF range = Undeclared THEN "undeclared"
  ELSE IF version = Absent THEN "missing"
  ELSE IF range = Disjunction \/ (\E k \in DOMAIN range : range[k].parts = <<>>) THEN "unknown"
  ELSE IF \A k \in DOMAIN range : Satisfies(version, range[k]) THEN "match" ELSE "mismatch"

-----------------------------------------------------------------------------
\* probe_local_version

\* Mutant of Trusted: what was cached once is believed.
TrustedForever == cached # NotCached

Trusted == time - cached.at < CacheTtl

\* Inspectors start again with other projects.
Inspect(i) ==
  /\ inspector[i].at \in {"waiting", "told"}
  /\ inspector' = [inspector EXCEPT ![i] =
       IF Trusted THEN Told(cached.version)
       ELSE [at |-> "probing", program |-> 1, says |-> installed[1],
             deadline |-> time + VersionTimeout]]
  /\ UNCHANGED <<time, installed, installs, cached, lastInstalled>>

Learn(i, version) ==
  /\ inspector' = [inspector EXCEPT ![i] = Told(version)]
  /\ cached' = [version |-> version, at |-> time]
  /\ UNCHANGED <<time, installed, installs, lastInstalled>>

\* run_version_command_until: what the program said when it was started.
TellVersion(i) ==
  /\ inspector[i].at = "probing"
  /\ inspector[i].says # Absent
  /\ Learn(i, inspector[i].says)

\* The program is not there, or fails; another one has what is left of the time.
AskNext(i) ==
  /\ inspector[i].at = "probing"
  /\ LET next == inspector[i].program + 1
     IN  IF next \in DOMAIN Candidates /\ time < inspector[i].deadline
         THEN /\ inspector' = [inspector EXCEPT ![i].program = next, ![i].says = installed[next]]
              /\ UNCHANGED <<time, installed, installs, cached, lastInstalled>>
         ELSE Learn(i, Absent)

\* The program is killed at the deadline.
GiveUp(i) ==
  /\ inspector[i].at = "probing"
  /\ time = inspector[i].deadline
  /\ Learn(i, Absent)

-----------------------------------------------------------------------------
Passing == [v \in Installable |-> IF Holds(v) THEN time + 1 ELSE lastInstalled[v]]

\* No probe outlives its deadline.
Tick ==
  /\ time < MaxTime
  /\ \A i \in Inspectors : inspector[i].at = "probing" => time < inspector[i].deadline
  /\ time' = time + 1
  /\ lastInstalled' = Passing
  /\ UNCHANGED <<installed, installs, cached, inspector>>

\* Somebody installs, upgrades or removes a program.
Install(k, v) ==
  /\ installs < MaxInstalls
  /\ installs' = installs + 1
  /\ installed' = [installed EXCEPT ![k] = v]
  /\ lastInstalled' = IF v = Absent THEN lastInstalled ELSE [lastInstalled EXCEPT ![v] = time]
  /\ UNCHANGED <<time, cached, inspector>>

EnvironmentNext ==
  \/ \E i \in Inspectors : Inspect(i) \/ TellVersion(i) \/ AskNext(i) \/ GiveUp(i)
  \/ Tick
  \/ \E k \in DOMAIN Candidates, v \in Installable \cup {Absent} : Install(k, v)

EnvironmentSpec == EnvironmentInit /\ [][EnvironmentNext]_environmentVars

-----------------------------------------------------------------------------
\* The meaning of a part in the notation of npm, by what a version has in
\* common with the bound: a bare bound stands for the versions that begin with
\* it.  (To Cargo it stands for ^, and a rust-version is a least version; the
\* code makes no difference between the manifests, nor does this.)
Agree(v, b, n) == \A k \in 1 .. n : v[k] = b[k]
LeftmostNonzero(b) ==
  IF b = <<0, 0, 0>> THEN 3 ELSE CHOOSE k \in 1 .. 3 : b[k] # 0 /\ \A j \in 1 .. k - 1 : b[j] = 0

NotBelow(v, b) == v = b \/ Before(b, v)

InPart(v, part) ==
  LET b == Padded(part.parts)
  IN  CASE part.op = "" -> Agree(v, b, Len(part.parts))
        [] part.op = "=" -> v = b
        [] part.op = "^" -> Agree(v, b, LeftmostNonzero(b)) /\ NotBelow(v, b)
        [] part.op = "~" -> Agree(v, b, 2) /\ NotBelow(v, b)
        [] part.op = ">=" -> NotBelow(v, b)
        [] part.op = "<=" -> NotBelow(b, v)
        [] part.op = ">" -> v # b /\ NotBelow(v, b)
        [] part.op = "<" -> v # b /\ NotBelow(b, v)

\* A bound without an operator must not end in a written zero, which the code
\* reads as not written; other bounds have all their parts, but for >= and <,
\* where it makes no difference.
Precise(part) ==
  IF part.op = "" THEN part.parts[Len(part.parts)] # 0
  ELSE part.op \in {">=", "<"} \/ Len(part.parts) = 3

Means(range, v) == \A k \in DOMAIN range : InPart(v, range[k])

\* A verdict is about a version that was there within the last minute and the
\* time of a probe, although probes overlap, time out and share what they found;
\* and it says what the range means (probe_local_version, match_constraint).
VerdictsAreJustified ==
  \A i \in Inspectors : inspector[i].at = "told" /\ inspector[i].version # Absent =>
    LET v == inspector[i].version
    IN  /\ inspector[i].when - lastInstalled[v] < CacheTtl + VersionTimeout
        /\ \A range \in DeclaredRanges :
             (\A k \in DOMAIN range : range[k].parts # <<>> /\ Precise(range[k])) =>
               (Verdict(range, v) = "match" <=> Means(range, v))
=============================================================================
