----------------------------- MODULE Footprints ------------------------------
(***************************************************************************)
(* The activity history (core/activity.rs, db.rs, useFootprints.ts).  It   *)
(* is a view of three tables: commits, task runs and events.  Triggers     *)
(* keep counts of them in buckets of a day, six hours and an hour, from    *)
(* which the summary of a calendar adds what it can; the list is read page *)
(* by page behind a cursor while others go on writing.                     *)
(***************************************************************************)
EXTENDS Integers, Sequences, FiniteSets, Bags

CONSTANTS
  FootprintProjects,
  RecordIds,      \* numbers, in the order of the ids
  Forms,          \* [source, category]: the table and what it counts as
  Instants,       \* times of records, in seconds, also before 1970
  Days,           \* [start, end): days of a calendar, in any time zone
  Spans,          \* lengths of the buckets: <<86400, 21600, 3600>>
  Queries,        \* what the list may show: [start, end, project, category]
  Unfiltered,     \* no filter
  PageSize,       \* 50
  MaxPages,       \* pages that the list keeps: 10
  MaxReloads,     \* bound: queries after the first
  NoRecord, Gone, \* an id that is not used yet, and one that is not used again
  NoCursor

Record == [project : FootprintProjects, form : Forms, at : Instants]

ASSUME FootprintAssumption ==
  /\ RecordIds \subseteq Nat
  /\ NoRecord \notin Record /\ Gone \notin Record /\ NoRecord # Gone
  /\ NoCursor \notin [at : Instants, id : RecordIds]
  /\ Instants \subseteq Int
  /\ Days \subseteq {d \in Int \X Int : d[1] < d[2]}
  /\ Spans \in Seq(Nat \ {0})
  /\ PageSize \in Nat \ {0}
  /\ MaxPages \in Nat \ {0}
  /\ MaxReloads \in Nat

VARIABLES
  known,     \* rows of projects
  records,   \* rows of the three tables, by their id in the list
  counts,    \* activity_day_counts and its two sisters, as a bag of their keys
  query,     \* what the list shows
  lists,     \* the list of every query: its pages and cursor
  calls,     \* calls of get_activity_history, the answers that are under way
  reloads    \* queries so far

footprintVars == <<known, records, counts, query, lists, calls, reloads>>

Levels == DOMAIN Spans
Present == {i \in RecordIds : records[i] \in Record}

-----------------------------------------------------------------------------
\* Counts

\* The remainder of SQL has the sign of the dividend.
SqlRemainder(a, n) == IF a >= 0 THEN a % n ELSE - ((- a) % n)

\* Mutant of BucketOf: rounds towards 1970.
BucketTowardsZero(t, span) == t - SqlRemainder(t, span)

BucketOf(t, span) == t - SqlRemainder(SqlRemainder(t, span) + span, span)

\* The rows, one of each level, that count r.
Rows(r) ==
  {<<l, BucketOf(r.at, Spans[l]), r.project, r.form.category>> : l \in Levels}

\* The first multiple of span that is not before t.
Ceiling(t, span) == (t \div span) * span + (IF t % span = 0 THEN 0 ELSE span)
Floor(t, span) == (t \div span) * span

\* activity_summary divides a range: what the buckets of a level cover, and
\* what is left over for the next one.
Divided(parts, l) ==
  LET low(r) == Ceiling(r[1], Spans[l])
      high(r) == Floor(r[2], Spans[l])
      fits == {r \in parts.left : low(r) < high(r)}
  IN  [whole |-> parts.whole \cup {<<l, low(r), high(r)>> : r \in fits},
       left |-> (parts.left \ fits)
                  \cup {r \in {<<q[1], low(q)>> : q \in fits} \cup {<<high(q), q[2]>> : q \in fits} :
                          r[1] < r[2]}]

\* The levels one after the other.
DivisionOf(d) ==
  LET parts[l \in 0..Len(Spans)] ==
        IF l = 0 THEN [whole |-> {}, left |-> {d}] ELSE Divided(parts[l - 1], l)
  IN  parts[Len(Spans)]

Division == [d \in Days |-> DivisionOf(d)]

Within(i, from, to) == from <= records[i].at /\ records[i].at < to
OfKind(i, p, c) == records[i].project = p /\ records[i].form.category = c

\* The rows of the buckets that the summary of a day adds.
Added(d, p, c) ==
  {x \in BagToSet(counts) :
     /\ x[3] = p /\ x[4] = c
     /\ \E w \in Division[d].whole : x[1] = w[1] /\ w[2] <= x[2] /\ x[2] < w[3]}

\* The records at its edges, which it counts.
AtEdges(d, p, c) ==
  {i \in Present : OfKind(i, p, c) /\ \E r \in Division[d].left : Within(i, r[1], r[2])}

\* The sum of the counts of S.
Total(S) == Cardinality(UNION {{x} \X (1..counts[x]) : x \in S})

\* The number that the summary of a day has, of one project and category.
SummaryCount(d, p, c) == Total(Added(d, p, c)) + Cardinality(AtEdges(d, p, c))

-----------------------------------------------------------------------------
\* Pages

Matches(i, q) ==
  /\ Within(i, q.start, q.end)
  /\ q.project \in {Unfiltered, records[i].project}
  /\ q.category \in {Unfiltered, records[i].form.category}

\* The list goes from late to early, and from high to low ids in a second.
Below(at, i, c) == at < c.at \/ (at = c.at /\ i < c.id)

Cursor(i) == [at |-> records[i].at, id |-> i]
Before(j, i) == Below(records[i].at, i, Cursor(j))

\* Mutant of Behind: the time alone is compared.
BehindTime(i, cursor) == cursor # NoCursor => records[i].at < cursor.at

Behind(i, cursor) == cursor # NoCursor => Below(records[i].at, i, cursor)

\* What is left of a query behind a cursor.
Remaining(q, cursor) == {i \in Present : Matches(i, q) /\ Behind(i, cursor)}

Sources == {f.source : f \in Forms}
OfSource(S, source) == {i \in S : records[i].form.source = source}

\* The first n of S: ORDER BY ts DESC, id DESC LIMIT n.
Latest(S, n) == {i \in S : Cardinality({j \in S : Before(j, i)}) < n}

LastOf(S) == CHOOSE i \in S : \A j \in S : j = i \/ Before(j, i)

\* One more than a page of each table, and of these one more than a page, which
\* tells whether there is another.
Selected(S) ==
  Latest(UNION {Latest(OfSource(S, source), PageSize + 1) : source \in Sources}, PageSize + 1)

Page(rows) ==
  [items |-> Latest(rows, PageSize),
   next |-> IF Cardinality(rows) <= PageSize THEN NoCursor ELSE Cursor(LastOf(Latest(rows, PageSize)))]

PageAfter(q, cursor) == Page(Selected(Remaining(q, cursor)))

\* there: the records that matched when the first page was read; read: those
\* that the list has shown since.
NoItems == [pages |-> <<>>, next |-> NoCursor, there |-> {}, read |-> {}]

\* A call is current until the list is asked anew.  A call without a cursor
\* begins the list; one that does not extend the list replaces its items.
Call(q, cursor, extends) ==
  [current |-> TRUE, query |-> q, cursor |-> cursor, extends |-> extends,
   answered |-> FALSE, page |-> [items |-> {}, next |-> NoCursor], there |-> {}]

FootprintInit ==
  /\ known = FootprintProjects
  /\ records = [i \in RecordIds |-> NoRecord]
  /\ counts = EmptyBag
  /\ query \in Queries
  /\ lists = [q \in Queries |-> NoItems]
  /\ calls = {Call(query, NoCursor, FALSE)}
  /\ reloads = 0

-----------------------------------------------------------------------------
\* A commit, a run or an event of a project is written.  Ids are not in the
\* order of time, and the time of a commit is any.
WriteRecord(i, r) ==
  /\ records[i] = NoRecord
  /\ r.project \in known
  /\ records' = [records EXCEPT ![i] = r]
  /\ counts' = counts (+) SetToBag(Rows(r))
  /\ UNCHANGED <<known, query, lists, calls, reloads>>

\* The project is removed and its rows in all tables with it.
ForgetProject(p) ==
  /\ p \in known
  /\ known' = known \ {p}
  /\ records' = [i \in RecordIds |->
       IF i \in Present /\ records[i].project = p THEN Gone ELSE records[i]]
  /\ counts' = [x \in {x \in BagToSet(counts) : x[3] # p} |-> counts[x]]
  /\ UNCHANGED <<query, lists, calls, reloads>>

\* Another query, or the same again after a refresh: calls under way are void,
\* and the list is what was read of the query before until the answer comes.
AskAnew(q) ==
  /\ reloads < MaxReloads
  /\ reloads' = reloads + 1
  /\ query' = q
  /\ calls' = {[c EXCEPT !.current = FALSE] : c \in calls} \cup {Call(q, NoCursor, FALSE)}
  /\ UNCHANGED <<known, records, counts, lists>>

\* loadMore, and nextWindow when the list is full.
ReadOn ==
  LET list == lists[query]
  IN  /\ \A c \in calls : ~ c.current
      /\ list.next # NoCursor
      /\ calls' = calls \cup {Call(query, list.next, Len(list.pages) < MaxPages)}
      /\ UNCHANGED <<known, records, counts, query, lists, reloads>>

AnswerPage(c) ==
  /\ ~ c.answered
  /\ calls' = (calls \ {c}) \cup
       {[c EXCEPT !.answered = TRUE, !.page = PageAfter(c.query, c.cursor),
                  !.there = {i \in Present : Matches(i, c.query)}]}
  /\ UNCHANGED <<known, records, counts, query, lists, reloads>>

\* The list stays as it is.
FailPage(c) ==
  /\ ~ c.answered
  /\ calls' = calls \ {c}
  /\ UNCHANGED <<known, records, counts, query, lists, reloads>>

Accepted(c) == c.current

\* The list of a new first page forgets what it had; the others go on.
ListWith(list, c) ==
  [pages |-> IF c.extends THEN Append(list.pages, c.page.items) ELSE <<c.page.items>>,
   next |-> c.page.next,
   there |-> IF c.cursor = NoCursor THEN c.there ELSE list.there,
   read |-> c.page.items \cup (IF c.cursor = NoCursor THEN {} ELSE list.read)]

ShowPage(c) ==
  /\ c.answered
  /\ calls' = calls \ {c}
  /\ lists' = IF Accepted(c) THEN [lists EXCEPT ![query] = ListWith(@, c)] ELSE lists
  /\ UNCHANGED <<known, records, counts, query, reloads>>

FootprintNext ==
  \/ \E i \in RecordIds, r \in Record : WriteRecord(i, r)
  \/ \E p \in FootprintProjects : ForgetProject(p)
  \/ \E q \in Queries : AskAnew(q)
  \/ ReadOn
  \/ \E c \in calls : AnswerPage(c)
  \/ \E c \in calls : FailPage(c)
  \/ \E c \in calls : ShowPage(c)

FootprintSpec == FootprintInit /\ [][FootprintNext]_footprintVars

-----------------------------------------------------------------------------
\* Whatever was written and removed, the summary of a day has for every project
\* and category the number of its records, wherever the day begins and ends
\* (activity_summary, the triggers of migrate_activity_counts).
SummariesCountRecords ==
  \A d \in Days, p \in FootprintProjects, c \in {f.category : f \in Forms} :
    SummaryCount(d, p, c) = Cardinality({i \in Present : Within(i, d[1], d[2]) /\ OfKind(i, p, c)})

\* Who reads on misses nothing and sees nothing twice: a record that has been
\* there since the first page was shown or comes below the cursor, although
\* others write records with earlier and later times and answers come late
\* (activity_page, useFootprints.ts).
PagesMissNothing ==
  \A q \in Queries :
    LET list == lists[q]
    IN  /\ \A i \in list.there \cap Present :
             \/ i \in list.read
             \/ list.next # NoCursor /\ Below(records[i].at, i, list.next)
        /\ \A n \in DOMAIN list.pages :
             /\ \A i \in list.pages[n] \cap Present : Matches(i, q)
             /\ \A m \in DOMAIN list.pages : m # n => list.pages[m] \cap list.pages[n] = {}
=============================================================================
