---------------------------- MODULE HistoryProofs ----------------------------
(***************************************************************************)
(* Proofs about the refresh of the Git history, for any number of          *)
(* projects, workers, jobs and ranges and any size of the batches.  The    *)
(* argument: what a worker counts as read is stored, so a row that it      *)
(* records is true when it is written and stays true, because commits go   *)
(* only with their project; and a target that a job has taken is in the    *)
(* hands of a worker until it is covered, counted as a failure or given    *)
(* up by a cancellation.                                                   *)
(*                                                                         *)
(* And proofs about the view of the history, for any records and times,    *)
(* any calendar, any buckets and any size of a page.  The list: one call   *)
(* is current, which begins the list or goes on at its cursor, and the     *)
(* first rows of each table are enough to find the first of all.  The      *)
(* summary: the division of a day tiles it, each whole tile begins and     *)
(* ends with buckets of its level, and the rows of the buckets have as     *)
(* many as there are records in them.                                      *)
(***************************************************************************)
EXTENDS HistoryRefresh, Footprints, FiniteSetTheorems, FunctionTheorems, WellFoundedInduction, TLAPS

-----------------------------------------------------------------------------
(* The list of the activity history.                                         *)

Cursors == [at : Instants, id : RecordIds]
ListPages == [items : SUBSET RecordIds, next : Cursors \cup {NoCursor}]
ListContents ==
  [pages : Seq(SUBSET RecordIds), next : Cursors \cup {NoCursor},
   there : SUBSET RecordIds, read : SUBSET RecordIds]
ListCalls ==
  [current : BOOLEAN, query : Queries, cursor : Cursors \cup {NoCursor}, extends : BOOLEAN,
   answered : BOOLEAN, page : ListPages, there : SUBSET RecordIds]

\* Ids of records that were written.
Written == {i \in RecordIds : records[i] # NoRecord}

RecordsFit ==
  /\ records \in [RecordIds -> Record \cup {NoRecord, Gone}]
  /\ IsFiniteSet(Present)

ListsFit ==
  /\ query \in Queries
  /\ lists \in [Queries -> ListContents]
  /\ calls \subseteq ListCalls
  /\ \A q \in Queries :
       /\ lists[q].there \subseteq Written
       /\ \A n \in DOMAIN lists[q].pages : lists[q].pages[n] \subseteq Written
  /\ \A c \in calls : c.there \subseteq Written /\ c.page.items \subseteq Written

\* One call is current: it is for the list that is shown, and begins it or goes
\* on where it ends.
CurrentCallFits ==
  /\ \A c, d \in calls : c.current /\ d.current => c = d
  /\ \A c \in calls : c.current =>
       /\ c.query = query
       /\ c.cursor = NoCursor => ~ c.extends
       /\ c.cursor # NoCursor => c.cursor = lists[query].next

IsBelow(i, cursor) == cursor # NoCursor /\ Below(records[i].at, i, cursor)

\* A list has what was there, or goes on to it, and nothing below its cursor.
ListIsWhole(list, q) ==
  /\ \A i \in list.there \cap Present :
       Matches(i, q) /\ (i \in list.read \/ IsBelow(i, list.next))
  /\ \A n \in DOMAIN list.pages : \A i \in list.pages[n] \cap Present :
       Matches(i, q) /\ ~ IsBelow(i, list.next)
  /\ \A m, n \in DOMAIN list.pages : m # n => list.pages[m] \cap list.pages[n] = {}

ListsAreWhole == \A q \in Queries : ListIsWhole(lists[q], q)

\* The same of the list that an answer will make.
AnswersFit == \A c \in calls : c.current /\ c.answered => ListIsWhole(ListWith(lists[query], c), query)

PagesInv == RecordsFit /\ ListsFit /\ CurrentCallFits /\ ListsAreWhole /\ AnswersFit

\* The rows count the records.
CountedBy(x) == {i \in Present : x \in Rows(records[i])}
CountsFit ==
  /\ \A x \in DOMAIN counts : counts[x] = Cardinality(CountedBy(x))
  /\ \A i \in Present : Rows(records[i]) \subseteq DOMAIN counts

\* What comes before i in S.
Ahead(S, i) == {j \in S : Before(j, i)}

Less == {x \in Nat \X Nat : x[1] < x[2]}

\* The least of a set of natural numbers.
LEMMA LeastNumber ==
  ASSUME NEW T \in SUBSET Nat, T # {}
  PROVE  \E n \in T : \A m \in T : n <= m
  <1>1. Less = OpToRel(<, Nat)
    BY DEF Less, OpToRel
  <1>2. IsWellFoundedOn(Less, Nat)
    BY <1>1, NatLessThanWellFounded
  <1>3. PICK n \in T : \A m \in T : ~ (<<m, n>> \in Less)
    BY <1>2, WFMin
  <1>4. \A m \in T : ~ (m < n)
    BY <1>3 DEF Less
  <1> QED BY <1>4

\* A record in the table has its columns.
LEMMA PresentRecords ==
  ASSUME RecordsFit, NEW i \in Present
  PROVE  /\ i \in RecordIds /\ i \in Nat /\ records[i] \in Record
         /\ records[i].at \in Int /\ records[i].at \in Instants
         /\ Cursor(i) \in Cursors /\ Cursor(i).at = records[i].at /\ Cursor(i).id = i
         /\ Cursor(i) # NoCursor
  <1>1. i \in RecordIds /\ i \in Nat /\ records[i] \in Record
    BY FootprintAssumption DEF Present
  <1>2. records[i].at \in Instants /\ records[i].at \in Int
    BY <1>1, FootprintAssumption DEF Record
  <1>3. /\ Cursor(i) \in [at : Instants, id : RecordIds]
        /\ Cursor(i).at = records[i].at /\ Cursor(i).id = i
    BY <1>1, <1>2 DEF Cursor
  <1>4. Cursor(i) # NoCursor
    BY <1>3, FootprintAssumption
  <1> QED BY <1>1, <1>2, <1>3, <1>4 DEF Cursors

\* The list has one order: that of the times, and of the ids within a second.
LEMMA ListOrder ==
  ASSUME RecordsFit, NEW i \in Present, NEW j \in Present
  PROVE  /\ ~ Before(i, i)
         /\ Before(i, j) \/ Before(j, i) \/ i = j
         /\ ~ (Before(i, j) /\ Before(j, i))
         /\ \A k \in Present : Before(i, j) /\ Before(j, k) => Before(i, k)
  <1> USE PresentRecords DEF Before, Below
  <1>1. ~ Before(i, i)
    OBVIOUS
  <1>2. Before(i, j) \/ Before(j, i) \/ i = j
    OBVIOUS
  <1>3. ~ (Before(i, j) /\ Before(j, i))
    OBVIOUS
  <1>4. \A k \in Present : Before(i, j) /\ Before(j, k) => Before(i, k)
    OBVIOUS
  <1> QED BY <1>1, <1>2, <1>3, <1>4

\* Sets of records are finite, and what comes earlier has less before it.
LEMMA AheadIsSmaller ==
  ASSUME RecordsFit, NEW S \in SUBSET Present, NEW i \in S, NEW j \in S, Before(j, i)
  PROVE  /\ Cardinality(Ahead(S, i)) \in Nat /\ Cardinality(Ahead(S, j)) \in Nat
         /\ Cardinality(Ahead(S, j)) < Cardinality(Ahead(S, i))
  <1>1. IsFiniteSet(S)
    BY FS_Subset DEF RecordsFit
  <1>2. IsFiniteSet(Ahead(S, i)) /\ IsFiniteSet(Ahead(S, j))
    BY <1>1, FS_Subset DEF Ahead
  <1>3. Ahead(S, j) \subseteq Ahead(S, i)
    BY ListOrder DEF Ahead
  <1>4. j \in Ahead(S, i) /\ j \notin Ahead(S, j)
    BY ListOrder DEF Ahead
  <1>5. Cardinality(Ahead(S, j)) <= Cardinality(Ahead(S, i))
    BY <1>2, <1>3, FS_Subset
  <1>6. Cardinality(Ahead(S, j)) # Cardinality(Ahead(S, i))
    BY <1>2, <1>3, <1>4, FS_Subset
  <1>7. Cardinality(Ahead(S, i)) \in Nat /\ Cardinality(Ahead(S, j)) \in Nat
    BY <1>2, FS_CardinalityType
  <1> QED BY <1>5, <1>6, <1>7

\* A limit that leaves something out is reached.
LEMMA LatestAreMany ==
  ASSUME RecordsFit, NEW S \in SUBSET Present, NEW n \in Nat, Latest(S, n) # S
  PROVE  Cardinality(Latest(S, n)) \in Nat /\ Cardinality(Latest(S, n)) >= n
  <1> DEFINE Others == S \ Latest(S, n)
  <1> DEFINE T == {Cardinality(Ahead(S, i)) : i \in Others}
  <1>1. IsFiniteSet(S) /\ Latest(S, n) \subseteq S
    BY FS_Subset DEF RecordsFit, Latest
  <1>2. \A i \in S : IsFiniteSet(Ahead(S, i)) /\ Cardinality(Ahead(S, i)) \in Nat
    BY <1>1, FS_Subset, FS_CardinalityType DEF Ahead
  <1>3. T # {} /\ T \in SUBSET Nat
    BY <1>1, <1>2
  <1>4. PICK m \in T : \A k \in T : m <= k
    BY <1>3, LeastNumber
  <1>5. PICK i \in Others : m = Cardinality(Ahead(S, i))
    BY <1>4
  <1>6. m \in Nat /\ m >= n
    BY <1>2, <1>5 DEF Latest, Ahead
  <1>7. Ahead(S, i) \subseteq Latest(S, n)
    <2> SUFFICES ASSUME NEW j \in Ahead(S, i), j \notin Latest(S, n) PROVE FALSE
      OBVIOUS
    <2>1. j \in Others /\ Before(j, i)
      BY DEF Ahead
    <2>2. Cardinality(Ahead(S, j)) < m /\ Cardinality(Ahead(S, j)) \in Nat
      BY <1>5, <2>1, AheadIsSmaller
    <2>3. m <= Cardinality(Ahead(S, j))
      BY <1>4, <2>1
    <2> QED BY <1>6, <2>2, <2>3
  <1>8. IsFiniteSet(Latest(S, n)) /\ Cardinality(Latest(S, n)) \in Nat
    BY <1>1, FS_Subset, FS_CardinalityType
  <1>9. m <= Cardinality(Latest(S, n))
    BY <1>5, <1>7, <1>8, FS_Subset
  <1> QED BY <1>6, <1>8, <1>9

\* What a limit keeps is before what it leaves out.
LEMMA LatestAreFirst ==
  ASSUME RecordsFit, NEW S \in SUBSET Present, NEW n \in Nat,
         NEW j \in Latest(S, n), NEW i \in S \ Latest(S, n)
  PROVE  Before(j, i)
  <1>1. j \in S /\ i # j
    BY DEF Latest
  <1>2. CASE Before(i, j)
    <2>1. /\ Cardinality(Ahead(S, i)) \in Nat /\ Cardinality(Ahead(S, j)) \in Nat
          /\ Cardinality(Ahead(S, i)) < Cardinality(Ahead(S, j))
      BY <1>1, <1>2, AheadIsSmaller
    <2>2. Cardinality(Ahead(S, j)) < n
      BY DEF Latest, Ahead
    <2>3. Cardinality(Ahead(S, i)) < n
      BY <2>1, <2>2
    <2>4. i \in Latest(S, n)
      BY <2>3 DEF Latest, Ahead
    <2> QED BY <2>4
  <1> QED BY <1>1, <1>2, ListOrder

\* A page that is not empty has a last record.
LEMMA LastIsLast ==
  ASSUME RecordsFit, NEW S \in SUBSET Present, S # {}
  PROVE  LastOf(S) \in S /\ \A j \in S : j = LastOf(S) \/ Before(j, LastOf(S))
  <1> DEFINE T == {n \in Nat : \E i \in S : Cardinality(Ahead(S, i)) + n = Cardinality(S)}
  <1>1. IsFiniteSet(S) /\ Cardinality(S) \in Nat
    BY FS_Subset, FS_CardinalityType DEF RecordsFit
  <1>2. \A i \in S : /\ Cardinality(Ahead(S, i)) \in Nat
                     /\ Cardinality(Ahead(S, i)) <= Cardinality(S)
    <2> SUFFICES ASSUME NEW i \in S
                 PROVE  /\ Cardinality(Ahead(S, i)) \in Nat
                        /\ Cardinality(Ahead(S, i)) <= Cardinality(S)
      OBVIOUS
    <2>1. Ahead(S, i) \in SUBSET S
      BY DEF Ahead
    <2> QED BY <1>1, <2>1, FS_Subset, FS_CardinalityType
  <1>3. \A i \in S : Cardinality(S) - Cardinality(Ahead(S, i)) \in T
    BY <1>1, <1>2
  <1>4. T # {} /\ T \in SUBSET Nat
    BY <1>3
  <1>5. PICK n \in T : \A m \in T : n <= m
    BY <1>4, LeastNumber
  <1>6. PICK i \in S : Cardinality(Ahead(S, i)) + n = Cardinality(S)
    BY <1>5
  <1>7. \A j \in S : j = i \/ Before(j, i)
    <2> SUFFICES ASSUME NEW j \in S, j # i, ~ Before(j, i) PROVE FALSE
      OBVIOUS
    <2>1. Before(i, j)
      BY ListOrder
    <2>2. Cardinality(Ahead(S, i)) < Cardinality(Ahead(S, j))
      BY <2>1, AheadIsSmaller
    <2>3. n <= Cardinality(S) - Cardinality(Ahead(S, j))
      BY <1>3, <1>5
    <2> QED BY <1>1, <1>2, <1>6, <2>2, <2>3
  <1> QED BY <1>6, <1>7 DEF LastOf

\* The first of the rows of each table are the first of all rows: what is not
\* selected comes after everything that is, and then more than a page is.
LEMMA SelectedAreFirst ==
  ASSUME RecordsFit, NEW S \in SUBSET Present,
         NEW i \in S, i \notin Selected(S)
  PROVE  /\ Cardinality(Selected(S)) \in Nat /\ Cardinality(Selected(S)) > PageSize
         /\ \A j \in Selected(S) : Before(j, i)
  <1> DEFINE P == PageSize + 1
  <1> DEFINE Part(source) == Latest(OfSource(S, source), P)
  <1> DEFINE U == UNION {Part(source) : source \in Sources}
  <1>0. P \in Nat /\ PageSize \in Nat
    BY FootprintAssumption
  <1>1. PICK source \in Sources : i \in OfSource(S, source)
    BY PresentRecords DEF OfSource, Sources, Record
  <1>2. /\ \A other \in Sources : OfSource(S, other) \subseteq S /\ Part(other) \subseteq S
        /\ U \in SUBSET Present /\ U \subseteq S
    BY DEF OfSource, Latest
  <1>3. Selected(S) = Latest(U, P)
    BY DEF Selected
  <1>4. Part(source) \subseteq U
    OBVIOUS
  <1>5. Latest(U, P) \subseteq U
    BY DEF Latest
  <1>6. CASE i \in U
    <2>1. Latest(U, P) # U
      BY <1>3, <1>6
    <2>2. Cardinality(Latest(U, P)) \in Nat /\ Cardinality(Latest(U, P)) >= P
      BY <1>0, <1>2, <2>1, LatestAreMany
    <2>3. \A j \in Latest(U, P) : Before(j, i)
      BY <1>0, <1>2, <1>3, <1>6, LatestAreFirst
    <2> QED BY <1>0, <1>3, <2>2, <2>3
  <1>7. CASE i \notin U
    <2>1. OfSource(S, source) \in SUBSET Present /\ i \notin Part(source)
      BY <1>2, <1>4, <1>7
    <2>2. Part(source) # OfSource(S, source)
      BY <1>1, <2>1
    <2>3. Cardinality(Part(source)) \in Nat /\ Cardinality(Part(source)) >= P
      BY <1>0, <2>1, <2>2, LatestAreMany
    <2>4. \A j \in Part(source) : Before(j, i)
      BY <1>0, <1>1, <2>1, LatestAreFirst
    <2>5. IsFiniteSet(U) /\ IsFiniteSet(Latest(U, P))
      BY <1>2, <1>5, FS_Subset DEF RecordsFit
    <2>6. Cardinality(Latest(U, P)) \in Nat
      BY <2>5, FS_CardinalityType
    <2>7. Cardinality(Latest(U, P)) >= P
      <3>1. CASE Latest(U, P) # U
        BY <1>0, <1>2, <3>1, LatestAreMany
      <3>2. CASE Latest(U, P) = U
        <4>1. Cardinality(Part(source)) <= Cardinality(U)
          BY <1>4, <2>5, FS_Subset
        <4>2. Cardinality(Latest(U, P)) = Cardinality(U)
          BY <3>2
        <4>3. Cardinality(U) \in Nat
          BY <2>5, FS_CardinalityType
        <4> HIDE DEF P, U, Part
        <4> QED BY <1>0, <2>3, <4>1, <4>2, <4>3
      <3> QED BY <3>1, <3>2
    <2>8. ASSUME NEW m \in Latest(U, P) PROVE Before(m, i)
      <3> SUFFICES ASSUME ~ Before(m, i) PROVE FALSE
        OBVIOUS
      <3>1. m \in U /\ m \in Present /\ i \in Present /\ m # i
        BY <1>2, <1>5, <1>7
      <3>2. Before(i, m)
        BY <3>1, ListOrder
      <3>3. \A j \in Part(source) : j \in Present /\ Before(j, m)
        BY <1>2, <1>4, <2>4, <3>1, <3>2, ListOrder
      <3>4. Part(source) \subseteq Ahead(U, m)
        BY <1>4, <3>3 DEF Ahead
      <3>5. IsFiniteSet(Ahead(U, m)) /\ Cardinality(Ahead(U, m)) \in Nat
        BY <2>5, FS_Subset, FS_CardinalityType DEF Ahead
      <3>6. Cardinality(Part(source)) <= Cardinality(Ahead(U, m))
        BY <3>4, <3>5, FS_Subset
      <3>7. Cardinality(Ahead(U, m)) < P
        BY DEF Latest, Ahead
      <3> QED BY <1>0, <2>3, <3>5, <3>6, <3>7
    <2> QED BY <1>0, <1>3, <2>6, <2>7, <2>8
  <1> QED BY <1>6, <1>7

\* A page has the first records of S, and its cursor leads to the others.
LEMMA PagesLead ==
  ASSUME RecordsFit, NEW S \in SUBSET Present, NEW page, page = Page(Selected(S))
  PROVE  /\ page = [items |-> page.items, next |-> page.next]
         /\ page.items \subseteq S /\ page.next \in Cursors \cup {NoCursor}
         /\ \A i \in S : i \in page.items \/ IsBelow(i, page.next)
         /\ \A i \in page.items : ~ IsBelow(i, page.next)
         /\ page.next # NoCursor => \E m \in S : page.next = Cursor(m)
  <1> DEFINE rows == Selected(S)
  <1> DEFINE items == Latest(rows, PageSize)
  <1>0. PageSize \in Nat /\ PageSize > 0
    BY FootprintAssumption
  <1>1. /\ page = [items |-> page.items, next |-> page.next]
        /\ page.items = items
        /\ page.next = IF Cardinality(rows) <= PageSize THEN NoCursor ELSE Cursor(LastOf(items))
    BY DEF Page
  <1>2. rows \subseteq S /\ items \subseteq rows /\ rows \in SUBSET Present
    BY DEF Selected, Latest, OfSource
  <1>3. IsFiniteSet(rows) /\ Cardinality(rows) \in Nat
    BY <1>2, FS_Subset, FS_CardinalityType DEF RecordsFit
  <1>4. CASE Cardinality(rows) <= PageSize
    <2>1. \A i \in S : i \in rows
      BY <1>0, <1>3, <1>4, SelectedAreFirst
    <2>2. ASSUME NEW i \in rows PROVE i \in items
      <3>1. Ahead(rows, i) \in SUBSET rows /\ i \notin Ahead(rows, i)
        BY <1>2, ListOrder DEF Ahead
      <3>2. /\ Cardinality(Ahead(rows, i)) <= Cardinality(rows)
            /\ Cardinality(Ahead(rows, i)) # Cardinality(rows)
            /\ Cardinality(Ahead(rows, i)) \in Nat
        BY <1>3, <3>1, FS_Subset, FS_CardinalityType
      <3>3. Cardinality(Ahead(rows, i)) < PageSize
        BY <1>0, <1>3, <1>4, <3>2
      <3> QED BY <3>3 DEF Latest, Ahead
    <2>3. page.next = NoCursor
      BY <1>1, <1>4
    <2> QED BY <1>1, <1>2, <2>1, <2>2, <2>3 DEF IsBelow
  <1>5. CASE ~ Cardinality(rows) <= PageSize
    <2> DEFINE last == LastOf(items)
    <2>1. items # {}
      <3>1. CASE items = rows
        BY <1>0, <1>3, <1>5, <3>1, FS_EmptySet
      <3>2. CASE items # rows
        <4>1. Cardinality(items) >= PageSize
          BY <1>0, <1>2, <3>2, LatestAreMany
        <4>2. Cardinality({}) = 0
          BY FS_EmptySet
        <4> QED BY <1>0, <4>1, <4>2
      <3> QED BY <3>1, <3>2
    <2>2. items \in SUBSET Present
      BY <1>2
    <2>3. last \in items /\ \A j \in items : j = last \/ Before(j, last)
      BY <2>1, <2>2, LastIsLast
    <2>4. last \in Present /\ last \in S /\ last \in rows
      BY <1>2, <2>3
    <2>5. page.next = Cursor(last) /\ Cursor(last) \in Cursors /\ Cursor(last) # NoCursor
      BY <1>1, <1>5, <2>4, PresentRecords
    <2>6. \A i \in Present : IsBelow(i, page.next) <=> Before(last, i)
      BY <2>5 DEF IsBelow, Before
    <2>7. ASSUME NEW i \in S, i \notin items PROVE Before(last, i)
      <3>1. CASE i \in rows
        BY <1>0, <1>2, <2>3, <3>1, <2>7, LatestAreFirst
      <3>2. CASE i \notin rows
        BY <2>4, <3>2, SelectedAreFirst
      <3> QED BY <3>1, <3>2
    <2>8. ASSUME NEW i \in items PROVE ~ Before(last, i)
      BY <2>2, <2>3, <2>4, ListOrder
    <2>9. \A i \in S : i \in page.items \/ IsBelow(i, page.next)
      BY <1>1, <2>6, <2>7
    <2>10. \A i \in page.items : ~ IsBelow(i, page.next)
      BY <1>1, <2>2, <2>6, <2>8
    <2> QED BY <1>1, <1>2, <2>4, <2>5, <2>9, <2>10
  <1> QED BY <1>4, <1>5

-----------------------------------------------------------------------------
\* Actions

\* Ids are used once, and a record stays as it is until it goes.
RecordsKept ==
  \A i \in RecordIds : records[i] # NoRecord =>
    /\ records'[i] # NoRecord
    /\ records'[i] \in Record => records[i] \in Record /\ records'[i] = records[i]

\* Whatever is written and removed, a list that was whole is.
LEMMA ListsStayWhole ==
  ASSUME RecordsKept, NEW list, NEW q, ListIsWhole(list, q),
         list.there \subseteq Written, \A n \in DOMAIN list.pages : list.pages[n] \subseteq Written
  PROVE  ListIsWhole(list, q)'
  <1>1. \A i \in Written : i \in Present' =>
          /\ i \in Present
          /\ records'[i] = records[i]
    BY DEF RecordsKept, Written, Present
  <1>2. \A cursor : \A i \in Written : i \in Present' => (IsBelow(i, cursor)' <=> IsBelow(i, cursor))
    BY <1>1 DEF IsBelow, Below
  <1>3. \A i \in Written : i \in Present' => (Matches(i, q)' <=> Matches(i, q))
    BY <1>1 DEF Matches, Within
  <1> QED BY <1>1, <1>2, <1>3 DEF ListIsWhole

\* What is below a cursor that is itself below another is below the other.
LEMMA BelowIsTransitive ==
  ASSUME RecordsFit, NEW i \in Present, NEW m \in Present, NEW cursor \in Cursors,
         IsBelow(i, Cursor(m)), IsBelow(m, cursor)
  PROVE  IsBelow(i, cursor)
  <1>1. cursor.at \in Int /\ cursor.id \in Nat
    BY FootprintAssumption DEF Cursors
  <1>2. /\ records[i].at \in Int /\ records[m].at \in Int /\ i \in Nat /\ m \in Nat
        /\ Cursor(m).at = records[m].at /\ Cursor(m).id = m
    BY PresentRecords
  <1> QED BY <1>1, <1>2 DEF IsBelow, Below

\* A list with an answer has the type of a list.
LEMMA ListsWithAnswersFit ==
  ASSUME NEW list \in ListContents, NEW c \in ListCalls,
         list.there \subseteq Written, \A n \in DOMAIN list.pages : list.pages[n] \subseteq Written,
         c.there \subseteq Written, c.page.items \subseteq Written
  PROVE  /\ ListWith(list, c) \in ListContents
         /\ ListWith(list, c).there \subseteq Written
         /\ \A n \in DOMAIN ListWith(list, c).pages : ListWith(list, c).pages[n] \subseteq Written
  <1> DEFINE k == ListWith(list, c)
  <1> DEFINE pages == IF c.extends THEN Append(list.pages, c.page.items) ELSE <<c.page.items>>
  <1>1. /\ c.page.items \in SUBSET RecordIds /\ c.page.next \in Cursors \cup {NoCursor}
        /\ c.there \in SUBSET RecordIds /\ c.extends \in BOOLEAN
    BY DEF ListCalls, ListPages
  <1>2. list.pages \in Seq(SUBSET RecordIds) /\ list.there \in SUBSET RecordIds /\ list.read \in SUBSET RecordIds
    BY DEF ListContents
  <1>3. /\ k = [pages |-> k.pages, next |-> k.next, there |-> k.there, read |-> k.read]
        /\ k.pages = pages /\ k.next = c.page.next
        /\ k.there = (IF c.cursor = NoCursor THEN c.there ELSE list.there)
        /\ k.read = c.page.items \cup (IF c.cursor = NoCursor THEN {} ELSE list.read)
    BY DEF ListWith
  <1>4. /\ pages \in Seq(SUBSET RecordIds)
        /\ \A n \in DOMAIN pages : pages[n] \subseteq Written
    <2>1. CASE c.extends
      <3>1. pages = Append(list.pages, c.page.items)
        BY <2>1
      <3>2. pages \in Seq(SUBSET RecordIds)
        BY <1>1, <1>2, <3>1
      <3>3. \A n \in DOMAIN pages : pages[n] = c.page.items \/ (n \in DOMAIN list.pages /\ pages[n] = list.pages[n])
        BY <1>1, <1>2, <3>1
      <3> QED BY <3>2, <3>3
    <2>2. CASE ~ c.extends
      <3>1. pages = <<c.page.items>>
        BY <2>2
      <3>2. \A x \in SUBSET RecordIds :
              <<x>> \in Seq(SUBSET RecordIds) /\ DOMAIN <<x>> = {1} /\ <<x>>[1] = x
        OBVIOUS
      <3>3. /\ pages \in Seq(SUBSET RecordIds) /\ DOMAIN pages = {1}
            /\ pages[1] = c.page.items
        BY <1>1, <3>1, <3>2
      <3> QED BY <3>3
    <2> QED BY <2>1, <2>2
  <1> HIDE DEF k, pages
  <1>5. k \in ListContents
    BY <1>1, <1>2, <1>3, <1>4 DEF ListContents
  <1>6. k.there \subseteq Written /\ \A n \in DOMAIN k.pages : k.pages[n] \subseteq Written
    BY <1>3, <1>4
  <1> QED BY <1>5, <1>6 DEF k

\* The list that an answer makes is whole when it arrives: the page goes on
\* where the list ends, or begins it.
LEMMA AnswersMakeWholeLists ==
  ASSUME RecordsFit, NEW q, NEW list \in ListContents, ListIsWhole(list, q),
         NEW c \in ListCalls, c.query = q,
         c.cursor = NoCursor => ~ c.extends,
         c.cursor # NoCursor => c.cursor = list.next,
         c.page = PageAfter(q, c.cursor), c.there = {i \in Present : Matches(i, q)}
  PROVE  ListIsWhole(ListWith(list, c), q)
  <1> DEFINE k == ListWith(list, c)
  <1> DEFINE S == Remaining(q, c.cursor)
  <1> DEFINE page == c.page
  <1>1. /\ S \in SUBSET Present
        /\ \A i \in Present : i \in S <=> Matches(i, q) /\ (c.cursor = NoCursor \/ IsBelow(i, c.cursor))
    BY DEF Remaining, Behind, IsBelow
  <1>2. page = Page(Selected(S))
    BY DEF PageAfter
  <1>3. /\ page.items \subseteq S /\ page.next \in Cursors \cup {NoCursor}
        /\ \A i \in S : i \in page.items \/ IsBelow(i, page.next)
        /\ \A i \in page.items : ~ IsBelow(i, page.next)
        /\ page.next # NoCursor => \E m \in S : page.next = Cursor(m)
    <2> HIDE DEF S, page
    <2> QED BY <1>1, <1>2, PagesLead
  <1>4. /\ k.next = page.next
        /\ k.pages = IF c.extends THEN Append(list.pages, page.items) ELSE <<page.items>>
        /\ k.there = (IF c.cursor = NoCursor THEN c.there ELSE list.there)
        /\ k.read = page.items \cup (IF c.cursor = NoCursor THEN {} ELSE list.read)
    BY DEF ListWith
  <1>5. c.cursor \in Cursors \cup {NoCursor} /\ list.pages \in Seq(SUBSET RecordIds) /\ c.extends \in BOOLEAN
    BY DEF ListCalls, ListContents
  <1> HIDE DEF k, S, page
  <1>6. ASSUME NEW i \in k.there \cap Present
        PROVE  Matches(i, q) /\ (i \in k.read \/ IsBelow(i, k.next))
    <2>1. CASE c.cursor = NoCursor
      BY <1>1, <1>3, <1>4, <2>1
    <2>2. CASE c.cursor # NoCursor
      <3>1. Matches(i, q) /\ (i \in list.read \/ IsBelow(i, c.cursor))
        BY <1>4, <2>2 DEF ListIsWhole
      <3> QED BY <1>1, <1>3, <1>4, <2>2, <3>1
    <2> QED BY <2>1, <2>2
  <1>7. ASSUME c.extends, NEW n \in DOMAIN list.pages, NEW i \in list.pages[n] \cap Present
        PROVE  Matches(i, q) /\ ~ IsBelow(i, c.cursor) /\ ~ IsBelow(i, k.next)
    <2>1. c.cursor # NoCursor /\ c.cursor \in Cursors
      BY <1>5, <1>7
    <2>2. Matches(i, q) /\ ~ IsBelow(i, c.cursor)
      BY <2>1 DEF ListIsWhole
    <2>3. CASE k.next = NoCursor
      BY <2>2, <2>3 DEF IsBelow
    <2>4. CASE k.next # NoCursor
      <3>1. PICK m \in S : k.next = Cursor(m)
        BY <1>3, <1>4, <2>4
      <3>2. m \in Present /\ IsBelow(m, c.cursor)
        BY <1>1, <2>1
      <3> QED BY <2>1, <2>2, <3>1, <3>2, BelowIsTransitive
    <2> QED BY <2>3, <2>4
  <1>8. \A i \in page.items : i \in Present /\ Matches(i, q) /\ ~ IsBelow(i, k.next)
    BY <1>1, <1>3, <1>4
  <1>9. CASE c.extends
    <2>1. k.pages = Append(list.pages, page.items)
      BY <1>4, <1>9
    <2>2. /\ DOMAIN k.pages = DOMAIN list.pages \cup {Len(list.pages) + 1}
          /\ \A n \in DOMAIN list.pages : n # Len(list.pages) + 1 /\ k.pages[n] = list.pages[n]
          /\ k.pages[Len(list.pages) + 1] = page.items
      BY <1>3, <1>5, <2>1
    <2>3. \A n \in DOMAIN k.pages : \A i \in k.pages[n] \cap Present :
            Matches(i, q) /\ ~ IsBelow(i, k.next)
      BY <1>7, <1>8, <1>9, <2>2
    <2>4. \A n \in DOMAIN list.pages : list.pages[n] \cap page.items = {}
      <3> SUFFICES ASSUME NEW n \in DOMAIN list.pages, NEW i \in list.pages[n] \cap page.items
                   PROVE  FALSE
        OBVIOUS
      <3>1. i \in Present /\ IsBelow(i, c.cursor)
        BY <1>1, <1>3, <1>9
      <3> QED BY <1>7, <1>9, <3>1
    <2>5. \A m, n \in DOMAIN k.pages : m # n => k.pages[m] \cap k.pages[n] = {}
      <3>1. \A m, n \in DOMAIN list.pages : m # n => list.pages[m] \cap list.pages[n] = {}
        BY DEF ListIsWhole
      <3> QED BY <2>2, <2>4, <3>1
    <2> QED BY <1>6, <2>3, <2>5 DEF k, ListIsWhole
  <1>10. CASE ~ c.extends
    <2>1. k.pages = <<page.items>>
      BY <1>4, <1>10
    <2>2. DOMAIN k.pages = {1} /\ k.pages[1] = page.items
      BY <2>1
    <2>3. \A n \in DOMAIN k.pages : \A i \in k.pages[n] \cap Present :
            Matches(i, q) /\ ~ IsBelow(i, k.next)
      BY <1>8, <2>2
    <2>4. \A m, n \in DOMAIN k.pages : m # n => k.pages[m] \cap k.pages[n] = {}
      BY <2>2
    <2> QED BY <1>6, <2>3, <2>4 DEF k, ListIsWhole
  <1> QED BY <1>9, <1>10

\* Nothing was written and nothing read at first.
LEMMA PagesInitially == FootprintInit => PagesInv
  <1> SUFFICES ASSUME FootprintInit PROVE PagesInv
    OBVIOUS
  <1>1. /\ records = [i \in RecordIds |-> NoRecord] /\ query \in Queries
        /\ lists = [q \in Queries |-> NoItems] /\ calls = {Call(query, NoCursor, FALSE)}
    BY DEF FootprintInit
  <1>2. Present = {}
    BY <1>1, FootprintAssumption DEF Present
  <1>3. RecordsFit
    BY <1>1, <1>2, FS_EmptySet DEF RecordsFit
  <1>4. <<>> \in Seq(SUBSET RecordIds) /\ DOMAIN <<>> = {}
    OBVIOUS
  <1>5. NoItems \in ListContents
    BY <1>4 DEF NoItems, ListContents
  <1>6. Call(query, NoCursor, FALSE) \in ListCalls
    BY <1>1 DEF Call, ListCalls, ListPages
  <1>7. ListsFit
    BY <1>1, <1>4, <1>5, <1>6 DEF ListsFit, NoItems, Call
  <1>8. CurrentCallFits /\ AnswersFit
    BY <1>1 DEF CurrentCallFits, AnswersFit, Call
  <1>9. ListsAreWhole
    BY <1>1, <1>4 DEF ListsAreWhole, ListIsWhole, NoItems
  <1> QED BY <1>3, <1>7, <1>8, <1>9 DEF PagesInv

\* Records are written under new ids and removed for good.
LEMMA RecordsMove ==
  ASSUME RecordsFit,
         \/ \E i \in RecordIds, r \in Record : WriteRecord(i, r)
         \/ \E p \in FootprintProjects : ForgetProject(p)
         \/ UNCHANGED records
  PROVE  RecordsFit' /\ RecordsKept
  <1>0. NoRecord \notin Record /\ Gone \notin Record /\ NoRecord # Gone
    BY FootprintAssumption
  <1>1. ASSUME NEW i \in RecordIds, NEW r \in Record, WriteRecord(i, r)
        PROVE  RecordsFit' /\ RecordsKept
    <2>1. records[i] = NoRecord /\ records' = [records EXCEPT ![i] = r]
      BY <1>1 DEF WriteRecord
    <2>2. records' \in [RecordIds -> Record \cup {NoRecord, Gone}]
      BY <2>1 DEF RecordsFit
    <2>3. /\ \A j \in RecordIds : j # i => records'[j] = records[j]
          /\ records'[i] = r
      BY <2>1 DEF RecordsFit
    <2>4. Present' \subseteq Present \cup {i}
      BY <2>3 DEF Present
    <2>5. IsFiniteSet(Present')
      BY <2>4, FS_AddElement, FS_Subset DEF RecordsFit
    <2>6. RecordsKept
      BY <2>1, <2>3 DEF RecordsKept
    <2> QED BY <2>2, <2>5, <2>6 DEF RecordsFit
  <1>2. ASSUME NEW p \in FootprintProjects, ForgetProject(p)
        PROVE  RecordsFit' /\ RecordsKept
    <2>1. records' = [i \in RecordIds |->
             IF i \in Present /\ records[i].project = p THEN Gone ELSE records[i]]
      BY <1>2 DEF ForgetProject
    <2>2. \A i \in RecordIds : records'[i] = Gone \/ records'[i] = records[i]
      BY <2>1
    <2>3. records' \in [RecordIds -> Record \cup {NoRecord, Gone}]
      BY <2>1 DEF RecordsFit
    <2>4. Present' \subseteq Present
      BY <1>0, <2>2 DEF Present
    <2>5. IsFiniteSet(Present')
      BY <2>4, FS_Subset DEF RecordsFit
    <2>6. RecordsKept
      BY <1>0, <2>2 DEF RecordsKept
    <2> QED BY <2>3, <2>5, <2>6 DEF RecordsFit
  <1>3. CASE UNCHANGED records
    BY <1>3 DEF RecordsFit, RecordsKept, Present
  <1> QED BY <1>1, <1>2, <1>3

\* When records alone change, the lists stay as whole as they were.
LEMMA RecordsKeepLists ==
  ASSUME PagesInv, RecordsKept, RecordsFit', UNCHANGED <<query, lists, calls>>
  PROVE  PagesInv'
  <1>1. Written \subseteq Written'
    BY DEF Written, RecordsKept
  <1>2. ListsFit'
    BY <1>1 DEF PagesInv, ListsFit
  <1>3. CurrentCallFits'
    BY DEF PagesInv, CurrentCallFits
  <1>4. ListsAreWhole'
    <2> SUFFICES ASSUME NEW q \in Queries PROVE ListIsWhole(lists[q], q)'
      BY DEF ListsAreWhole
    <2>1. PICK list : list = lists[q]
      OBVIOUS
    <2>2. ListIsWhole(list, q)'
      BY <2>1, ListsStayWhole DEF PagesInv, ListsFit, ListsAreWhole
    <2>3. lists[q]' = list
      BY <2>1
    <2> QED BY <2>2, <2>3 DEF ListIsWhole
  <1>5. AnswersFit'
    <2> SUFFICES ASSUME NEW c \in calls, c.current, c.answered
                 PROVE  ListIsWhole(ListWith(lists[query], c), query)'
      BY DEF AnswersFit
    <2>1. PICK list : list = ListWith(lists[query], c)
      OBVIOUS
    <2>2. PICK q : q = query
      OBVIOUS
    <2>3. /\ list.there \subseteq Written
          /\ \A n \in DOMAIN list.pages : list.pages[n] \subseteq Written
      BY <2>1, ListsWithAnswersFit DEF PagesInv, ListsFit
    <2>4. ListIsWhole(list, q)'
      BY <2>1, <2>2, <2>3, ListsStayWhole DEF PagesInv, AnswersFit
    <2>5. query' = q /\ ListWith(lists[query], c)' = list
      BY <2>1, <2>2 DEF ListWith
    <2> QED BY <2>4, <2>5 DEF ListIsWhole
  <1> QED BY <1>2, <1>3, <1>4, <1>5 DEF PagesInv

\* While the records stay, so do the parts of the invariant that are about them.
LEMMA SameRecords ==
  ASSUME UNCHANGED records
  PROVE  /\ Present' = Present /\ Written' = Written
         /\ RecordsFit => RecordsFit'
         /\ \A list, q : ListIsWhole(list, q) => ListIsWhole(list, q)'
  <1>1. Present' = Present /\ Written' = Written
    BY DEF Present, Written
  <1>2. RecordsFit => RecordsFit'
    BY <1>1 DEF RecordsFit
  <1>3. ASSUME NEW list, NEW q, ListIsWhole(list, q) PROVE ListIsWhole(list, q)'
    BY <1>1, <1>3 DEF ListIsWhole, IsBelow, Below, Matches, Within
  <1> QED BY <1>1, <1>2, <1>3

\* When calls alone change, the lists stay whole.
LEMMA CallsKeepLists ==
  ASSUME PagesInv, UNCHANGED <<records, lists>>, query' \in Queries,
         calls' \subseteq ListCalls,
         \A c \in calls' : c.there \subseteq Written /\ c.page.items \subseteq Written,
         CurrentCallFits',
         \A c \in calls' : c.current /\ c.answered =>
           ListIsWhole(ListWith(lists[query'], c), query')
  PROVE  PagesInv'
  <1>1. RecordsFit'
    BY SameRecords DEF PagesInv
  <1>2. ListsFit'
    BY SameRecords DEF PagesInv, ListsFit
  <1>3. ListsAreWhole'
    <2> SUFFICES ASSUME NEW q \in Queries PROVE ListIsWhole(lists[q], q)'
      BY DEF ListsAreWhole
    <2>1. PICK list : list = lists[q]
      OBVIOUS
    <2>2. ListIsWhole(list, q)'
      BY <2>1, SameRecords DEF PagesInv, ListsAreWhole
    <2>3. lists[q]' = list
      BY <2>1
    <2> QED BY <2>2, <2>3 DEF ListIsWhole
  <1>4. AnswersFit'
    <2> SUFFICES ASSUME NEW c \in calls', c.current, c.answered
                 PROVE  ListIsWhole(ListWith(lists[query], c), query)'
      BY DEF AnswersFit
    <2>1. PICK list : list = ListWith(lists[query'], c)
      OBVIOUS
    <2>2. PICK q : q = query'
      OBVIOUS
    <2>3. ListIsWhole(list, q)'
      BY <2>1, <2>2, SameRecords
    <2>4. query' = q /\ ListWith(lists[query], c)' = list
      BY <2>1, <2>2 DEF ListWith
    <2> QED BY <2>3, <2>4 DEF ListIsWhole
  <1> QED BY <1>1, <1>2, <1>3, <1>4 DEF PagesInv

\* A call that begins has its type and nothing to show.
LEMMA CallsBegin ==
  ASSUME NEW q \in Queries, NEW cursor \in Cursors \cup {NoCursor}, NEW extends \in BOOLEAN,
         NEW c, c = Call(q, cursor, extends)
  PROVE  /\ c \in ListCalls /\ c.there = {} /\ c.page.items = {}
         /\ c.current /\ ~ c.answered /\ c.query = q /\ c.cursor = cursor /\ c.extends = extends
  BY DEF Call, ListCalls, ListPages

\* Asking anew makes the calls under way void.
LEMMA AskingKeepsPages ==
  ASSUME PagesInv, NEW q \in Queries, AskAnew(q)
  PROVE  PagesInv'
  <1> DEFINE new == Call(q, NoCursor, FALSE)
  <1> DEFINE old == {[c EXCEPT !.current = FALSE] : c \in calls}
  <1>1. /\ new \in ListCalls /\ new.there = {} /\ new.page.items = {}
        /\ new.current /\ ~ new.answered /\ new.query = q /\ new.cursor = NoCursor /\ ~ new.extends
    BY DEF Call, ListCalls, ListPages
  <1>2. query' = q /\ calls' = old \cup {new} /\ UNCHANGED <<records, lists>>
    BY DEF AskAnew
  <1>3. ASSUME NEW d \in old
        PROVE  /\ d \in ListCalls /\ ~ d.current
               /\ d.there \subseteq Written /\ d.page.items \subseteq Written
    <2>1. PICK c \in calls : d = [c EXCEPT !.current = FALSE]
      OBVIOUS
    <2>2. c \in ListCalls /\ c.there \subseteq Written /\ c.page.items \subseteq Written
      BY DEF PagesInv, ListsFit
    <2>3. d \in ListCalls /\ ~ d.current /\ d.there = c.there /\ d.page = c.page
      BY <2>1, <2>2 DEF ListCalls
    <2> QED BY <2>2, <2>3
  <1> HIDE DEF new, old
  <1>4. calls' \subseteq ListCalls
    BY <1>1, <1>2, <1>3
  <1>5. \A c \in calls' : c.there \subseteq Written /\ c.page.items \subseteq Written
    BY <1>1, <1>2, <1>3
  <1>6. \A c \in calls' : c.current => c = new
    BY <1>2, <1>3
  <1>7. CurrentCallFits'
    BY <1>1, <1>2, <1>6 DEF CurrentCallFits
  <1>8. \A c \in calls' : ~ (c.current /\ c.answered)
    BY <1>1, <1>6
  <1> QED BY <1>2, <1>4, <1>5, <1>7, <1>8, CallsKeepLists

\* Reading on goes on where the list ends.
LEMMA ReadingOnKeepsPages ==
  ASSUME PagesInv, ReadOn
  PROVE  PagesInv'
  <1> DEFINE list == lists[query]
  <1> DEFINE new == Call(query, list.next, Len(list.pages) < MaxPages)
  <1>1. list \in ListContents /\ query \in Queries
    BY DEF PagesInv, ListsFit
  <1>2. list.next \in Cursors \cup {NoCursor}
    BY <1>1 DEF ListContents
  <1>3. (Len(list.pages) < MaxPages) \in BOOLEAN
    OBVIOUS
  <1>4. /\ new \in ListCalls /\ new.there = {} /\ new.page.items = {}
        /\ new.current /\ ~ new.answered /\ new.query = query /\ new.cursor = list.next
    <2>1. PICK extends \in BOOLEAN : extends = (Len(list.pages) < MaxPages)
      BY <1>3
    <2>2. PICK cursor \in Cursors \cup {NoCursor} : cursor = list.next
      BY <1>2
    <2>3. new = Call(query, cursor, extends)
      BY <2>1, <2>2
    <2> HIDE DEF new
    <2> QED BY <1>1, <2>2, <2>3, CallsBegin
  <1>5. /\ \A c \in calls : ~ c.current
        /\ list.next # NoCursor /\ calls' = calls \cup {new}
        /\ UNCHANGED <<records, query, lists>>
    BY DEF ReadOn
  <1>6. /\ calls \subseteq ListCalls
        /\ \A c \in calls : c.there \subseteq Written /\ c.page.items \subseteq Written
    BY DEF PagesInv, ListsFit
  <1> HIDE DEF new
  <1>7. calls' \subseteq ListCalls
    BY <1>4, <1>5, <1>6
  <1>8. \A c \in calls' : c.there \subseteq Written /\ c.page.items \subseteq Written
    BY <1>4, <1>5, <1>6
  <1>9. \A c \in calls' : c.current => c = new
    BY <1>5
  <1>10. CurrentCallFits'
    BY <1>4, <1>5, <1>9 DEF CurrentCallFits
  <1>11. \A c \in calls' : ~ (c.current /\ c.answered)
    BY <1>4, <1>9
  <1> QED BY <1>1, <1>5, <1>7, <1>8, <1>10, <1>11, CallsKeepLists

\* A call that fails leaves everything else.
LEMMA FailuresKeepPages ==
  ASSUME PagesInv, NEW c \in calls, FailPage(c)
  PROVE  PagesInv'
  <1>1. calls' \subseteq calls /\ UNCHANGED <<records, query, lists>>
    BY DEF FailPage
  <1>2. query' \in Queries /\ calls' \subseteq ListCalls
    BY <1>1 DEF PagesInv, ListsFit
  <1>3. \A d \in calls' : d.there \subseteq Written /\ d.page.items \subseteq Written
    BY <1>1 DEF PagesInv, ListsFit
  <1>4. CurrentCallFits'
    BY <1>1 DEF PagesInv, CurrentCallFits
  <1>5. \A d \in calls' : d.current /\ d.answered =>
          ListIsWhole(ListWith(lists[query'], d), query')
    BY <1>1 DEF PagesInv, AnswersFit
  <1> QED BY <1>1, <1>2, <1>3, <1>4, <1>5, CallsKeepLists

\* An answer fits the list that is shown if its call is current.
LEMMA AnswersKeepPages ==
  ASSUME PagesInv, NEW c \in calls, AnswerPage(c)
  PROVE  PagesInv'
  <1> DEFINE d == [c EXCEPT !.answered = TRUE, !.page = PageAfter(c.query, c.cursor),
                            !.there = {i \in Present : Matches(i, c.query)}]
  <1>1. calls' = (calls \ {c}) \cup {d} /\ UNCHANGED <<records, query, lists>>
    BY DEF AnswerPage
  <1>2. /\ c \in ListCalls /\ query \in Queries /\ calls \subseteq ListCalls
        /\ RecordsFit
    BY DEF PagesInv, ListsFit
  <1>3. Remaining(c.query, c.cursor) \in SUBSET Present
    BY DEF Remaining
  <1>4. /\ PageAfter(c.query, c.cursor) \in ListPages
        /\ PageAfter(c.query, c.cursor).items \subseteq Present
    <2>1. PICK page : page = Page(Selected(Remaining(c.query, c.cursor)))
      OBVIOUS
    <2>2. PICK S \in SUBSET Present : S = Remaining(c.query, c.cursor)
      BY <1>3
    <2>3. /\ page = [items |-> page.items, next |-> page.next]
          /\ page.items \subseteq S /\ page.next \in Cursors \cup {NoCursor}
      BY <1>2, <2>1, <2>2, PagesLead
    <2>4. page \in ListPages
      BY <2>3 DEF ListPages, Present
    <2> QED BY <2>1, <2>3, <2>4 DEF PageAfter
  <1>5. Present \subseteq Written /\ Present \subseteq RecordIds
    BY FootprintAssumption DEF Present, Written
  <1>6. /\ d \in ListCalls /\ d.current = c.current /\ d.query = c.query /\ d.cursor = c.cursor
        /\ d.extends = c.extends /\ d.answered
        /\ d.page = PageAfter(c.query, c.cursor)
        /\ d.there = {i \in Present : Matches(i, c.query)}
    BY <1>2, <1>4, <1>5 DEF ListCalls
  <1>7. d.there \subseteq Written /\ d.page.items \subseteq Written
    BY <1>4, <1>5, <1>6
  <1> HIDE DEF d
  <1>8. query' \in Queries /\ calls' \subseteq ListCalls
    BY <1>1, <1>2, <1>6
  <1>9. \A e \in calls' : e.there \subseteq Written /\ e.page.items \subseteq Written
    BY <1>1, <1>7 DEF PagesInv, ListsFit
  <1>10. CurrentCallFits'
    <2>1. /\ \A e, f \in calls : e.current /\ f.current => e = f
          /\ \A e \in calls : e.current =>
               /\ e.query = query
               /\ e.cursor = NoCursor => ~ e.extends
               /\ e.cursor # NoCursor => e.cursor = lists[query].next
      BY DEF PagesInv, CurrentCallFits
    <2>2. \A e, f \in calls' : e.current /\ f.current => e = f
      BY <1>1, <1>6, <2>1
    <2>3. \A e \in calls' : e.current =>
            /\ e.query = query
            /\ e.cursor = NoCursor => ~ e.extends
            /\ e.cursor # NoCursor => e.cursor = lists[query].next
      BY <1>1, <1>6, <2>1
    <2> QED BY <1>1, <2>2, <2>3 DEF CurrentCallFits
  <1>11. ASSUME NEW e \in calls', e.current, e.answered
         PROVE  ListIsWhole(ListWith(lists[query'], e), query')
    <2>1. CASE e \in calls
      <3>1. ListIsWhole(ListWith(lists[query], e), query)
        BY <1>11, <2>1 DEF PagesInv, AnswersFit
      <3>2. query' = query
        BY <1>1
      <3> QED BY <3>1, <3>2
    <2>2. CASE e = d
      <3>1. c.current
        BY <1>6, <1>11, <2>2
      <3>2. /\ c.query = query /\ (c.cursor = NoCursor => ~ c.extends)
            /\ (c.cursor # NoCursor => c.cursor = lists[query].next)
        BY <3>1 DEF PagesInv, CurrentCallFits
      <3>3. lists[query] \in ListContents /\ ListIsWhole(lists[query], query)
        BY <1>2 DEF PagesInv, ListsFit, ListsAreWhole
      <3>4. PICK list : list = lists[query]
        OBVIOUS
      <3>5. PICK q : q = query
        OBVIOUS
      <3>6. ListIsWhole(ListWith(list, d), q)
        BY <1>2, <1>6, <3>2, <3>3, <3>4, <3>5, AnswersMakeWholeLists
      <3> QED BY <1>1, <2>2, <3>4, <3>5, <3>6
    <2> QED BY <1>1, <2>1, <2>2
  <1> QED BY <1>1, <1>8, <1>9, <1>10, <1>11, CallsKeepLists

\* The list that is shown takes the answer of the current call, and no other.
LEMMA ShowingKeepsPages ==
  ASSUME PagesInv, NEW c \in calls, ShowPage(c)
  PROVE  PagesInv'
  <1>1. /\ c.answered /\ calls' = calls \ {c} /\ UNCHANGED <<records, query>>
        /\ lists' = IF Accepted(c) THEN [lists EXCEPT ![query] = ListWith(@, c)] ELSE lists
    BY DEF ShowPage
  <1>2. /\ query \in Queries /\ lists \in [Queries -> ListContents] /\ calls \subseteq ListCalls
        /\ \A q \in Queries :
             /\ lists[q].there \subseteq Written
             /\ \A n \in DOMAIN lists[q].pages : lists[q].pages[n] \subseteq Written
        /\ \A d \in calls : d.there \subseteq Written /\ d.page.items \subseteq Written
    BY DEF PagesInv, ListsFit
  <1>3. CASE ~ c.current
    <2>1. UNCHANGED lists /\ query' \in Queries /\ calls' \subseteq ListCalls
      BY <1>1, <1>2, <1>3 DEF Accepted
    <2>2. \A d \in calls' : d.there \subseteq Written /\ d.page.items \subseteq Written
      BY <1>1, <1>2
    <2>3. CurrentCallFits'
      BY <1>1, <2>1 DEF PagesInv, CurrentCallFits
    <2>4. \A d \in calls' : d.current /\ d.answered =>
            ListIsWhole(ListWith(lists[query'], d), query')
      BY <1>1 DEF PagesInv, AnswersFit
    <2> QED BY <1>1, <2>1, <2>2, <2>3, <2>4, CallsKeepLists
  <1>4. CASE c.current
    <2> DEFINE new == ListWith(lists[query], c)
    <2>1. /\ new \in ListContents /\ new.there \subseteq Written
          /\ \A n \in DOMAIN new.pages : new.pages[n] \subseteq Written
      <3>1. PICK list \in ListContents : list = lists[query]
        BY <1>2
      <3>2. /\ list.there \subseteq Written
            /\ \A n \in DOMAIN list.pages : list.pages[n] \subseteq Written
            /\ c \in ListCalls /\ c.there \subseteq Written /\ c.page.items \subseteq Written
        BY <1>2, <3>1
      <3> QED BY <3>1, <3>2, ListsWithAnswersFit
    <2>2. ListIsWhole(new, query)
      BY <1>1, <1>4 DEF PagesInv, AnswersFit
    <2> HIDE DEF new
    <2>3. /\ lists' \in [Queries -> ListContents]
          /\ lists'[query] = new /\ \A q \in Queries : q # query => lists'[q] = lists[q]
      BY <1>1, <1>2, <1>4, <2>1 DEF Accepted, new
    <2>4. \A d \in calls' : ~ d.current
      BY <1>1, <1>4 DEF PagesInv, CurrentCallFits
    <2>5. RecordsFit' /\ Written' = Written
      BY <1>1, SameRecords DEF PagesInv
    <2>6. ListsFit'
      <3>1. \A q \in Queries :
              /\ lists'[q].there \subseteq Written
              /\ \A n \in DOMAIN lists'[q].pages : lists'[q].pages[n] \subseteq Written
        BY <1>2, <2>1, <2>3
      <3> QED BY <1>1, <1>2, <2>3, <2>5, <3>1 DEF ListsFit
    <2>7. CurrentCallFits' /\ AnswersFit'
      BY <2>4 DEF CurrentCallFits, AnswersFit
    <2>8. ListsAreWhole'
      <3> SUFFICES ASSUME NEW q \in Queries PROVE ListIsWhole(lists[q], q)'
        BY DEF ListsAreWhole
      <3>1. PICK list : list = lists'[q]
        OBVIOUS
      <3>2. ListIsWhole(list, q)
        BY <2>2, <2>3, <3>1 DEF PagesInv, ListsAreWhole
      <3>3. ListIsWhole(list, q)'
        BY <1>1, <3>2, SameRecords
      <3>4. lists[q]' = list
        BY <3>1
      <3> QED BY <3>3, <3>4 DEF ListIsWhole
    <2> QED BY <2>5, <2>6, <2>7, <2>8 DEF PagesInv
  <1> QED BY <1>3, <1>4

\* The invariant of the list holds in every reachable state.
THEOREM PagesInvariant == FootprintSpec => []PagesInv
  <1>1. FootprintInit => PagesInv
    BY PagesInitially
  <1>2. PagesInv /\ [FootprintNext]_footprintVars => PagesInv'
    <2> SUFFICES ASSUME PagesInv, [FootprintNext]_footprintVars PROVE PagesInv'
      OBVIOUS
    <2>0. RecordsFit
      BY DEF PagesInv
    <2>1. ASSUME NEW i \in RecordIds, NEW r \in Record, WriteRecord(i, r) PROVE PagesInv'
      <3>1. UNCHANGED <<query, lists, calls>>
        BY <2>1 DEF WriteRecord
      <3> QED BY <2>0, <2>1, <3>1, RecordsMove, RecordsKeepLists
    <2>2. ASSUME NEW p \in FootprintProjects, ForgetProject(p) PROVE PagesInv'
      <3>1. UNCHANGED <<query, lists, calls>>
        BY <2>2 DEF ForgetProject
      <3> QED BY <2>0, <2>2, <3>1, RecordsMove, RecordsKeepLists
    <2>3. ASSUME NEW q \in Queries, AskAnew(q) PROVE PagesInv'
      BY <2>3, AskingKeepsPages
    <2>4. CASE ReadOn
      BY <2>4, ReadingOnKeepsPages
    <2>5. ASSUME NEW c \in calls, AnswerPage(c) PROVE PagesInv'
      BY <2>5, AnswersKeepPages
    <2>6. ASSUME NEW c \in calls, FailPage(c) PROVE PagesInv'
      BY <2>6, FailuresKeepPages
    <2>7. ASSUME NEW c \in calls, ShowPage(c) PROVE PagesInv'
      BY <2>7, ShowingKeepsPages
    <2>8. CASE UNCHANGED footprintVars
      <3>1. UNCHANGED <<records, query, lists, calls>>
        BY <2>8 DEF footprintVars
      <3> QED BY <2>0, <3>1, RecordsMove, RecordsKeepLists
    <2> QED BY <2>1, <2>2, <2>3, <2>4, <2>5, <2>6, <2>7, <2>8 DEF FootprintNext
  <1> QED BY <1>1, <1>2, PTL DEF FootprintSpec

\* Whoever reads on misses nothing that has been there since the first page and
\* gets nothing twice, for any number of records, queries and pages.
THEOREM PagesAreComplete == FootprintSpec => []PagesMissNothing
  <1>1. PagesInv => PagesMissNothing
    BY DEF PagesInv, ListsAreWhole, ListIsWhole, IsBelow, PagesMissNothing
  <1> QED BY <1>1, PagesInvariant, PTL

-----------------------------------------------------------------------------
(* Buckets.                                                                  *)

\* Division with a remainder.
LEMMA QuotientAndRemainder ==
  ASSUME NEW t \in Int, NEW n \in Nat \ {0}
  PROVE  t \div n \in Int /\ t % n \in 0..(n - 1) /\ t = n * (t \div n) + (t % n)
  <1>1. t \div n \in Int
    OBVIOUS
  <1>2. t % n \in 0..(n - 1)
    OBVIOUS
  <1>3. t = n * (t \div n) + (t % n)
    OBVIOUS
  <1> QED BY <1>1, <1>2, <1>3

\* A quotient and a remainder are determined.
LEMMA RemainderIsUnique ==
  ASSUME NEW n \in Nat \ {0}, NEW q \in Int, NEW m \in 0..(n - 1)
  PROVE  (n * q + m) % n = m
  OBVIOUS

\* The greatest multiple that is not after a time.
LEMMA GreatestMultiple ==
  ASSUME NEW n \in Nat \ {0}, NEW q \in Int, NEW m \in 0..(n - 1), NEW k \in Int
  PROVE  n * k <= n * q + m <=> n * k <= n * q
  <1>1. CASE k <= q
    <2>1. PICK d \in Nat : q = k + d
      BY <1>1
    <2>2. n * q = n * k + n * d /\ n * d >= 0
      BY <2>1
    <2> QED BY <2>2
  <1>2. CASE k > q
    <2>1. PICK d \in Nat : k = q + 1 + d
      BY <1>2
    <2>2. n * k = n * q + n + n * d /\ n * d >= 0
      BY <2>1
    <2> QED BY <2>2
  <1> QED BY <1>1, <1>2

\* The remainder of the negative.
LEMMA NegativeRemainder ==
  ASSUME NEW t \in Int, NEW n \in Nat \ {0}
  PROVE  (- t) % n = IF t % n = 0 THEN 0 ELSE n - (t % n)
  <1>1. PICK q \in Int, m \in 0..(n - 1) : q = t \div n /\ m = t % n /\ t = n * q + m
    BY QuotientAndRemainder
  <1>2. - t = n * (- q) + (- m)
    BY <1>1
  <1>3. CASE m = 0
    <2>1. - q \in Int /\ 0 \in 0..(n - 1) /\ - t = n * (- q) + 0
      BY <1>2, <1>3
    <2>2. PICK k \in Int : k = - q
      BY <2>1
    <2>3. (n * k + 0) % n = 0
      BY <2>1, RemainderIsUnique
    <2>4. - t = n * k + 0
      BY <2>1, <2>2
    <2> QED BY <1>1, <1>3, <2>3, <2>4
  <1>4. CASE m # 0
    <2>1. PICK k \in Int : k = - q - 1
      OBVIOUS
    <2>2. n * k = - (n * q) - n
      BY <2>1
    <2>3. n - m \in 0..(n - 1)
      BY <1>4
    <2>4. - t = n * k + (n - m)
      BY <1>1, <2>2
    <2>5. (n * k + (n - m)) % n = n - m
      BY <2>3, RemainderIsUnique
    <2> QED BY <1>1, <1>4, <2>4, <2>5
  <1> QED BY <1>3, <1>4

\* A bucket begins at the greatest multiple of its span that is not after the
\* time, also before 1970, where the remainder of SQL is negative.
LEMMA BucketsBeginBefore ==
  ASSUME NEW t \in Int, NEW n \in Nat \ {0}
  PROVE  BucketOf(t, n) = t - (t % n)
  <1>1. t % n \in 0..(n - 1)
    BY QuotientAndRemainder
  <1>2. n % n = 0
    <2>1. (n * 1 + 0) % n = 0
      BY RemainderIsUnique
    <2>2. n * 1 + 0 = n
      OBVIOUS
    <2> QED BY <2>1, <2>2
  <1>3. (t % n) % n = t % n
    <2>1. PICK m \in 0..(n - 1) : m = t % n
      BY <1>1
    <2>2. (n * 0 + m) % n = m
      BY RemainderIsUnique
    <2>3. n * 0 + m = m
      BY <2>1
    <2> QED BY <2>1, <2>2, <2>3
  <1>4. CASE t >= 0
    <2>1. PICK m \in 0..(n - 1) : m = t % n
      BY <1>1
    <2>2. SqlRemainder(t, n) = m /\ m + n >= 0
      BY <1>4, <2>1 DEF SqlRemainder
    <2>3. (n * 1 + m) % n = m
      BY RemainderIsUnique
    <2>4. n * 1 + m = m + n
      OBVIOUS
    <2>5. (m + n) % n = m
      BY <2>3, <2>4
    <2> QED BY <2>1, <2>2, <2>5 DEF SqlRemainder, BucketOf
  <1>5. CASE t < 0
    <2>1. SqlRemainder(t, n) = - ((- t) % n)
      BY <1>5 DEF SqlRemainder
    <2>2. (- t) % n = IF t % n = 0 THEN 0 ELSE n - (t % n)
      BY NegativeRemainder
    <2>3. CASE t % n = 0
      <3>1. SqlRemainder(t, n) + n = n
        BY <2>1, <2>2, <2>3
      <3> QED BY <1>2, <2>3, <3>1 DEF SqlRemainder, BucketOf
    <2>4. CASE t % n # 0
      <3>1. SqlRemainder(t, n) + n = t % n
        BY <1>1, <2>1, <2>2, <2>4
      <3> QED BY <1>1, <1>3, <3>1 DEF SqlRemainder, BucketOf
    <2> QED BY <2>3, <2>4
  <1> QED BY <1>4, <1>5

\* A multiple of n.
Multiple(a, n) == \E k \in Int : a = n * k

\* A time is in the bucket that begins at b if b is where its bucket begins.
LEMMA BucketsAreBetween ==
  ASSUME NEW t \in Int, NEW n \in Nat \ {0}, NEW low \in Int, NEW high \in Int,
         Multiple(low, n), Multiple(high, n)
  PROVE  low <= BucketOf(t, n) /\ BucketOf(t, n) < high <=> low <= t /\ t < high
  <1>1. PICK q \in Int, m \in 0..(n - 1) : t = n * q + m /\ m = t % n
    BY QuotientAndRemainder
  <1>2. BucketOf(t, n) = n * q
    <2>1. BucketOf(t, n) = t - m
      BY <1>1, BucketsBeginBefore
    <2>2. t - m = n * q
      BY <1>1
    <2> QED BY <2>1, <2>2
  <1>3. PICK k \in Int : low = n * k
    BY DEF Multiple
  <1>4. PICK j \in Int : high = n * j
    BY DEF Multiple
  <1>5. n * k <= n * q + m <=> n * k <= n * q
    BY GreatestMultiple
  <1>6. n * j <= n * q + m <=> n * j <= n * q
    BY GreatestMultiple
  <1>7. n * q \in Int /\ n * k \in Int /\ n * j \in Int
    OBVIOUS
  <1> QED BY <1>1, <1>2, <1>3, <1>4, <1>5, <1>6, <1>7

\* The multiples around a range.
LEMMA FloorAndCeiling ==
  ASSUME NEW t \in Int, NEW n \in Nat \ {0}
  PROVE  /\ Floor(t, n) \in Int /\ Ceiling(t, n) \in Int
         /\ Multiple(Floor(t, n), n) /\ Multiple(Ceiling(t, n), n)
         /\ Floor(t, n) <= t /\ t <= Ceiling(t, n)
  <1>1. PICK q \in Int, m \in 0..(n - 1) : t = n * q + m /\ m = t % n /\ q = t \div n
    BY QuotientAndRemainder
  <1>2. Floor(t, n) = n * q
    BY <1>1 DEF Floor
  <1>3. Ceiling(t, n) = n * q + (IF m = 0 THEN 0 ELSE n)
    BY <1>1 DEF Ceiling
  <1>4. PICK k \in Int : k = q + 1 /\ n * k = n * q + n
    OBVIOUS
  <1>5. Multiple(n * q, n) /\ Multiple(n * k, n)
    BY DEF Multiple
  <1>6. n * q \in Int /\ n * k \in Int
    OBVIOUS
  <1> QED BY <1>1, <1>2, <1>3, <1>4, <1>5, <1>6

\* The parts of a range cover it, each time once, and begin and end with buckets
\* of their level.
InPart(w, t) == w[2] <= t /\ t < w[3]
InLeft(r, t) == r[1] <= t /\ t < r[2]

Tiles(parts, d) ==
  /\ parts.left \subseteq Int \X Int
  /\ parts.whole \subseteq Levels \X Int \X Int
  /\ \A w \in parts.whole : Multiple(w[2], Spans[w[1]]) /\ Multiple(w[3], Spans[w[1]])
  /\ \A t \in Int :
       /\ InLeft(d, t) <=> (\E w \in parts.whole : InPart(w, t)) \/ (\E r \in parts.left : InLeft(r, t))
       /\ \A w, v \in parts.whole : InPart(w, t) /\ InPart(v, t) => w = v
       /\ \A r, s \in parts.left : InLeft(r, t) /\ InLeft(s, t) => r = s
       /\ \A w \in parts.whole, r \in parts.left : ~ (InPart(w, t) /\ InLeft(r, t))

\* One level of the division keeps the tiles: a range is cut at the multiples in
\* it, or stays as it is.
LEMMA DividingKeepsTiles ==
  ASSUME NEW parts, NEW d, Tiles(parts, d), NEW l \in Levels
  PROVE  Tiles(Divided(parts, l), d)
  <1> DEFINE n == Spans[l]
  <1> DEFINE low(r) == Ceiling(r[1], n)
  <1> DEFINE high(r) == Floor(r[2], n)
  <1> DEFINE fits == {r \in parts.left : low(r) < high(r)}
  <1> DEFINE edges == {r \in {<<q[1], low(q)>> : q \in fits} \cup {<<high(q), q[2]>> : q \in fits} :
                         r[1] < r[2]}
  <1> DEFINE whole == parts.whole \cup {<<l, low(r), high(r)>> : r \in fits}
  <1> DEFINE left == (parts.left \ fits) \cup edges
  <1>1. Divided(parts, l) = [whole |-> whole, left |-> left]
    BY DEF Divided
  <1>2. n \in Nat \ {0}
    BY FootprintAssumption DEF Levels
  <1>3. ASSUME NEW r \in parts.left
        PROVE  /\ r \in Int \X Int /\ low(r) \in Int /\ high(r) \in Int
               /\ Multiple(low(r), n) /\ Multiple(high(r), n)
               /\ r[1] <= low(r) /\ high(r) <= r[2] /\ r[1] \in Int /\ r[2] \in Int
    <2>1. r \in Int \X Int /\ r[1] \in Int /\ r[2] \in Int
      BY DEF Tiles
    <2> QED BY <1>2, <2>1, FloorAndCeiling
  <1> HIDE DEF n, low, high
  \* What a new part is a part of.
  <1>4. ASSUME NEW s \in left
        PROVE  /\ s \in Int \X Int
               /\ \/ s \in parts.left \ fits
                  \/ \E r \in fits : s = <<r[1], low(r)>>
                  \/ \E r \in fits : s = <<high(r), r[2]>>
    BY <1>3
  <1>5. ASSUME NEW w \in whole
        PROVE  w \in parts.whole \/ \E r \in fits : w = <<l, low(r), high(r)>>
    OBVIOUS
  <1>6. /\ whole \subseteq Levels \X Int \X Int
        /\ \A w \in whole : Multiple(w[2], Spans[w[1]]) /\ Multiple(w[3], Spans[w[1]])
    <2> SUFFICES ASSUME NEW w \in whole
                 PROVE  /\ w \in Levels \X Int \X Int
                        /\ Multiple(w[2], Spans[w[1]]) /\ Multiple(w[3], Spans[w[1]])
      OBVIOUS
    <2>1. CASE w \in parts.whole
      BY <2>1 DEF Tiles
    <2>2. CASE \E r \in fits : w = <<l, low(r), high(r)>>
      <3>1. PICK r \in fits : w = <<l, low(r), high(r)>>
        BY <2>2
      <3>2. w[1] = l /\ w[2] = low(r) /\ w[3] = high(r)
        BY <3>1
      <3> QED BY <1>3, <3>1, <3>2 DEF n
    <2> QED BY <1>5, <2>1, <2>2
  \* A time that is in a new part is in what the part was cut from.
  <1>7. ASSUME NEW t \in Int, NEW s \in left, InLeft(s, t)
        PROVE  \E r \in parts.left :
                 /\ InLeft(r, t)
                 /\ \/ s = r /\ r \notin fits
                    \/ s = <<r[1], low(r)>> /\ r \in fits /\ t < low(r)
                    \/ s = <<high(r), r[2]>> /\ r \in fits /\ high(r) <= t
    <2>1. CASE s \in parts.left \ fits
      BY <1>7, <2>1
    <2>2. CASE \E r \in fits : s = <<r[1], low(r)>>
      <3>1. PICK r \in fits : s = <<r[1], low(r)>>
        BY <2>2
      <3>2. r[1] <= t /\ t < low(r) /\ low(r) < high(r) /\ high(r) <= r[2]
        BY <1>3, <1>7, <3>1 DEF InLeft
      <3>3. InLeft(r, t)
        BY <1>3, <3>2 DEF InLeft
      <3> QED BY <3>1, <3>2, <3>3
    <2>3. CASE \E r \in fits : s = <<high(r), r[2]>>
      <3>1. PICK r \in fits : s = <<high(r), r[2]>>
        BY <2>3
      <3>2. high(r) <= t /\ t < r[2] /\ low(r) < high(r) /\ r[1] <= low(r)
        BY <1>3, <1>7, <3>1 DEF InLeft
      <3>3. InLeft(r, t)
        BY <1>3, <3>2 DEF InLeft
      <3> QED BY <3>1, <3>2, <3>3
    <2> QED BY <1>4, <2>1, <2>2, <2>3
  <1>8. ASSUME NEW t \in Int, NEW w \in whole, InPart(w, t)
        PROVE  \/ w \in parts.whole
               \/ \E r \in fits : /\ w = <<l, low(r), high(r)>> /\ InLeft(r, t)
                                  /\ low(r) <= t /\ t < high(r)
    <2>1. CASE \E r \in fits : w = <<l, low(r), high(r)>>
      <3>1. PICK r \in fits : w = <<l, low(r), high(r)>>
        BY <2>1
      <3>2. low(r) <= t /\ t < high(r)
        BY <1>8, <3>1 DEF InPart
      <3>3. InLeft(r, t)
        BY <1>3, <3>2 DEF InLeft
      <3> QED BY <3>1, <3>2, <3>3
    <2> QED BY <1>5, <2>1
  \* A time in a range is in one of the parts that it is cut into.
  <1>9. ASSUME NEW t \in Int, NEW r \in parts.left, InLeft(r, t)
        PROVE  (\E w \in whole : InPart(w, t)) \/ (\E s \in left : InLeft(s, t))
    <2>1. CASE r \notin fits
      BY <1>9, <2>1
    <2>2. CASE r \in fits /\ t < low(r)
      <3> DEFINE s == <<r[1], low(r)>>
      <3>1. r[1] <= t /\ r[1] < low(r)
        BY <1>3, <1>9, <2>2 DEF InLeft
      <3>2. s \in left /\ InLeft(s, t)
        BY <2>2, <3>1 DEF InLeft
      <3> QED BY <3>2
    <2>3. CASE r \in fits /\ high(r) <= t
      <3> DEFINE s == <<high(r), r[2]>>
      <3>1. t < r[2] /\ high(r) < r[2]
        BY <1>3, <1>9, <2>3 DEF InLeft
      <3>2. s \in left /\ InLeft(s, t)
        BY <2>3, <3>1 DEF InLeft
      <3> QED BY <3>2
    <2>4. CASE r \in fits /\ low(r) <= t /\ t < high(r)
      <3> DEFINE w == <<l, low(r), high(r)>>
      <3>1. w \in whole /\ InPart(w, t)
        BY <2>4 DEF InPart
      <3> QED BY <3>1
    <2> QED BY <1>3, <2>1, <2>2, <2>3, <2>4
  <1> HIDE DEF fits, edges, whole, left
  <1>10. ASSUME NEW t \in Int
         PROVE  /\ InLeft(d, t) <=> (\E w \in whole : InPart(w, t)) \/ (\E r \in left : InLeft(r, t))
                /\ \A w, v \in whole : InPart(w, t) /\ InPart(v, t) => w = v
                /\ \A r, s \in left : InLeft(r, t) /\ InLeft(s, t) => r = s
                /\ \A w \in whole, r \in left : ~ (InPart(w, t) /\ InLeft(r, t))
    <2>0. /\ InLeft(d, t) <=>
               (\E w \in parts.whole : InPart(w, t)) \/ (\E r \in parts.left : InLeft(r, t))
          /\ \A w, v \in parts.whole : InPart(w, t) /\ InPart(v, t) => w = v
          /\ \A r, s \in parts.left : InLeft(r, t) /\ InLeft(s, t) => r = s
          /\ \A w \in parts.whole, r \in parts.left : ~ (InPart(w, t) /\ InLeft(r, t))
      BY DEF Tiles
    <2>1. parts.whole \subseteq whole /\ fits \subseteq parts.left
      BY DEF whole, fits
    <2>2. InLeft(d, t) => (\E w \in whole : InPart(w, t)) \/ (\E r \in left : InLeft(r, t))
      BY <1>9, <2>0, <2>1
    <2>3. (\E w \in whole : InPart(w, t)) \/ (\E r \in left : InLeft(r, t)) => InLeft(d, t)
      BY <1>7, <1>8, <2>0, <2>1
    <2>4. \A w, v \in whole : InPart(w, t) /\ InPart(v, t) => w = v
      BY <1>8, <2>0, <2>1
    <2>5. ASSUME NEW r \in left, NEW s \in left, InLeft(r, t), InLeft(s, t) PROVE r = s
      <3>1. PICK p \in parts.left :
              /\ InLeft(p, t)
              /\ \/ r = p /\ p \notin fits
                 \/ r = <<p[1], low(p)>> /\ p \in fits /\ t < low(p)
                 \/ r = <<high(p), p[2]>> /\ p \in fits /\ high(p) <= t
        BY <1>7, <2>5
      <3>2. PICK q \in parts.left :
              /\ InLeft(q, t)
              /\ \/ s = q /\ q \notin fits
                 \/ s = <<q[1], low(q)>> /\ q \in fits /\ t < low(q)
                 \/ s = <<high(q), q[2]>> /\ q \in fits /\ high(q) <= t
        BY <1>7, <2>5
      <3>3. p = q
        BY <2>0, <3>1, <3>2
      <3>4. p \in fits => low(p) < high(p)
        BY DEF fits
      <3> QED BY <1>3, <3>1, <3>2, <3>3, <3>4
    <2>6. ASSUME NEW w \in whole, NEW r \in left, InPart(w, t), InLeft(r, t) PROVE FALSE
      <3>1. PICK p \in parts.left :
              /\ InLeft(p, t)
              /\ \/ r = p /\ p \notin fits
                 \/ r = <<p[1], low(p)>> /\ p \in fits /\ t < low(p)
                 \/ r = <<high(p), p[2]>> /\ p \in fits /\ high(p) <= t
        BY <1>7, <2>6
      <3>2. CASE w \in parts.whole
        BY <2>0, <2>6, <3>1, <3>2
      <3>3. CASE w \notin parts.whole
        <4>1. PICK q \in fits : InLeft(q, t) /\ low(q) <= t /\ t < high(q)
          BY <1>8, <2>6, <3>3
        <4>2. q = p
          BY <2>0, <2>1, <3>1, <4>1
        <4> QED BY <1>3, <2>1, <3>1, <4>1, <4>2
      <3> QED BY <3>2, <3>3
    <2> QED BY <2>2, <2>3, <2>4, <2>5, <2>6
  <1>11. left \subseteq Int \X Int
    BY <1>4
  <1> QED BY <1>1, <1>6, <1>10, <1>11 DEF Tiles

DivisionSteps(d, n, f) ==
  f = [l \in 0..n |-> IF l = 0 THEN [whole |-> {}, left |-> {d}] ELSE Divided(f[l - 1], l)]

\* The recursion of DivisionOf has a value at every level.
LEMMA DivisionExists ==
  ASSUME NEW d, NEW N \in Nat
  PROVE  \E f : DivisionSteps(d, N, f)
  <1> DEFINE undivided == [whole |-> {}, left |-> {d}]
             T == {n \in Nat : ~ \E f : DivisionSteps(d, n, f)}
  <1> SUFFICES ASSUME T # {} PROVE FALSE
    OBVIOUS
  <1>1. PICK n \in T : \A m \in T : n <= m
    BY LeastNumber
  <1>2. n # 0
    <2> DEFINE f == [l \in 0..0 |-> undivided]
    <2>1. f = [l \in 0..0 |-> IF l = 0 THEN undivided ELSE Divided(f[l - 1], l)]
      OBVIOUS
    <2>2. DivisionSteps(d, 0, f)
      BY <2>1 DEF DivisionSteps
    <2> QED BY <2>2
  <1>3. n - 1 \in Nat /\ n - 1 \notin T
    BY <1>1, <1>2
  <1>4. PICK g : DivisionSteps(d, n - 1, g)
    BY <1>3
  <1> DEFINE f == [l \in 0..n |-> IF l = n THEN Divided(g[n - 1], n) ELSE g[l]]
  <1>5. ASSUME NEW l \in 0..n
        PROVE  f[l] = IF l = 0 THEN undivided ELSE Divided(f[l - 1], l)
    <2>1. \A k \in 0..(n - 1) : g[k] = IF k = 0 THEN undivided ELSE Divided(g[k - 1], k)
      BY <1>4 DEF DivisionSteps
    <2>2. CASE l = n
      <3>1. n - 1 \in 0..n /\ n - 1 # n /\ n \in 0..n
        BY <1>3
      <3>2. f[n] = Divided(g[n - 1], n) /\ f[n - 1] = g[n - 1]
        BY <3>1
      <3> HIDE DEF f
      <3> QED BY <1>2, <2>2, <3>2
    <2>3. CASE l # n
      <3>1. l \in 0..(n - 1) /\ (l # 0 => l - 1 \in 0..n /\ l - 1 # n)
        BY <2>3
      <3>2. f[l] = g[l] /\ (l # 0 => f[l - 1] = g[l - 1])
        BY <2>3, <3>1
      <3> HIDE DEF f
      <3> QED BY <2>1, <3>1, <3>2
    <2> QED BY <2>2, <2>3
  <1>6. f = [l \in 0..n |-> f[l]]
    OBVIOUS
  <1> HIDE DEF f
  <1>7. DivisionSteps(d, n, f)
    BY <1>5, <1>6 DEF DivisionSteps
  <1> QED BY <1>7

\* DivisionOf is the last value of its recursion.
LEMMA DivisionIsReached ==
  ASSUME NEW d, NEW N \in Nat, N = Len(Spans)
  PROVE  \E f : DivisionSteps(d, N, f) /\ DivisionOf(d) = f[N]
  <1> DEFINE f == CHOOSE f : DivisionSteps(d, Len(Spans), f)
  <1>1. DivisionSteps(d, Len(Spans), f)
    BY DivisionExists
  <1>2. DivisionOf(d) = f[Len(Spans)]
    BY DEF DivisionOf, DivisionSteps
  <1> QED BY <1>1, <1>2

\* A day that nothing divides is one tile.
LEMMA UndividedDay ==
  ASSUME NEW d \in Int \X Int
  PROVE  Tiles([whole |-> {}, left |-> {d}], d)
  BY DEF Tiles, InLeft

\* The parts of a day cover it, each time once.
LEMMA DaysAreTiled ==
  ASSUME NEW d \in Days
  PROVE  Tiles(Division[d], d)
  <1>0. d \in Int \X Int /\ Len(Spans) \in Nat /\ Levels = 1..Len(Spans)
    BY FootprintAssumption DEF Levels
  <1>1. PICK N \in Nat : N = Len(Spans)
    BY <1>0
  <1>2. PICK f : DivisionSteps(d, N, f) /\ DivisionOf(d) = f[N]
    BY <1>1, DivisionIsReached
  <1> DEFINE T == {n \in Nat : n \in 0..N /\ ~ Tiles(f[n], d)}
  <1>3. \A l \in 0..N : f[l] = IF l = 0 THEN [whole |-> {}, left |-> {d}] ELSE Divided(f[l - 1], l)
    BY <1>2 DEF DivisionSteps
  <1>4. ASSUME T # {} PROVE FALSE
    <2>1. PICK n \in T : \A m \in T : n <= m
      BY <1>4, LeastNumber
    <2>2. n # 0
      <3>1. 0 \in 0..N
        OBVIOUS
      <3>2. f[0] = [whole |-> {}, left |-> {d}]
        BY <1>3, <3>1
      <3>3. Tiles(f[0], d)
        BY <1>0, <3>2, UndividedDay
      <3> QED BY <2>1, <3>3
    <2>3. n - 1 \in 0..N /\ n \in 0..N /\ n - 1 \notin T /\ n - 1 \in Nat
      BY <2>1, <2>2
    <2>4. Tiles(f[n - 1], d)
      BY <2>3
    <2>5. f[n] = Divided(f[n - 1], n)
      BY <1>3, <2>2, <2>3
    <2>6. n \in Levels
      BY <1>0, <1>1, <2>2, <2>3
    <2>7. Tiles(f[n], d)
      BY <2>4, <2>5, <2>6, DividingKeepsTiles
    <2> QED BY <2>1, <2>7
  <1>5. Tiles(f[N], d)
    BY <1>4
  <1> QED BY <1>2, <1>5 DEF Division

\* What the triggers do.
LEMMA Upsert ==
  ASSUME NEW b, NEW S
  PROVE  /\ DOMAIN (b (+) SetToBag(S)) = DOMAIN b \cup S
         /\ \A x \in DOMAIN b \cup S :
              (b (+) SetToBag(S))[x] = (IF x \in DOMAIN b THEN b[x] ELSE 0) + (IF x \in S THEN 1 ELSE 0)
  <1>1. DOMAIN SetToBag(S) = S /\ \A x \in S : SetToBag(S)[x] = 1
    BY DEF SetToBag
  <1>2. b (+) SetToBag(S) =
          [x \in (DOMAIN b) \cup (DOMAIN SetToBag(S)) |->
             (IF x \in DOMAIN b THEN b[x] ELSE 0)
               + (IF x \in DOMAIN SetToBag(S) THEN SetToBag(S)[x] ELSE 0)]
    BY DEF (+)
  <1> QED BY <1>1, <1>2

Places(S, n) == UNION {{x} \X (1..n[x]) : x \in S}

\* The places 1..n[x] of disjoint parts of a finite set are as many as the set
\* has elements.
LEMMA CountsOfParts ==
  ASSUME NEW A, IsFiniteSet(A), NEW S, NEW T, NEW n,
         \A x \in S : T[x] \subseteq A /\ n[x] = Cardinality(T[x]),
         \A x, y \in S : x # y => T[x] \cap T[y] = {},
         \A a \in A : \E x \in S : a \in T[x]
  PROVE  Cardinality(Places(S, n)) = Cardinality(A)
  <1> DEFINE places == UNION {{x} \X (1..n[x]) : x \in S}
             g == [x \in S |-> CHOOSE f : f \in Bijection(1..n[x], T[x])]
             h == [p \in places |-> g[p[1]][p[2]]]
  <1>1. ASSUME NEW x \in S
        PROVE  g[x] \in Bijection(1..n[x], T[x])
    <2>1. ExistsBijection(1..Cardinality(T[x]), T[x])
      BY FS_Subset, FS_CardinalityType
    <2>2. \E f : f \in Bijection(1..n[x], T[x])
      BY <2>1 DEF ExistsBijection
    <2> QED BY <2>2
  <1> HIDE DEF g
  <1>2. ASSUME NEW x \in S
        PROVE  /\ \A k \in 1..n[x] : g[x][k] \in T[x]
               /\ \A k, m \in 1..n[x] : g[x][k] = g[x][m] => k = m
               /\ \A a \in T[x] : \E k \in 1..n[x] : g[x][k] = a
    <2>1. g[x] \in Bijection(1..n[x], T[x])
      BY <1>1
    <2>2. g[x] \in [1..n[x] -> T[x]]
      BY <2>1 DEF Bijection, Injection
    <2>3. \A k, m \in 1..n[x] : g[x][k] = g[x][m] => k = m
      BY <2>1, <2>2 DEF Bijection, Injection, IsInjective
    <2>4. \A a \in T[x] : \E k \in 1..n[x] : g[x][k] = a
      BY <2>1 DEF Bijection, Surjection
    <2> QED BY <2>2, <2>3, <2>4
  <1>3. ASSUME NEW p \in places
        PROVE  p[1] \in S /\ p[2] \in 1..n[p[1]] /\ p = <<p[1], p[2]>>
    OBVIOUS
  <1>4. ASSUME NEW x \in S, NEW k \in 1..n[x]
        PROVE  <<x, k>> \in places
    OBVIOUS
  <1>5. h \in [places -> A]
    BY <1>2, <1>3
  <1>6. ASSUME NEW p \in places, NEW q \in places, h[p] = h[q]
        PROVE  p = q
    <2>1. g[p[1]][p[2]] = g[q[1]][q[2]]
      BY <1>6
    <2>2. p[1] = q[1]
      BY <1>2, <1>3, <2>1
    <2>3. p[2] = q[2]
      BY <1>2, <1>3, <2>1, <2>2
    <2> QED BY <1>3, <2>2, <2>3
  <1>7. ASSUME NEW a \in A
        PROVE  \E p \in places : h[p] = a
    <2>1. PICK x \in S : a \in T[x]
      OBVIOUS
    <2>2. PICK k \in 1..n[x] : g[x][k] = a
      BY <1>2, <2>1
    <2>3. <<x, k>> \in places
      BY <1>4
    <2>4. h[<<x, k>>] = g[x][k]
      BY <2>3
    <2> QED BY <2>2, <2>3, <2>4
  <1> HIDE DEF places, h
  <1>8. h \in Bijection(places, A)
    BY <1>5, <1>6, <1>7, Fun_IsBij
  <1>9. ExistsBijection(A, places)
    BY <1>8, Fun_ExistsBijSymmetric DEF ExistsBijection
  <1>10. Cardinality(places) = Cardinality(A)
    BY <1>9, FS_Bijection
  <1> QED BY <1>10 DEF places, Places


\* The names of the rows of a record.
LEMMA RowsOfRecords ==
  ASSUME RecordsFit, NEW i \in Present, NEW x
  PROVE  x \in Rows(records[i]) <=>
           \E l \in Levels : x = <<l, BucketOf(records[i].at, Spans[l]), records[i].project,
                                   records[i].form.category>>
  BY DEF Rows

\* No table has a record.
LEMMA CountsInitially == FootprintInit => CountsFit
  <1> SUFFICES ASSUME FootprintInit PROVE CountsFit
    OBVIOUS
  <1>1. records = [i \in RecordIds |-> NoRecord] /\ counts = EmptyBag
    BY DEF FootprintInit
  <1>2. Present = {}
    BY <1>1, FootprintAssumption DEF Present
  <1>3. DOMAIN counts = {}
    BY <1>1 DEF EmptyBag, SetToBag
  <1> QED BY <1>2, <1>3 DEF CountsFit

\* A record that is written adds one to each of its rows.
LEMMA WritingCounts ==
  ASSUME RecordsFit, CountsFit, NEW i \in RecordIds, NEW r \in Record, WriteRecord(i, r)
  PROVE  CountsFit'
  <1>0. NoRecord \notin Record
    BY FootprintAssumption
  <1>1. /\ records[i] = NoRecord /\ records' = [records EXCEPT ![i] = r]
        /\ counts' = counts (+) SetToBag(Rows(r))
    BY DEF WriteRecord
  <1>2. records'[i] = r /\ \A j \in RecordIds : j # i => records'[j] = records[j]
    BY <1>1 DEF RecordsFit
  <1>3. i \notin Present /\ Present' = Present \cup {i}
    BY <1>0, <1>1, <1>2 DEF Present
  <1>4. PICK R : R = Rows(r)
    OBVIOUS
  <1>5. /\ DOMAIN counts' = DOMAIN counts \cup R
        /\ \A x \in DOMAIN counts \cup R :
             counts'[x] = (IF x \in DOMAIN counts THEN counts[x] ELSE 0) + (IF x \in R THEN 1 ELSE 0)
    BY <1>1, <1>4, Upsert
  <1>6. \A j \in Present : records'[j] = records[j] /\ Rows(records'[j]) = Rows(records[j])
    BY <1>2, <1>3 DEF Present
  <1>7. Rows(records'[i]) = R
    BY <1>2, <1>4
  <1>8. ASSUME NEW x \in DOMAIN counts'
        PROVE  counts'[x] = Cardinality({j \in Present' : x \in Rows(records'[j])})
    <2> DEFINE before == CountedBy(x)
               after == {j \in Present' : x \in Rows(records'[j])}
    <2>1. before \subseteq Present /\ IsFiniteSet(before) /\ Cardinality(before) \in Nat /\ i \notin before
      BY <1>3, FS_Subset, FS_CardinalityType DEF CountedBy, RecordsFit
    <2>2. after = before \cup (IF x \in R THEN {i} ELSE {})
      BY <1>3, <1>6, <1>7 DEF CountedBy
    <2>3. Cardinality(before \cup {i}) = Cardinality(before) + 1
      BY <2>1, FS_AddElement
    <2>4. Cardinality(after) = Cardinality(before) + (IF x \in R THEN 1 ELSE 0)
      <3> HIDE DEF before, after
      <3>1. CASE x \in R
        BY <2>2, <2>3, <3>1
      <3>2. CASE x \notin R
        <4>1. after = before
          BY <2>2, <3>2
        <4> QED BY <2>1, <3>2, <4>1
      <3> QED BY <3>1, <3>2
    <2>5. Cardinality(before) = IF x \in DOMAIN counts THEN counts[x] ELSE 0
      <3>1. CASE x \in DOMAIN counts
        BY <3>1 DEF CountsFit
      <3>2. CASE x \notin DOMAIN counts
        <4>1. before = {}
          BY <3>2 DEF CountsFit, CountedBy
        <4> QED BY <3>2, <4>1, FS_EmptySet
      <3> QED BY <3>1, <3>2
    <2> QED BY <1>5, <2>4, <2>5
  <1>9. ASSUME NEW j \in Present'
        PROVE  Rows(records'[j]) \subseteq DOMAIN counts'
    <2>1. CASE j = i
      BY <1>5, <1>7, <2>1
    <2>2. CASE j # i
      BY <1>3, <1>5, <1>6, <2>2 DEF CountsFit
    <2> QED BY <2>1, <2>2
  <1> QED BY <1>8, <1>9 DEF CountsFit, CountedBy

\* The rows of a project go with its records.
LEMMA ForgettingCounts ==
  ASSUME RecordsFit, CountsFit, NEW p \in FootprintProjects, ForgetProject(p)
  PROVE  CountsFit'
  <1>0. Gone \notin Record
    BY FootprintAssumption
  <1>1. /\ records' = [i \in RecordIds |->
             IF i \in Present /\ records[i].project = p THEN Gone ELSE records[i]]
        /\ counts' = [x \in {x \in BagToSet(counts) : x[3] # p} |-> counts[x]]
    BY DEF ForgetProject
  <1>2. Present' = {i \in Present : records[i].project # p}
    BY <1>0, <1>1 DEF Present
  <1>3. \A i \in Present' : records'[i] = records[i] /\ Rows(records'[i]) = Rows(records[i])
    BY <1>1, <1>2 DEF Present
  <1>4. /\ DOMAIN counts' = {x \in DOMAIN counts : x[3] # p}
        /\ \A x \in DOMAIN counts' : counts'[x] = counts[x]
    BY <1>1 DEF BagToSet
  <1>5. ASSUME NEW i \in Present, NEW x \in Rows(records[i])
        PROVE  x[3] = records[i].project
    BY <1>5, RowsOfRecords
  <1>6. ASSUME NEW x \in DOMAIN counts'
        PROVE  counts'[x] = Cardinality({i \in Present' : x \in Rows(records'[i])})
    <2>1. x \in DOMAIN counts /\ x[3] # p /\ counts'[x] = counts[x]
      BY <1>4
    <2>2. {i \in Present' : x \in Rows(records'[i])} = CountedBy(x)
      BY <1>2, <1>3, <1>5, <2>1 DEF CountedBy
    <2> QED BY <2>1, <2>2 DEF CountsFit
  <1>7. ASSUME NEW i \in Present'
        PROVE  Rows(records'[i]) \subseteq DOMAIN counts'
    BY <1>2, <1>3, <1>4, <1>5 DEF CountsFit
  <1> QED BY <1>6, <1>7 DEF CountsFit, CountedBy

\* The buckets of the whole parts of a day count the records in them.
LEMMA BucketsCountWholeParts ==
  ASSUME RecordsFit, CountsFit, NEW d \in Days, NEW p, NEW c
  PROVE  Total(Added(d, p, c)) =
           Cardinality({i \in Present : OfKind(i, p, c) /\
                          \E w \in Division[d].whole : InPart(w, records[i].at)})
  <1> DEFINE inside == {i \in Present : OfKind(i, p, c) /\
                          \E w \in Division[d].whole : InPart(w, records[i].at)}
             S == Added(d, p, c)
             T == [x \in S |-> CountedBy(x)]
  <1>0. IsFiniteSet(inside)
    BY FS_Subset DEF RecordsFit
  <1>1. PICK parts : parts = Division[d] /\ Tiles(parts, d)
    BY DaysAreTiled
  <1>2. ASSUME NEW i \in Present, NEW w \in parts.whole, NEW b, NEW t, NEW n,
               t = records[i].at, n = Spans[w[1]], b = BucketOf(t, n)
        PROVE  w[1] \in Levels /\ t \in Int /\ (w[2] <= b /\ b < w[3] <=> InPart(w, t))
    <2>1. /\ w[1] \in Levels /\ w[2] \in Int /\ w[3] \in Int
          /\ Multiple(w[2], Spans[w[1]]) /\ Multiple(w[3], Spans[w[1]])
      BY <1>1 DEF Tiles
    <2>2. n \in Nat \ {0}
      BY <1>2, <2>1, FootprintAssumption DEF Levels
    <2>3. t \in Int
      BY <1>2, PresentRecords
    <2>4. w[2] <= BucketOf(t, n) /\ BucketOf(t, n) < w[3] <=> w[2] <= t /\ t < w[3]
      BY <1>2, <2>1, <2>2, <2>3, BucketsAreBetween
    <2> QED BY <1>2, <2>1, <2>3, <2>4 DEF InPart
  <1>3. ASSUME NEW x \in S, NEW i \in CountedBy(x)
        PROVE  /\ i \in inside
               /\ \E w \in parts.whole :
                    /\ InPart(w, records[i].at)
                    /\ x = <<w[1], BucketOf(records[i].at, Spans[w[1]]), p, c>>
    <2>1. i \in Present /\ x \in Rows(records[i])
      BY DEF CountedBy
    <2>2. PICK l \in Levels : x = <<l, BucketOf(records[i].at, Spans[l]), records[i].project,
                                   records[i].form.category>>
      BY <2>1, RowsOfRecords
    <2>3. /\ x[3] = p /\ x[4] = c
          /\ \E w \in parts.whole : x[1] = w[1] /\ w[2] <= x[2] /\ x[2] < w[3]
      BY <1>1 DEF Added
    <2>4. PICK w \in parts.whole : x[1] = w[1] /\ w[2] <= x[2] /\ x[2] < w[3]
      BY <2>3
    <2>5. /\ x[1] = l /\ x[2] = BucketOf(records[i].at, Spans[l])
          /\ x[3] = records[i].project /\ x[4] = records[i].form.category
      BY <2>2
    <2>6. InPart(w, records[i].at)
      BY <1>2, <2>1, <2>4, <2>5
    <2>7. OfKind(i, p, c)
      BY <2>3, <2>5 DEF OfKind
    <2>8. i \in inside
      BY <1>1, <2>1, <2>6, <2>7
    <2> QED BY <2>2, <2>3, <2>4, <2>5, <2>6, <2>8
  <1>4. ASSUME NEW x \in S
        PROVE  T[x] \subseteq inside /\ counts[x] = Cardinality(T[x])
    <2>1. x \in DOMAIN counts
      BY DEF Added, BagToSet
    <2>2. T[x] = CountedBy(x)
      OBVIOUS
    <2> HIDE DEF T, inside
    <2>3. T[x] \subseteq inside
      BY <1>3, <2>2
    <2> QED BY <2>1, <2>2, <2>3 DEF CountsFit
  <1>5. ASSUME NEW x \in S, NEW y \in S, NEW i \in CountedBy(x), i \in CountedBy(y)
        PROVE  x = y
    <2>1. PICK w \in parts.whole :
            InPart(w, records[i].at) /\ x = <<w[1], BucketOf(records[i].at, Spans[w[1]]), p, c>>
      BY <1>3
    <2>2. PICK v \in parts.whole :
            InPart(v, records[i].at) /\ y = <<v[1], BucketOf(records[i].at, Spans[v[1]]), p, c>>
      BY <1>3, <1>5
    <2>3. records[i].at \in Int
      BY PresentRecords DEF CountedBy
    <2>4. w = v
      BY <1>1, <2>1, <2>2, <2>3 DEF Tiles
    <2> QED BY <2>1, <2>2, <2>4
  <1>6. ASSUME NEW i \in inside
        PROVE  \E x \in S : i \in CountedBy(x)
    <2>1. PICK w \in parts.whole : InPart(w, records[i].at)
      BY <1>1
    <2>2. i \in Present /\ OfKind(i, p, c)
      OBVIOUS
    <2> DEFINE b == BucketOf(records[i].at, Spans[w[1]])
               x == <<w[1], b, p, c>>
    <2>3. w[1] \in Levels /\ w[2] <= b /\ b < w[3]
      BY <1>2, <2>1, <2>2
    <2>4. x \in Rows(records[i])
      BY <2>2, <2>3, RowsOfRecords DEF OfKind
    <2>5. x \in DOMAIN counts
      BY <2>2, <2>4 DEF CountsFit
    <2>6. x[1] = w[1] /\ x[2] = b /\ x[3] = p /\ x[4] = c
      OBVIOUS
    <2>7. i \in CountedBy(x)
      BY <2>2, <2>4 DEF CountedBy
    <2> HIDE DEF x, b
    <2>8. x \in S
      BY <1>1, <2>1, <2>3, <2>5, <2>6 DEF Added, BagToSet
    <2> QED BY <2>7, <2>8
  <1>7. \A x \in S : T[x] = CountedBy(x)
    OBVIOUS
  <1>8. \A x, y \in S : x # y => T[x] \cap T[y] = {}
    <2> HIDE DEF T, S
    <2> QED BY <1>5, <1>7
  <1>9. \A i \in inside : \E x \in S : i \in T[x]
    <2> HIDE DEF T, S, inside
    <2> QED BY <1>6, <1>7
  <1> HIDE DEF T, S, inside
  <1>10. Cardinality(Places(S, counts)) = Cardinality(inside)
    <2>1. PICK all, keys, sets, n : all = inside /\ keys = S /\ sets = T /\ n = counts
      OBVIOUS
    <2>2. /\ IsFiniteSet(all)
          /\ \A x \in keys : sets[x] \subseteq all /\ n[x] = Cardinality(sets[x])
          /\ \A x, y \in keys : x # y => sets[x] \cap sets[y] = {}
          /\ \A i \in all : \E x \in keys : i \in sets[x]
      BY <1>0, <1>4, <1>8, <1>9, <2>1
    <2>3. Cardinality(Places(keys, n)) = Cardinality(all)
      BY <2>2, CountsOfParts
    <2> QED BY <2>1, <2>3
  <1> QED BY <1>10 DEF Total, Places, S, inside

\* The parts of a day add to its records.
LEMMA SummariesAdd ==
  ASSUME RecordsFit, CountsFit
  PROVE  SummariesCountRecords
  <1> SUFFICES ASSUME NEW d \in Days, NEW p, NEW c
               PROVE  SummaryCount(d, p, c) =
                        Cardinality({i \in Present : Within(i, d[1], d[2]) /\ OfKind(i, p, c)})
    BY DEF SummariesCountRecords
  <1> DEFINE day == {i \in Present : Within(i, d[1], d[2]) /\ OfKind(i, p, c)}
             inside == {i \in Present : OfKind(i, p, c) /\
                          \E w \in Division[d].whole : InPart(w, records[i].at)}
             edges == AtEdges(d, p, c)
  <1>1. Total(Added(d, p, c)) = Cardinality(inside)
    BY BucketsCountWholeParts
  <1>2. IsFiniteSet(inside) /\ IsFiniteSet(edges)
    BY FS_Subset DEF RecordsFit, AtEdges
  <1>3. PICK parts : parts = Division[d] /\ Tiles(parts, d)
    BY DaysAreTiled
  <1>4. ASSUME NEW i \in Present
        PROVE  /\ i \in day <=> i \in inside \/ i \in edges
               /\ ~ (i \in inside /\ i \in edges)
    <2>1. PICK t \in Int : t = records[i].at
      BY PresentRecords
    <2>2. i \in day <=> InLeft(d, t) /\ OfKind(i, p, c)
      BY <2>1 DEF Within, InLeft
    <2>3. i \in inside <=> OfKind(i, p, c) /\ \E w \in parts.whole : InPart(w, t)
      BY <1>3, <2>1
    <2>4. i \in edges <=> OfKind(i, p, c) /\ \E r \in parts.left : InLeft(r, t)
      BY <1>3, <2>1 DEF AtEdges, Within, InLeft
    <2>5. /\ InLeft(d, t) <=> (\E w \in parts.whole : InPart(w, t)) \/ (\E r \in parts.left : InLeft(r, t))
          /\ \A w \in parts.whole, r \in parts.left : ~ (InPart(w, t) /\ InLeft(r, t))
      BY <1>3 DEF Tiles
    <2> HIDE DEF day, inside, edges
    <2> QED BY <2>2, <2>3, <2>4, <2>5
  <1>5. day = inside \cup edges /\ inside \cap edges = {}
    <2>1. day \subseteq Present /\ inside \subseteq Present /\ edges \subseteq Present
      BY DEF AtEdges
    <2> HIDE DEF day, inside, edges
    <2> QED BY <1>4, <2>1
  <1> HIDE DEF day, inside, edges
  <1>6. Cardinality(day) = Cardinality(inside) + Cardinality(edges)
    <2>1. Cardinality(inside \cup edges)
            = Cardinality(inside) + Cardinality(edges) - Cardinality(inside \cap edges)
      BY <1>2, FS_Union
    <2>2. Cardinality(inside) \in Nat /\ Cardinality(edges) \in Nat
      BY <1>2, FS_CardinalityType
    <2>3. Cardinality(inside \cap edges) = 0
      BY <1>5, FS_EmptySet
    <2> QED BY <1>5, <2>1, <2>2, <2>3
  <1> QED BY <1>1, <1>6 DEF SummaryCount, day, edges

\* The rows of the buckets count the records, each in one bucket of every level.
THEOREM CountsInvariant == FootprintSpec => []CountsFit
  <1>1. FootprintInit => CountsFit
    BY CountsInitially
  <1>2. PagesInv /\ CountsFit /\ [FootprintNext]_footprintVars => CountsFit'
    <2> SUFFICES ASSUME PagesInv, CountsFit, [FootprintNext]_footprintVars
                 PROVE  CountsFit'
      OBVIOUS
    <2>0. RecordsFit
      BY DEF PagesInv
    <2>1. ASSUME NEW i \in RecordIds, NEW r \in Record, WriteRecord(i, r)
          PROVE  CountsFit'
      BY <2>0, <2>1, WritingCounts
    <2>2. ASSUME NEW p \in FootprintProjects, ForgetProject(p)
          PROVE  CountsFit'
      BY <2>0, <2>2, ForgettingCounts
    <2>3. CASE UNCHANGED <<records, counts>>
      BY <2>3 DEF CountsFit, CountedBy, Present
    <2>4. ASSUME NEW q \in Queries, AskAnew(q)
          PROVE  CountsFit'
      BY <2>3, <2>4 DEF AskAnew
    <2>5. ASSUME ReadOn
          PROVE  CountsFit'
      BY <2>3, <2>5 DEF ReadOn
    <2>6. ASSUME NEW c \in calls, AnswerPage(c) \/ FailPage(c) \/ ShowPage(c)
          PROVE  CountsFit'
      BY <2>3, <2>6 DEF AnswerPage, FailPage, ShowPage
    <2>7. ASSUME UNCHANGED footprintVars
          PROVE  CountsFit'
      BY <2>3, <2>7 DEF footprintVars
    <2> QED BY <2>1, <2>2, <2>4, <2>5, <2>6, <2>7 DEF FootprintNext
  <1> QED BY <1>1, <1>2, PagesInvariant, PTL DEF FootprintSpec

\* Whatever was written and removed, and wherever a day begins and ends in
\* whatever buckets, its summary has the number of its records.
THEOREM SummariesCount == FootprintSpec => []SummariesCountRecords
  <1>1. PagesInv /\ CountsFit => SummariesCountRecords
    BY SummariesAdd DEF PagesInv
  <1> QED BY <1>1, PagesInvariant, CountsInvariant, PTL

-----------------------------------------------------------------------------
(* The refresh.                                                              *)

Resting(w) == worker[w].at \in {"next", "stopped"}
Reading(w) == worker[w].at \in {"batch", "storing", "finish", "recording"}
ProjectOf(w) == worker[w].target.project
RangeLog(w) == LogOf[worker[w].head][job.range]

WorkersBelongToJobs ==
  \A w \in Workers : worker[w].at # "stopped" => job \in Jobs /\ job.state = "running"

\* The local variables of a worker.
WorkersFit ==
  \A w \in Workers :
    /\ Resting(w) => worker[w] = At(worker[w].at)
    /\ ~ Resting(w) => worker[w].target \in job.targets
    /\ worker[w].at = "head" => worker[w].head = NoHead /\ worker[w].skip = 0 /\ ~ worker[w].error
    /\ worker[w].at \in {"batch", "storing"} => worker[w].head # NoHead /\ ~ worker[w].error

LeftAreTargets == job \in Jobs => job.left \subseteq job.targets

\* The commits that a worker has counted are stored.
BatchesAreStored ==
  \A w \in Workers :
    Reading(w) /\ worker[w].head # NoHead /\ Recorded(ProjectOf(w)) =>
      \A i \in 1 .. worker[w].skip : RangeLog(w)[i] \in commits[ProjectOf(w)]

\* A worker that finishes without an error has everything.
RangesAreStored ==
  \A w \in Workers :
    /\ worker[w].at \in {"finish", "recording"}
    /\ ~ worker[w].error
    /\ worker[w].head # NoHead
    /\ Recorded(ProjectOf(w))
    => Listed(worker[w].head, job.range) \subseteq commits[ProjectOf(w)]

\* What the job took from the coverage when it began is still true.
TargetsAreCovered ==
  job \in Jobs =>
    \A t \in job.targets :
      t.covered /\ t.previous # NoHead /\ Recorded(t.project) =>
        Listed(t.previous, job.range) \subseteq commits[t.project]

CoveredNow(p, r) == coverage[p][r] # NoRow /\ ~ coverage[p][r].error

\* No target is forgotten.
TargetsAreAccounted ==
  job \in Jobs =>
    \A t \in job.targets :
      \/ t \in job.left
      \/ \E w \in Workers : ~ Resting(w) /\ worker[w].target = t
      \/ job.cancel
      \/ t.project \in job.failures
      \/ Recorded(t.project) => CoveredNow(t.project, job.range)

WorkersStopInTheEnd ==
  \A w \in Workers :
    job \in Jobs /\ job.state = "running" /\ worker[w].at = "stopped" => job.cancel \/ job.left = {}

CompletedJobsAreDone ==
  job \in Jobs /\ job.state = "completed" => ~ job.cancel /\ job.left = {} /\ job.failures = {}

HistoryInv ==
  /\ TypeOK
  /\ WorkersBelongToJobs
  /\ WorkersFit
  /\ LeftAreTargets
  /\ BatchesAreStored
  /\ RangesAreStored
  /\ TargetsAreCovered
  /\ CoverageIsComplete
  /\ TargetsAreAccounted
  /\ WorkersStopInTheEnd
  /\ CompletedJobsAreDone

-----------------------------------------------------------------------------
USE CheckoutsAssumption, HistoryAssumption

\* What a log and its batches are.
LEMMA LogType ==
  ASSUME NEW h \in Heads, NEW r \in Ranges
  PROVE  /\ LogOf[h][r] \in Seq(Commits)
         /\ Len(LogOf[h][r]) \in Nat
         /\ \A i \in 1 .. Len(LogOf[h][r]) : LogOf[h][r][i] \in Commits
         /\ Listed(h, r) = {LogOf[h][r][i] : i \in 1 .. Len(LogOf[h][r])}
<1>1. LogOf[h][r] \in Seq(Commits)
  OBVIOUS
<1>2. QED
  BY <1>1 DEF Listed

\* A batch ends within the log; one that is not full ends with it.
LEMMA BatchWithinLog ==
  ASSUME NEW h \in Heads, NEW r \in Ranges, NEW skip \in Nat, skip <= Len(LogOf[h][r])
  PROVE  /\ LastOfBatch(h, r, skip) \in Nat
         /\ skip <= LastOfBatch(h, r, skip)
         /\ LastOfBatch(h, r, skip) <= Len(LogOf[h][r])
         /\ LastOfBatch(h, r, skip) < skip + BatchSize => LastOfBatch(h, r, skip) = Len(LogOf[h][r])
BY LogType DEF LastOfBatch

\* The targets that prepare_history finds.
LEMMA TargetType ==
  ASSUME TypeOK, NEW p \in Projects, Recorded(p), NEW r \in Ranges
  PROVE  /\ TargetsFor(p, r) \subseteq Targets
         /\ \A t \in TargetsFor(p, r) : t.project = p
<1> SUFFICES ASSUME NEW t \in TargetsFor(p, r) PROVE t \in Targets /\ t.project = p
  OBVIOUS
<1>1. PICK row \in IF CoveringRows(p, r) = {} THEN {NoRow} ELSE CoveringRows(p, r) :
        t = [project |-> p, path |-> path[p], covered |-> Covered(row),
             previous |-> IF row = NoRow THEN NoHead ELSE row.head]
  BY DEF TargetsFor
<1>2. row = NoRow \/ row \in Row
  BY <1>1 DEF CoveringRows, TypeOK
<1>3. path[p] \in Paths
  BY DEF TypeOK, CheckoutsTypeOK, Recorded
<1>4. Covered(row) \in BOOLEAN
  BY DEF Covered
<1>5. QED
  BY <1>1, <1>2, <1>3, <1>4 DEF Targets, Row

\* A thread at a place, with fresh variables.
LEMMA RestingThread ==
  /\ \A place \in WorkerPlaces : At(place) \in Thread
  /\ \A place : At(place).at = place /\ At(place).head = NoHead /\ At(place).skip = 0
               /\ At(place).error = FALSE
BY DEF At, Thread

-----------------------------------------------------------------------------
\* Types, and the local variables of the workers

FitInv == TypeOK /\ WorkersBelongToJobs /\ WorkersFit /\ LeftAreTargets

\* What a worker's place says about its variables and the job.
LEMMA ThreadType ==
  ASSUME FitInv, NEW w \in Workers
  PROVE  /\ worker[w] \in Thread
         /\ worker[w].at # "stopped" => /\ job \in Jobs
                                        /\ job.state = "running"
                                        /\ job.range \in Ranges
         /\ ~ Resting(w) => worker[w].target \in Targets /\ ProjectOf(w) \in Projects
         /\ worker[w].at \in {"batch", "storing"} => worker[w].head \in Heads
<1>1. worker[w] \in Thread
  BY DEF FitInv, TypeOK
<1>2. worker[w].at # "stopped" => job \in Jobs /\ job.state = "running" /\ job.range \in Ranges
  BY DEF FitInv, WorkersBelongToJobs, Jobs
<1>3. ~ Resting(w) => worker[w].at # "stopped" /\ worker[w].target \in job.targets
  BY DEF FitInv, WorkersFit, Resting
<1>4. ~ Resting(w) => worker[w].target \in Targets
  BY <1>2, <1>3 DEF Jobs
<1>5. QED
  BY <1>1, <1>2, <1>4 DEF Thread, FitInv, WorkersFit, Targets, ProjectOf

\* A worker's step that leaves the job alone, or only its counters, and gives
\* the worker a place that fits its other variables.
LEMMA FitKept ==
  ASSUME FitInv, NEW w \in Workers, NEW thread \in Thread,
         worker' = [worker EXCEPT ![w] = thread],
         job' \in Jobs, job'.targets = job.targets, job'.range = job.range,
         job'.state = job.state, job.state = "running", job'.left \subseteq job.left,
         thread.at \in {"next", "stopped"} => thread = At(thread.at),
         thread.at \notin {"next", "stopped"} => thread.target \in job.targets,
         thread.at = "head" => thread.head = NoHead /\ thread.skip = 0 /\ ~ thread.error,
         thread.at \in {"batch", "storing"} => thread.head # NoHead /\ ~ thread.error,
         thread.head # NoHead => thread.skip <= Len(LogOf[thread.head][job.range]),
         CheckoutsTypeOK',
         commits' \in [Projects -> SUBSET Commits],
         coverage' \in [Projects -> [Ranges -> Row \cup {NoRow}]],
         jobs' = jobs
  PROVE  FitInv'
<1>1. /\ worker' \in [Workers -> Thread]
      /\ \A v \in Workers : worker'[v] = IF v = w THEN thread ELSE worker[v]
  BY DEF FitInv, TypeOK
<1>2. \A v \in Workers : worker'[v].head # NoHead =>
        worker'[v].skip <= Len(LogOf[worker'[v].head][job'.range])
  BY <1>1 DEF FitInv, TypeOK
<1>3. TypeOK'
  BY <1>1, <1>2 DEF FitInv, TypeOK
<1>4. WorkersBelongToJobs'
  BY <1>1 DEF FitInv, WorkersBelongToJobs
<1>5. WorkersFit'
  <2> SUFFICES ASSUME NEW v \in Workers
               PROVE  /\ Resting(v)' => worker'[v] = At(worker'[v].at)
                      /\ ~ Resting(v)' => worker'[v].target \in job'.targets
                      /\ worker'[v].at = "head" =>
                           worker'[v].head = NoHead /\ worker'[v].skip = 0 /\ ~ worker'[v].error
                      /\ worker'[v].at \in {"batch", "storing"} =>
                           worker'[v].head # NoHead /\ ~ worker'[v].error
    BY DEF WorkersFit, At
  <2>1. CASE v = w
    BY <1>1, <2>1 DEF Resting
  <2>2. CASE v # w
    BY <1>1, <2>2 DEF Resting, FitInv, WorkersFit
  <2>3. QED
    BY <2>1, <2>2
<1>6. LeftAreTargets'
  <2>1. job \in Jobs
    BY DEF FitInv, TypeOK, NoJob
  <2>2. job.left \subseteq job.targets
    BY <2>1 DEF FitInv, LeftAreTargets
  <2>3. QED
    BY <2>2 DEF LeftAreTargets
<1>7. QED
  BY <1>3, <1>4, <1>5, <1>6 DEF FitInv

\* Every step of a worker keeps the types and the local variables in order.
LEMMA FitWorker ==
  ASSUME FitInv, NEW w \in Workers, WorkerStep(w)
  PROVE  FitInv'
<1> DEFINE me == worker[w]
<1>1. me.at # "stopped" /\ me.at \in WorkerPlaces
  BY ThreadType DEF WorkerStep, NextTarget, ReadHead, ReadBatch, StoreBatch, FinishTarget, RecordTarget,
     Thread
<1>2. /\ me \in Thread /\ job \in Jobs /\ job.state = "running" /\ job.range \in Ranges
      /\ ~ Resting(w) => me.target \in job.targets /\ me.target \in Targets /\ ProjectOf(w) \in Projects
      /\ me.at \in {"batch", "storing"} => me.head \in Heads /\ ~ me.error
      /\ me.head # NoHead => me.skip <= Len(LogOf[me.head][job.range])
      /\ job.left \subseteq job.targets
      /\ worker \in [Workers -> Thread]
  BY <1>1, ThreadType DEF FitInv, WorkersFit, TypeOK, LeftAreTargets
<1>3. CheckoutsTypeOK /\ commits \in [Projects -> SUBSET Commits]
      /\ coverage \in [Projects -> [Ranges -> Row \cup {NoRow}]]
  BY DEF FitInv, TypeOK
<1>4. CheckoutsTypeOK' /\ jobs' = jobs
  BY <1>3 DEF WorkerStep, NextTarget, ReadHead, ReadBatch, StoreBatch, FinishTarget, RecordTarget,
     CheckoutsTypeOK
<1>5. ASSUME NextTarget(w) PROVE FitInv'
  <2>1. commits' = commits /\ coverage' = coverage
    BY <1>5 DEF NextTarget
  <2>2. CASE worker' = [worker EXCEPT ![w] = At("stopped")] /\ job' = job
    <3>1. At("stopped") \in Thread /\ At("stopped").at = "stopped" /\ At("stopped").head = NoHead
      BY RestingThread DEF WorkerPlaces
    <3>2. QED
      BY <1>2, <1>3, <1>4, <2>1, <2>2, <3>1, FitKept
  <2>3. ASSUME NEW t \in job.left, job' = [job EXCEPT !.left = @ \ {t}],
               worker' = [worker EXCEPT ![w] = [At("head") EXCEPT !.target = t]]
        PROVE  FitInv'
    <3> DEFINE thread == [At("head") EXCEPT !.target = t]
    <3>1. t \in Targets /\ t \in job.targets
      BY <1>2, <2>3 DEF Jobs
    <3>2. /\ thread \in Thread
          /\ thread.at = "head" /\ thread.target = t /\ thread.head = NoHead
          /\ thread.skip = 0 /\ thread.error = FALSE
      BY <3>1 DEF At, Thread, WorkerPlaces
    <3>3. /\ job' \in Jobs /\ job'.targets = job.targets /\ job'.range = job.range
          /\ job'.state = job.state /\ job'.left \subseteq job.left
      BY <1>2, <2>3 DEF Jobs
    <3>4. worker' = [worker EXCEPT ![w] = thread]
      BY <2>3
    <3> HIDE DEF thread
    <3>5. QED
      BY <1>2, <1>3, <1>4, <2>1, <3>1, <3>2, <3>3, <3>4, FitKept
  <2>4. QED
    BY <1>5, <2>2, <2>3 DEF NextTarget
<1>6. ASSUME Fail(w), me.at \in {"head", "batch", "storing"}, job' = job,
             commits' = commits, coverage' = coverage
      PROVE  FitInv'
  <2> DEFINE thread == [me EXCEPT !.at = "finish", !.error = TRUE]
  <2>1. thread \in Thread /\ thread.at = "finish" /\ thread.target = me.target
        /\ thread.head = me.head /\ thread.skip = me.skip
    BY <1>2 DEF Thread, WorkerPlaces
  <2>2. worker' = [worker EXCEPT ![w] = thread]
    BY <1>2, <1>6 DEF Fail
  <2> HIDE DEF thread
  <2>3. QED
    BY <1>2, <1>3, <1>4, <1>6, <2>1, <2>2, FitKept DEF Resting
<1>7. ASSUME NEW place \in {"storing", "recording"}, Goto(w, place),
             IF place = "storing" THEN me.at = "batch" ELSE me.at = "finish",
             job' = job, commits' = commits, coverage' = coverage
      PROVE  FitInv'
  <2> DEFINE thread == [me EXCEPT !.at = place]
  <2>1. thread \in Thread /\ thread.at = place /\ thread.target = me.target
        /\ thread.head = me.head /\ thread.skip = me.skip /\ thread.error = me.error
    BY <1>2 DEF Thread, WorkerPlaces
  <2>2. worker' = [worker EXCEPT ![w] = thread]
    BY <1>2, <1>7 DEF Goto
  <2>3. place = "storing" => me.head # NoHead /\ ~ me.error
    BY <1>2, <1>7
  <2> HIDE DEF thread
  <2>4. QED
    BY <1>2, <1>3, <1>4, <1>7, <2>1, <2>2, <2>3, FitKept DEF Resting
<1>8. ASSUME ReadHead(w) PROVE FitInv'
  <2>1. job' = job /\ commits' = commits /\ coverage' = coverage /\ me.at = "head"
    BY <1>8 DEF ReadHead
  <2>2. CASE ~ Fail(w)
    <3> DEFINE head == HeadOf[RepositoryOf(me.target.path)]
               place == IF (me.target.covered /\ me.target.previous = head) \/ head = NoHead
                        THEN "finish" ELSE "batch"
               thread == [me EXCEPT !.head = head, !.at = place]
    <3>1. head \in Heads \cup {NoHead}
      BY <1>2, <1>3, <2>1 DEF Resting, Targets, RepositoryOf, CheckoutsTypeOK
    <3>2. worker' = [worker EXCEPT ![w] = thread]
      BY <1>2, <1>8, <2>2 DEF ReadHead
    <3>3. place \in {"finish", "batch"} /\ (place = "batch" => head # NoHead)
      OBVIOUS
    <3> HIDE DEF head, place
    <3>4. thread \in Thread /\ thread.at = place /\ thread.target = me.target
          /\ thread.head = head /\ thread.skip = me.skip /\ thread.error = me.error
      BY <1>2, <3>1, <3>3 DEF Thread, WorkerPlaces
    <3>5. me.skip = 0 /\ ~ me.error
      BY <2>1 DEF FitInv, WorkersFit
    <3>6. thread.head # NoHead => thread.skip <= Len(LogOf[thread.head][job.range])
      BY <1>2, <3>1, <3>4, <3>5, LogType
    <3> HIDE DEF thread
    <3>7. QED
      BY <1>2, <1>3, <1>4, <2>1, <3>2, <3>3, <3>4, <3>5, <3>6, FitKept DEF Resting
  <2>3. QED
    BY <1>6, <2>1, <2>2
<1>9. ASSUME StoreBatch(w) PROVE FitInv'
  <2>1. job' = job /\ coverage' = coverage /\ me.at = "storing"
    BY <1>9 DEF StoreBatch
  <2>2. CASE ~ (Fail(w) /\ commits' = commits)
    <3> DEFINE last == LastOfBatch(me.head, job.range, me.skip)
               place == IF last < me.skip + BatchSize THEN "finish" ELSE "batch"
               thread == [me EXCEPT !.skip = last, !.at = place]
    <3>1. me.head \in Heads /\ me.skip \in Nat /\ ~ me.error
      BY <1>2, <2>1 DEF Thread
    <3>2. last \in Nat /\ last <= Len(LogOf[me.head][job.range])
      BY <1>2, <3>1, BatchWithinLog
    <3>3. worker' = [worker EXCEPT ![w] = thread]
      BY <1>2, <1>9, <2>2 DEF StoreBatch
    <3>4. commits' = [commits EXCEPT ![ProjectOf(w)] =
            @ \cup {LogOf[me.head][job.range][i] : i \in me.skip + 1 .. last}]
      BY <1>9, <2>2 DEF StoreBatch, ProjectOf
    <3>5. commits' \in [Projects -> SUBSET Commits]
      <4>1. \A i \in me.skip + 1 .. last : LogOf[me.head][job.range][i] \in Commits
        BY <1>2, <3>1, <3>2, LogType
      <4> HIDE DEF last
      <4>2. QED
        BY <1>2, <1>3, <2>1, <3>4, <4>1 DEF Resting
    <3>6. place \in {"finish", "batch"}
      OBVIOUS
    <3> HIDE DEF last, place
    <3>7. thread \in Thread /\ thread.at = place /\ thread.target = me.target
          /\ thread.head = me.head /\ thread.skip = last /\ thread.error = me.error
      BY <1>2, <3>2, <3>6 DEF Thread, WorkerPlaces
    <3> HIDE DEF thread
    <3>8. QED
      BY <1>2, <1>3, <1>4, <2>1, <3>1, <3>2, <3>3, <3>5, <3>6, <3>7, FitKept DEF Resting
  <2>3. QED
    BY <1>6, <2>1, <2>2
<1>10. ASSUME NEW saved \in BOOLEAN, CountTarget(w, saved), me.at \in {"finish", "recording"},
              commits' = commits, coverage' \in [Projects -> [Ranges -> Row \cup {NoRow}]]
       PROVE  FitInv'
  <2>1. /\ job' \in Jobs /\ job'.targets = job.targets /\ job'.range = job.range
        /\ job'.state = job.state /\ job'.left \subseteq job.left
    <3>1. Failures(w, saved) \subseteq Projects
      BY <1>2, <1>10 DEF Failures, Jobs, ProjectOf, Resting
    <3>2. QED
      BY <1>2, <1>10, <3>1 DEF CountTarget, Jobs
  <2>2. At("next") \in Thread /\ At("next").at = "next" /\ At("next").head = NoHead
    BY RestingThread DEF WorkerPlaces
  <2>3. worker' = [worker EXCEPT ![w] = At("next")]
    BY <1>10 DEF CountTarget
  <2>4. QED
    BY <1>2, <1>3, <1>4, <1>10, <2>1, <2>2, <2>3, FitKept
<1>11. ASSUME FinishTarget(w) PROVE FitInv'
  <2>1. commits' = commits /\ coverage' = coverage /\ me.at = "finish"
    BY <1>11 DEF FinishTarget
  <2>2. CASE worker' = [worker EXCEPT ![w] = At("stopped")] /\ job' = job
    <3>1. At("stopped") \in Thread /\ At("stopped").at = "stopped" /\ At("stopped").head = NoHead
      BY RestingThread DEF WorkerPlaces
    <3>2. QED
      BY <1>2, <1>3, <1>4, <2>1, <2>2, <3>1, FitKept
  <2>3. CASE Goto(w, "recording") /\ job' = job
    BY <1>7, <2>1, <2>3
  <2>4. CASE CountTarget(w, FALSE)
    BY <1>3, <1>10, <2>1, <2>4
  <2>5. QED
    BY <1>11, <2>2, <2>3, <2>4 DEF FinishTarget
<1>12. ASSUME RecordTarget(w) PROVE FitInv'
  <2>1. me.at = "recording" /\ commits' = commits
    BY <1>12 DEF RecordTarget
  <2>2. [head |-> me.head, error |-> me.error] \in Row
    BY <1>2 DEF Thread, Row
  <2>3. coverage' \in [Projects -> [Ranges -> Row \cup {NoRow}]]
    <3>1. ProjectOf(w) \in Projects
      BY <1>2, <2>1 DEF Resting
    <3>2. CASE coverage' = [coverage EXCEPT ![ProjectOf(w)][job.range] =
                              [head |-> me.head, error |-> me.error]]
      <4>1. coverage' = [coverage EXCEPT ![ProjectOf(w)] =
                           [coverage[ProjectOf(w)] EXCEPT ![job.range] =
                              [head |-> me.head, error |-> me.error]]]
        BY <3>2
      <4>2. [coverage[ProjectOf(w)] EXCEPT ![job.range] = [head |-> me.head, error |-> me.error]]
              \in [Ranges -> Row \cup {NoRow}]
        BY <1>3, <2>2, <3>1
      <4>3. QED
        BY <1>3, <4>1, <4>2
    <3>3. QED
      BY <1>3, <1>12, <3>2 DEF RecordTarget, ProjectOf
  <2>4. CountTarget(w, TRUE) \/ CountTarget(w, FALSE)
    BY <1>12 DEF RecordTarget
  <2>5. QED
    BY <1>10, <2>1, <2>3, <2>4
<1>13. ASSUME ReadBatch(w) PROVE FitInv'
  <2>1. job' = job /\ commits' = commits /\ coverage' = coverage /\ me.at = "batch"
    BY <1>13 DEF ReadBatch
  <2>2. Goto(w, "storing") \/ Fail(w)
    BY <1>13 DEF ReadBatch
  <2>3. QED
    BY <1>6, <1>7, <2>1, <2>2
<1>14. QED
  BY <1>5, <1>8, <1>9, <1>11, <1>12, <1>13 DEF WorkerStep

\* No job has run: all workers are stopped.
LEMMA FitInit == Init => FitInv
<1> SUFFICES ASSUME Init PROVE FitInv
  OBVIOUS
<1>1. CheckoutsTypeOK
  BY DEF Init, CheckoutsInit, CheckoutsTypeOK, Versions
<1>2. /\ worker \in [Workers -> Thread]
      /\ \A w \in Workers : worker[w] = At("stopped") /\ worker[w].at = "stopped" /\ worker[w].head = NoHead
  BY RestingThread DEF Init, WorkerPlaces
<1>3. TypeOK
  BY <1>1, <1>2 DEF Init, TypeOK
<1>4. job \notin Jobs
  BY DEF Init, NoJob, Jobs
<1>5. WorkersBelongToJobs /\ WorkersFit /\ LeftAreTargets
  BY <1>2, <1>4 DEF WorkersBelongToJobs, WorkersFit, LeftAreTargets, Resting
<1>6. QED
  BY <1>3, <1>5 DEF FitInv

\* A new job begins with fresh workers.
LEMMA FitStart ==
  ASSUME FitInv, NEW r \in Ranges, StartRefresh(r)
  PROVE  FitInv'
<1>a. PICK chosen \in SUBSET {p \in Projects : Recorded(p)} :
        \E target \in [chosen -> UNION {TargetsFor(p, r) : p \in chosen}] :
          /\ \A p \in chosen : target[p] \in TargetsFor(p, r)
          /\ job' = [state |-> IF {target[p] : p \in chosen} = {} THEN "completed" ELSE "running",
                     range |-> r, targets |-> {target[p] : p \in chosen},
                     left |-> {target[p] : p \in chosen}, failures |-> {}, cancel |-> FALSE]
          /\ worker' = [w \in Workers |->
                          At(IF {target[p] : p \in chosen} = {} THEN "stopped" ELSE "next")]
  BY DEF StartRefresh
<1>1. PICK target \in [chosen -> UNION {TargetsFor(p, r) : p \in chosen}] :
        /\ \A p \in chosen : target[p] \in TargetsFor(p, r)
        /\ job' = [state |-> IF {target[p] : p \in chosen} = {} THEN "completed" ELSE "running",
                   range |-> r, targets |-> {target[p] : p \in chosen},
                   left |-> {target[p] : p \in chosen}, failures |-> {}, cancel |-> FALSE]
        /\ worker' = [w \in Workers |->
                        At(IF {target[p] : p \in chosen} = {} THEN "stopped" ELSE "next")]
  BY <1>a
<1> DEFINE targets == {target[p] : p \in chosen}
           place == IF targets = {} THEN "stopped" ELSE "next"
<1>2. targets \subseteq Targets
  BY <1>1, TargetType DEF FitInv
<1>3. place \in {"stopped", "next"}
  OBVIOUS
<1>4. worker' = [w \in Workers |-> At(place)]
  BY <1>1
<1>5. /\ job' \in Jobs
      /\ place # "stopped" => job'.state = "running"
      /\ job'.left = job'.targets
  BY <1>1, <1>2 DEF Jobs
<1> HIDE DEF place, targets
<1>6. /\ worker' \in [Workers -> Thread]
      /\ \A w \in Workers : worker'[w] = At(place) /\ worker'[w].at = place /\ worker'[w].head = NoHead
  BY <1>3, <1>4, RestingThread DEF WorkerPlaces
<1>7. TypeOK'
  <2>1. jobs' \in 0 .. MaxJobs
    BY DEF StartRefresh, FitInv, TypeOK
  <2>2. CheckoutsTypeOK' /\ commits' = commits /\ coverage' = coverage
    BY DEF StartRefresh, FitInv, TypeOK, CheckoutsTypeOK
  <2>3. QED
    BY <1>5, <1>6, <2>1, <2>2 DEF FitInv, TypeOK
<1>8. WorkersBelongToJobs' /\ WorkersFit' /\ LeftAreTargets'
  BY <1>3, <1>5, <1>6 DEF WorkersBelongToJobs, WorkersFit, LeftAreTargets, Resting
<1>9. QED
  BY <1>7, <1>8 DEF FitInv

\* Every other step leaves the workers alone.
LEMMA FitOther ==
  ASSUME FitInv,
         \/ CancelRefresh
         \/ EndJob
         \/ \E p \in Projects : RemoveProject(p)
         \/ \E p \in Projects, d \in Paths : RelocateProject(p, d)
         \/ \E r \in Roots : OtherProgram(r)
         \/ UNCHANGED vars
  PROVE  FitInv'
<1>1. worker' = worker /\ jobs' = jobs
  BY DEF CancelRefresh, EndJob, RemoveProject, RelocateProject, OtherProgram, vars
<1>2. \/ job' = job
      \/ /\ job \in Jobs /\ job' \in Jobs /\ job'.range = job.range
         /\ job'.targets = job.targets /\ job'.left = job.left
         /\ \/ job'.state = job.state
            \/ \A w \in Workers : worker[w].at = "stopped"
  <2>1. CASE CancelRefresh
    BY <2>1 DEF CancelRefresh, FitInv, TypeOK, Jobs, NoJob
  <2>2. CASE EndJob
    <3>1. job \in Jobs
      BY <2>2 DEF EndJob, FitInv, TypeOK, NoJob
    <3>2. PICK state \in {"canceled", "completed", "partial"} : job' = [job EXCEPT !.state = state]
      BY <2>2 DEF EndJob
    <3>3. QED
      BY <2>2, <3>1, <3>2 DEF EndJob, Jobs
  <2>3. QED
    BY <2>1, <2>2 DEF RemoveProject, RelocateProject, OtherProgram, vars
<1>3. /\ CheckoutsTypeOK'
      /\ commits' \in [Projects -> SUBSET Commits]
      /\ coverage' \in [Projects -> [Ranges -> Row \cup {NoRow}]]
  <2> USE DEF FitInv, TypeOK, CheckoutsTypeOK
  <2>1. CASE CancelRefresh \/ EndJob \/ UNCHANGED vars
    BY <2>1 DEF CancelRefresh, EndJob, vars
  <2>2. ASSUME NEW p \in Projects, RemoveProject(p)
        PROVE  /\ path' \in [Projects -> Paths \cup {NoPath}] /\ version' = version
               /\ commits' \in [Projects -> SUBSET Commits]
               /\ coverage' \in [Projects -> [Ranges -> Row \cup {NoRow}]]
    <3>1. [q \in Ranges |-> NoRow] \in [Ranges -> Row \cup {NoRow}]
      OBVIOUS
    <3>2. QED
      BY <2>2, <3>1 DEF RemoveProject, RemoveRecord
  <2>3. ASSUME NEW p \in Projects, NEW d \in Paths, RelocateProject(p, d)
        PROVE  /\ path' \in [Projects -> Paths \cup {NoPath}] /\ version' = version
               /\ commits' = commits /\ coverage' = coverage
    BY <2>3 DEF RelocateProject, Relocate
  <2>4. ASSUME NEW r \in Roots, OtherProgram(r)
        PROVE  path' = path /\ version' \in [Roots -> Versions]
               /\ commits' = commits /\ coverage' = coverage
    BY <2>4 DEF OtherProgram, ChangeRepository, Versions
  <2>5. QED
    BY <2>1, <2>2, <2>3, <2>4
<1>4. TypeOK'
  BY <1>1, <1>2, <1>3 DEF FitInv, TypeOK
<1>5. WorkersBelongToJobs' /\ WorkersFit' /\ LeftAreTargets'
  BY <1>1, <1>2 DEF FitInv, WorkersBelongToJobs, WorkersFit, LeftAreTargets, Resting, At
<1>6. QED
  BY <1>4, <1>5 DEF FitInv

\* Types and local variables are an inductive invariant by themselves.
LEMMA FitStep ==
  ASSUME FitInv, [Next]_vars PROVE FitInv'
BY FitWorker, FitStart, FitOther DEF Next

-----------------------------------------------------------------------------
\* What is stored

DataInv == BatchesAreStored /\ RangesAreStored /\ TargetsAreCovered /\ CoverageIsComplete

\* What one step of a worker changes.
LEMMA WorkerFrame ==
  ASSUME FitInv, NEW w \in Workers, WorkerStep(w)
  PROVE  /\ path' = path
         /\ job \in Jobs /\ job' \in Jobs /\ job.state = "running" /\ job'.state = "running"
         /\ job'.range = job.range /\ job'.targets = job.targets /\ job'.cancel = job.cancel
         /\ job'.left \subseteq job.left /\ job.failures \subseteq job'.failures
         /\ \A v \in Workers \ {w} : worker'[v] = worker[v]
         /\ \A p \in Projects : commits[p] \subseteq commits'[p]
<1>1. worker \in [Workers -> Thread] /\ commits \in [Projects -> SUBSET Commits]
  BY DEF FitInv, TypeOK
<1>2. job \in Jobs /\ job.state = "running"
  BY ThreadType DEF WorkerStep, NextTarget, ReadHead, ReadBatch, StoreBatch, FinishTarget, RecordTarget
<1>3. path' = path
  BY DEF WorkerStep, NextTarget, ReadHead, ReadBatch, StoreBatch, FinishTarget, RecordTarget
<1>4. \A v \in Workers \ {w} : worker'[v] = worker[v]
  BY <1>1 DEF WorkerStep, NextTarget, ReadHead, ReadBatch, StoreBatch, FinishTarget, RecordTarget,
     Fail, Goto, CountTarget
<1>5. \A p \in Projects : commits[p] \subseteq commits'[p]
  <2>1. CASE StoreBatch(w)
    <3>1. \/ commits' = commits
          \/ \E last \in Nat :
               commits' = [commits EXCEPT ![ProjectOf(w)] =
                 @ \cup {RangeLog(w)[i] : i \in worker[w].skip + 1 .. last}]
      <4>1. worker[w].skip \in Nat /\ worker[w].head \in Heads /\ job.range \in Ranges
        BY <2>1, ThreadType DEF StoreBatch, Thread
      <4>2. LastOfBatch(worker[w].head, job.range, worker[w].skip) \in Nat
        BY <4>1, LogType DEF LastOfBatch
      <4>3. QED
        BY <2>1, <4>2 DEF StoreBatch, ProjectOf, RangeLog
    <3>2. QED
      BY <1>1, <3>1
  <2>2. CASE ~ StoreBatch(w)
    BY <2>2 DEF WorkerStep, NextTarget, ReadHead, ReadBatch, FinishTarget, RecordTarget
  <2>3. QED
    BY <2>1, <2>2
<1>6. \/ job' = job
      \/ \E t \in job.left : job' = [job EXCEPT !.left = @ \ {t}]
      \/ \E saved \in BOOLEAN : job' = [job EXCEPT !.failures = Failures(w, saved)]
  BY DEF WorkerStep, NextTarget, ReadHead, ReadBatch, StoreBatch, FinishTarget, RecordTarget,
     CountTarget
<1>7. \A saved \in BOOLEAN : job.failures \subseteq Failures(w, saved)
  BY DEF Failures
<1>8. job' \in Jobs \cup {NoJob}
  BY FitStep DEF Next, FitInv, TypeOK
<1>9. /\ job'.state = job.state /\ job'.range = job.range /\ job'.targets = job.targets
      /\ job'.cancel = job.cancel /\ job'.left \subseteq job.left
      /\ job.failures \subseteq job'.failures
  <2>1. CASE job' = job
    BY <2>1
  <2>2. ASSUME NEW t \in job.left, job' = [job EXCEPT !.left = @ \ {t}]
        PROVE  <1>9
    BY <1>2, <2>2 DEF Jobs
  <2>3. ASSUME NEW saved \in BOOLEAN, job' = [job EXCEPT !.failures = Failures(w, saved)]
        PROVE  <1>9
    BY <1>2, <1>7, <2>3 DEF Jobs
  <2>4. QED
    BY <1>6, <2>1, <2>2, <2>3
<1>10. QED
  BY <1>2, <1>3, <1>4, <1>5, <1>8, <1>9 DEF NoJob

\* The facts about a worker that its own step does not disturb.
LEMMA DataFrame ==
  ASSUME FitInv, DataInv, NEW w \in Workers, WorkerStep(w)
  PROVE  /\ TargetsAreCovered'
         /\ \A v \in Workers \ {w} :
              /\ Reading(v)' /\ worker'[v].head # NoHead /\ Recorded(ProjectOf(v))' =>
                   \A i \in 1 .. worker'[v].skip : RangeLog(v)'[i] \in commits'[ProjectOf(v)']
              /\ /\ worker'[v].at \in {"finish", "recording"}
                 /\ ~ worker'[v].error
                 /\ worker'[v].head # NoHead
                 /\ Recorded(ProjectOf(v))'
                 => Listed(worker'[v].head, job'.range) \subseteq commits'[ProjectOf(v)']
<1> USE WorkerFrame
<1>1. TargetsAreCovered'
  <2> SUFFICES ASSUME NEW t \in job'.targets, t.covered, t.previous # NoHead, Recorded(t.project)'
               PROVE  Listed(t.previous, job'.range) \subseteq commits'[t.project]
    BY DEF TargetsAreCovered
  <2>1. t \in job.targets /\ t.project \in Projects /\ Recorded(t.project)
    BY DEF Jobs, Targets, Recorded
  <2>2. Listed(t.previous, job.range) \subseteq commits[t.project]
    BY <2>1 DEF DataInv, TargetsAreCovered
  <2>3. QED
    BY <2>1, <2>2
<1>2. ASSUME NEW v \in Workers \ {w}, Reading(v)', worker'[v].head # NoHead, Recorded(ProjectOf(v))',
             NEW i \in 1 .. worker'[v].skip
      PROVE  RangeLog(v)'[i] \in commits'[ProjectOf(v)']
  <2>1. Reading(v) /\ ProjectOf(v)' = ProjectOf(v) /\ RangeLog(v)' = RangeLog(v) /\ Recorded(ProjectOf(v))
    BY <1>2 DEF Reading, ProjectOf, RangeLog, Recorded
  <2>2. ProjectOf(v) \in Projects
    BY <2>1, ThreadType DEF Reading, Resting
  <2>3. RangeLog(v)[i] \in commits[ProjectOf(v)]
    BY <1>2, <2>1 DEF DataInv, BatchesAreStored
  <2>4. QED
    BY <2>1, <2>2, <2>3
<1>3. ASSUME NEW v \in Workers \ {w}, worker'[v].at \in {"finish", "recording"}, ~ worker'[v].error,
             worker'[v].head # NoHead, Recorded(ProjectOf(v))'
      PROVE  Listed(worker'[v].head, job'.range) \subseteq commits'[ProjectOf(v)']
  <2>1. worker'[v] = worker[v] /\ ProjectOf(v)' = ProjectOf(v) /\ Recorded(ProjectOf(v))
    BY <1>3 DEF ProjectOf, Recorded
  <2>2. ProjectOf(v) \in Projects
    BY <1>3, <2>1, ThreadType DEF Resting
  <2>3. Listed(worker[v].head, job.range) \subseteq commits[ProjectOf(v)]
    BY <1>3, <2>1 DEF DataInv, RangesAreStored
  <2>4. QED
    BY <2>1, <2>2, <2>3
<1>4. QED
  BY <1>1, <1>2, <1>3

\* A worker's own step: what it has counted.
LEMMA BatchesWorker ==
  ASSUME FitInv, DataInv, NEW w \in Workers, WorkerStep(w)
  PROVE  BatchesAreStored'
<1> SUFFICES ASSUME Reading(w)', worker'[w].head # NoHead, Recorded(ProjectOf(w))',
                    NEW i \in 1 .. worker'[w].skip
             PROVE  RangeLog(w)'[i] \in commits'[ProjectOf(w)']
  BY DataFrame DEF BatchesAreStored
<1>1. worker \in [Workers -> Thread] /\ commits \in [Projects -> SUBSET Commits]
  BY DEF FitInv, TypeOK
<1>2. CASE StoreBatch(w) /\ ~ (Fail(w) /\ commits' = commits)
  <2> DEFINE me == worker[w]
             last == LastOfBatch(me.head, job.range, me.skip)
  <2>1. /\ me.skip \in Nat /\ me.head \in Heads /\ job.range \in Ranges /\ ProjectOf(w) \in Projects
        /\ me.skip <= Len(LogOf[me.head][job.range])
    BY <1>2, ThreadType DEF StoreBatch, Thread, Resting, FitInv, TypeOK
  <2>2. last \in Nat /\ me.skip <= last
    BY <2>1, BatchWithinLog
  <2>2a. me.at = "storing"
    BY <1>2 DEF StoreBatch
  <2>3. /\ commits' = [commits EXCEPT ![ProjectOf(w)] =
             @ \cup {LogOf[me.head][job.range][j] : j \in me.skip + 1 .. last}]
        /\ worker'[w].head = me.head /\ worker'[w].target = me.target /\ worker'[w].skip = last
        /\ job' = job /\ path' = path
    BY <1>1, <1>2 DEF StoreBatch, ProjectOf, Thread
  <2> HIDE DEF last
  <2>4. commits'[ProjectOf(w)] =
          commits[ProjectOf(w)] \cup {LogOf[me.head][job.range][j] : j \in me.skip + 1 .. last}
    BY <1>1, <2>1, <2>3
  <2>5. ProjectOf(w)' = ProjectOf(w) /\ RangeLog(w)' = LogOf[me.head][job.range] /\ Recorded(ProjectOf(w))
    BY <2>3 DEF ProjectOf, RangeLog, Recorded
  <2>6. CASE i <= me.skip
    <3>1. Reading(w) /\ me.head # NoHead /\ i \in 1 .. me.skip
      <4>1. i \in Nat /\ 1 <= i
        BY <2>2, <2>3
      <4>2. QED
        BY <2>1, <2>2a, <2>6, <4>1 DEF Reading
    <3>2. LogOf[me.head][job.range][i] \in commits[ProjectOf(w)]
      BY <2>5, <3>1 DEF DataInv, BatchesAreStored, RangeLog
    <3>3. QED
      BY <2>4, <2>5, <3>2
  <2>7. CASE ~ (i <= me.skip)
    <3>1. i \in me.skip + 1 .. last
      BY <2>1, <2>2, <2>3, <2>7
    <3>2. QED
      BY <2>4, <2>5, <3>1
  <2>8. QED
    BY <2>6, <2>7
<1>3. CASE ReadHead(w)
  <2>1. worker[w].skip = 0
    BY <1>3 DEF ReadHead, FitInv, WorkersFit
  <2>2. worker'[w].skip = 0
    BY <1>1, <1>3, <2>1 DEF ReadHead, Fail, Thread
  <2>3. QED
    BY <2>2
<1>4. CASE ReadBatch(w) \/ FinishTarget(w) \/ (StoreBatch(w) /\ Fail(w) /\ commits' = commits)
  <2>1. /\ Reading(w) /\ worker'[w].head = worker[w].head /\ worker'[w].skip = worker[w].skip
        /\ worker'[w].target = worker[w].target
    <3>1. CASE ReadBatch(w)
      BY <1>1, <3>1 DEF ReadBatch, Fail, Goto, Reading, Thread
    <3>2. CASE FinishTarget(w)
      <4>1. CASE Goto(w, "recording")
        BY <1>1, <3>2, <4>1 DEF FinishTarget, Goto, Reading, Thread
      <4>2. CASE worker'[w] \in {At("stopped"), At("next")}
        BY <4>2, RestingThread DEF Reading
      <4>3. QED
        BY <1>1, <3>2, <4>1, <4>2 DEF FinishTarget, CountTarget
    <3>3. CASE StoreBatch(w) /\ Fail(w)
      BY <1>1, <3>3 DEF StoreBatch, Fail, Reading, Thread
    <3>4. QED
      BY <1>4, <3>1, <3>2, <3>3
  <2>2. commits' = commits /\ path' = path /\ job'.range = job.range
    BY <1>4, WorkerFrame DEF ReadBatch, FinishTarget, StoreBatch
  <2>3. QED
    BY <2>1, <2>2 DEF DataInv, BatchesAreStored, ProjectOf, RangeLog, Recorded
<1>5. CASE NextTarget(w) \/ RecordTarget(w)
  <2>1. worker'[w].at \in {"stopped", "next", "head"}
    <3>1. CASE worker' = [worker EXCEPT ![w] = At("stopped")]
      BY <1>1, <3>1, RestingThread
    <3>2. CASE worker' = [worker EXCEPT ![w] = At("next")]
      BY <1>1, <3>2, RestingThread
    <3>3. CASE \E t \in job.left : worker' = [worker EXCEPT ![w] = [At("head") EXCEPT !.target = t]]
      <4>1. PICK t \in job.left : worker' = [worker EXCEPT ![w] = [At("head") EXCEPT !.target = t]]
        BY <3>3
      <4>2. worker'[w] = [At("head") EXCEPT !.target = t]
        BY <1>1, <4>1
      <4>3. [At("head") EXCEPT !.target = t].at = "head"
        BY DEF At
      <4>4. QED
        BY <4>2, <4>3
    <3>4. QED
      BY <1>5, <3>1, <3>2, <3>3 DEF NextTarget, RecordTarget, CountTarget
  <2>2. QED
    BY <2>1 DEF Reading
<1>6. QED
  BY <1>2, <1>3, <1>4, <1>5 DEF WorkerStep

\* A worker's own step: what it has when it finishes.
LEMMA RangesWorker ==
  ASSUME FitInv, DataInv, NEW w \in Workers, WorkerStep(w)
  PROVE  RangesAreStored'
<1> SUFFICES ASSUME worker'[w].at \in {"finish", "recording"}, ~ worker'[w].error,
                    worker'[w].head # NoHead, Recorded(ProjectOf(w))'
             PROVE  Listed(worker'[w].head, job'.range) \subseteq commits'[ProjectOf(w)']
  BY DataFrame DEF RangesAreStored
<1>1. worker \in [Workers -> Thread] /\ commits \in [Projects -> SUBSET Commits]
  BY DEF FitInv, TypeOK
<1>2. CASE Fail(w)
  BY <1>1, <1>2 DEF Fail, Thread
<1>3. CASE ReadHead(w) /\ ~ Fail(w)
  <2> DEFINE t == worker[w].target
             head == HeadOf[RepositoryOf(t.path)]
  <2>1. worker'[w].head = head /\ worker'[w].target = t /\ commits' = commits /\ path' = path /\ job' = job
    BY <1>1, <1>3 DEF ReadHead, Thread
  <2>2. (t.covered /\ t.previous = head) \/ head = NoHead
    BY <1>1, <1>3 DEF ReadHead, Thread
  <2> HIDE DEF head
  <2>3. t.covered /\ t.previous = head
    BY <2>1, <2>2
  <2>4. t \in job.targets /\ job \in Jobs
    BY <1>3, WorkerFrame DEF ReadHead, FitInv, WorkersFit, Resting
  <2>5. Recorded(t.project) /\ ProjectOf(w)' = t.project
    BY <2>1 DEF Recorded, ProjectOf
  <2>6. QED
    BY <2>1, <2>3, <2>4, <2>5 DEF DataInv, TargetsAreCovered
<1>4. CASE StoreBatch(w) /\ ~ Fail(w)
  <2> DEFINE me == worker[w]
             last == LastOfBatch(me.head, job.range, me.skip)
  <2>1. /\ me.skip \in Nat /\ me.head \in Heads /\ job.range \in Ranges
        /\ me.skip <= Len(LogOf[me.head][job.range])
    BY <1>4, ThreadType DEF StoreBatch, Thread, FitInv, TypeOK
  <2>2. /\ worker'[w].head = me.head /\ worker'[w].target = me.target /\ worker'[w].skip = last
        /\ job' = job
    BY <1>1, <1>4 DEF StoreBatch, Thread
  <2>3. last < me.skip + BatchSize
    BY <1>1, <1>4 DEF StoreBatch, Thread
  <2>4. last = Len(LogOf[me.head][job.range])
    BY <2>1, <2>3, BatchWithinLog
  <2>5. BatchesAreStored'
    BY BatchesWorker
  <2> HIDE DEF last
  <2>6. RangeLog(w)' = LogOf[me.head][job.range]
    BY <2>2 DEF RangeLog
  <2>7. \A i \in 1 .. last : LogOf[me.head][job.range][i] \in commits'[ProjectOf(w)']
    BY <2>2, <2>5, <2>6 DEF BatchesAreStored, Reading
  <2>8. ASSUME NEW c \in Listed(me.head, job.range) PROVE c \in commits'[ProjectOf(w)']
    <3>1. LogOf[me.head][job.range] \in Seq(Commits)
      BY <2>1, LogType
    <3>2. PICK i \in DOMAIN LogOf[me.head][job.range] : c = LogOf[me.head][job.range][i]
      BY DEF Listed
    <3>3. i \in 1 .. last
      BY <2>4, <3>1, <3>2
    <3>4. QED
      BY <2>7, <3>2, <3>3
  <2>9. QED
    BY <2>2, <2>8
<1>5. CASE (ReadBatch(w) /\ ~ Fail(w)) \/ NextTarget(w) \/ RecordTarget(w)
  <2>1. CASE ReadBatch(w) /\ ~ Fail(w)
    BY <1>1, <2>1 DEF ReadBatch, Goto, Thread
  <2>2. CASE NextTarget(w) \/ RecordTarget(w)
    <3>1. worker'[w].at \in {"stopped", "next", "head"}
      BY <1>1, <2>2, RestingThread DEF NextTarget, RecordTarget, CountTarget, At
    <3>2. QED
      BY <3>1
  <2>3. QED
    BY <1>5, <2>1, <2>2
<1>6. CASE FinishTarget(w)
  <2>1. worker[w].at = "finish" /\ commits' = commits /\ path' = path /\ job'.range = job.range
    BY <1>6, WorkerFrame DEF FinishTarget
  <2>2. CASE Goto(w, "recording")
    <3>1. /\ worker'[w].head = worker[w].head /\ worker'[w].error = worker[w].error
          /\ worker'[w].target = worker[w].target
      BY <1>1, <2>2 DEF Goto, Thread
    <3>2. QED
      BY <2>1, <3>1 DEF DataInv, RangesAreStored, ProjectOf, Recorded
  <2>3. CASE worker'[w] \in {At("stopped"), At("next")}
    BY <2>3, RestingThread
  <2>4. QED
    BY <1>1, <1>6, <2>2, <2>3 DEF FinishTarget, CountTarget
<1>7. QED
  BY <1>2, <1>3, <1>4, <1>5, <1>6 DEF WorkerStep

\* A worker's own step: the row that it writes is true.
LEMMA CoverageWorker ==
  ASSUME FitInv, DataInv, NEW w \in Workers, WorkerStep(w)
  PROVE  CoverageIsComplete'
<1> SUFFICES ASSUME NEW p \in Projects, NEW r \in Ranges,
                    coverage'[p][r] # NoRow, ~ coverage'[p][r].error, coverage'[p][r].head # NoHead
             PROVE  Listed(coverage'[p][r].head, r) \subseteq commits'[p]
  BY DEF CoverageIsComplete
<1>1. commits[p] \subseteq commits'[p]
  BY WorkerFrame
<1>2. CASE coverage'[p][r] = coverage[p][r]
  BY <1>1, <1>2 DEF DataInv, CoverageIsComplete
<1>3. CASE coverage'[p][r] # coverage[p][r]
  <2> DEFINE me == worker[w]
             row == [head |-> me.head, error |-> me.error]
  <2>1. RecordTarget(w)
    BY <1>3 DEF WorkerStep, NextTarget, ReadHead, ReadBatch, StoreBatch, FinishTarget
  <2>2. /\ me.at = "recording" /\ Recorded(ProjectOf(w))
        /\ coverage' = [coverage EXCEPT ![ProjectOf(w)][job.range] = row]
    BY <1>3, <2>1 DEF RecordTarget, ProjectOf
  <2>3. coverage \in [Projects -> [Ranges -> Row \cup {NoRow}]]
    BY DEF FitInv, TypeOK
  <2>4. p = ProjectOf(w) /\ r = job.range /\ coverage'[p][r] = row
    BY <1>3, <2>2, <2>3
  <2>5. Listed(me.head, job.range) \subseteq commits[ProjectOf(w)]
    BY <2>2, <2>4 DEF DataInv, RangesAreStored
  <2>6. QED
    BY <1>1, <2>4, <2>5
<1>4. QED
  BY <1>2, <1>3

\* At first nothing is claimed.
LEMMA DataInit == Init => DataInv
<1> SUFFICES ASSUME Init PROVE DataInv
  OBVIOUS
<1>1. \A w \in Workers : worker[w].at = "stopped"
  BY RestingThread DEF Init
<1>2. BatchesAreStored /\ RangesAreStored
  BY <1>1 DEF BatchesAreStored, RangesAreStored, Reading
<1>3. TargetsAreCovered
  BY DEF Init, NoJob, Jobs, TargetsAreCovered
<1>4. CoverageIsComplete
  BY DEF Init, CoverageIsComplete
<1>5. QED
  BY <1>2, <1>3, <1>4 DEF DataInv

\* A new job takes from the coverage what is true: a row for a range that
\* contains the one that is asked for.
LEMMA DataStart ==
  ASSUME FitInv, DataInv, NEW r \in Ranges, StartRefresh(r)
  PROVE  DataInv'
<1>1. commits' = commits /\ coverage' = coverage /\ path' = path
  BY DEF StartRefresh
<1>2. PICK place \in {"stopped", "next"} : worker' = [w \in Workers |-> At(place)]
  BY DEF StartRefresh
<1>3. BatchesAreStored' /\ RangesAreStored'
  BY <1>2, RestingThread DEF BatchesAreStored, RangesAreStored, Reading
<1>4. CoverageIsComplete'
  BY <1>1 DEF DataInv, CoverageIsComplete
<1>5. /\ job'.range = r
      /\ \A t \in job'.targets : \E p \in Projects : Recorded(p) /\ t \in TargetsFor(p, r)
  BY DEF StartRefresh
<1>6. ASSUME NEW t \in job'.targets, t.covered, t.previous # NoHead
      PROVE  Listed(t.previous, r) \subseteq commits[t.project]
  <2>1. PICK p \in Projects : Recorded(p) /\ t \in TargetsFor(p, r)
    BY <1>5, <1>6
  <2>2. PICK row \in IF CoveringRows(p, r) = {} THEN {NoRow} ELSE CoveringRows(p, r) :
          t = [project |-> p, path |-> path[p], covered |-> Covered(row),
               previous |-> IF row = NoRow THEN NoHead ELSE row.head]
    BY <2>1 DEF TargetsFor
  <2>3. t.project = p /\ t.covered = Covered(row)
        /\ t.previous = IF row = NoRow THEN NoHead ELSE row.head
    BY <2>2
  <2>4. row # NoRow /\ ~ row.error /\ t.previous = row.head
    BY <1>6, <2>3 DEF Covered
  <2>5. PICK q \in Ranges : Contains(q, r) /\ row = coverage[p][q]
    BY <2>2, <2>4 DEF CoveringRows
  <2>6. row \in Row
    BY <2>4, <2>5 DEF FitInv, TypeOK
  <2>7. row.head \in Heads
    BY <1>6, <2>4, <2>6 DEF Row
  <2>8. Listed(row.head, q) \subseteq commits[p]
    BY <1>6, <2>4, <2>5 DEF DataInv, CoverageIsComplete
  <2>9. Listed(row.head, r) \subseteq Listed(row.head, q)
    BY <2>5, <2>7
  <2>10. QED
    BY <2>3, <2>4, <2>8, <2>9
<1>7. TargetsAreCovered'
  BY <1>1, <1>5, <1>6 DEF TargetsAreCovered
<1>8. QED
  BY <1>3, <1>4, <1>7 DEF DataInv

\* Every other step keeps the commits and the coverage of a project whose
\* record it keeps.
LEMMA OtherFrame ==
  ASSUME FitInv,
         \/ CancelRefresh
         \/ EndJob
         \/ \E p \in Projects : RemoveProject(p)
         \/ \E p \in Projects, d \in Paths : RelocateProject(p, d)
         \/ \E r \in Roots : OtherProgram(r)
         \/ UNCHANGED vars
  PROVE  /\ worker' = worker
         /\ job' \in Jobs => job \in Jobs /\ job'.range = job.range /\ job'.targets = job.targets
         /\ job \in Jobs => job'.range = job.range
         /\ \A p \in Projects :
              \/ commits'[p] = commits[p] /\ coverage'[p] = coverage[p] /\ (Recorded(p)' => Recorded(p))
              \/ ~ Recorded(p)' /\ coverage'[p] = [r \in Ranges |-> NoRow]
<1>1. worker' = worker
  BY DEF CancelRefresh, EndJob, RemoveProject, RelocateProject, OtherProgram, vars
<1>2. /\ job' \in Jobs => job \in Jobs /\ job'.range = job.range /\ job'.targets = job.targets
      /\ job \in Jobs => job'.range = job.range
  <2>1. CASE CancelRefresh
    BY <2>1 DEF CancelRefresh, FitInv, TypeOK, Jobs, NoJob
  <2>2. CASE EndJob
    <3>1. job \in Jobs
      BY <2>2 DEF EndJob, FitInv, TypeOK, NoJob
    <3>2. PICK state \in {"canceled", "completed", "partial"} : job' = [job EXCEPT !.state = state]
      BY <2>2 DEF EndJob
    <3>3. QED
      BY <3>1, <3>2 DEF Jobs
  <2>3. QED
    BY <2>1, <2>2 DEF RemoveProject, RelocateProject, OtherProgram, vars
<1>3. ASSUME NEW p \in Projects
      PROVE  \/ commits'[p] = commits[p] /\ coverage'[p] = coverage[p] /\ (Recorded(p)' => Recorded(p))
             \/ ~ Recorded(p)' /\ coverage'[p] = [r \in Ranges |-> NoRow]
  <2> USE DEF FitInv, TypeOK, CheckoutsTypeOK, Recorded
  <2>1. CASE CancelRefresh \/ EndJob \/ UNCHANGED vars
    BY <2>1 DEF CancelRefresh, EndJob, vars
  <2>2. ASSUME NEW q \in Projects, RemoveProject(q)
        PROVE  \/ commits'[p] = commits[p] /\ coverage'[p] = coverage[p] /\ (Recorded(p)' => Recorded(p))
               \/ ~ Recorded(p)' /\ coverage'[p] = [r \in Ranges |-> NoRow]
    BY <2>2 DEF RemoveProject, RemoveRecord
  <2>3. ASSUME NEW q \in Projects, NEW d \in Paths, RelocateProject(q, d)
        PROVE  \/ commits'[p] = commits[p] /\ coverage'[p] = coverage[p] /\ (Recorded(p)' => Recorded(p))
               \/ ~ Recorded(p)' /\ coverage'[p] = [r \in Ranges |-> NoRow]
    BY <2>3 DEF RelocateProject, Relocate
  <2>4. ASSUME NEW s \in Roots, OtherProgram(s)
        PROVE  \/ commits'[p] = commits[p] /\ coverage'[p] = coverage[p] /\ (Recorded(p)' => Recorded(p))
               \/ ~ Recorded(p)' /\ coverage'[p] = [r \in Ranges |-> NoRow]
    BY <2>4 DEF OtherProgram, ChangeRepository
  <2>5. QED
    BY <2>1, <2>2, <2>3, <2>4
<1>4. QED
  BY <1>1, <1>2, <1>3

\* What is stored stays true when a project moves or is removed with its rows.
LEMMA DataOther ==
  ASSUME FitInv, DataInv,
         \/ CancelRefresh
         \/ EndJob
         \/ \E p \in Projects : RemoveProject(p)
         \/ \E p \in Projects, d \in Paths : RelocateProject(p, d)
         \/ \E r \in Roots : OtherProgram(r)
         \/ UNCHANGED vars
  PROVE  DataInv'
<1> USE OtherFrame
<1>1. BatchesAreStored'
  <2> SUFFICES ASSUME NEW w \in Workers, Reading(w)', worker'[w].head # NoHead,
                      Recorded(ProjectOf(w))', NEW i \in 1 .. worker'[w].skip
               PROVE  RangeLog(w)'[i] \in commits'[ProjectOf(w)']
    BY DEF BatchesAreStored
  <2>1. Reading(w) /\ ProjectOf(w)' = ProjectOf(w)
    BY DEF Reading, ProjectOf
  <2>2. job \in Jobs /\ ProjectOf(w) \in Projects
    BY <2>1, ThreadType DEF Reading, Resting
  <2>3. RangeLog(w)' = RangeLog(w)
    BY <2>2 DEF RangeLog
  <2>4. Recorded(ProjectOf(w)) /\ commits'[ProjectOf(w)] = commits[ProjectOf(w)]
    BY <2>1, <2>2 DEF Recorded, ProjectOf
  <2>5. QED
    BY <2>1, <2>3, <2>4 DEF DataInv, BatchesAreStored
<1>2. RangesAreStored'
  <2> SUFFICES ASSUME NEW w \in Workers, worker'[w].at \in {"finish", "recording"},
                      ~ worker'[w].error, worker'[w].head # NoHead, Recorded(ProjectOf(w))'
               PROVE  Listed(worker'[w].head, job'.range) \subseteq commits'[ProjectOf(w)']
    BY DEF RangesAreStored
  <2>1. ProjectOf(w)' = ProjectOf(w)
    BY DEF ProjectOf
  <2>2. job \in Jobs /\ ProjectOf(w) \in Projects
    BY ThreadType DEF Resting
  <2>3. Recorded(ProjectOf(w)) /\ commits'[ProjectOf(w)] = commits[ProjectOf(w)]
    BY <2>1, <2>2 DEF Recorded, ProjectOf
  <2>4. QED
    BY <2>1, <2>2, <2>3 DEF DataInv, RangesAreStored
<1>3. TargetsAreCovered'
  <2> SUFFICES ASSUME job' \in Jobs, NEW t \in job'.targets, t.covered, t.previous # NoHead,
                      Recorded(t.project)'
               PROVE  Listed(t.previous, job'.range) \subseteq commits'[t.project]
    BY DEF TargetsAreCovered
  <2>1. t \in job.targets /\ t.project \in Projects /\ job \in Jobs
    BY DEF Jobs, Targets
  <2>2. Recorded(t.project) /\ commits'[t.project] = commits[t.project]
    BY <2>1 DEF Recorded
  <2>3. QED
    BY <2>1, <2>2 DEF DataInv, TargetsAreCovered
<1>4. CoverageIsComplete'
  BY DEF DataInv, CoverageIsComplete
<1>5. QED
  BY <1>1, <1>2, <1>3, <1>4 DEF DataInv

\* What is stored stays true.
LEMMA DataStep ==
  ASSUME FitInv, DataInv, [Next]_vars PROVE DataInv'
<1>1. ASSUME NEW w \in Workers, WorkerStep(w) PROVE DataInv'
  BY <1>1, DataFrame, BatchesWorker, RangesWorker, CoverageWorker DEF DataInv
<1>2. QED
  BY <1>1, DataStart, DataOther DEF Next

-----------------------------------------------------------------------------
\* What the job promises

JobInv == TargetsAreAccounted /\ WorkersStopInTheEnd /\ CompletedJobsAreDone

\* How a worker lets go of its target.
LEMMA TargetLeft ==
  ASSUME FitInv, NEW w \in Workers, WorkerStep(w), ~ Resting(w)
  PROVE  \/ ~ Resting(w)' /\ worker'[w].target = worker[w].target
         \/ job.cancel
         \/ ProjectOf(w) \in job'.failures
         \/ LET row == coverage'[ProjectOf(w)][job.range] IN row # NoRow /\ ~ row.error
<1>1. /\ worker \in [Workers -> Thread] /\ worker[w] \in Thread
      /\ coverage \in [Projects -> [Ranges -> Row \cup {NoRow}]]
      /\ ProjectOf(w) \in Projects
  BY ThreadType DEF FitInv, TypeOK
<1>2. job \in Jobs /\ job.range \in Ranges /\ job'.range = job.range
  BY WorkerFrame DEF Jobs
<1>3. CASE Fail(w)
  BY <1>1, <1>3 DEF Fail, Thread, Resting
<1>4. ASSUME NEW place \in {"storing", "recording"}, Goto(w, place)
      PROVE  ~ Resting(w)' /\ worker'[w].target = worker[w].target
  BY <1>1, <1>4 DEF Goto, Thread, Resting
<1>5. CASE ReadHead(w) \/ StoreBatch(w)
  <2>1. worker'[w].at \in {"finish", "batch"} /\ worker'[w].target = worker[w].target
    BY <1>1, <1>5 DEF ReadHead, StoreBatch, Fail, Thread
  <2>2. QED
    BY <2>1 DEF Resting
<1>6. ASSUME CountTarget(w, FALSE) PROVE ProjectOf(w) \in job'.failures
  BY <1>2, <1>6 DEF CountTarget, Failures, ProjectOf, Jobs
<1>7. ASSUME CountTarget(w, TRUE), worker[w].error PROVE ProjectOf(w) \in job'.failures
  BY <1>2, <1>7 DEF CountTarget, Failures, ProjectOf, Jobs
<1>8. CASE RecordTarget(w)
  <2> DEFINE row == [head |-> worker[w].head, error |-> worker[w].error]
  <2>1. CASE /\ coverage' = [coverage EXCEPT ![ProjectOf(w)][job.range] = row]
             /\ CountTarget(w, TRUE)
             /\ ~ worker[w].error
    <3>1. row \in Row
      BY <1>1 DEF Thread, Row
    <3>2. coverage'[ProjectOf(w)][job.range] = row
      BY <1>1, <1>2, <2>1
    <3>3. QED
      BY <2>1, <3>1, <3>2
  <2>2. QED
    BY <1>6, <1>7, <1>8, <2>1 DEF RecordTarget, ProjectOf
<1>9. CASE FinishTarget(w)
  BY <1>4, <1>6, <1>9 DEF FinishTarget
<1>10. CASE ReadBatch(w)
  BY <1>3, <1>4, <1>10 DEF ReadBatch
<1>11. ~ NextTarget(w)
  BY DEF NextTarget, Resting
<1>12. QED
  BY <1>5, <1>8, <1>9, <1>10, <1>11 DEF WorkerStep

\* A target that is recorded is not kept.
LEMMA RecordTargetGoes ==
  ASSUME FitInv, NEW w \in Workers, RecordTarget(w)
  PROVE  Resting(w)'
BY RestingThread DEF RecordTarget, CountTarget, Resting, FitInv, TypeOK

\* A worker stops when the job is canceled or has nothing left.
LEMMA StopsInTheEnd ==
  ASSUME FitInv, NEW w \in Workers, WorkerStep(w), worker'[w].at = "stopped"
  PROVE  job.cancel \/ job.left = {}
<1>1. worker \in [Workers -> Thread]
  BY DEF FitInv, TypeOK
<1>2. CASE NextTarget(w)
  BY <1>1, <1>2 DEF NextTarget, At
<1>3. CASE FinishTarget(w)
  <2>1. CASE job.cancel
    BY <2>1
  <2>2. CASE Goto(w, "recording")
    BY <1>1, <2>2 DEF Goto, Thread
  <2>3. CASE CountTarget(w, FALSE)
    BY <1>1, <2>3, RestingThread DEF CountTarget
  <2>4. QED
    BY <1>3, <2>1, <2>2, <2>3 DEF FinishTarget
<1>4. CASE RecordTarget(w)
  BY <1>1, <1>4, RestingThread DEF RecordTarget, CountTarget
<1>5. CASE Fail(w)
  BY <1>1, <1>5 DEF Fail, Thread
<1>6. CASE ReadHead(w) /\ ~ Fail(w)
  BY <1>1, <1>6 DEF ReadHead, Thread
<1>7. CASE ReadBatch(w) /\ ~ Fail(w)
  BY <1>1, <1>7 DEF ReadBatch, Goto, Thread
<1>8. CASE StoreBatch(w) /\ ~ Fail(w)
  BY <1>1, <1>8 DEF StoreBatch, Thread
<1>9. QED
  BY <1>2, <1>3, <1>4, <1>5, <1>6, <1>7, <1>8 DEF WorkerStep

\* A worker's step forgets no target.
LEMMA JobWorker ==
  ASSUME FitInv, JobInv, NEW w \in Workers, WorkerStep(w)
  PROVE  JobInv'
<1> USE WorkerFrame
<1>1. TargetsAreAccounted'
  <2> SUFFICES ASSUME NEW t \in job'.targets, t \notin job'.left, ~ job'.cancel,
                      t.project \notin job'.failures, Recorded(t.project)',
                      \A v \in Workers : ~ Resting(v)' => worker'[v].target # t
               PROVE  CoveredNow(t.project, job.range)'
    BY DEF TargetsAreAccounted
  <2>1. /\ t \in job.targets /\ ~ job.cancel /\ t.project \notin job.failures /\ Recorded(t.project)
        /\ t.project \in Projects /\ job.range \in Ranges
    BY DEF Jobs, Targets, Recorded
  <2>2. CASE t \in job.left
    <3>1. NextTarget(w)
      BY <2>2 DEF WorkerStep, ReadHead, ReadBatch, StoreBatch, FinishTarget, RecordTarget,
         CountTarget, Jobs
    <3>2. PICK u \in job.left : /\ job' = [job EXCEPT !.left = @ \ {u}]
                               /\ worker' = [worker EXCEPT ![w] = [At("head") EXCEPT !.target = u]]
      BY <2>2, <3>1 DEF NextTarget
    <3>3. t = u
      BY <2>2, <3>2 DEF Jobs
    <3>4. worker'[w] = [At("head") EXCEPT !.target = u]
      BY <3>2 DEF FitInv, TypeOK
    <3>5. worker'[w].at = "head" /\ worker'[w].target = u
      BY <3>4 DEF At
    <3>6. QED
      BY <3>3, <3>5 DEF Resting
  <2>3. CASE ~ Resting(w) /\ worker[w].target = t
    BY <2>1, <2>3, TargetLeft DEF CoveredNow, ProjectOf
  <2>4. ASSUME NEW v \in Workers \ {w}, ~ Resting(v), worker[v].target = t
        PROVE  FALSE
    BY <2>4 DEF Resting
  <2>5. CASE CoveredNow(t.project, job.range) /\ coverage'[t.project][job.range] = coverage[t.project][job.range]
    BY <2>5 DEF CoveredNow
  <2>6. CASE coverage'[t.project][job.range] # coverage[t.project][job.range]
    <3> DEFINE row == [head |-> worker[w].head, error |-> worker[w].error]
    <3>1. RecordTarget(w) /\ coverage' # coverage
      BY <2>6 DEF WorkerStep, NextTarget, ReadHead, ReadBatch, StoreBatch, FinishTarget
    <3>2. /\ coverage' = [coverage EXCEPT ![ProjectOf(w)][job.range] = row]
          /\ worker[w].at = "recording"
      BY <3>1 DEF RecordTarget, ProjectOf
    <3>3. ProjectOf(w) = t.project
      BY <2>1, <2>6, <3>2 DEF FitInv, TypeOK
    <3>4. QED
      BY <2>1, <3>1, <3>2, <3>3, TargetLeft, RecordTargetGoes DEF CoveredNow, Resting
  <2>7. QED
    BY <2>1, <2>2, <2>3, <2>4, <2>5, <2>6 DEF JobInv, TargetsAreAccounted
<1>2. WorkersStopInTheEnd'
  <2> SUFFICES ASSUME NEW v \in Workers, worker'[v].at = "stopped"
               PROVE  job'.cancel \/ job'.left = {}
    BY DEF WorkersStopInTheEnd
  <2>1. CASE v # w
    BY <2>1 DEF JobInv, WorkersStopInTheEnd
  <2>2. CASE v = w
    <3>1. worker \in [Workers -> Thread]
      BY DEF FitInv, TypeOK
    <3>2. job.cancel \/ job.left = {}
      BY <2>2, <3>1, StopsInTheEnd
    <3>3. QED
      BY <3>2
  <2>3. QED
    BY <2>1, <2>2
<1>3. CompletedJobsAreDone'
  BY DEF CompletedJobsAreDone
<1>4. QED
  BY <1>1, <1>2, <1>3 DEF JobInv

\* There is no job at first.
LEMMA JobInit == Init => JobInv
<1>1. Init => job \notin Jobs
  BY DEF Init, NoJob, Jobs
<1>2. QED
  BY <1>1 DEF JobInv, TargetsAreAccounted, WorkersStopInTheEnd, CompletedJobsAreDone

\* A new job has all of its targets left.
LEMMA JobStart ==
  ASSUME FitInv, JobInv, NEW r \in Ranges, StartRefresh(r)
  PROVE  JobInv'
<1>1. PICK targets :
        /\ job' = [state |-> IF targets = {} THEN "completed" ELSE "running",
                   range |-> r, targets |-> targets, left |-> targets,
                   failures |-> {}, cancel |-> FALSE]
        /\ worker' = [w \in Workers |-> At(IF targets = {} THEN "stopped" ELSE "next")]
  BY DEF StartRefresh
<1>2. /\ job'.left = targets /\ job'.targets = targets /\ job'.failures = {} /\ ~ job'.cancel
      /\ job'.state = IF targets = {} THEN "completed" ELSE "running"
  BY <1>1
<1>3. TargetsAreAccounted'
  BY <1>2 DEF TargetsAreAccounted
<1>4. WorkersStopInTheEnd'
  BY <1>1, <1>2, RestingThread DEF WorkersStopInTheEnd
<1>5. CompletedJobsAreDone'
  BY <1>2 DEF CompletedJobsAreDone
<1>6. QED
  BY <1>3, <1>4, <1>5 DEF JobInv

\* The end of the job, when every worker has stopped, and a cancellation.
LEMMA JobEnd ==
  ASSUME FitInv, JobInv, CancelRefresh \/ EndJob
  PROVE  JobInv'
<1>1. job \in Jobs /\ job.state = "running"
  BY DEF CancelRefresh, EndJob, FitInv, TypeOK, NoJob
<1>2. worker' = worker /\ path' = path /\ coverage' = coverage
  BY DEF CancelRefresh, EndJob
<1>3. CASE CancelRefresh
  <2>1. job'.cancel /\ job'.state = "running"
    BY <1>1, <1>3 DEF CancelRefresh, Jobs
  <2>2. QED
    BY <2>1 DEF JobInv, TargetsAreAccounted, WorkersStopInTheEnd, CompletedJobsAreDone
<1>4. CASE EndJob
  <2> DEFINE state == IF job.cancel THEN "canceled" ELSE IF job.failures = {} THEN "completed" ELSE "partial"
  <2>1. job' = [job EXCEPT !.state = state]
    BY <1>4 DEF EndJob
  <2>2. /\ job'.targets = job.targets /\ job'.left = job.left /\ job'.failures = job.failures
        /\ job'.cancel = job.cancel /\ job'.range = job.range /\ job'.state = state
    BY <1>1, <2>1 DEF Jobs
  <2>3. job.cancel \/ job.left = {}
    <3>1. PICK w \in Workers : TRUE
      OBVIOUS
    <3>2. worker[w].at = "stopped"
      BY <1>4 DEF EndJob
    <3>3. QED
      BY <1>1, <3>2 DEF JobInv, WorkersStopInTheEnd
  <2>4. TargetsAreAccounted'
    BY <1>1, <1>2, <2>2 DEF JobInv, TargetsAreAccounted, Resting, Recorded, CoveredNow
  <2>5. WorkersStopInTheEnd' /\ CompletedJobsAreDone'
    BY <2>2, <2>3 DEF WorkersStopInTheEnd, CompletedJobsAreDone
  <2>6. QED
    BY <2>4, <2>5 DEF JobInv
<1>5. QED
  BY <1>3, <1>4

\* A removed project is no longer owed to anyone; a moved one keeps its coverage.
LEMMA JobOther ==
  ASSUME FitInv, JobInv,
         \/ \E p \in Projects : RemoveProject(p)
         \/ \E p \in Projects, d \in Paths : RelocateProject(p, d)
         \/ \E r \in Roots : OtherProgram(r)
         \/ UNCHANGED vars
  PROVE  JobInv'
<1>1. job' = job
  BY DEF RemoveProject, RelocateProject, OtherProgram, vars
<1>2. WorkersStopInTheEnd' /\ CompletedJobsAreDone'
  BY <1>1, OtherFrame DEF JobInv, WorkersStopInTheEnd, CompletedJobsAreDone
<1>3. TargetsAreAccounted'
  <2> SUFFICES ASSUME job \in Jobs, NEW t \in job.targets, Recorded(t.project)',
                      \/ t \in job.left
                      \/ \E w \in Workers : ~ Resting(w) /\ worker[w].target = t
                      \/ job.cancel
                      \/ t.project \in job.failures
                      \/ Recorded(t.project) => CoveredNow(t.project, job.range)
               PROVE  \/ t \in job'.left
                      \/ \E w \in Workers : ~ Resting(w)' /\ worker'[w].target = t
                      \/ job'.cancel
                      \/ t.project \in job'.failures
                      \/ CoveredNow(t.project, job.range)'
    BY <1>1 DEF JobInv, TargetsAreAccounted
  <2>1. t.project \in Projects
    BY DEF Jobs, Targets
  <2>2. Recorded(t.project) /\ coverage'[t.project] = coverage[t.project]
    BY <2>1, OtherFrame
  <2>3. QED
    BY <1>1, <2>2, OtherFrame DEF CoveredNow, Resting
<1>4. QED
  BY <1>2, <1>3 DEF JobInv

\* The promises of the job are kept.
LEMMA JobStep ==
  ASSUME FitInv, JobInv, [Next]_vars PROVE JobInv'
BY JobWorker, JobStart, JobEnd, JobOther DEF Next

-----------------------------------------------------------------------------
\* The inductive invariant, and what follows from it

\* The invariant that relates workers, job, commits and coverage holds in every
\* state of every refresh.
THEOREM HistoryInvariant == Spec => []HistoryInv
<1>1. HistoryInv <=> FitInv /\ DataInv /\ JobInv
  BY DEF HistoryInv, FitInv, DataInv, JobInv
<1>2. Init => FitInv /\ DataInv /\ JobInv
  BY FitInit, DataInit, JobInit
<1>3. FitInv /\ DataInv /\ JobInv /\ [Next]_vars => (FitInv /\ DataInv /\ JobInv)'
  BY FitStep, DataStep, JobStep
<1>4. QED
  BY <1>1, <1>2, <1>3, PTL DEF Spec

\* All variables keep their types, for any number of jobs and workers.
THEOREM HistoryTypeCorrect == Spec => []TypeOK
<1>1. HistoryInv => TypeOK
  BY DEF HistoryInv
<1>2. QED
  BY <1>1, HistoryInvariant, PTL

\* What finish_history and prepare_history rely on: a row of coverage without an
\* error tells the truth about project_git_commits, although batches are stored
\* in many transactions, jobs are canceled and projects move meanwhile.
THEOREM CompleteCoverage == Spec => []CoverageIsComplete
<1>1. HistoryInv => CoverageIsComplete
  BY DEF HistoryInv
<1>2. QED
  BY <1>1, HistoryInvariant, PTL

\* The two workers of run_refresh together forget no project: a job that ends as
\* "completed" has covered all of its projects that are still recorded.
THEOREM CompletedJobsCovered == Spec => []CompletedMeansCovered
<1>1. HistoryInv => CompletedMeansCovered
  <2> SUFFICES ASSUME HistoryInv, job.state = "completed", NEW t \in job.targets, Recorded(t.project)
               PROVE  CoveredNow(t.project, job.range)
    BY DEF CompletedMeansCovered, CoveredNow
  <2>1. job \in Jobs
    BY DEF HistoryInv, TypeOK, NoJob
  <2>2. ~ job.cancel /\ job.left = {} /\ job.failures = {}
    BY <2>1 DEF HistoryInv, CompletedJobsAreDone
  <2>3. \A w \in Workers : worker[w].at = "stopped"
    BY DEF HistoryInv, WorkersBelongToJobs
  <2>4. QED
    BY <2>1, <2>2, <2>3 DEF HistoryInv, TargetsAreAccounted, Resting
<1>2. QED
  BY <1>1, HistoryInvariant, PTL
=============================================================================
