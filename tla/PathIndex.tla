----------------------------- MODULE PathIndex -----------------------------
(***************************************************************************)
(* The path index of the Files view (src-tauri/src/lib.rs and              *)
(* repoatlas-core::project_files).  The first query of a project starts a  *)
(* job that walks the project's directory; later queries search what the   *)
(* job has found.  Calls of the window run concurrently: each locks the    *)
(* map of jobs, a job's state and its current search one after the other.  *)
(*                                                                         *)
(* An entry of the index is a model value; what a query matches is left    *)
(* out.  A job is named by its generation.                                 *)
(***************************************************************************)
EXTENDS Naturals, FiniteSets

CONSTANTS IndexProjects,  \* projects whose files are browsed
          IndexCalls,     \* concurrent calls of ensure_project_path_index
          IndexSearches,  \* concurrent calls of search_project_paths
          MaxGeneration,  \* bound on the jobs ever started
          MaxEntries,     \* MAX_INDEX_ENTRIES
          Walkers,        \* threads of one walk
          NoCall

ASSUME PathIndexAssumption ==
    /\ MaxGeneration \in Nat /\ MaxEntries \in Nat
    /\ IsFiniteSet(Walkers) /\ IsFiniteSet(IndexSearches)

Generations == 1..MaxGeneration
NoJob == 0
NoSearch == NoCall

VARIABLES fileIndexes,    \* the job of each project
          indexJob,       \* the jobs started so far, by generation
          indexCall,      \* calls that wait for the project's directory
          indexSearch,    \* calls that search
          filesOpen       \* projects whose Files view asked for an index
                          \* since it last canceled one

indexVars == <<fileIndexes, indexJob, indexCall, indexSearch, filesOpen>>

\* batch: what each thread has reserved and not yet put into the index; late:
\* the view had canceled when the job was inserted.
NewJob(p, generated, late) ==
    [project |-> p, generated |-> generated, late |-> late, state |-> "waiting",
     cancel |-> FALSE, search |-> NoSearch,
     reserved |-> 0, batch |-> [w \in Walkers |-> 0], entries |-> 0,
     limited |-> FALSE]

Unborn == [NewJob(NoCall, FALSE, FALSE) EXCEPT !.state = "none"]
IdleSearch == [job |-> NoJob, at |-> "idle", cancel |-> FALSE]

IndexInit ==
    /\ fileIndexes = [p \in IndexProjects |-> NoJob]
    /\ indexJob = [j \in Generations |-> Unborn]
    /\ indexCall = [c \in IndexCalls |-> NoCall]
    /\ indexSearch = [s \in IndexSearches |-> IdleSearch]
    /\ filesOpen = {}

Published == {"ready", "limited", "canceled"}
Unfinished == {"waiting", "building"}

\* ProjectFileIndexJob::status of the job of p, if it serves a query.
Serves(p, generated) ==
    /\ fileIndexes[p] # NoJob
    /\ indexJob[fileIndexes[p]].generated = generated
    /\ indexJob[fileIndexes[p]].state \notin {"failed", "canceled"}

\* Cancel job j, and the search that is registered with it.
Abandon(j) == [indexJob EXCEPT ![j].cancel = TRUE, ![j].search = NoSearch]
WithoutSearch(j) ==
    [s \in IndexSearches |->
        IF j # NoJob /\ s = indexJob[j].search
        THEN [indexSearch[s] EXCEPT !.cancel = TRUE] ELSE indexSearch[s]]

-----------------------------------------------------------------------------
\* ensure_project_path_index: without a job that serves, the call asks for
\* the project's directory and leaves the map of jobs unlocked.
BeginEnsure(c, p, generated) ==
    /\ indexCall[c] = NoCall
    /\ ~Serves(p, generated)
    /\ indexCall' = [indexCall EXCEPT ![c] = [project |-> p, generated |-> generated]]
    /\ filesOpen' = filesOpen \cup {p}
    /\ UNCHANGED <<fileIndexes, indexJob, indexSearch>>

\* A job that serves the query is all the call needs.
ReuseIndex(p, generated) ==
    /\ Serves(p, generated)
    /\ filesOpen' = filesOpen \cup {p}
    /\ UNCHANGED <<fileIndexes, indexJob, indexCall, indexSearch>>

\* Mutant of FinishEnsure: a job that was started meanwhile is replaced
\* and goes on.
FinishEnsureQuietly(c) ==
    /\ indexCall[c] # NoCall
    /\ \E j \in Generations :
          /\ \A k \in Generations : indexJob[k].state = "none" <=> k >= j
          /\ fileIndexes' = [fileIndexes EXCEPT ![indexCall[c].project] = j]
          /\ indexJob' = [indexJob EXCEPT ![j] =
                 NewJob(indexCall[c].project, indexCall[c].generated,
                        indexCall[c].project \notin filesOpen)]
    /\ indexCall' = [indexCall EXCEPT ![c] = NoCall]
    /\ UNCHANGED <<indexSearch, filesOpen>>

FinishEnsure(c) ==
    /\ indexCall[c] # NoCall
    /\ \E j \in Generations :
          LET p == indexCall[c].project
              previous == fileIndexes[p]
              left == IF previous = NoJob THEN indexJob ELSE Abandon(previous)
          IN  /\ \A k \in Generations : indexJob[k].state = "none" <=> k >= j
              /\ fileIndexes' = [fileIndexes EXCEPT ![p] = j]
              /\ indexJob' = [left EXCEPT ![j] = NewJob(p, indexCall[c].generated, p \notin filesOpen)]
              /\ indexSearch' = WithoutSearch(previous)
    /\ indexCall' = [indexCall EXCEPT ![c] = NoCall]
    /\ UNCHANGED filesOpen

\* The project was removed while the call waited for its directory.
FailEnsure(c) ==
    /\ indexCall[c] # NoCall
    /\ indexCall' = [indexCall EXCEPT ![c] = NoCall]
    /\ UNCHANGED <<fileIndexes, indexJob, indexSearch, filesOpen>>

\* Mutant of CancelIndex: the job leaves the map and is not told.
ForgetIndex(p) ==
    /\ filesOpen' = filesOpen \ {p}
    /\ fileIndexes' = [fileIndexes EXCEPT ![p] = NoJob]
    /\ UNCHANGED <<indexJob, indexCall, indexSearch>>

\* cancel_project_path_index: refresh, another project, other directories, or
\* the user's own Cancel; it cancels whatever job the map names.
CancelIndex(p) ==
    /\ filesOpen' = filesOpen \ {p}
    /\ IF fileIndexes[p] = NoJob THEN UNCHANGED <<fileIndexes, indexJob, indexSearch>>
       ELSE /\ indexJob' = Abandon(fileIndexes[p])
            /\ indexSearch' = WithoutSearch(fileIndexes[p])
            /\ fileIndexes' = [fileIndexes EXCEPT ![p] = NoJob]
    /\ UNCHANGED indexCall

-----------------------------------------------------------------------------
\* One job at a time holds file_index_build_lock and walks.
Stopped(j) == indexJob[j].cancel \/ indexJob[j].limited

BeginBuild(j) ==
    /\ indexJob[j].state = "waiting"
    /\ \A k \in Generations : indexJob[k].state # "building"
    /\ indexJob' = [indexJob EXCEPT ![j].state = "building"]
    /\ UNCHANGED <<fileIndexes, indexCall, indexSearch, filesOpen>>

\* A thread that meets an entry reserves its place before it keeps it.
Reserve(j, w) ==
    /\ indexJob[j].state = "building"
    /\ ~Stopped(j)
    /\ indexJob[j].batch[w] = 0
    /\ indexJob' = [indexJob EXCEPT
           ![j].reserved = @ + 1,
           ![j].limited = indexJob[j].reserved + 1 > MaxEntries,
           ![j].batch[w] = IF indexJob[j].reserved + 1 > MaxEntries THEN 0 ELSE 1]
    /\ UNCHANGED <<fileIndexes, indexCall, indexSearch, filesOpen>>

\* IndexBatch::flush, when the batch is full and when the thread ends.
Flush(j, w) ==
    /\ indexJob[j].state = "building"
    /\ indexJob[j].batch[w] > 0
    /\ indexJob' = [indexJob EXCEPT ![j].batch[w] = 0,
                                    ![j].entries = @ + indexJob[j].batch[w]]
    /\ UNCHANGED <<fileIndexes, indexCall, indexSearch, filesOpen>>

\* The walk has seen everything or was stopped; its outcome is published.
EndBuild(j) ==
    /\ indexJob[j].state = "building"
    /\ \A w \in Walkers : indexJob[j].batch[w] = 0
    /\ indexJob' = [indexJob EXCEPT ![j].state =
           IF indexJob[j].cancel THEN "canceled"
           ELSE IF indexJob[j].limited THEN "limited" ELSE "ready"]
    /\ UNCHANGED <<fileIndexes, indexCall, indexSearch, filesOpen>>

\* The directory cannot be resolved.
FailBuild(j) ==
    /\ indexJob[j].state = "building"
    /\ indexJob[j].reserved = 0
    /\ indexJob' = [indexJob EXCEPT ![j].state = "failed"]
    /\ UNCHANGED <<fileIndexes, indexCall, indexSearch, filesOpen>>

-----------------------------------------------------------------------------
\* search_project_paths: the job is read from the map, then its index,
\* then the search takes the place of the one registered with the job.
ReadIndex(s, p) ==
    /\ indexSearch[s].at = "idle"
    /\ fileIndexes[p] # NoJob
    /\ indexJob[fileIndexes[p]].state \in Published
    /\ indexSearch' = [indexSearch EXCEPT ![s] =
           [job |-> fileIndexes[p], at |-> "reading", cancel |-> FALSE]]
    /\ UNCHANGED <<fileIndexes, indexJob, indexCall, filesOpen>>

RegisterSearch(s) ==
    LET j == indexSearch[s].job
    IN  /\ indexSearch[s].at = "reading"
        /\ indexSearch' = [WithoutSearch(j) EXCEPT ![s].at = "queued"]
        /\ indexJob' = [indexJob EXCEPT ![j].search = s]
        /\ UNCHANGED <<fileIndexes, indexCall, filesOpen>>

\* file_search_lock admits one search.
BeginSearch(s) ==
    /\ indexSearch[s].at = "queued"
    /\ \A t \in IndexSearches : indexSearch[t].at # "searching"
    /\ indexSearch' = [indexSearch EXCEPT ![s].at = "searching"]
    /\ UNCHANGED <<fileIndexes, indexJob, indexCall, filesOpen>>

\* A canceled search returns nothing.  Its flag stays registered; the call
\* that reuses s here is another search, so the registration is dropped.
EndSearch(s) ==
    /\ indexSearch[s].at = "searching"
    /\ indexSearch' = [indexSearch EXCEPT ![s] = IdleSearch]
    /\ indexJob' = [j \in Generations |->
           IF indexJob[j].search = s THEN [indexJob[j] EXCEPT !.search = NoSearch]
           ELSE indexJob[j]]
    /\ UNCHANGED <<fileIndexes, indexCall, filesOpen>>

\* cancel_project_path_search
CancelSearch(p) ==
    /\ fileIndexes[p] # NoJob
    /\ indexJob[fileIndexes[p]].search # NoSearch
    /\ indexSearch' = WithoutSearch(fileIndexes[p])
    /\ indexJob' = [indexJob EXCEPT ![fileIndexes[p]].search = NoSearch]
    /\ UNCHANGED <<fileIndexes, indexCall, filesOpen>>

IndexNext ==
    \/ \E c \in IndexCalls, p \in IndexProjects, g \in BOOLEAN : BeginEnsure(c, p, g)
    \/ \E p \in IndexProjects, g \in BOOLEAN : ReuseIndex(p, g)
    \/ \E c \in IndexCalls : FinishEnsure(c) \/ FailEnsure(c)
    \/ \E p \in IndexProjects : CancelIndex(p) \/ CancelSearch(p)
    \/ \E j \in Generations : BeginBuild(j) \/ EndBuild(j) \/ FailBuild(j)
    \/ \E j \in Generations, w \in Walkers : Reserve(j, w) \/ Flush(j, w)
    \/ \E s \in IndexSearches, p \in IndexProjects : ReadIndex(s, p)
    \/ \E s \in IndexSearches : RegisterSearch(s) \/ BeginSearch(s) \/ EndSearch(s)

IndexSpec == IndexInit /\ [][IndexNext]_indexVars
-----------------------------------------------------------------------------
\* A walk that goes on is wanted: its job is the one that the map names, so
\* queries find it and a cancellation reaches it, and the view has not
\* canceled since it asked for it.  The jobs of overlapping calls, which look
\* for a job long before they insert theirs, end.  The one exception is the
\* job of a call that was still waiting for the directory when the view
\* canceled: it is in the map, but the view may never come back to cancel it.
AbandonedIndexesAreCanceled ==
    \A j \in Generations : indexJob[j].state \in Unfinished =>
        \/ indexJob[j].cancel
        \/ /\ fileIndexes[indexJob[j].project] = j
           /\ indexJob[j].project \in filesOpen \/ indexJob[j].late
=============================================================================
