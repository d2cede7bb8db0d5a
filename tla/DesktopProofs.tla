---------------------------- MODULE DesktopProofs -----------------------------
(***************************************************************************)
(* Proofs about eight parts of the desktop that share no state: the log    *)
(* files of task runs, the usage of subscriptions, the path index, the     *)
(* stops of port processes, attention items, the quick search window, the  *)
(* inspection of a runtime, and the export and import of the library.      *)
(* Each part has an inductive invariant, a lemma for each group of its     *)
(* actions and the property that follows; the numbers of runs, crashes,    *)
(* callers, connections, jobs, searches, processes, confirmations,         *)
(* projects, requests, threads and directories are arbitrary.              *)
(***************************************************************************)
EXTENDS RunLogs, Subscriptions, PathIndex, PortProcesses, Attention, QuickSearch,
        Environment, Transfer, SequenceTheorems, TLAPS

-----------------------------------------------------------------------------
(* Log files.  Whatever a clean-up holds, be it queued, read from the queue  *)
(* or just deleted, belongs to a removed run, and a removed run never gets   *)
(* another row; so no clean-up touches the log of a run that is listed, and  *)
(* what it has deleted can only be there again because the run's pump        *)
(* created it.                                                               *)

Attempts == {"new", "created", "abandoned", "recorded", "spawned"}
Cleaners == [at : {"idle", "removed", "opened", "cleaning"}, todo : SUBSET LoggedRuns,
             unlinked : LoggedRuns \cup {NoLog}]

LogsTypeOK ==
  /\ logFiles \in SUBSET LoggedRuns
  /\ logRow \in [LoggedRuns -> {"none", "running", "done", "removed"}]
  /\ attempt \in [LoggedRuns -> Attempts]
  /\ pump \in [LoggedRuns -> {"none", "started", "open"}]
  /\ logQueue \in SUBSET LoggedRuns
  /\ cleaner \in [Programs -> Cleaners]
  /\ reopened \in SUBSET LoggedRuns

\* A row appears after its file, in a start that is not made twice.
RowsFollowStarts ==
  \A r \in LoggedRuns :
    /\ attempt[r] \in {"new", "created", "abandoned"} => logRow[r] = "none"
    /\ attempt[r] \in {"recorded"} => logRow[r] = "running"
    /\ attempt[r] \in {"created", "recorded"} => r \in logFiles

ListedRunsHaveLogs ==
  \A r \in LoggedRuns : logRow[r] \in {"running", "done"} => r \in logFiles

\* What a clean-up may delete.
CleanupsAreOfRemovedRuns ==
  /\ \A r \in logQueue : logRow[r] = "removed"
  /\ \A c \in Programs : \A r \in cleaner[c].todo : logRow[r] = "removed"

DeletedLogsStayAway ==
  \A c \in Programs :
    cleaner[c].unlinked # NoLog =>
      /\ cleaner[c].unlinked \in cleaner[c].todo
      /\ cleaner[c].unlinked \in logFiles => cleaner[c].unlinked \in reopened

RemovedLogsAreQueued ==
  \A r \in LoggedRuns : logRow[r] = "removed" /\ r \in logFiles => r \in logQueue \cup reopened

LogsInv ==
  /\ LogsTypeOK
  /\ RowsFollowStarts
  /\ ListedRunsHaveLogs
  /\ CleanupsAreOfRemovedRuns
  /\ DeletedLogsStayAway
  /\ RemovedLogsAreQueued

-----------------------------------------------------------------------------
\* The invariant holds of an empty database.
LEMMA LogsInitially == LogsInit => LogsInv
  BY DEF LogsInit, LogsInv, LogsTypeOK, RowsFollowStarts, ListedRunsHaveLogs,
         CleanupsAreOfRemovedRuns, DeletedLogsStayAway, RemovedLogsAreQueued,
         NoCleaner, Cleaners, Attempts

\* What is left to a clean-up is part of what it had.
LEMMA CleanersGoOn ==
  ASSUME LogsTypeOK, NEW c \in Programs, NEW r \in LoggedRuns
  PROVE  /\ After(c, r) \in Cleaners
         /\ After(c, r).todo \subseteq cleaner[c].todo
         /\ After(c, r).unlinked = NoLog
  BY DEF LogsTypeOK, After, Cleaners, NoCleaner

\* The start, the pump and the exit of a run keep the invariant.
LEMMA RunsKeepLogs ==
  ASSUME LogsInv, NEW r \in LoggedRuns,
         \/ CreateLog(r) \/ AbandonLog(r) \/ RecordLog(r) \/ SpawnPump(r)
         \/ OpenLog(r) \/ ClosePump(r) \/ RecordExit(r)
  PROVE  LogsInv'
  <1> USE DEF LogsInv, LogsTypeOK, Attempts
  <1>1. CASE CreateLog(r)
    BY <1>1 DEF CreateLog, RowsFollowStarts, ListedRunsHaveLogs, CleanupsAreOfRemovedRuns,
                DeletedLogsStayAway, RemovedLogsAreQueued
  <1>2. CASE AbandonLog(r)
    BY <1>2 DEF AbandonLog, RowsFollowStarts, ListedRunsHaveLogs, CleanupsAreOfRemovedRuns,
                DeletedLogsStayAway, RemovedLogsAreQueued
  <1>3. CASE RecordLog(r)
    BY <1>3 DEF RecordLog, RowsFollowStarts, ListedRunsHaveLogs, CleanupsAreOfRemovedRuns,
                DeletedLogsStayAway, RemovedLogsAreQueued, Cleaners
  <1>4. CASE SpawnPump(r)
    BY <1>4 DEF SpawnPump, RowsFollowStarts, ListedRunsHaveLogs, CleanupsAreOfRemovedRuns,
                DeletedLogsStayAway, RemovedLogsAreQueued, Cleaners
  <1>5. CASE OpenLog(r)
    BY <1>5 DEF OpenLog, RowsFollowStarts, ListedRunsHaveLogs, CleanupsAreOfRemovedRuns,
                DeletedLogsStayAway, RemovedLogsAreQueued
  <1>6. CASE ClosePump(r)
    BY <1>6 DEF ClosePump, RowsFollowStarts, ListedRunsHaveLogs, CleanupsAreOfRemovedRuns,
                DeletedLogsStayAway, RemovedLogsAreQueued
  <1>7. CASE RecordExit(r)
    BY <1>7 DEF RecordExit, RowsFollowStarts, ListedRunsHaveLogs, CleanupsAreOfRemovedRuns,
                DeletedLogsStayAway, RemovedLogsAreQueued, Cleaners
  <1> QED BY <1>1, <1>2, <1>3, <1>4, <1>5, <1>6, <1>7

\* So do the removals, the clean-ups and the restarts of both programs.
LEMMA CleanupsKeepLogs ==
  ASSUME LogsInv, NEW c \in Programs,
         \/ RemoveLoggedProject(c) \/ ReadQueue(c) \/ DequeueLog(c) \/ RestartProgram(c)
         \/ \E r \in LoggedRuns : UnlinkLog(c, r) \/ KeepLog(c, r)
  PROVE  LogsInv'
  <1> USE DEF LogsInv, LogsTypeOK
  <1>1. CASE RemoveLoggedProject(c)
    BY <1>1 DEF RemoveLoggedProject, RowsFollowStarts, ListedRunsHaveLogs, CleanupsAreOfRemovedRuns,
                DeletedLogsStayAway, RemovedLogsAreQueued, Cleaners, Ended, NoRunIsActive, Attempts
  <1>2. CASE ReadQueue(c)
    BY <1>2 DEF ReadQueue, RowsFollowStarts, ListedRunsHaveLogs, CleanupsAreOfRemovedRuns,
                DeletedLogsStayAway, RemovedLogsAreQueued, Cleaners, NoCleaner
  <1>3. CASE DequeueLog(c)
    <2> DEFINE r == cleaner[c].unlinked
    <2>1. r \in LoggedRuns
      BY <1>3 DEF DequeueLog, Cleaners
    <2>2. After(c, r) \in Cleaners /\ After(c, r).todo \subseteq cleaner[c].todo
            /\ After(c, r).unlinked = NoLog
      BY <2>1, CleanersGoOn
    <2> QED
      BY <1>3, <2>1, <2>2 DEF DequeueLog, RowsFollowStarts, ListedRunsHaveLogs,
                CleanupsAreOfRemovedRuns, DeletedLogsStayAway, RemovedLogsAreQueued
  <1>4. CASE RestartProgram(c)
    BY <1>4 DEF RestartProgram, RowsFollowStarts, ListedRunsHaveLogs, CleanupsAreOfRemovedRuns,
                DeletedLogsStayAway, RemovedLogsAreQueued, Cleaners, NoCleaner, Attempts
  <1>5. ASSUME NEW r \in LoggedRuns, UnlinkLog(c, r) PROVE LogsInv'
    BY <1>5 DEF UnlinkLog, RowsFollowStarts, ListedRunsHaveLogs, CleanupsAreOfRemovedRuns,
                DeletedLogsStayAway, RemovedLogsAreQueued, Cleaners
  <1>6. ASSUME NEW r \in LoggedRuns, KeepLog(c, r) PROVE LogsInv'
    <2>1. After(c, r) \in Cleaners /\ After(c, r).todo \subseteq cleaner[c].todo
            /\ After(c, r).unlinked = NoLog
      BY CleanersGoOn
    <2> QED
      BY <1>6, <2>1 DEF KeepLog, RowsFollowStarts, ListedRunsHaveLogs, CleanupsAreOfRemovedRuns,
                DeletedLogsStayAway, RemovedLogsAreQueued
  <1> QED BY <1>1, <1>2, <1>3, <1>4, <1>5, <1>6

\* LogsInv is inductive.
THEOREM LogsInvariant == LogsSpec => []LogsInv
  <1>1. LogsInv /\ [LogsNext]_logVars => LogsInv'
    <2> SUFFICES ASSUME LogsInv, [LogsNext]_logVars PROVE LogsInv'
      OBVIOUS
    <2>1. CASE UNCHANGED logVars
      BY <2>1 DEF logVars, LogsInv, LogsTypeOK, RowsFollowStarts, ListedRunsHaveLogs,
                  CleanupsAreOfRemovedRuns, DeletedLogsStayAway, RemovedLogsAreQueued
    <2>2. CASE LogsNext
      BY <2>2, RunsKeepLogs, CleanupsKeepLogs DEF LogsNext
    <2> QED BY <2>1, <2>2
  <1> QED BY <1>1, LogsInitially, PTL DEF LogsSpec

\* However starts, exits, removals, clean-ups of two programs and crashes
\* interleave, the log of a removed run is gone, queued or newly made by its
\* pump, and no log of a listed run is deleted (retry_managed_file_cleanup).
THEOREM RemovedLogsGo == LogsSpec => []RemovedRunsLeaveNoLog
  <1>1. LogsInv => RemovedRunsLeaveNoLog
    BY DEF LogsInv, RemovedRunsLeaveNoLog, RemovedLogsAreQueued, ListedRunsHaveLogs
  <1> QED BY <1>1, LogsInvariant, PTL

-----------------------------------------------------------------------------
(* Subscriptions.  A call keeps the generation it asked for, an account      *)
(* forgets its quota whenever its generation changes, and an answer is       *)
(* stored only when the two agree: a stored quota is of the generation.      *)

Statuses == {"ready", "network_error", "login_required", "rate_limited", "unavailable", "unsupported",
             "not_connected"}
Quotas == [status : Statuses, kind : WindowKinds, percent : {Unknown} \cup 0 .. 100, of : Nat,
           age : UsageAges]

\* A quota was read for some connection, and then its share is known, or it
\* needs none.
ReadFor(s, generation) ==
  /\ s \in Quotas
  /\ s.of \in {0, generation}
  /\ s.of # 0 => s.percent # Unknown \/ s.kind # "quota"

Accounts == [enabled : BOOLEAN, generation : Nat, snapshot : Quotas \cup {NoSnapshot}]

\* What a call holds outside the mutex is a quota of the connection it asked for.
CallsFit ==
  \A c \in UsageCallers :
    LET u == usageCall[c] IN
    \/ u = IdleUsage
    \/ u \in [pc : {"waiting", "prepare"}, provider : UsageProviders, force : BOOLEAN]
    \/ u \in [pc : {"fetch"}, provider : UsageProviders, generation : Nat]
    \/ /\ u \in [pc : {"publish"}, provider : UsageProviders, generation : Nat, snapshot : Quotas]
       /\ ReadFor(u.snapshot, u.generation)
    \/ u \in [pc : {"read"}, provider : UsageProviders]

QuotasFit ==
  \A p \in UsageProviders :
    account[p].snapshot # NoSnapshot =>
      account[p].enabled /\ ReadFor(account[p].snapshot, account[p].generation)

UsageInv ==
  /\ account \in [UsageProviders -> Accounts]
  /\ usageCall = [c \in UsageCallers |-> usageCall[c]]
  /\ CallsFit
  /\ QuotasFit

\* A share that is read from an answer is a percentage (subscriptions.rs, window).
LEMMA SharesArePercentages ==
  ASSUME NEW w \in [kind : WindowKinds, percent : Int, used : Int, limit : Int, remaining : Int]
  PROVE  UsedPercent(w) \in {Unknown} \cup 0 .. 100
  <1>1. \A n \in Int : Clamp(n) \in 0 .. 100
    BY DEF Clamp
  <1>2. UsedOf(w) \in Int
    BY DEF UsedOf, Unknown
  <1>3. w.limit > 0 => (100 * UsedOf(w)) \div w.limit \in Int
    BY <1>2
  <1> QED BY <1>1, <1>2, <1>3 DEF UsedPercent

\* A request yields a quota of the connection it was made for.
LEMMA FetchedQuotas ==
  ASSUME NEW p, NEW g \in Nat, NEW s \in Fetched(p, g)
  PROVE  ReadFor(s, g)
  <1>1. ASSUME NEW status \in Statuses PROVE ReadFor(Failure(status), g)
    BY DEF ReadFor, Failure, Quotas, UsageAges, WindowKinds
  <1>2. \A r \in Responses : StatusOfResponse(r) \in Statuses
    BY DEF StatusOfResponse, Responses, Statuses
  <1>3. \A w \in AnsweredWindows :
          w \in [kind : WindowKinds, percent : Int, used : Int, limit : Int, remaining : Int]
    BY DEF AnsweredWindows, Answer, Unknown, WindowKinds
  <1>4. ASSUME NEW w \in AnsweredWindows, Retained(w)
        PROVE  ReadFor([status |-> "ready", kind |-> w.kind, percent |-> UsedPercent(w),
                        of |-> g, age |-> "new"], g)
    <2>1. UsedPercent(w) \in {Unknown} \cup 0 .. 100 /\ w.kind \in WindowKinds
      BY <1>3, SharesArePercentages
    <2>2. UsedPercent(w) # Unknown \/ w.kind # "quota"
      BY <1>4 DEF Retained
    <2> QED BY <2>1, <2>2 DEF ReadFor, Quotas, UsageAges, Statuses
  <1>5. Failure("not_connected") \in {Failure(status) : status \in Statuses}
          /\ Failure("unsupported") \in {Failure(status) : status \in Statuses}
    BY DEF Statuses
  <1>6. CASE s \in {Failure(status) : status \in Statuses}
    BY <1>1, <1>6
  <1>7. CASE \E w \in AnsweredWindows :
                /\ Retained(w)
                /\ s = [status |-> "ready", kind |-> w.kind, percent |-> UsedPercent(w),
                        of |-> g, age |-> "new"]
    BY <1>4, <1>7
  <1> QED BY <1>2, <1>5, <1>6, <1>7 DEF Fetched

\* At first no account is connected and no call is under way.
LEMMA UsageInitially == UsageInit => UsageInv
  BY DEF UsageInit, UsageInv, CallsFit, QuotasFit, Accounts

\* Time and the user: a connection that changes forgets its quota.
LEMMA AccountsKeepUsage ==
  ASSUME UsageInv, NEW p \in UsageProviders,
         \/ UsageTimePasses(p) \/ SignInOrOut(p)
         \/ \E enabled \in BOOLEAN : SetSubscriptionEnabled(p, enabled)
  PROVE  UsageInv'
  <1> USE DEF UsageInv
  <1>1. CASE UsageTimePasses(p)
    <2> PICK a \in UsageAges : account' = [account EXCEPT ![p].snapshot.age = a]
      BY <1>1 DEF UsageTimePasses
    <2>1. account[p].snapshot \in Quotas /\ account[p].snapshot # NoSnapshot
      BY <1>1 DEF UsageTimePasses, Accounts
    <2>2. account'[p].snapshot = [account[p].snapshot EXCEPT !.age = a]
      BY DEF Accounts
    <2>3. account'[p].snapshot \in Quotas
      BY <2>1, <2>2 DEF Quotas
    <2>4. account' \in [UsageProviders -> Accounts]
      BY <2>3, <2>2 DEF Accounts
    <2>5. QuotasFit'
      BY <2>1, <2>2, <2>3 DEF QuotasFit, ReadFor, Accounts, Quotas
    <2>6. CallsFit'
      BY <1>1 DEF UsageTimePasses, CallsFit
    <2> QED BY <2>4, <2>5, <2>6, <1>1 DEF UsageTimePasses
  <1>2. CASE SignInOrOut(p)
    BY <1>2 DEF SignInOrOut, CallsFit, QuotasFit
  <1>3. ASSUME NEW enabled \in BOOLEAN, SetSubscriptionEnabled(p, enabled) PROVE UsageInv'
    BY <1>3 DEF SetSubscriptionEnabled, CallsFit, QuotasFit, Accounts
  <1> QED BY <1>1, <1>2, <1>3

\* The calls: a quota is stored only for the connection it was read for.
LEMMA CallsKeepUsage ==
  ASSUME UsageInv, NEW c \in UsageCallers,
         \/ \E p \in UsageProviders, force \in BOOLEAN : BeginUsage(c, p, force)
         \/ TakeFlight(c) \/ PrepareUsage(c) \/ FetchUsage(c) \/ PublishUsage(c)
         \/ ReturnUsage(c) \/ FailUsage(c)
  PROVE  UsageInv'
  <1> USE DEF UsageInv
  <1>1. ASSUME NEW p \in UsageProviders, NEW force \in BOOLEAN, BeginUsage(c, p, force) PROVE UsageInv'
    BY <1>1 DEF BeginUsage, CallsFit, QuotasFit
  <1>2. CASE TakeFlight(c)
    BY <1>2 DEF TakeFlight, CallsFit, QuotasFit, IdleUsage
  <1>3. CASE PrepareUsage(c)
    BY <1>3 DEF PrepareUsage, CallsFit, QuotasFit, IdleUsage, Accounts
  <1>4. CASE FetchUsage(c)
    <2>1. usageCall[c] \in [pc : {"fetch"}, provider : UsageProviders, generation : Nat]
      BY <1>4 DEF FetchUsage, CallsFit, IdleUsage
    <2> PICK s \in Fetched(usageCall[c].provider, usageCall[c].generation) :
               usageCall' = [usageCall EXCEPT ![c] = [pc |-> "publish", provider |-> @.provider,
                                                      generation |-> @.generation, snapshot |-> s]]
      BY <1>4 DEF FetchUsage
    <2>2. ReadFor(s, usageCall[c].generation)
      BY <2>1, FetchedQuotas
    <2>3. CallsFit'
      BY <2>1, <2>2 DEF CallsFit, ReadFor
    <2> QED BY <1>4, <2>3 DEF FetchUsage, QuotasFit
  <1>5. CASE PublishUsage(c)
    <2> DEFINE p == usageCall[c].provider
               s == usageCall[c].snapshot
               prior == account[p].snapshot
    <2>1. p \in UsageProviders /\ ReadFor(s, usageCall[c].generation) /\ s \in Quotas
      BY <1>5 DEF PublishUsage, CallsFit, IdleUsage
    <2>2. CallsFit'
      BY <1>5, <2>1 DEF PublishUsage, CallsFit
    <2>3. CASE ~ (account[p].enabled /\ account[p].generation = usageCall[c].generation)
      BY <1>5, <2>2, <2>3 DEF PublishUsage, QuotasFit
    <2>4. CASE account[p].enabled /\ account[p].generation = usageCall[c].generation
      <3>1. prior \in Quotas \cup {NoSnapshot}
              /\ (prior # NoSnapshot => ReadFor(prior, account[p].generation))
        BY <2>1, <2>4 DEF QuotasFit, Accounts
      <3>2. Merged(s, prior) \in Quotas /\ ReadFor(Merged(s, prior), account[p].generation)
        BY <2>1, <2>4, <3>1 DEF Merged, ReadFor, Quotas
      <3>3. account' = [account EXCEPT ![p].snapshot = Merged(s, prior)]
        BY <1>5, <2>4 DEF PublishUsage
      <3> HIDE DEF s, prior
      <3>4. account' \in [UsageProviders -> Accounts] /\ QuotasFit'
        BY <2>1, <2>4, <3>2, <3>3 DEF QuotasFit, Accounts
      <3> QED BY <1>5, <2>2, <3>4 DEF PublishUsage
    <2> QED BY <2>3, <2>4
  <1>6. CASE ReturnUsage(c)
    BY <1>6 DEF ReturnUsage, CallsFit, QuotasFit
  <1>7. CASE FailUsage(c)
    BY <1>7 DEF FailUsage, CallsFit, QuotasFit
  <1> QED BY <1>1, <1>2, <1>3, <1>4, <1>5, <1>6, <1>7

\* UsageInv is inductive.
THEOREM UsageInvariant == UsageSpec => []UsageInv
  <1>1. UsageInv /\ [UsageNext]_usageVars => UsageInv'
    <2> SUFFICES ASSUME UsageInv, [UsageNext]_usageVars PROVE UsageInv'
      OBVIOUS
    <2>1. CASE UNCHANGED usageVars
      BY <2>1 DEF usageVars, UsageInv, CallsFit, QuotasFit
    <2>2. CASE UsageNext
      BY <2>2, AccountsKeepUsage, CallsKeepUsage DEF UsageNext
    <2> QED BY <2>1, <2>2
  <1> QED BY <1>1, UsageInitially, PTL DEF UsageSpec

\* A quota is shown only for the connection it was read for, although the
\* account may be disconnected and connected again while an answer is awaited
\* (refresh_subscription_usage, Core::publish_subscription_usage).
THEOREM QuotasOfConnections == UsageSpec => []QuotasAreOfTheConnection
  <1>1. UsageInv => QuotasAreOfTheConnection
    BY DEF UsageInv, QuotasFit, ReadFor, Quotas, WindowKinds, QuotasAreOfTheConnection
  <1> QED BY <1>1, UsageInvariant, PTL

-----------------------------------------------------------------------------
(* The path index.  A job is canceled or the one the map names for its       *)
(* project, whose view is open unless the job was inserted late; the map     *)
(* names only jobs that were started, for their projects.                    *)

IndexJobs == [project : IndexProjects \cup {NoCall}, generated : BOOLEAN, late : BOOLEAN,
              state : {"none", "waiting", "building", "ready", "limited", "canceled", "failed"},
              cancel : BOOLEAN, search : IndexSearches \cup {NoSearch},
              reserved : Nat, batch : [Walkers -> Nat], entries : Nat, limited : BOOLEAN]

IndexTypeOK ==
  /\ fileIndexes \in [IndexProjects -> Generations \cup {NoJob}]
  /\ indexJob \in [Generations -> IndexJobs]
  /\ indexCall \in [IndexCalls -> [project : IndexProjects, generated : BOOLEAN] \cup {NoCall}]
  /\ indexSearch \in [IndexSearches -> [job : Generations \cup {NoJob},
                        at : {"idle", "reading", "queued", "searching"}, cancel : BOOLEAN]]

\* The map names jobs of its projects; every job that it lost, or that was
\* there when the view canceled, is canceled.
MapsFit ==
  \A p \in IndexProjects :
    fileIndexes[p] # NoJob => /\ indexJob[fileIndexes[p]].state # "none"
                              /\ indexJob[fileIndexes[p]].project = p

JobsFit ==
  \A j \in Generations :
    indexJob[j].state # "none" =>
      /\ indexJob[j].project \in IndexProjects
      /\ \/ indexJob[j].cancel
         \/ fileIndexes[indexJob[j].project] = j /\ (indexJob[j].project \in filesOpen \/ indexJob[j].late)

IndexInv == IndexTypeOK /\ MapsFit /\ JobsFit

\* At first there are no jobs.
LEMMA IndexInitially == IndexInit => IndexInv
  <1> SUFFICES ASSUME IndexInit PROVE IndexInv
    OBVIOUS
  <1>1. Unborn \in IndexJobs /\ Unborn.state = "none"
    <2>1. NewJob(NoCall, FALSE, FALSE) \in IndexJobs
      BY DEF NewJob, IndexJobs, NoSearch
    <2> QED BY <2>1 DEF Unborn, IndexJobs
  <1>2. IndexTypeOK
    BY <1>1 DEF IndexInit, IndexTypeOK, IdleSearch
  <1>3. MapsFit
    BY DEF IndexInit, MapsFit
  <1>4. JobsFit
    BY <1>1 DEF IndexInit, JobsFit
  <1> QED BY <1>2, <1>3, <1>4 DEF IndexInv

\* A job that goes on with its project, and stays canceled if it was, keeps
\* the invariant while the map of jobs does not change.
LEMMA OneJobChanges ==
  ASSUME IndexInv, NEW j \in Generations, NEW job \in IndexJobs,
         indexJob[j].state # "none", job.state # "none",
         job.project = indexJob[j].project, job.late = indexJob[j].late, indexJob[j].cancel => job.cancel,
         indexJob' = [indexJob EXCEPT ![j] = job],
         fileIndexes' = fileIndexes, indexCall' = indexCall, filesOpen' = filesOpen,
         indexSearch' \in [IndexSearches -> [job : Generations \cup {NoJob},
                        at : {"idle", "reading", "queued", "searching"}, cancel : BOOLEAN]]
  PROVE  IndexInv'
  BY DEF IndexInv, IndexTypeOK, MapsFit, JobsFit

\* Canceling the search of a job leaves well-formed searches.
LEMMA SearchesFit ==
  ASSUME IndexTypeOK, NEW j \in Generations \cup {NoJob}
  PROVE  WithoutSearch(j) \in [IndexSearches -> [job : Generations \cup {NoJob},
                        at : {"idle", "reading", "queued", "searching"}, cancel : BOOLEAN]]
  BY DEF IndexTypeOK, WithoutSearch

\* Abandoning a job cancels it and changes no other.
LEMMA AbandonedJobs ==
  ASSUME IndexTypeOK, NEW j \in Generations
  PROVE  /\ Abandon(j) \in [Generations -> IndexJobs]
         /\ \A k \in Generations : /\ Abandon(j)[k].state = indexJob[k].state
                                   /\ Abandon(j)[k].project = indexJob[k].project
                                   /\ Abandon(j)[k].late = indexJob[k].late
                                   /\ Abandon(j)[k].cancel = (indexJob[k].cancel \/ k = j)
  <1> DEFINE job == [[indexJob[j] EXCEPT !.cancel = TRUE] EXCEPT !.search = NoSearch]
  <1>1. indexJob[j] \in IndexJobs
    BY DEF IndexTypeOK
  <1>2. [indexJob[j] EXCEPT !.cancel = TRUE] \in IndexJobs
    BY <1>1 DEF IndexJobs
  <1>3. /\ job \in IndexJobs /\ job.state = indexJob[j].state /\ job.late = indexJob[j].late
        /\ job.project = indexJob[j].project /\ job.cancel = TRUE
    BY <1>1, <1>2 DEF IndexJobs, NoSearch
  <1>4. Abandon(j) = [indexJob EXCEPT ![j] = job]
    BY <1>1 DEF Abandon, IndexTypeOK, IndexJobs
  <1> HIDE DEF job
  <1> QED BY <1>3, <1>4 DEF IndexTypeOK, IndexJobs

\* The calls that ensure an index: the job that another call has inserted
\* meanwhile is canceled when it is replaced.
LEMMA CallsKeepIndex ==
  ASSUME IndexInv, NEW c \in IndexCalls,
         \/ \E p \in IndexProjects, g \in BOOLEAN : BeginEnsure(c, p, g)
         \/ FinishEnsure(c) \/ FailEnsure(c)
  PROVE  IndexInv'
  <1>1. ASSUME NEW p \in IndexProjects, NEW g \in BOOLEAN, BeginEnsure(c, p, g) PROVE IndexInv'
    BY <1>1 DEF BeginEnsure, IndexInv, IndexTypeOK, MapsFit, JobsFit
  <1>2. CASE FailEnsure(c)
    BY <1>2 DEF FailEnsure, IndexInv, IndexTypeOK, MapsFit, JobsFit
  <1>3. CASE FinishEnsure(c)
    <2> DEFINE p == indexCall[c].project
               previous == fileIndexes[p]
               left == IF previous = NoJob THEN indexJob ELSE Abandon(previous)
               fresh == NewJob(p, indexCall[c].generated, p \notin filesOpen)
    <2>1. p \in IndexProjects /\ indexCall[c].generated \in BOOLEAN
            /\ previous \in Generations \cup {NoJob}
      BY <1>3 DEF FinishEnsure, IndexInv, IndexTypeOK
    <2> PICK j \in Generations :
               /\ \A k \in Generations : indexJob[k].state = "none" <=> k >= j
               /\ fileIndexes' = [fileIndexes EXCEPT ![p] = j]
               /\ indexJob' = [left EXCEPT ![j] = fresh]
               /\ indexSearch' = WithoutSearch(previous)
      BY <1>3 DEF FinishEnsure
    <2>2. /\ fresh \in IndexJobs /\ fresh.project = p /\ fresh.state = "waiting"
          /\ fresh.late = (p \notin filesOpen) /\ filesOpen' = filesOpen
      BY <1>3, <2>1 DEF FinishEnsure, NewJob, IndexJobs, NoSearch
    <2>3. indexJob[j].state = "none"
      BY DEF Generations
    <2>4. /\ left \in [Generations -> IndexJobs]
          /\ \A k \in Generations : /\ left[k].state = indexJob[k].state
                                    /\ left[k].project = indexJob[k].project
                                    /\ left[k].late = indexJob[k].late
                                    /\ left[k].cancel = (indexJob[k].cancel \/ k = previous)
      <3>1. CASE previous = NoJob
        <4>1. left = indexJob /\ \A k \in Generations : k # previous
          BY <3>1 DEF NoJob, Generations
        <4>2. indexJob \in [Generations -> IndexJobs] /\ \A k \in Generations : indexJob[k].cancel \in BOOLEAN
          BY DEF IndexInv, IndexTypeOK, IndexJobs
        <4> QED BY <4>1, <4>2
      <3>2. CASE previous # NoJob
        <4>1. previous \in Generations /\ left = Abandon(previous)
          BY <2>1, <3>2
        <4> QED BY <4>1, AbandonedJobs DEF IndexInv
      <3> QED BY <3>1, <3>2
    <2> HIDE DEF fresh, left
    <2>5. IndexTypeOK'
      BY <1>3, <2>1, <2>2, <2>4, SearchesFit DEF FinishEnsure, IndexInv, IndexTypeOK
    <2>6. MapsFit'
      BY <2>1, <2>2, <2>3, <2>4 DEF IndexInv, IndexTypeOK, MapsFit
    <2>7. JobsFit'
      <3> SUFFICES ASSUME NEW k \in Generations, indexJob'[k].state # "none"
                   PROVE  /\ indexJob'[k].project \in IndexProjects
                          /\ \/ indexJob'[k].cancel
                             \/ /\ fileIndexes'[indexJob'[k].project] = k
                                /\ indexJob'[k].project \in filesOpen' \/ indexJob'[k].late
        BY DEF JobsFit
      <3>1. CASE k = j
        BY <2>1, <2>2, <2>4, <3>1 DEF IndexInv, IndexTypeOK
      <3>2. CASE k # j
        <4>1. indexJob'[k] = left[k]
          BY <2>4, <3>2
        <4>2. /\ indexJob[k].state # "none" /\ indexJob'[k].project = indexJob[k].project
              /\ indexJob'[k].late = indexJob[k].late
              /\ indexJob'[k].cancel = (indexJob[k].cancel \/ k = previous)
          BY <2>4, <4>1
        <4>3. /\ indexJob[k].project \in IndexProjects
              /\ \/ indexJob[k].cancel
                 \/ /\ fileIndexes[indexJob[k].project] = k
                    /\ indexJob[k].project \in filesOpen \/ indexJob[k].late
          BY <4>2 DEF IndexInv, JobsFit
        <4>4. CASE indexJob[k].cancel \/ k = previous
          BY <4>2, <4>3, <4>4
        <4>5. CASE ~ indexJob[k].cancel /\ k # previous
          <5>1. indexJob[k].project # p
            BY <4>3, <4>5
          <5>2. fileIndexes'[indexJob[k].project] = fileIndexes[indexJob[k].project]
            BY <2>1, <4>3, <5>1 DEF IndexInv, IndexTypeOK
          <5> QED BY <2>2, <4>2, <4>3, <4>5, <5>2
        <4> QED BY <4>4, <4>5
      <3> QED BY <3>1, <3>2
    <2> QED BY <2>5, <2>6, <2>7 DEF IndexInv
  <1> QED BY <1>1, <1>2, <1>3

\* A cancellation takes the job from the map and cancels it.
LEMMA CancellationsKeepIndex ==
  ASSUME IndexInv, NEW p \in IndexProjects, CancelIndex(p) \/ CancelSearch(p)
  PROVE  IndexInv'
  <1>1. CASE CancelIndex(p)
    <2>1. CASE fileIndexes[p] = NoJob
      <3>1. UNCHANGED <<fileIndexes, indexJob, indexSearch, indexCall>> /\ filesOpen' = filesOpen \ {p}
        BY <1>1, <2>1 DEF CancelIndex
      <3>2. JobsFit'
        <4> SUFFICES ASSUME NEW k \in Generations, indexJob[k].state # "none", ~ indexJob[k].cancel
                     PROVE  /\ indexJob[k].project \in IndexProjects
                            /\ fileIndexes[indexJob[k].project] = k
                            /\ indexJob[k].project \in filesOpen' \/ indexJob[k].late
          BY <3>1 DEF IndexInv, JobsFit
        <4>1. /\ indexJob[k].project \in IndexProjects /\ fileIndexes[indexJob[k].project] = k
              /\ indexJob[k].project \in filesOpen \/ indexJob[k].late
          BY DEF IndexInv, JobsFit
        <4>2. indexJob[k].project # p
          BY <2>1, <4>1 DEF NoJob, Generations
        <4> QED BY <3>1, <4>1, <4>2
      <3> QED BY <3>1, <3>2 DEF IndexInv, IndexTypeOK, MapsFit
    <2>2. CASE fileIndexes[p] # NoJob
      <3> DEFINE j == fileIndexes[p]
      <3>1. j \in Generations
        BY <2>2 DEF IndexInv, IndexTypeOK
      <3>2. /\ indexJob' = Abandon(j) /\ indexSearch' = WithoutSearch(j)
            /\ fileIndexes' = [fileIndexes EXCEPT ![p] = NoJob] /\ indexCall' = indexCall
            /\ filesOpen' = filesOpen \ {p}
        BY <1>1, <2>2 DEF CancelIndex
      <3>3. IndexTypeOK'
        BY <3>1, <3>2, SearchesFit, AbandonedJobs DEF IndexInv, IndexTypeOK
      <3>4. \A k \in Generations : /\ indexJob'[k].state = indexJob[k].state
                                   /\ indexJob'[k].project = indexJob[k].project
                                   /\ indexJob'[k].late = indexJob[k].late
                                   /\ indexJob'[k].cancel = (indexJob[k].cancel \/ k = j)
        BY <3>1, <3>2, AbandonedJobs DEF IndexInv
      <3>5. MapsFit'
        BY <3>2, <3>4 DEF IndexInv, IndexTypeOK, MapsFit
      <3>6. JobsFit'
        <4> SUFFICES ASSUME NEW k \in Generations, indexJob'[k].state # "none"
                     PROVE  /\ indexJob'[k].project \in IndexProjects
                            /\ \/ indexJob'[k].cancel
                               \/ /\ fileIndexes'[indexJob'[k].project] = k
                                  /\ indexJob'[k].project \in filesOpen' \/ indexJob'[k].late
          BY DEF JobsFit
        <4>1. /\ indexJob[k].project \in IndexProjects
              /\ \/ indexJob[k].cancel
                 \/ /\ fileIndexes[indexJob[k].project] = k
                    /\ indexJob[k].project \in filesOpen \/ indexJob[k].late
          BY <3>4 DEF IndexInv, JobsFit
        <4>2. CASE indexJob[k].cancel \/ k = j
          BY <3>4, <4>1, <4>2
        <4>3. CASE ~ (indexJob[k].cancel \/ k = j)
          <5>1. fileIndexes[indexJob[k].project] = k /\ indexJob[k].project # p
            BY <4>1, <4>3
          <5> QED BY <3>2, <3>4, <4>1, <5>1 DEF IndexInv, IndexTypeOK
        <4> QED BY <4>2, <4>3
      <3> QED BY <3>3, <3>5, <3>6 DEF IndexInv
    <2> QED BY <2>1, <2>2
  <1>2. CASE CancelSearch(p)
    <2> DEFINE j == fileIndexes[p]
    <2>1. j \in Generations /\ indexJob[j].state # "none" /\ indexJob[j] \in IndexJobs
      BY <1>2 DEF CancelSearch, IndexInv, IndexTypeOK, MapsFit
    <2>2. [indexJob[j] EXCEPT !.search = NoSearch] \in IndexJobs
      BY <2>1 DEF IndexJobs
    <2>3. indexJob' = [indexJob EXCEPT ![j] = [indexJob[j] EXCEPT !.search = NoSearch]]
      BY <1>2 DEF CancelSearch
    <2> QED
      BY <1>2, <2>1, <2>2, <2>3, SearchesFit, OneJobChanges DEF CancelSearch, IndexInv, IndexJobs
  <1> QED BY <1>1, <1>2

\* A walk changes neither the project of its job nor the cancellation.
LEMMA BuildsKeepIndex ==
  ASSUME IndexInv, NEW j \in Generations,
         \/ BeginBuild(j) \/ EndBuild(j) \/ FailBuild(j)
         \/ \E w \in Walkers : Reserve(j, w) \/ Flush(j, w)
  PROVE  IndexInv'
  <1> DEFINE old == indexJob[j]
             Follows(job) == /\ job \in IndexJobs /\ job.state # "none" /\ job.project = old.project
                             /\ job.cancel = old.cancel /\ job.late = old.late
                             /\ indexJob' = [indexJob EXCEPT ![j] = job]
  <1>1. old \in IndexJobs
    BY DEF IndexInv, IndexTypeOK
  <1>2. \E job : Follows(job)
    <2>1. ASSUME NEW x \in {"building", "ready", "limited", "canceled", "failed"},
                 indexJob' = [indexJob EXCEPT ![j].state = x]
          PROVE  Follows([old EXCEPT !.state = x])
      BY <1>1, <2>1 DEF IndexJobs
    <2>2. CASE BeginBuild(j)
      BY <2>1, <2>2 DEF BeginBuild
    <2>3. CASE FailBuild(j)
      BY <2>1, <2>3 DEF FailBuild
    <2>4. CASE EndBuild(j)
      <3> DEFINE x == IF old.cancel THEN "canceled" ELSE IF old.limited THEN "limited" ELSE "ready"
      <3>1. x \in {"building", "ready", "limited", "canceled", "failed"}
        OBVIOUS
      <3>2. indexJob' = [indexJob EXCEPT ![j].state = x]
        BY <2>4 DEF EndBuild
      <3> HIDE DEF x
      <3> QED BY <2>1, <3>1, <3>2
    <2>5. ASSUME NEW w \in Walkers, Reserve(j, w) PROVE \E job : Follows(job)
      <3> DEFINE over == old.reserved + 1 > MaxEntries
                 kept == [old.batch EXCEPT ![w] = IF over THEN 0 ELSE 1]
                 job == [old EXCEPT !.reserved = old.reserved + 1, !.limited = over, !.batch = kept]
      <3>1. old.reserved \in Nat /\ old.batch \in [Walkers -> Nat] /\ old.state = "building"
        BY <1>1, <2>5 DEF IndexJobs, Reserve
      <3>2. kept \in [Walkers -> Nat] /\ old.reserved + 1 \in Nat /\ over \in BOOLEAN
        BY <3>1
      <3>3. indexJob' = [indexJob EXCEPT ![j] = job]
        BY <2>5, <1>1 DEF Reserve, IndexInv, IndexTypeOK, IndexJobs
      <3> HIDE DEF over, kept
      <3>4. job \in IndexJobs /\ job.state = "building" /\ job.project = old.project /\ job.cancel = old.cancel
            /\ job.late = old.late
        BY <1>1, <3>1, <3>2 DEF IndexJobs
      <3> QED BY <3>3, <3>4
    <2>6. ASSUME NEW w \in Walkers, Flush(j, w) PROVE \E job : Follows(job)
      <3> DEFINE kept == [old.batch EXCEPT ![w] = 0]
                 sum == old.entries + old.batch[w]
                 job == [old EXCEPT !.batch = kept, !.entries = sum]
      <3>1. old.entries \in Nat /\ old.batch \in [Walkers -> Nat] /\ old.state = "building"
        BY <1>1, <2>6 DEF IndexJobs, Flush
      <3>2. kept \in [Walkers -> Nat] /\ sum \in Nat
        BY <3>1
      <3>3. indexJob' = [indexJob EXCEPT ![j] = job]
        BY <2>6, <1>1 DEF Flush, IndexInv, IndexTypeOK, IndexJobs
      <3> HIDE DEF kept, sum
      <3>4. job \in IndexJobs /\ job.state = "building" /\ job.project = old.project /\ job.cancel = old.cancel
            /\ job.late = old.late
        BY <1>1, <3>1, <3>2 DEF IndexJobs
      <3> QED BY <3>3, <3>4
    <2> QED BY <2>2, <2>3, <2>4, <2>5, <2>6
  <1>3. old.state # "none"
    BY DEF BeginBuild, EndBuild, FailBuild, Reserve, Flush
  <1>4. UNCHANGED <<fileIndexes, indexCall, indexSearch, filesOpen>>
    BY DEF BeginBuild, EndBuild, FailBuild, Reserve, Flush
  <1> QED BY <1>2, <1>3, <1>4, OneJobChanges DEF IndexInv, IndexTypeOK

\* A search changes only the registration with its job.
LEMMA SearchesKeepIndex ==
  ASSUME IndexInv, NEW s \in IndexSearches,
         \/ \E p \in IndexProjects : ReadIndex(s, p)
         \/ RegisterSearch(s) \/ BeginSearch(s) \/ EndSearch(s)
  PROVE  IndexInv'
  <1>1. ASSUME NEW p \in IndexProjects, ReadIndex(s, p) PROVE IndexInv'
    BY <1>1 DEF ReadIndex, IndexInv, IndexTypeOK, MapsFit, JobsFit
  <1>2. CASE RegisterSearch(s)
    <2> DEFINE j == indexSearch[s].job
    <2>1. /\ indexJob' = [indexJob EXCEPT ![j].search = s]
          /\ indexSearch' = [WithoutSearch(j) EXCEPT ![s].at = "queued"]
          /\ UNCHANGED <<fileIndexes, indexCall, filesOpen>>
      BY <1>2 DEF RegisterSearch
    <2>2. j \in Generations \cup {NoJob}
      BY DEF IndexInv, IndexTypeOK
    <2>3. indexSearch' \in [IndexSearches -> [job : Generations \cup {NoJob},
                        at : {"idle", "reading", "queued", "searching"}, cancel : BOOLEAN]]
      BY <2>1, <2>2, SearchesFit DEF IndexInv
    <2>4. /\ indexJob' \in [Generations -> IndexJobs]
          /\ \A k \in Generations : /\ indexJob'[k].state = indexJob[k].state
                                    /\ indexJob'[k].project = indexJob[k].project
                                    /\ indexJob'[k].late = indexJob[k].late
                                    /\ indexJob'[k].cancel = indexJob[k].cancel
      <3> SUFFICES ASSUME j \in Generations
                   PROVE  /\ [indexJob[j] EXCEPT !.search = s] \in IndexJobs
                          /\ [indexJob[j] EXCEPT !.search = s].state = indexJob[j].state
                          /\ [indexJob[j] EXCEPT !.search = s].project = indexJob[j].project
                          /\ [indexJob[j] EXCEPT !.search = s].late = indexJob[j].late
                          /\ [indexJob[j] EXCEPT !.search = s].cancel = indexJob[j].cancel
        BY <2>1 DEF IndexInv, IndexTypeOK
      <3>1. indexJob[j] \in IndexJobs
        BY DEF IndexInv, IndexTypeOK
      <3> QED BY <3>1 DEF IndexJobs
    <2> QED BY <2>1, <2>3, <2>4 DEF IndexInv, IndexTypeOK, MapsFit, JobsFit
  <1>3. CASE BeginSearch(s)
    BY <1>3 DEF BeginSearch, IndexInv, IndexTypeOK, MapsFit, JobsFit
  <1>4. CASE EndSearch(s)
    <2>1. /\ indexJob' \in [Generations -> IndexJobs]
          /\ \A k \in Generations : /\ indexJob'[k].state = indexJob[k].state
                                    /\ indexJob'[k].project = indexJob[k].project
                                    /\ indexJob'[k].late = indexJob[k].late
                                    /\ indexJob'[k].cancel = indexJob[k].cancel
      <3>1. ASSUME NEW k \in Generations
            PROVE  LET job == [indexJob[k] EXCEPT !.search = NoSearch]
                   IN  job \in IndexJobs /\ job.state = indexJob[k].state
                         /\ job.project = indexJob[k].project /\ job.late = indexJob[k].late
                         /\ job.cancel = indexJob[k].cancel
        <4>1. indexJob[k] \in IndexJobs
          BY DEF IndexInv, IndexTypeOK
        <4> QED BY <4>1 DEF IndexJobs
      <3> QED BY <1>4, <3>1 DEF EndSearch, IndexInv, IndexTypeOK
    <2> QED BY <1>4, <2>1 DEF EndSearch, IndexInv, IndexTypeOK, MapsFit, JobsFit, IdleSearch
  <1> QED BY <1>1, <1>2, <1>3, <1>4

\* IndexInv is inductive.
THEOREM IndexInvariant == IndexSpec => []IndexInv
  <1>1. IndexInv /\ [IndexNext]_indexVars => IndexInv'
    <2> SUFFICES ASSUME IndexInv, [IndexNext]_indexVars PROVE IndexInv'
      OBVIOUS
    <2>1. CASE UNCHANGED indexVars
      BY <2>1 DEF indexVars, IndexInv, IndexTypeOK, MapsFit, JobsFit
    <2>3. ASSUME NEW p \in IndexProjects, NEW g \in BOOLEAN, ReuseIndex(p, g) PROVE IndexInv'
      BY <2>3 DEF ReuseIndex, IndexInv, IndexTypeOK, MapsFit, JobsFit
    <2>2. CASE IndexNext
      BY <2>2, <2>3, CallsKeepIndex, CancellationsKeepIndex, BuildsKeepIndex, SearchesKeepIndex DEF IndexNext
    <2> QED BY <2>1, <2>2
  <1> QED BY <1>1, IndexInitially, PTL DEF IndexSpec

\* However calls, walks, searches and cancellations overlap, a job is told to
\* end unless the map names it and its view is open or closed before the job
\* was inserted (ensure_project_path_index, cancel_project_path_index).
THEOREM AbandonedIndexesEnd == IndexSpec => []AbandonedIndexesAreCanceled
  <1>1. IndexInv => AbandonedIndexesAreCanceled
    BY DEF IndexInv, JobsFit, AbandonedIndexesAreCanceled, Unfinished
  <1> QED BY <1>1, IndexInvariant, PTL

-----------------------------------------------------------------------------
(* Port processes.  A token is pending, being carried out, or spent, never   *)
(* two of these, and always for the process that its preview showed.         *)

\* A confirmation that may still be given is for what its preview showed.
PendingFits ==
  \A t \in DOMAIN pendingStop : t \in DOMAIN reviewed /\ pendingStop[t].target = reviewed[t]

\* The one that is carried out was reviewed, and is not given again.
ConfirmingFits ==
  /\ confirming.at \in {"idle", "consumed", "opened"}
  /\ confirming.at # "idle" =>
       /\ confirming.token \in DOMAIN reviewed
       /\ confirming.token \notin DOMAIN pendingStop
       /\ confirming.preview.target = reviewed[confirming.token]
  /\ confirming.at = "opened" => confirming.preview.target.run = NoManagedRun

\* Neither is one that has ended a process.
EndedFits ==
  \A e \in ended :
    /\ e.token \in DOMAIN reviewed
    /\ e.token \notin DOMAIN pendingStop
    /\ confirming.at # "idle" => e.token # confirming.token

PortInv == PendingFits /\ ConfirmingFits /\ EndedFits /\ StopsAreReviewed

\* At first nothing was reviewed.
LEMMA PortsInitially == PortInit => PortInv
  BY DEF PortInit, PortInv, PendingFits, ConfirmingFits, EndedFits, StopsAreReviewed

\* A preview is for a new token; it may push others out, never change one.
LEMMA PreviewsKeepPorts ==
  ASSUME PortInv, NEW t, NEW identity, NEW mode, Preview(t, identity, mode)
  PROVE  PortInv'
  <1> DEFINE kept == [u \in DOMAIN pendingStop \ expired |-> pendingStop[u]]
             room == IF Cardinality(DOMAIN kept) >= MaxPending THEN [u \in {} |-> NoPreview] ELSE kept
  <1>1. /\ DOMAIN room \subseteq DOMAIN pendingStop
        /\ \A u \in DOMAIN room : room[u] = pendingStop[u]
    OBVIOUS
  <1> HIDE DEF kept, room
  <1>2. PICK target \in Inventory :
          /\ pendingStop' = [u \in DOMAIN room \cup {t} |->
                IF u = t THEN [target |-> target, mode |-> mode, affected |-> Scope(target)]
                ELSE room[u]]
          /\ reviewed' = [u \in DOMAIN reviewed \cup {t} |-> IF u = t THEN target ELSE reviewed[u]]
    BY DEF Preview, room, kept
  <1>3. t \notin DOMAIN reviewed /\ UNCHANGED <<confirming, ended>>
    BY DEF Preview
  <1>4. PendingFits'
    BY <1>1, <1>2, <1>3 DEF PortInv, PendingFits
  <1>5. ConfirmingFits'
    BY <1>1, <1>2, <1>3 DEF PortInv, ConfirmingFits
  <1>6. EndedFits'
    BY <1>1, <1>2, <1>3 DEF PortInv, EndedFits
  <1>7. StopsAreReviewed'
    BY <1>1, <1>2, <1>3 DEF PortInv, EndedFits, StopsAreReviewed
  <1> QED BY <1>4, <1>5, <1>6, <1>7 DEF PortInv

\* A confirmation is consumed before it acts, and acts on what it names.
LEMMA ConfirmationsKeepPorts ==
  ASSUME PortInv, (\E t \in Tokens : Consume(t)) \/ StopRun \/ OpenHandle \/ TerminateHandle
  PROVE  PortInv'
  <1>1. ASSUME NEW t \in Tokens, Consume(t) PROVE PortInv'
    <2>1. /\ t \in DOMAIN pendingStop /\ confirming.at = "idle"
          /\ pendingStop' = [u \in DOMAIN pendingStop \ {t} |-> pendingStop[u]]
          /\ UNCHANGED <<reviewed, ended>>
          /\ \/ confirming' = [at |-> "consumed", token |-> t, preview |-> pendingStop[t]]
             \/ confirming' = confirming
      BY <1>1 DEF Consume
    <2> QED BY <2>1 DEF PortInv, PendingFits, ConfirmingFits, EndedFits, StopsAreReviewed
  <1>2. CASE StopRun
    <2> DEFINE run == confirming.preview.target.run
               gone == {[token |-> confirming.token, id |-> Identity(p), run |-> run] :
                          p \in {p \in Existing : osProcess[p].run = run}}
    <2>1. /\ confirming.at = "consumed" /\ run # NoManagedRun
          /\ ended' = ended \cup gone \/ ended' = ended
          /\ confirming' = [at |-> "idle"]
          /\ UNCHANGED <<pendingStop, reviewed>>
      BY <1>2 DEF StopRun
    <2>2. \A e \in gone : e.token = confirming.token /\ e.run = run
      OBVIOUS
    <2> HIDE DEF gone
    <2>3. PendingFits' /\ ConfirmingFits'
      BY <2>1 DEF PortInv, PendingFits, ConfirmingFits
    <2>4. EndedFits' /\ StopsAreReviewed'
      BY <2>1, <2>2 DEF PortInv, ConfirmingFits, EndedFits, StopsAreReviewed
    <2> QED BY <2>3, <2>4 DEF PortInv
  <1>3. CASE OpenHandle
    BY <1>3 DEF OpenHandle, PortInv, PendingFits, ConfirmingFits, EndedFits, StopsAreReviewed
  <1>4. CASE TerminateHandle
    <2> DEFINE gone == [token |-> confirming.token, id |-> confirming.handle, run |-> NoManagedRun]
    <2>1. /\ confirming.at = "opened"
          /\ \/ Verified /\ ended' = ended \cup {gone}
             \/ ended' = ended
          /\ confirming' = [at |-> "idle"]
          /\ UNCHANGED <<pendingStop, reviewed>>
      BY <1>4 DEF TerminateHandle
    <2> QED
      BY <2>1 DEF PortInv, PendingFits, ConfirmingFits, EndedFits, StopsAreReviewed, Verified
  <1> QED BY <1>1, <1>2, <1>3, <1>4

\* PortInv is inductive.
THEOREM PortInvariant == PortSpec => []PortInv
  <1>1. PortInv /\ [PortNext]_portVars => PortInv'
    <2> SUFFICES ASSUME PortInv, [PortNext]_portVars PROVE PortInv'
      OBVIOUS
    <2>1. CASE UNCHANGED <<pendingStop, confirming, reviewed, ended>>
      BY <2>1 DEF PortInv, PendingFits, ConfirmingFits, EndedFits, StopsAreReviewed
    <2>2. UNCHANGED portVars => UNCHANGED <<pendingStop, confirming, reviewed, ended>>
      BY DEF portVars
    <2>3. ASSUME NEW p \in Pids, NEW r, NEW ports, Spawn(p, r, ports) \/ ProcessEnds(p)
          PROVE  UNCHANGED <<pendingStop, confirming, reviewed, ended>>
      BY <2>3 DEF Spawn, ProcessEnds
    <2>4. ASSUME NEW project, NEW id, NEW t,
                 \/ DelistProject(project) \/ Associate(id, project) \/ Dissociate(id)
                 \/ ListProcesses \/ PassMinute(t)
          PROVE  UNCHANGED <<pendingStop, confirming, reviewed, ended>>
      BY <2>4 DEF DelistProject, Associate, Dissociate, ListProcesses, PassMinute
    <2>5. CASE PortNext
      BY <2>1, <2>3, <2>4, <2>5, PreviewsKeepPorts, ConfirmationsKeepPorts DEF PortNext
    <2> QED BY <2>1, <2>2, <2>5
  <1> QED BY <1>1, PortsInitially, PTL DEF PortSpec

\* Whatever ends, restarts or takes over an id between the preview and the
\* end of the stop, a confirmation ends only what its preview showed
\* (PortProcessManager::consume, stop_verified).
THEOREM ReviewedStops == PortSpec => []StopsAreReviewed
  BY PortInvariant, PTL DEF PortInv

-----------------------------------------------------------------------------
(* Attention.  A project that vanished is stamped with a number that no      *)
(* acknowledgement has, and every later edit of it with a later one.         *)

Unavailable == Item("project_unavailable", 0, checkout.updated)

AttentionInv ==
  /\ stamp \in Nat
  /\ checkout \in [available : BOOLEAN, updated : 0..stamp]
  /\ vanished \in BOOLEAN
  /\ \A a \in acknowledged : a.kind = "project_unavailable" => a.version \in 0..stamp
  /\ vanished /\ ~ checkout.available => Unavailable \notin acknowledged

\* The stamps are in order when nothing has happened.
LEMMA AttentionInitially == AttentionInit => AttentionInv
  <1> SUFFICES ASSUME AttentionInit PROVE AttentionInv
    OBVIOUS
  <1>1. /\ stamp \in Nat
        /\ checkout \in [available : BOOLEAN, updated : 0..stamp]
    BY DEF AttentionInit
  <1> QED BY <1>1 DEF AttentionInit, AttentionInv

\* What a project that is unavailable shows has the stamp of its row.
LEMMA ShownProjects ==
  ASSUME NEW item \in Derived, item.kind = "project_unavailable"
  PROVE  ~ checkout.available /\ item = Unavailable /\ item.version = checkout.updated
  BY DEF Derived, ItemIf, Item, Unavailable

\* Every step keeps the stamps in order.
LEMMA AttentionSteps == AttentionInv /\ [AttentionNext]_attentionVars => AttentionInv'
  <1> SUFFICES ASSUME AttentionInv, [AttentionNext]_attentionVars PROVE AttentionInv'
    OBVIOUS
  <1> USE DEF AttentionInv
  <1>1. CASE ProjectVanishes
    BY <1>1 DEF ProjectVanishes, Passes, Now, Unavailable, Item
  <1>2. CASE ProjectReturns
    BY <1>2 DEF ProjectReturns, Passes, Now, Unavailable, Item
  <1>3. CASE ProjectEdited
    BY <1>3 DEF ProjectEdited, Passes, Now, Unavailable, Item
  <1>4. CASE RunFails
    BY <1>4 DEF RunFails, Passes, Now, Unavailable, Item
  <1>5. ASSUME NEW condition, RecordInspection(condition) PROVE AttentionInv'
    BY <1>5 DEF RecordInspection, Unavailable, Item
  <1>6. ASSUME NEW failed, Audited(failed) PROVE AttentionInv'
    BY <1>6 DEF Audited, sources, Passes, Now, Unavailable, Item
  <1>7. CASE ReadAttention
    BY <1>7 DEF ReadAttention, sources, Unavailable, Item
  <1>8. ASSUME NEW item \in view, AcknowledgeItem(item) PROVE AttentionInv'
    <2>1. item \in Derived
      BY <1>8 DEF AcknowledgeItem, AttentionItems
    <2>2. CASE item.kind = "project_unavailable"
      <3>1. item.version \in 0..stamp
        BY <2>1, <2>2, ShownProjects
      <3> QED BY <1>8, <2>2, <3>1 DEF AcknowledgeItem, sources, Passes, Now, Unavailable, Item
    <2>3. CASE item.kind # "project_unavailable"
      <3>1. item # Unavailable
        BY <2>3 DEF Unavailable, Item
      <3> QED BY <1>8, <2>3, <3>1 DEF AcknowledgeItem, sources, Passes, Now, Unavailable, Item
    <2> QED BY <2>2, <2>3
  <1>9. CASE UNCHANGED attentionVars
    BY <1>9 DEF attentionVars, Unavailable, Item
  <1> QED BY <1>1, <1>2, <1>3, <1>4, <1>5, <1>6, <1>7, <1>8, <1>9 DEF AttentionNext

\* AttentionInv is inductive.
THEOREM AttentionInvariant == AttentionSpec => []AttentionInv
  BY AttentionInitially, AttentionSteps, PTL DEF AttentionSpec

\* A project that vanished again is shown, whatever was acknowledged before
\* it came back (derived_attention_items, acknowledge_attention_item).
THEOREM VanishedAreShown == AttentionSpec => []VanishedProjectsAreShown
  <1>1. AttentionInv => VanishedProjectsAreShown
    BY ShownProjects DEF AttentionInv, VanishedProjectsAreShown, AttentionItems
  <1> QED BY <1>1, AttentionInvariant, PTL

-----------------------------------------------------------------------------
(* Quick search.  The worker that holds the windows is the only one between  *)
(* the lock and its report; what the latest request has done with the search *)
(* window stays as it is, because an older worker that comes later stops     *)
(* before it touches the windows.                                            *)

ShowPlaces == {"find", "attach", "recheck"}
OpenPlaces == {"navigate"}
HidePlaces == {"hide", "hide window", "clear focus"}
WakePlaces == {"check", "wake", "check focus"}
HeldPlaces == ShowPlaces \cup OpenPlaces \cup HidePlaces \cup WakePlaces \cup {"report"}
FreePlaces == {"none", "lock", "done"}

WorkerStates ==
  [kind : {"none", "show", "hide", "open"}, at : HeldPlaces \cup FreePlaces,
   result : {"none", "ok", "failed", "refused"}]

QuickTypeOK ==
  /\ lifecycle \in 0..SHUTDOWN
  /\ worker \in [Workers -> WorkerStates]
  /\ windowsLock \in Workers \cup {NoNumber}
  /\ desktop \in [main : {"shown", "closing", "none"},
                  search : {"none", "unattached", "hidden", "visible"}]

\* What a worker asks for, by the place where it is.
KindsFitPlaces ==
  \A g \in Workers :
    /\ worker[g].at = "none" => worker[g].result = "none"
    /\ worker[g].at # "none" => worker[g].kind \in {"show", "hide", "open"} /\ g <= lifecycle
    /\ worker[g].at \in ShowPlaces => worker[g].kind = "show"
    /\ worker[g].at \in OpenPlaces => worker[g].kind = "open"
    /\ worker[g].at \in HidePlaces => worker[g].kind \in {"hide", "open"}
    /\ worker[g].at \in WakePlaces => worker[g].kind \in {"show", "open"}

OneWorkerHoldsWindows ==
  \A g \in Workers : worker[g].at \in HeldPlaces <=> windowsLock = g

\* The search window while it is built, and after the main window is gone.
SearchIsCleanedUp ==
  /\ desktop.main # "shown" => IsShutdown
  /\ desktop.search = "unattached" =>
       \E g \in Workers : worker[g].at = "attach"
  /\ desktop.main = "none" /\ desktop.search # "none" =>
       \E g \in Workers : /\ worker[g].kind = "show"
                          /\ worker[g].at \in {"attach", "recheck"} \cup WakePlaces

\* What the latest request has done so far.
LatestIsObeyed ==
  \A g \in Workers : IsCurrent(g) =>
    /\ worker[g].kind = "show" /\
         (\/ worker[g].at = "check focus"
          \/ worker[g].at = "recheck" /\ worker[g].result # "failed"
          \/ worker[g].at \in {"report", "done"} /\ worker[g].result = "ok") =>
       desktop.search = "visible"
    /\ worker[g].kind # "show" /\
         (\/ worker[g].at = "clear focus"
          \/ worker[g].at \in {"report", "done"} /\ worker[g].result = "ok") =>
       desktop.search # "visible"

\* A worker that comes after the latest request has reported.
OlderWorkersStop ==
  \A g \in Workers : IsCurrent(g) /\ worker[g].at = "done" =>
    \A h \in Workers : worker[h].at \in HeldPlaces =>
      /\ worker[h].at \in {"hide", "navigate", "check", "report"}
      /\ worker[h].at = "check" => worker[h].kind = "open"

QuickInv ==
  /\ QuickTypeOK
  /\ KindsFitPlaces
  /\ OneWorkerHoldsWindows
  /\ SearchIsCleanedUp
  /\ LatestIsObeyed
  /\ OlderWorkersStop

\* Before any window request is made nothing is shown, so the invariant holds.
LEMMA QuickInitially == QuickInit => QuickInv
  <1> SUFFICES ASSUME QuickInit PROVE QuickInv
    OBVIOUS
  <1>0. \A g \in Workers : worker[g].at = "none" /\ g # NoNumber
    BY DEF QuickInit, Unasked, Workers, NoNumber
  <1>1. QuickTypeOK
    BY QuickSearchAssumption DEF QuickInit, Unasked, QuickTypeOK, WorkerStates, FreePlaces, SHUTDOWN
  <1>2. KindsFitPlaces
    BY <1>0 DEF QuickInit, Unasked, KindsFitPlaces, ShowPlaces, OpenPlaces, HidePlaces, WakePlaces
  <1>3. OneWorkerHoldsWindows
    BY <1>0 DEF QuickInit, OneWorkerHoldsWindows, HeldPlaces, ShowPlaces, OpenPlaces, HidePlaces, WakePlaces
  <1>4. SearchIsCleanedUp 
    BY <1>0 DEF QuickInit, SearchIsCleanedUp
  <1>5. LatestIsObeyed /\ OlderWorkersStop
    BY <1>0 DEF LatestIsObeyed, OlderWorkersStop
  <1> QED BY <1>1, <1>2, <1>3, <1>4, <1>5 DEF QuickInv

\* Requests, workers, shutdown and the windows' readers.
LEMMA RequestsKeepQuick ==
  ASSUME QuickInv, NEW kind \in {"show", "hide", "open"}, Ask(kind)
  PROVE  QuickInv'
  <1> DEFINE new == lifecycle + 1
             asked == [kind |-> kind, at |-> "lock", result |-> "none"]
  <1>0. /\ new \in Workers /\ lifecycle \in 0..SHUTDOWN /\ new \in 0..SHUTDOWN
        /\ \A g \in Workers : g <= lifecycle => g <= new
        /\ new <= new /\ new # SHUTDOWN /\ lifecycle # SHUTDOWN /\ ~ (new <= lifecycle)
    BY QuickSearchAssumption DEF QuickInv, QuickTypeOK, Ask, Workers, SHUTDOWN
  <1>1. worker[new].at = "none"
    BY <1>0 DEF QuickInv, KindsFitPlaces
  <1>2. /\ lifecycle' = new
        /\ worker' = [worker EXCEPT ![new] = asked]
        /\ UNCHANGED <<windowsLock, desktop>>
    BY DEF Ask
  <1>2a. /\ asked \in WorkerStates /\ asked.at = "lock" /\ asked.kind = kind
    BY DEF WorkerStates, FreePlaces
  <1> HIDE DEF asked, new
  <1>3. QuickTypeOK'
    BY <1>0, <1>2, <1>2a DEF QuickInv, QuickTypeOK
  <1>4. \A g \in Workers : worker'[g] = IF g = new THEN asked ELSE worker[g]
    BY <1>2, <1>0 DEF QuickInv, QuickTypeOK
  <1>5. KindsFitPlaces'
    BY <1>0, <1>2, <1>2a, <1>4 DEF QuickInv, KindsFitPlaces, ShowPlaces, OpenPlaces, HidePlaces, WakePlaces
  <1>6. OneWorkerHoldsWindows'
    BY <1>1, <1>2, <1>2a, <1>4 DEF QuickInv, OneWorkerHoldsWindows, HeldPlaces, ShowPlaces, OpenPlaces, HidePlaces, WakePlaces
  <1>7. SearchIsCleanedUp'
    BY <1>0, <1>1, <1>2, <1>4 DEF QuickInv, SearchIsCleanedUp, IsShutdown, WakePlaces
  <1>8. LatestIsObeyed' /\ OlderWorkersStop'
    BY <1>0, <1>1, <1>2, <1>2a, <1>4 DEF LatestIsObeyed, OlderWorkersStop, IsCurrent
  <1> QED BY <1>3, <1>5, <1>6, <1>7, <1>8 DEF QuickInv

\* A worker that holds the windows goes on to w.
Fits(w) ==
  /\ w.at \in ShowPlaces => w.kind = "show"
  /\ w.at \in OpenPlaces => w.kind = "open"
  /\ w.at \in HidePlaces => w.kind \in {"hide", "open"}
  /\ w.at \in WakePlaces => w.kind \in {"show", "open"}

CleansUp(w) ==
  /\ desktop'.search = "unattached" => w.at = "attach"
  /\ desktop'.main = "none" /\ desktop'.search # "none" =>
       w.kind = "show" /\ w.at \in {"attach", "recheck"} \cup WakePlaces

Obeys(w) ==
  /\ w.kind = "show" /\
       (\/ w.at = "check focus"
        \/ w.at = "recheck" /\ w.result # "failed"
        \/ w.at = "report" /\ w.result = "ok") =>
     desktop'.search = "visible"
  /\ w.kind # "show" /\
       (\/ w.at = "clear focus"
        \/ w.at = "report" /\ w.result = "ok") =>
     desktop'.search # "visible"

StopsIn(w) ==
  /\ w.at \in {"hide", "navigate", "check", "report"}
  /\ w.at = "check" => w.kind = "open"

\* A worker holding the windows may go on to any place that suits its kind, clean up
\* what it leaves, and obey the last request; an older worker may only stop.
LEMMA HolderMoves ==
  ASSUME QuickInv, NEW g \in Workers, worker[g].at \in HeldPlaces,
         NEW w \in WorkerStates, w.kind = worker[g].kind, w.at \in HeldPlaces,
         worker' = [worker EXCEPT ![g] = w], UNCHANGED <<lifecycle, windowsLock>>,
         desktop' \in [main : {desktop.main}, search : {"none", "unattached", "hidden", "visible"}],
         Fits(w), CleansUp(w), IsCurrent(g) => Obeys(w),
         ~ IsCurrent(g) /\ StopsIn(worker[g]) => desktop' = desktop /\ StopsIn(w)
  PROVE  QuickInv'
  <1>0. /\ QuickTypeOK /\ KindsFitPlaces /\ OneWorkerHoldsWindows
        /\ SearchIsCleanedUp /\ LatestIsObeyed /\ OlderWorkersStop
    BY DEF QuickInv
  <1>1. \A h \in Workers : worker'[h] = IF h = g THEN w ELSE worker[h]
    BY <1>0 DEF QuickTypeOK
  <1>2. \A h \in Workers : h # g => worker[h].at \notin HeldPlaces /\ worker[h].at \in FreePlaces
    BY <1>0 DEF OneWorkerHoldsWindows, QuickTypeOK, WorkerStates
  <1>2a. worker[g].at # "none" /\ w.at \notin {"none", "done"}
    BY DEF HeldPlaces, ShowPlaces, OpenPlaces, HidePlaces, WakePlaces
  <1>3. QuickTypeOK'
    BY <1>0 DEF QuickTypeOK
  <1>4. KindsFitPlaces'
    BY <1>0, <1>1, <1>2a DEF KindsFitPlaces, Fits
  <1>5. OneWorkerHoldsWindows'
    BY <1>0, <1>1 DEF OneWorkerHoldsWindows
  <1>6. SearchIsCleanedUp'
    BY <1>0, <1>1 DEF SearchIsCleanedUp, CleansUp, IsShutdown, QuickTypeOK
  <1>7. ASSUME NEW c \in Workers, IsCurrent(c), c # g, worker[c].at = "done"
        PROVE  desktop' = desktop /\ StopsIn(w)
    BY <1>0, <1>7 DEF OlderWorkersStop, StopsIn, IsCurrent
  <1>8. LatestIsObeyed'
    <2> SUFFICES ASSUME NEW c \in Workers, IsCurrent(c)
                 PROVE  /\ worker'[c].kind = "show" /\
                           (\/ worker'[c].at = "check focus"
                            \/ worker'[c].at = "recheck" /\ worker'[c].result # "failed"
                            \/ worker'[c].at \in {"report", "done"} /\ worker'[c].result = "ok") =>
                          desktop'.search = "visible"
                        /\ worker'[c].kind # "show" /\
                           (\/ worker'[c].at = "clear focus"
                            \/ worker'[c].at \in {"report", "done"} /\ worker'[c].result = "ok") =>
                          desktop'.search # "visible"
      BY DEF LatestIsObeyed, IsCurrent
    <2>1. CASE c = g
      BY <1>1, <1>2a, <2>1 DEF Obeys
    <2>2. CASE c # g
      <3>1. worker'[c] = worker[c] /\ worker[c].at \in {"none", "lock", "done"}
        BY <1>1, <1>2, <2>2 DEF FreePlaces
      <3>2. CASE worker[c].at = "done"
        BY <1>0, <1>7, <2>2, <3>1, <3>2 DEF LatestIsObeyed
      <3> QED BY <3>1, <3>2
    <2> QED BY <2>1, <2>2
  <1>9. OlderWorkersStop'
    <2> SUFFICES ASSUME NEW c \in Workers, IsCurrent(c), worker'[c].at = "done",
                        NEW h \in Workers, worker'[h].at \in HeldPlaces
                 PROVE  StopsIn(worker'[h])
      BY DEF OlderWorkersStop, IsCurrent, StopsIn
    <2>1. c # g /\ worker[c].at = "done"
      BY <1>1, <1>2a
    <2>2. h = g
      BY <1>1, <1>2
    <2> QED BY <1>1, <1>7, <2>1, <2>2
  <1> QED BY <1>3, <1>4, <1>5, <1>6, <1>8, <1>9 DEF QuickInv

Moved(g, at, result) == [kind |-> worker[g].kind, at |-> at, result |-> result]

\* The forms in which the actions write where a worker goes.
LEMMA MovesOfWorkers ==
  ASSUME QuickInv, NEW g \in Workers
  PROVE  /\ worker \in [Workers -> WorkerStates]
         /\ worker[g] \in WorkerStates
         /\ worker[g].result \in {"none", "ok", "failed", "refused"}
         /\ \A at \in HeldPlaces, result \in {"none", "ok", "failed", "refused"} :
              /\ Moved(g, at, result) \in WorkerStates
              /\ Moved(g, at, result).at = at
              /\ Moved(g, at, result).result = result
              /\ Moved(g, at, result).kind = worker[g].kind
  <1>0. worker \in [Workers -> WorkerStates]
    BY DEF QuickInv, QuickTypeOK
  <1>1. worker[g] \in WorkerStates
    BY <1>0
  <1>6. ASSUME NEW at \in HeldPlaces, NEW result \in {"none", "ok", "failed", "refused"}
        PROVE  /\ Moved(g, at, result) \in WorkerStates
               /\ Moved(g, at, result).at = at
               /\ Moved(g, at, result).result = result
               /\ Moved(g, at, result).kind = worker[g].kind
    BY <1>1 DEF Moved, WorkerStates
  <1> QED BY <1>0, <1>1, <1>6 DEF WorkerStates

\* Going to another place of the code keeps the result.
LEMMA SingleMoves ==
  ASSUME QuickInv, NEW g \in Workers, NEW at
  PROVE  [worker EXCEPT ![g].at = at] = [worker EXCEPT ![g] = Moved(g, at, worker[g].result)]
  <1>1. worker[g] \in WorkerStates
    BY MovesOfWorkers
  <1>2. [worker[g] EXCEPT !.at = at] = Moved(g, at, worker[g].result)
    BY <1>1 DEF Moved, WorkerStates
  <1> QED BY <1>2

Ending(g, at, result) == [worker EXCEPT ![g].at = at, ![g].result = result]

\* Going to another place with a result is one change of the worker.
LEMMA DoubleMoves ==
  ASSUME QuickInv, NEW g \in Workers, NEW at, NEW result
  PROVE  Ending(g, at, result) = [worker EXCEPT ![g] = Moved(g, at, result)]
  <1> DEFINE moved == Moved(g, at, worker[g].result)
  <1>1. Ending(g, at, result) = [[worker EXCEPT ![g].at = at] EXCEPT ![g].result = result]
    BY DEF Ending
  <1>2. [worker EXCEPT ![g].at = at] = [worker EXCEPT ![g] = moved]
    BY SingleMoves
  <1>3. [moved EXCEPT !.result = result] = Moved(g, at, result)
    BY DEF Moved
  <1>5. worker \in [Workers -> WorkerStates]
    BY MovesOfWorkers
  <1> HIDE DEF moved
  <1>4. [[worker EXCEPT ![g] = moved] EXCEPT ![g].result = result]
          = [worker EXCEPT ![g] = [moved EXCEPT !.result = result]]
    BY <1>5
  <1> QED BY <1>1, <1>2, <1>3, <1>4

Windows == [main : {"shown", "closing", "none"},
            search : {"none", "unattached", "hidden", "visible"}]

\* A step of the holder to a place and a result, as the actions take it.
HolderStep(g, at, result) ==
  /\ at \in HeldPlaces /\ result \in {"none", "ok", "failed", "refused"}
  /\ worker' = [worker EXCEPT ![g] = Moved(g, at, result)]
  /\ UNCHANGED <<lifecycle, windowsLock>>
  /\ desktop' \in [main : {desktop.main}, search : {"none", "unattached", "hidden", "visible"}]

\* What the invariant tells of the worker that holds the windows.
LEMMA HolderFacts ==
  ASSUME QuickInv, NEW g \in Workers, worker[g].at \in HeldPlaces
  PROVE  /\ desktop \in [main : {desktop.main}, search : {"none", "unattached", "hidden", "visible"}]
         /\ worker[g].kind \in {"show", "hide", "open"}
         /\ Fits(worker[g])
         /\ desktop.search = "unattached" => worker[g].at = "attach"
         /\ desktop.main = "none" /\ desktop.search # "none" =>
               worker[g].kind = "show" /\ worker[g].at \in {"attach", "recheck"} \cup WakePlaces
         /\ desktop.main = "none" => IsShutdown /\ ~ IsCurrent(g)
         /\ IsCurrent(g) => ~ IsShutdown
  <1>0. /\ QuickTypeOK /\ KindsFitPlaces /\ OneWorkerHoldsWindows
        /\ SearchIsCleanedUp /\ LatestIsObeyed /\ OlderWorkersStop
    BY DEF QuickInv
  <1>1. worker[g].at # "none"
    BY DEF HeldPlaces, ShowPlaces, OpenPlaces, HidePlaces, WakePlaces
  <1>2. Fits(worker[g]) /\ worker[g].kind \in {"show", "hide", "open"}
    BY <1>0, <1>1 DEF KindsFitPlaces, Fits
  <1>3. \A h \in Workers : worker[h].at \in HeldPlaces => h = g
    BY <1>0 DEF OneWorkerHoldsWindows
  <1>4. \A h \in Workers : worker[h].at \in {"attach", "recheck"} \cup WakePlaces => worker[h].at \in HeldPlaces
    BY DEF HeldPlaces, ShowPlaces
  <1>5. desktop.search = "unattached" => worker[g].at = "attach"
    BY <1>0, <1>3, <1>4 DEF SearchIsCleanedUp
  <1>6. desktop.main = "none" /\ desktop.search # "none" =>
           worker[g].kind = "show" /\ worker[g].at \in {"attach", "recheck"} \cup WakePlaces
    BY <1>0, <1>3, <1>4 DEF SearchIsCleanedUp
  <1>7. IsCurrent(g) => ~ IsShutdown
    BY QuickSearchAssumption DEF IsCurrent, IsShutdown, Workers, SHUTDOWN
  <1>8. desktop.main = "none" => IsShutdown
    BY <1>0 DEF SearchIsCleanedUp
  <1>9. desktop \in [main : {desktop.main}, search : {"none", "unattached", "hidden", "visible"}]
    BY <1>0 DEF QuickTypeOK
  <1> QED BY <1>2, <1>5, <1>6, <1>7, <1>8, <1>9

\* The two forms in which the actions write a step of the holder.
LEMMA GoingOn ==
  ASSUME QuickInv, NEW g \in Workers, NEW at \in HeldPlaces, GotoStep(g, at),
         UNCHANGED <<lifecycle, windowsLock>>,
         desktop' \in [main : {desktop.main}, search : {"none", "unattached", "hidden", "visible"}]
  PROVE  HolderStep(g, at, worker[g].result)
  <1>1. worker' = [worker EXCEPT ![g].at = at]
    BY DEF GotoStep
  <1>2. [worker EXCEPT ![g].at = at] = [worker EXCEPT ![g] = Moved(g, at, worker[g].result)]
    BY SingleMoves
  <1>3. worker' = [worker EXCEPT ![g] = Moved(g, at, worker[g].result)]
    BY <1>1, <1>2
  <1>4. worker[g].result \in {"none", "ok", "failed", "refused"}
    BY MovesOfWorkers
  <1> QED BY <1>3, <1>4 DEF HolderStep

\* Finish goes to the report, leaving the lifecycle and the lock alone.
LEMMA Reporting ==
  ASSUME QuickInv, NEW g \in Workers, NEW result \in {"none", "ok", "failed", "refused"},
         worker' = Finish(g, result), UNCHANGED <<lifecycle, windowsLock>>,
         desktop' \in [main : {desktop.main}, search : {"none", "unattached", "hidden", "visible"}]
  PROVE  HolderStep(g, "report", result)
  <1>1. Finish(g, result) = [worker EXCEPT ![g] = Moved(g, "report", result)]
    <2>1. Finish(g, result) = Ending(g, "report", result)
      BY DEF Finish, Ending
    <2> QED BY <2>1, DoubleMoves
  <1>2. worker' = [worker EXCEPT ![g] = Moved(g, "report", result)]
    BY <1>1
  <1> QED BY <1>2 DEF HolderStep, HeldPlaces

\* The same as HolderMoves, for a place and a result.
LEMMA HolderSteps ==
  ASSUME QuickInv, NEW g \in Workers, worker[g].at \in HeldPlaces,
         NEW at, NEW result, HolderStep(g, at, result),
         Fits(Moved(g, at, result)), CleansUp(Moved(g, at, result)),
         IsCurrent(g) => Obeys(Moved(g, at, result)),
         ~ IsCurrent(g) /\ StopsIn(worker[g]) => desktop' = desktop /\ StopsIn(Moved(g, at, result))
  PROVE  QuickInv'
  <1> DEFINE w == Moved(g, at, result)
  <1>1. /\ at \in HeldPlaces /\ result \in {"none", "ok", "failed", "refused"}
        /\ worker' = [worker EXCEPT ![g] = w]
        /\ UNCHANGED <<lifecycle, windowsLock>>
        /\ desktop' \in [main : {desktop.main}, search : {"none", "unattached", "hidden", "visible"}]
    BY DEF HolderStep
  <1>2. w \in WorkerStates /\ w.at = at /\ w.kind = worker[g].kind
    BY <1>1, MovesOfWorkers
  <1> HIDE DEF w
  <1>3. Fits(w) /\ CleansUp(w) /\ (IsCurrent(g) => Obeys(w))
         /\ (~ IsCurrent(g) /\ StopsIn(worker[g]) => desktop' = desktop /\ StopsIn(w))
    BY DEF w
  <1> QED BY <1>1, <1>2, <1>3, HolderMoves

\* Building and attaching the search window.
LEMMA FindingKeepsQuick ==
  ASSUME QuickInv, NEW g \in Workers, Navigate(g) \/ FindSearch(g) \/ AttachSearch(g)
  PROVE  QuickInv'
  <1>0. /\ worker[g].at \in {"navigate", "find", "attach"}
        /\ worker[g].at \in HeldPlaces
    BY DEF Navigate, FindSearch, AttachSearch, HeldPlaces, ShowPlaces, OpenPlaces
  <1>a. {"check", "report", "attach"} \subseteq HeldPlaces
    BY DEF HeldPlaces, WakePlaces, ShowPlaces
  <1>b. /\ desktop \in [main : {desktop.main}, search : {"none", "unattached", "hidden", "visible"}]
        /\ [desktop EXCEPT !.search = "hidden"] \in [main : {desktop.main}, search : {"none", "unattached", "hidden", "visible"}]
        /\ [desktop EXCEPT !.search = "unattached"] \in [main : {desktop.main}, search : {"none", "unattached", "hidden", "visible"}]
    BY <1>0, HolderFacts
  <1>1. CASE Navigate(g)
    <2>0. worker[g].at = "navigate" /\ worker[g].kind = "open"
      BY <1>0, <1>1, HolderFacts DEF Navigate, Fits, OpenPlaces
    <2>1. UNCHANGED <<lifecycle, windowsLock, desktop>>
      BY <1>1 DEF Navigate, windowVars
    <2>2. CASE worker' = Finish(g, "refused")
      <3>1. HolderStep(g, "report", "refused")
        BY <1>b, <2>1, <2>2, Reporting
      <3> QED
        BY <1>0, <2>0, <2>1, <3>1, HolderFacts, HolderSteps
           DEF Moved, Fits, CleansUp, Obeys, StopsIn, ShowPlaces, OpenPlaces, HidePlaces, WakePlaces
    <2>3. CASE GotoStep(g, "check")
      <3>1. HolderStep(g, "check", worker[g].result)
        BY <1>a, <1>b, <2>1, <2>3, GoingOn
      <3> QED
        BY <1>0, <2>0, <2>1, <3>1, HolderFacts, HolderSteps
           DEF Moved, Fits, CleansUp, Obeys, StopsIn, ShowPlaces, OpenPlaces, HidePlaces, WakePlaces
    <2> QED BY <1>1, <2>2, <2>3 DEF Navigate
  <1>2. CASE FindSearch(g)
    <2>0. worker[g].at = "find" /\ worker[g].kind = "show" /\ UNCHANGED <<lifecycle, windowsLock>>
      BY <1>0, <1>2, HolderFacts DEF FindSearch, Fits, ShowPlaces
    <2>1. CASE GotoStep(g, "check") /\ UNCHANGED desktop
      <3>1. HolderStep(g, "check", worker[g].result)
        BY <1>a, <1>b, <2>0, <2>1, GoingOn
      <3> QED
        BY <1>0, <2>0, <2>1, <3>1, HolderFacts, HolderSteps
           DEF Moved, Fits, CleansUp, Obeys, StopsIn, ShowPlaces, OpenPlaces, HidePlaces, WakePlaces
    <2>2. CASE GotoStep(g, "attach") /\ desktop' = [desktop EXCEPT !.search = "unattached"]
      <3>1. HolderStep(g, "attach", worker[g].result)
        BY <1>a, <1>b, <2>0, <2>2, GoingOn
      <3> QED
        BY <1>0, <2>0, <2>2, <3>1, HolderFacts, HolderSteps
           DEF Moved, Fits, CleansUp, Obeys, StopsIn, ShowPlaces, OpenPlaces, HidePlaces, WakePlaces
    <2>3. CASE worker' = Finish(g, "failed") /\ UNCHANGED desktop
      <3>1. HolderStep(g, "report", "failed")
        BY <1>b, <2>0, <2>3, Reporting
      <3> QED
        BY <1>0, <2>0, <2>3, <3>1, HolderFacts, HolderSteps
           DEF Moved, Fits, CleansUp, Obeys, StopsIn, ShowPlaces, OpenPlaces, HidePlaces, WakePlaces
    <2> QED BY <1>2, <2>1, <2>2, <2>3 DEF FindSearch
  <1>3. CASE AttachSearch(g)
    <2>0. worker[g].at = "attach" /\ worker[g].kind = "show" /\ UNCHANGED <<lifecycle, windowsLock>>
      BY <1>0, <1>3, HolderFacts DEF AttachSearch, Fits, ShowPlaces
    <2>1. HolderStep(g, "check", worker[g].result)
      BY <1>a, <1>b, <1>3, <2>0, GoingOn DEF AttachSearch
    <2> QED
      BY <1>0, <1>3, <2>0, <2>1, HolderFacts, HolderSteps
         DEF AttachSearch, Moved, Fits, CleansUp, Obeys, StopsIn, ShowPlaces, OpenPlaces, HidePlaces, WakePlaces
  <1> QED BY <1>1, <1>2, <1>3

\* Showing and focusing a window.
LEMMA WakingKeepsQuick ==
  ASSUME QuickInv, NEW g \in Workers,
         CheckWake(g) \/ WakeWindow(g) \/ CheckFocus(g) \/ FailWake(g)
  PROVE  QuickInv'
  <1>0. /\ worker[g].at \in WakePlaces /\ worker[g].at \in HeldPlaces
        /\ worker[g].kind \in {"show", "open"}
    <2>1. worker[g].at \in WakePlaces /\ worker[g].at \in HeldPlaces
      BY DEF CheckWake, WakeWindow, CheckFocus, FailWake, HeldPlaces, WakePlaces
    <2> QED BY <2>1, HolderFacts DEF Fits
  <1>a. {"check", "wake", "check focus", "hide", "recheck", "report"} \subseteq HeldPlaces
    BY DEF HeldPlaces, WakePlaces, ShowPlaces, HidePlaces
  <1>b. /\ desktop \in [main : {desktop.main}, search : {"none", "unattached", "hidden", "visible"}]
        /\ [desktop EXCEPT !.search = "visible"] \in [main : {desktop.main}, search : {"none", "unattached", "hidden", "visible"}]
    BY <1>0, HolderFacts
  <1>1. CASE CheckWake(g)
    <2>0. worker[g].at = "check" /\ UNCHANGED <<lifecycle, windowsLock, desktop>>
      BY <1>1 DEF CheckWake, windowVars
    <2>1. PICK at \in {"wake", "hide", "recheck"} :
            /\ GotoStep(g, at)
            /\ at = "wake" <=> IsCurrent(g)
            /\ at = "hide" => worker[g].kind = "open"
            /\ at = "recheck" => worker[g].kind = "show"
      BY <1>0, <1>1 DEF CheckWake, AfterWake
    <2>2. HolderStep(g, at, worker[g].result)
      BY <1>a, <1>b, <2>0, <2>1, GoingOn
    <2> QED
      BY <1>0, <2>0, <2>1, <2>2, HolderFacts, HolderSteps
         DEF Moved, Fits, CleansUp, Obeys, StopsIn, ShowPlaces, OpenPlaces, HidePlaces, WakePlaces
  <1>2. CASE WakeWindow(g)
    <2>0. worker[g].at = "wake" /\ UNCHANGED <<lifecycle, windowsLock>>
      BY <1>2 DEF WakeWindow
    <2>1. HolderStep(g, "check focus", worker[g].result)
      BY <1>a, <1>b, <1>2, <2>0, GoingOn DEF WakeWindow
    <2>2. worker[g].kind = "show" => desktop'.search = "visible" /\ desktop'.main = desktop.main
      BY <1>0, <1>2, <1>b DEF WakeWindow, WindowOf
    <2>3. worker[g].kind = "open" => desktop' = desktop
      BY <1>0, <1>2 DEF WakeWindow, WindowOf
    <2> QED
      BY <1>0, <2>0, <2>1, <2>2, <2>3, HolderFacts, HolderSteps
         DEF Moved, Fits, CleansUp, Obeys, StopsIn, ShowPlaces, OpenPlaces, HidePlaces, WakePlaces
  <1>3. CASE CheckFocus(g)
    <2>0. worker[g].at = "check focus" /\ UNCHANGED <<lifecycle, windowsLock, desktop>>
      BY <1>3 DEF CheckFocus, windowVars
    <2>1. PICK at \in {"hide", "recheck"} :
            /\ GotoStep(g, at)
            /\ at = "hide" <=> worker[g].kind = "open"
      BY <1>0, <1>3 DEF CheckFocus, AfterWake
    <2>2. HolderStep(g, at, worker[g].result)
      BY <1>a, <1>b, <2>0, <2>1, GoingOn
    <2>3. IsCurrent(g) /\ worker[g].kind = "show" => desktop.search = "visible"
      BY <2>0 DEF QuickInv, LatestIsObeyed
    <2> QED
      BY <1>0, <2>0, <2>1, <2>2, <2>3, HolderFacts, HolderSteps
         DEF Moved, Fits, CleansUp, Obeys, StopsIn, ShowPlaces, OpenPlaces, HidePlaces, WakePlaces
  <1>4. CASE FailWake(g)
    <2>0. worker[g].at \in {"wake", "check focus"} /\ UNCHANGED <<lifecycle, windowsLock, desktop>>
      BY <1>4 DEF FailWake, windowVars
    <2>1. CASE worker[g].kind = "open"
      <3>1. HolderStep(g, "report", "failed")
        BY <1>b, <1>4, <2>0, <2>1, Reporting DEF FailWake
      <3> QED
        BY <1>0, <2>0, <2>1, <3>1, HolderFacts, HolderSteps
           DEF Moved, Fits, CleansUp, Obeys, StopsIn, ShowPlaces, OpenPlaces, HidePlaces, WakePlaces
    <2>2. CASE worker[g].kind = "show"
      <3>1. worker' = [worker EXCEPT ![g].at = "recheck", ![g].result = "failed"]
        BY <1>4, <2>2 DEF FailWake
      <3>2. worker' = [worker EXCEPT ![g] = Moved(g, "recheck", "failed")]
        <4>1. worker' = Ending(g, "recheck", "failed")
          BY <3>1 DEF Ending
        <4> QED BY <4>1, DoubleMoves
      <3>3. HolderStep(g, "recheck", "failed")
        BY <1>a, <1>b, <2>0, <3>2 DEF HolderStep
      <3> QED
        BY <1>0, <2>0, <2>2, <3>3, HolderFacts, HolderSteps
           DEF Moved, Fits, CleansUp, Obeys, StopsIn, ShowPlaces, OpenPlaces, HidePlaces, WakePlaces
    <2> QED BY <1>0, <2>1, <2>2
  <1> QED BY <1>1, <1>2, <1>3, <1>4

\* The end of a show, and the hiding of the search window.
LEMMA HidingKeepsQuick ==
  ASSUME QuickInv, NEW g \in Workers,
         RecheckShutdown(g) \/ CheckHide(g) \/ HideSearch(g) \/ ClearFocus(g)
  PROVE  QuickInv'
  <1>0. /\ worker[g].at \in {"recheck"} \cup HidePlaces
        /\ worker[g].at \in HeldPlaces
    BY DEF RecheckShutdown, CheckHide, HideSearch, ClearFocus, HeldPlaces, ShowPlaces, HidePlaces
  <1>a. {"hide window", "clear focus", "report"} \subseteq HeldPlaces
    BY DEF HeldPlaces, HidePlaces
  <1>b. /\ desktop \in [main : {desktop.main}, search : {"none", "unattached", "hidden", "visible"}]
        /\ [desktop EXCEPT !.search = "hidden"] \in [main : {desktop.main}, search : {"none", "unattached", "hidden", "visible"}]
        /\ [desktop EXCEPT !.search = "none"] \in [main : {desktop.main}, search : {"none", "unattached", "hidden", "visible"}]
    BY <1>0, HolderFacts
  <1>1. CASE RecheckShutdown(g)
    <2>0. /\ worker[g].at = "recheck" /\ worker[g].kind = "show"
          /\ UNCHANGED <<lifecycle, windowsLock>>
          /\ desktop' = IF IsShutdown THEN [desktop EXCEPT !.search = "none"] ELSE desktop
      BY <1>0, <1>1, HolderFacts DEF RecheckShutdown, Fits, ShowPlaces
    <2>1. PICK result \in {"failed", "ok"} :
            /\ worker' = Ending(g, "report", result)
            /\ result = "failed" <=> worker[g].result = "failed"
      <3> DEFINE result == IF worker[g].result = "failed" THEN "failed" ELSE "ok"
      <3>1. worker' = [worker EXCEPT ![g].at = "report", ![g].result = result]
        BY <1>1 DEF RecheckShutdown
      <3> QED BY <3>1 DEF Ending
    <2>2. HolderStep(g, "report", result)
      <3>1. worker' = [worker EXCEPT ![g] = Moved(g, "report", result)]
        BY <2>1, DoubleMoves
      <3> QED BY <1>a, <1>b, <2>0, <3>1 DEF HolderStep
    <2>3. IsCurrent(g) => ~ IsShutdown /\ desktop' = desktop
      BY <1>0, <2>0, HolderFacts
    <2>4. IsCurrent(g) /\ result = "ok" => desktop.search = "visible"
      BY <2>0, <2>1 DEF QuickInv, LatestIsObeyed
    <2>5. desktop.main = "none" => desktop'.search = "none"
      BY <1>0, <1>b, <2>0, HolderFacts
    <2>6. desktop'.search # "unattached" /\ desktop'.main = desktop.main
      BY <1>0, <1>b, <2>0, HolderFacts
    <2> QED
      BY <1>0, <2>0, <2>1, <2>2, <2>3, <2>4, <2>5, <2>6, HolderFacts, HolderSteps
         DEF Moved, Fits, CleansUp, Obeys, StopsIn, ShowPlaces, OpenPlaces, HidePlaces, WakePlaces
  <1>2. CASE CheckHide(g)
    <2>0. /\ worker[g].at = "hide" /\ worker[g].kind \in {"hide", "open"}
          /\ UNCHANGED <<lifecycle, windowsLock, desktop>>
      BY <1>0, <1>2, HolderFacts DEF CheckHide, Fits, HidePlaces, windowVars
    <2>1. CASE ~ IsCurrent(g)
      <3>1. HolderStep(g, "report", "ok")
        BY <1>2, <1>b, <2>0, <2>1, Reporting DEF CheckHide
      <3> QED
        BY <1>0, <2>0, <2>1, <3>1, HolderFacts, HolderSteps
           DEF Moved, Fits, CleansUp, Obeys, StopsIn, ShowPlaces, OpenPlaces, HidePlaces, WakePlaces
    <2>2. CASE IsCurrent(g)
      <3>1. PICK at \in {"hide window", "clear focus"} :
              /\ GotoStep(g, at)
              /\ at = "clear focus" => ~ SearchAttached
        BY <1>2, <2>2 DEF CheckHide, GotoStep
      <3>2. HolderStep(g, at, worker[g].result)
        BY <1>a, <1>b, <2>0, <3>1, GoingOn
      <3> QED
        BY <1>0, <2>0, <2>2, <3>1, <3>2, HolderFacts, HolderSteps
           DEF Moved, Fits, CleansUp, Obeys, StopsIn, SearchAttached, ShowPlaces, OpenPlaces, HidePlaces, WakePlaces
    <2> QED BY <2>1, <2>2
  <1>3. CASE HideSearch(g)
    <2>0. /\ worker[g].at = "hide window" /\ worker[g].kind \in {"hide", "open"}
          /\ UNCHANGED <<lifecycle, windowsLock>>
      BY <1>0, <1>3, HolderFacts DEF HideSearch, Fits, HidePlaces
    <2>1. CASE GotoStep(g, "clear focus") /\ desktop' = [desktop EXCEPT !.search = "hidden"]
      <3>1. HolderStep(g, "clear focus", worker[g].result)
        BY <1>a, <1>b, <2>0, <2>1, GoingOn
      <3>2. desktop.main = "none" => ~ SearchAttached
        BY <1>0, <2>0, HolderFacts DEF SearchAttached, WakePlaces
      <3> QED
        BY <1>0, <1>3, <2>0, <2>1, <3>1, <3>2, HolderFacts, HolderSteps
           DEF HideSearch, GotoStep, Moved, Fits, CleansUp, Obeys, StopsIn, ShowPlaces, OpenPlaces, HidePlaces, WakePlaces
    <2>2. CASE worker' = Finish(g, "failed") /\ UNCHANGED desktop
      <3>1. HolderStep(g, "report", "failed")
        BY <1>b, <2>0, <2>2, Reporting
      <3> QED
        BY <1>0, <2>0, <2>2, <3>1, HolderFacts, HolderSteps
           DEF Moved, Fits, CleansUp, Obeys, StopsIn, ShowPlaces, OpenPlaces, HidePlaces, WakePlaces
    <2> QED BY <1>3, <2>1, <2>2 DEF HideSearch
  <1>4. CASE ClearFocus(g)
    <2>0. /\ worker[g].at = "clear focus" /\ worker[g].kind \in {"hide", "open"}
          /\ UNCHANGED <<lifecycle, windowsLock, desktop>>
      BY <1>0, <1>4, HolderFacts DEF ClearFocus, Fits, HidePlaces, windowVars
    <2>1. HolderStep(g, "report", "ok")
      BY <1>4, <1>b, <2>0, Reporting DEF ClearFocus
    <2>2. IsCurrent(g) => desktop.search # "visible"
      BY <2>0 DEF QuickInv, LatestIsObeyed
    <2> QED
      BY <1>0, <2>0, <2>1, <2>2, HolderFacts, HolderSteps
         DEF Moved, Fits, CleansUp, Obeys, StopsIn, ShowPlaces, OpenPlaces, HidePlaces, WakePlaces
  <1> QED BY <1>1, <1>2, <1>3, <1>4

\* A worker takes the windows, and gives them back.
LEMMA TakingKeepsQuick ==
  ASSUME QuickInv, NEW g \in Workers, TakeWindows(g)
  PROVE  QuickInv'
  <1>0. /\ QuickTypeOK /\ KindsFitPlaces /\ OneWorkerHoldsWindows
        /\ SearchIsCleanedUp /\ LatestIsObeyed /\ OlderWorkersStop
    BY DEF QuickInv
  <1>1. /\ worker[g].at = "lock" /\ windowsLock = NoNumber /\ windowsLock' = g
        /\ UNCHANGED <<lifecycle, desktop>>
    BY DEF TakeWindows
  <1>2. worker[g].kind \in {"show", "hide", "open"}
    BY <1>0, <1>1 DEF KindsFitPlaces
  <1>3. PICK w \in WorkerStates :
          /\ worker' = [worker EXCEPT ![g] = w] /\ w.kind = worker[g].kind
          /\ w.at \in {"find", "hide", "navigate", "report"}
          /\ w.at = "find" => IsCurrent(g) /\ w.kind = "show"
          /\ w.at = "hide" => w.kind = "hide"
          /\ w.at = "navigate" => w.kind = "open"
          /\ w.at = "report" => \/ w.kind = "show" /\ ~ IsCurrent(g)
                                \/ w.result = "refused"
    <2>a. {"find", "hide", "navigate", "report"} \subseteq HeldPlaces
      BY DEF HeldPlaces, ShowPlaces, HidePlaces, OpenPlaces
    <2>1. CASE worker[g].kind = "show"
      <3>1. CASE IsCurrent(g)
        <4>1. worker' = [worker EXCEPT ![g].at = "find"]
          BY <2>1, <3>1 DEF TakeWindows
        <4>2. worker' = [worker EXCEPT ![g] = Moved(g, "find", worker[g].result)]
          BY <4>1, SingleMoves
        <4>3. /\ Moved(g, "find", worker[g].result) \in WorkerStates
              /\ Moved(g, "find", worker[g].result).at = "find"
              /\ Moved(g, "find", worker[g].result).result = worker[g].result
              /\ Moved(g, "find", worker[g].result).kind = worker[g].kind
          BY <2>a, MovesOfWorkers
        <4> QED BY <2>1, <3>1, <4>2, <4>3
      <3>2. CASE ~ IsCurrent(g)
        <4>1. worker' = Ending(g, "report", "ok")
          BY <2>1, <3>2 DEF TakeWindows, Finish, Ending
        <4>2. worker' = [worker EXCEPT ![g] = Moved(g, "report", "ok")]
          BY <4>1, DoubleMoves
        <4>3. /\ Moved(g, "report", "ok") \in WorkerStates
              /\ Moved(g, "report", "ok").at = "report"
              /\ Moved(g, "report", "ok").result = "ok"
              /\ Moved(g, "report", "ok").kind = worker[g].kind
          BY <2>a, MovesOfWorkers
        <4> QED BY <2>1, <3>2, <4>2, <4>3
      <3> QED BY <3>1, <3>2
    <2>2. CASE worker[g].kind = "hide"
      <3>1. worker' = [worker EXCEPT ![g].at = "hide"]
        BY <2>2 DEF TakeWindows, GotoStep
      <3>2. worker' = [worker EXCEPT ![g] = Moved(g, "hide", worker[g].result)]
        BY <3>1, SingleMoves
      <3>3. /\ Moved(g, "hide", worker[g].result) \in WorkerStates
            /\ Moved(g, "hide", worker[g].result).at = "hide"
            /\ Moved(g, "hide", worker[g].result).result = worker[g].result
            /\ Moved(g, "hide", worker[g].result).kind = worker[g].kind
        BY <2>a, MovesOfWorkers
      <3> QED BY <2>2, <3>2, <3>3
    <2>3. CASE worker[g].kind = "open"
      <3>1. CASE worker' = Finish(g, "refused")
        <4>1. worker' = Ending(g, "report", "refused")
          BY <3>1 DEF Finish, Ending
        <4>2. worker' = [worker EXCEPT ![g] = Moved(g, "report", "refused")]
          BY <4>1, DoubleMoves
        <4>3. /\ Moved(g, "report", "refused") \in WorkerStates
              /\ Moved(g, "report", "refused").at = "report"
              /\ Moved(g, "report", "refused").result = "refused"
              /\ Moved(g, "report", "refused").kind = worker[g].kind
          BY <2>a, MovesOfWorkers
        <4> QED BY <2>3, <4>2, <4>3
      <3>2. CASE worker' = [worker EXCEPT ![g].at = "navigate"]
        <4>2. worker' = [worker EXCEPT ![g] = Moved(g, "navigate", worker[g].result)]
          BY <3>2, SingleMoves
        <4>3. /\ Moved(g, "navigate", worker[g].result) \in WorkerStates
              /\ Moved(g, "navigate", worker[g].result).at = "navigate"
              /\ Moved(g, "navigate", worker[g].result).result = worker[g].result
              /\ Moved(g, "navigate", worker[g].result).kind = worker[g].kind
          BY <2>a, MovesOfWorkers
        <4> QED BY <2>3, <4>2, <4>3
      <3> QED BY <2>3, <3>1, <3>2 DEF TakeWindows
    <2> QED BY <1>2, <2>1, <2>2, <2>3
  <1>4. \A h \in Workers : worker'[h] = IF h = g THEN w ELSE worker[h]
    BY <1>0, <1>3 DEF QuickTypeOK
  <1>5. \A h \in Workers : h # NoNumber
    BY DEF Workers, NoNumber
  <1>6. \A h \in Workers : worker[h].at \notin HeldPlaces
    BY <1>0, <1>1, <1>5 DEF OneWorkerHoldsWindows
  <1>7. {"find", "hide", "navigate", "report"} \subseteq HeldPlaces
    BY DEF HeldPlaces, ShowPlaces, HidePlaces, OpenPlaces
  <1>8. \A h \in Workers : worker[h].at \notin {"attach", "recheck"} \cup WakePlaces
    BY <1>6 DEF HeldPlaces, ShowPlaces
  <1>9. QuickTypeOK'
    BY <1>0, <1>1, <1>3 DEF QuickTypeOK
  <1>10. KindsFitPlaces'
    <2>1. Fits(w) /\ w.at # "none" /\ worker[g].at # "none"
      BY <1>1, <1>3 DEF Fits, ShowPlaces, OpenPlaces, HidePlaces, WakePlaces
    <2> QED BY <1>0, <1>1, <1>3, <1>4, <2>1 DEF KindsFitPlaces, Fits
  <1>11. OneWorkerHoldsWindows'
    BY <1>1, <1>3, <1>4, <1>5, <1>6, <1>7 DEF OneWorkerHoldsWindows
  <1>12. SearchIsCleanedUp'
    BY <1>0, <1>1, <1>8 DEF SearchIsCleanedUp, IsShutdown
  <1>13. LatestIsObeyed'
    <2> SUFFICES ASSUME NEW c \in Workers, IsCurrent(c)
                 PROVE  /\ worker'[c].kind = "show" /\
                           (\/ worker'[c].at = "check focus"
                            \/ worker'[c].at = "recheck" /\ worker'[c].result # "failed"
                            \/ worker'[c].at \in {"report", "done"} /\ worker'[c].result = "ok") =>
                          desktop'.search = "visible"
                        /\ worker'[c].kind # "show" /\
                           (\/ worker'[c].at = "clear focus"
                            \/ worker'[c].at \in {"report", "done"} /\ worker'[c].result = "ok") =>
                          desktop'.search # "visible"
      BY <1>1 DEF LatestIsObeyed, IsCurrent
    <2>1. CASE c = g
      BY <1>3, <1>4, <2>1
    <2>2. CASE c # g
      BY <1>0, <1>1, <1>4, <2>2 DEF LatestIsObeyed
    <2> QED BY <2>1, <2>2
  <1>14. OlderWorkersStop'
    <2> SUFFICES ASSUME NEW c \in Workers, IsCurrent(c), worker'[c].at = "done",
                        NEW h \in Workers, worker'[h].at \in HeldPlaces
                 PROVE  StopsIn(worker'[h])
      BY <1>1 DEF OlderWorkersStop, IsCurrent, StopsIn
    <2>1. c # g /\ h = g
      BY <1>3, <1>4, <1>6
    <2>2. ~ IsCurrent(g)
      BY <2>1 DEF IsCurrent
    <2> QED BY <1>3, <1>4, <2>1, <2>2 DEF StopsIn
  <1> QED BY <1>9, <1>10, <1>11, <1>12, <1>13, <1>14 DEF QuickInv

\* A worker that reported gives the windows back and is done.
LEMMA ReturningKeepsQuick ==
  ASSUME QuickInv, NEW g \in Workers, ReturnWindows(g)
  PROVE  QuickInv'
  <1> DEFINE w == Moved(g, "done", worker[g].result)
  <1>0. /\ QuickTypeOK /\ KindsFitPlaces /\ OneWorkerHoldsWindows
        /\ SearchIsCleanedUp /\ LatestIsObeyed /\ OlderWorkersStop
    BY DEF QuickInv
  <1>1. /\ worker[g].at = "report" /\ windowsLock' = NoNumber
        /\ UNCHANGED <<lifecycle, desktop>>
        /\ worker' = [worker EXCEPT ![g].at = "done"]
    BY DEF ReturnWindows, GotoStep
  <1>2. worker' = [worker EXCEPT ![g] = w]
    BY <1>1, SingleMoves
  <1>3. /\ w \in WorkerStates /\ w.at = "done" /\ w.kind = worker[g].kind
        /\ w.result = worker[g].result
    BY MovesOfWorkers DEF Moved, WorkerStates, FreePlaces
  <1> HIDE DEF w
  <1>4. \A h \in Workers : worker'[h] = IF h = g THEN w ELSE worker[h]
    BY <1>0, <1>2 DEF QuickTypeOK
  <1>5. \A h \in Workers : h # NoNumber
    BY DEF Workers, NoNumber
  <1>6. worker[g].at \in HeldPlaces /\ \A h \in Workers : h # g => worker[h].at \notin HeldPlaces
    BY <1>0, <1>1 DEF OneWorkerHoldsWindows, HeldPlaces
  <1>7. "done" \notin HeldPlaces /\ {"attach", "recheck"} \cup WakePlaces \subseteq HeldPlaces
    BY DEF HeldPlaces, ShowPlaces, OpenPlaces, HidePlaces, WakePlaces
  <1>8. \A h \in Workers : worker'[h].at \notin HeldPlaces
    BY <1>3, <1>4, <1>6, <1>7
  <1>9. QuickTypeOK'
    BY <1>0, <1>1, <1>2, <1>3 DEF QuickTypeOK
  <1>10. KindsFitPlaces'
    BY <1>0, <1>1, <1>3, <1>4 DEF KindsFitPlaces, ShowPlaces, OpenPlaces, HidePlaces, WakePlaces
  <1>11. OneWorkerHoldsWindows'
    BY <1>1, <1>5, <1>8 DEF OneWorkerHoldsWindows
  <1>12. SearchIsCleanedUp'
    <2>1. \A h \in Workers : worker[h].at \notin {"attach", "recheck"} \cup WakePlaces
      BY <1>1, <1>6, <1>7 DEF WakePlaces
    <2> QED BY <1>0, <1>1, <2>1 DEF SearchIsCleanedUp, IsShutdown
  <1>13. LatestIsObeyed'
    BY <1>0, <1>1, <1>3, <1>4 DEF LatestIsObeyed, IsCurrent
  <1>14. OlderWorkersStop'
    BY <1>8 DEF OlderWorkersStop
  <1> QED BY <1>9, <1>10, <1>11, <1>12, <1>13, <1>14 DEF QuickInv

\* The main window closes.
LEMMA ClosingKeepsQuick ==
  ASSUME QuickInv, Shutdown \/ DestroySearch
  PROVE  QuickInv'
  <1>0. /\ QuickTypeOK /\ KindsFitPlaces /\ OneWorkerHoldsWindows
        /\ SearchIsCleanedUp /\ LatestIsObeyed /\ OlderWorkersStop
    BY DEF QuickInv
  <1>1. UNCHANGED <<worker, windowsLock>>
    BY DEF Shutdown, DestroySearch
  <1>2. /\ lifecycle' \in 0..SHUTDOWN
        /\ \A g \in Workers : g <= lifecycle => g <= lifecycle'
        /\ IsShutdown => \A g \in Workers : ~ IsCurrent(g)
        /\ lifecycle' = SHUTDOWN
    <2>1. lifecycle' = SHUTDOWN
      BY <1>0 DEF Shutdown, DestroySearch, SearchIsCleanedUp, IsShutdown
    <2> QED
      BY <2>1, QuickSearchAssumption DEF IsShutdown, IsCurrent, Workers, SHUTDOWN
  <1>3. \A g \in Workers : ~ IsCurrent(g)'
    BY <1>2, QuickSearchAssumption DEF IsCurrent, Workers, SHUTDOWN
  <1>4. desktop' \in [main : {"closing", "none"}, search : {"none", "unattached", "hidden", "visible"}]
    BY <1>0 DEF Shutdown, DestroySearch, QuickTypeOK
  <1>5. QuickTypeOK'
    BY <1>0, <1>1, <1>2, <1>4 DEF QuickTypeOK
  <1>6. KindsFitPlaces' /\ OneWorkerHoldsWindows'
    BY <1>0, <1>1, <1>2 DEF KindsFitPlaces, OneWorkerHoldsWindows
  <1>7. SearchIsCleanedUp'
    <2>1. IsShutdown'
      BY <1>2 DEF IsShutdown
    <2>2. desktop'.search = "unattached" => desktop.search = "unattached"
      BY <1>0 DEF Shutdown, DestroySearch, QuickTypeOK
    <2>3. desktop'.main = "none" /\ desktop'.search # "none" => desktop.search = "unattached"
      BY <1>0 DEF Shutdown, DestroySearch, QuickTypeOK, SearchAttached
    <2>4. \A g \in Workers : worker[g].at = "attach" => worker[g].kind = "show"
      BY <1>0 DEF KindsFitPlaces, ShowPlaces
    <2> QED BY <1>0, <1>1, <2>1, <2>2, <2>3, <2>4 DEF SearchIsCleanedUp
  <1>8. LatestIsObeyed' /\ OlderWorkersStop'
    BY <1>3 DEF LatestIsObeyed, OlderWorkersStop, IsCurrent
  <1> QED BY <1>5, <1>6, <1>7, <1>8 DEF QuickInv

\* Every step of the quick-search windows keeps the invariant.
LEMMA QuickSteps ==
  ASSUME QuickInv, [QuickNext]_quickVars
  PROVE  QuickInv'
  <1>1. ASSUME NEW kind \in {"show", "hide", "open"}, Ask(kind)
        PROVE  QuickInv'
    BY <1>1, RequestsKeepQuick
  <1>2. ASSUME NEW g \in Workers, WorkerStep(g)
        PROVE  QuickInv'
    BY <1>2, FindingKeepsQuick, WakingKeepsQuick, HidingKeepsQuick, TakingKeepsQuick, ReturningKeepsQuick
       DEF WorkerStep
  <1>3. ASSUME UNCHANGED <<lifecycle, worker, windowsLock, desktop>>
        PROVE  QuickInv'
    BY <1>3 DEF QuickInv, QuickTypeOK, KindsFitPlaces, OneWorkerHoldsWindows, SearchIsCleanedUp,
       LatestIsObeyed, OlderWorkersStop, IsCurrent, IsShutdown
  <1>4. ASSUME NEW l \in Labels, ReaderStep(l) \/ DeliverHint(l) \/ Reload(l)
        PROVE  QuickInv'
    <2>1. UNCHANGED <<lifecycle, worker, windowsLock, desktop>>
      BY <1>4 DEF ReaderStep, Connect, QuickSearchReady, ReadAnswer, HandleRequest, DeliverHint, Reload, windowVars
    <2> QED BY <1>3, <2>1
  <1>5. CASE UNCHANGED quickVars
    BY <1>3, <1>5 DEF quickVars
  <1> QED BY <1>1, <1>2, <1>4, <1>5, ClosingKeepsQuick DEF QuickNext

\* Whatever order the workers run in, only one of them works on the windows,
\* and what the latest request has done with the search window stays.
THEOREM QuickInvariant == QuickSpec => []QuickInv
  <1>1. QuickInit => QuickInv
    BY QuickInitially
  <1>2. QuickInv /\ [QuickNext]_quickVars => QuickInv'
    BY QuickSteps
  <1> QED BY <1>1, <1>2, PTL DEF QuickSpec

\* Once every worker has returned, the search window is as the last request
\* left it, for any number of requests.
THEOREM WindowsFollow == QuickSpec => []WindowsFollowTheLastRequest
  <1>1. QuickInv => WindowsFollowTheLastRequest
    <2> SUFFICES ASSUME QuickInv, \A g \in Workers : worker[g].at \in {"none", "done"}
                 PROVE  /\ desktop.main = "none" => desktop.search = "none"
                        /\ \A g \in Workers :
                              IsCurrent(g) /\ worker[g].result = "ok" =>
                                  (desktop.search = "visible" <=> worker[g].kind = "show")
      BY DEF WindowsFollowTheLastRequest
    <2>1. desktop.main = "none" => desktop.search = "none"
      BY DEF QuickInv, SearchIsCleanedUp, WakePlaces
    <2>2. ASSUME NEW g \in Workers, IsCurrent(g), worker[g].result = "ok"
          PROVE  desktop.search = "visible" <=> worker[g].kind = "show"
      <3>1. worker[g].at = "done"
        BY <2>2 DEF QuickInv, KindsFitPlaces
      <3> QED BY <2>2, <3>1 DEF QuickInv, LatestIsObeyed
    <2> QED BY <2>1, <2>2
  <1> QED BY <1>1, QuickInvariant, PTL

-----------------------------------------------------------------------------
(* Environment inspection.  What a probe heard is not older than the time of *)
(* a probe, what is cached was learned by a probe, and what is trusted is    *)
(* not older than a minute more; a range that is written in full is read as  *)
(* npm reads it.                                                             *)

Versions == Installable \cup {Absent}

ProbeTypeOK ==
  /\ time \in Nat
  /\ installed \in [DOMAIN Candidates -> Versions]
  /\ lastInstalled \in [Installable -> Int]
  /\ cached \in [version : Versions, at : Int]
  /\ inspector \in [Inspectors -> {Waiting}
        \cup [at : {"told"}, version : Versions, when : Int]
        \cup [at : {"probing"}, program : Nat, says : Versions, deadline : Int]]

\* A version that a program has was there now, and a version that a probe has
\* heard, that is cached, or that a thread was told, not long before.
ProgramsAreSeen ==
  \A v \in Installable : lastInstalled[v] <= time /\ (v # Absent /\ Holds(v) => lastInstalled[v] = time)

CacheIsRecent ==
  cached.version # Absent =>
    cached.at <= time /\ cached.at - lastInstalled[cached.version] <= VersionTimeout

ProbeIsRecent(i) ==
  inspector[i].at = "probing" =>
    /\ time <= inspector[i].deadline /\ inspector[i].deadline <= time + VersionTimeout
    /\ inspector[i].says # Absent =>
         inspector[i].deadline - lastInstalled[inspector[i].says] <= VersionTimeout

AnswerIsRecent(i) ==
  inspector[i].at = "told" /\ inspector[i].version # Absent =>
    inspector[i].when - lastInstalled[inspector[i].version] < CacheTtl + VersionTimeout

EnvironmentInv ==
  /\ ProbeTypeOK
  /\ ProgramsAreSeen
  /\ CacheIsRecent
  /\ \A i \in Inspectors : ProbeIsRecent(i) /\ AnswerIsRecent(i)

\* Nothing was probed and nothing is cached at first.
LEMMA EnvironmentInitially == EnvironmentInit => EnvironmentInv
  <1> SUFFICES ASSUME EnvironmentInit PROVE EnvironmentInv
    OBVIOUS
  <1>1. time = 0 /\ VersionTimeout \in Nat /\ CacheTtl \in Nat /\ Never \in Int /\ Never <= 0 /\ - CacheTtl \in Int
    BY EnvironmentAssumption DEF EnvironmentInit, Never
  <1>2. ProbeTypeOK
    BY <1>1 DEF EnvironmentInit, ProbeTypeOK, NotCached, Versions
  <1>3. ProgramsAreSeen
    BY <1>1 DEF EnvironmentInit, ProgramsAreSeen, Holds
  <1>4. CacheIsRecent
    BY DEF EnvironmentInit, CacheIsRecent, NotCached
  <1>5. \A i \in Inspectors : inspector[i].at = "waiting"
    BY DEF EnvironmentInit, Waiting
  <1>6. \A i \in Inspectors : ProbeIsRecent(i) /\ AnswerIsRecent(i)
    BY <1>5 DEF ProbeIsRecent, AnswerIsRecent
  <1> QED BY <1>2, <1>3, <1>4, <1>6 DEF EnvironmentInv

\* One thread goes on, and what it says and learns is recent.
LEMMA ThreadsKeepEnvironment ==
  ASSUME EnvironmentInv, NEW i \in Inspectors, NEW w, inspector' = [inspector EXCEPT ![i] = w],
         w \in [at : {"told"}, version : Versions, when : Int]
           \cup [at : {"probing"}, program : Nat, says : Versions, deadline : Int],
         UNCHANGED <<time, installed, lastInstalled>>,
         cached' \in [version : Versions, at : Int], CacheIsRecent',
         ProbeIsRecent(i)', AnswerIsRecent(i)'
  PROVE  EnvironmentInv'
  <1>1. ProbeTypeOK'
    BY DEF EnvironmentInv, ProbeTypeOK
  <1>2. ProgramsAreSeen'
    BY DEF EnvironmentInv, ProgramsAreSeen, Holds
  <1>3. ASSUME NEW j \in Inspectors
        PROVE  ProbeIsRecent(j)' /\ AnswerIsRecent(j)'
    <2>1. CASE j = i
      BY <2>1
    <2>2. CASE j # i
      <3>1. inspector'[j] = inspector[j]
        BY <2>2 DEF EnvironmentInv, ProbeTypeOK
      <3> QED BY <3>1 DEF EnvironmentInv, ProbeIsRecent, AnswerIsRecent
    <2> QED BY <2>1, <2>2
  <1> QED BY <1>1, <1>2, <1>3 DEF EnvironmentInv

\* What a probe learns is shared, and was there within the time of a probe.
LEMMA LearningKeepsEnvironment ==
  ASSUME EnvironmentInv, NEW i \in Inspectors, NEW version \in Versions, Learn(i, version),
         version # Absent => time - lastInstalled[version] <= VersionTimeout
  PROVE  EnvironmentInv'
  <1>1. /\ inspector' = [inspector EXCEPT ![i] = Told(version)]
        /\ cached' = [version |-> version, at |-> time]
        /\ UNCHANGED <<time, installed, lastInstalled>>
    BY DEF Learn
  <1>2. time \in Nat /\ inspector'[i] = Told(version)
    BY <1>1 DEF EnvironmentInv, ProbeTypeOK
  <1>3. Told(version) \in [at : {"told"}, version : Versions, when : Int]
    BY <1>2 DEF Told
  <1>4. cached' \in [version : Versions, at : Int] /\ CacheIsRecent'
    BY <1>1, <1>2 DEF CacheIsRecent
  <1>5. ProbeIsRecent(i)'
    BY <1>2 DEF ProbeIsRecent, Told
  <1>6. AnswerIsRecent(i)'
    <2>1. version # Absent => lastInstalled[version] \in Int
      BY DEF EnvironmentInv, ProbeTypeOK, Versions
    <2>2. VersionTimeout < CacheTtl + VersionTimeout /\ VersionTimeout \in Nat /\ CacheTtl \in Nat
      BY EnvironmentAssumption
    <2>3. inspector'[i].version = version /\ inspector'[i].when = time
      BY <1>2 DEF Told
    <2>4. version # Absent => time - lastInstalled[version] < CacheTtl + VersionTimeout
      BY <1>2, <2>1, <2>2
    <2> QED BY <1>1, <2>3, <2>4 DEF AnswerIsRecent
  <1> QED BY <1>1, <1>3, <1>4, <1>5, <1>6, ThreadsKeepEnvironment

\* Asking the programs in turn keeps the times of the answers within the timeouts.
LEMMA AskingKeepsEnvironment ==
  ASSUME EnvironmentInv, NEW i \in Inspectors,
         Inspect(i) \/ TellVersion(i) \/ AskNext(i) \/ GiveUp(i)
  PROVE  EnvironmentInv'
  <1>0. /\ ProbeTypeOK /\ ProgramsAreSeen /\ CacheIsRecent /\ ProbeIsRecent(i) /\ AnswerIsRecent(i)
        /\ time \in Nat /\ VersionTimeout \in Nat /\ CacheTtl \in Nat
    BY EnvironmentAssumption DEF EnvironmentInv, ProbeTypeOK
  <1>1. \A k \in DOMAIN Candidates :
           /\ installed[k] \in Versions
           /\ installed[k] # Absent => lastInstalled[installed[k]] = time
    BY <1>0 DEF ProbeTypeOK, ProgramsAreSeen, Holds, Versions
  <1>2. inspector[i].at = "probing" =>
           inspector[i] \in [at : {"probing"}, program : Nat, says : Versions, deadline : Int]
    BY <1>0 DEF ProbeTypeOK, Waiting
  <1>3. CASE Inspect(i) /\ Trusted
    <2>1. /\ inspector' = [inspector EXCEPT ![i] = Told(cached.version)]
          /\ UNCHANGED <<time, installed, cached, lastInstalled>>
      BY <1>3 DEF Inspect
    <2>2. /\ Told(cached.version) \in [at : {"told"}, version : Versions, when : Int]
          /\ inspector'[i] = Told(cached.version) /\ cached.version \in Versions /\ cached.at \in Int
      BY <1>0, <2>1 DEF ProbeTypeOK, Told
    <2>3. AnswerIsRecent(i)'
      <3>1. cached.version # Absent => lastInstalled[cached.version] \in Int
        BY <1>0, <2>2 DEF ProbeTypeOK, Versions
      <3>2. cached.version # Absent => time - lastInstalled[cached.version] < CacheTtl + VersionTimeout
        BY <1>0, <1>3, <2>2, <3>1 DEF CacheIsRecent, Trusted
      <3> QED BY <2>1, <2>2, <3>2 DEF AnswerIsRecent, Told
    <2>4. ProbeIsRecent(i)' /\ CacheIsRecent' /\ cached' \in [version : Versions, at : Int]
      BY <1>0, <2>1, <2>2 DEF ProbeIsRecent, CacheIsRecent, ProbeTypeOK, Told
    <2> QED BY <2>1, <2>2, <2>3, <2>4, ThreadsKeepEnvironment
  <1>4. CASE Inspect(i) /\ ~ Trusted
    <2> DEFINE w == [at |-> "probing", program |-> 1, says |-> installed[1], deadline |-> time + VersionTimeout]
    <2>1. /\ inspector' = [inspector EXCEPT ![i] = w]
          /\ UNCHANGED <<time, installed, cached, lastInstalled>>
      BY <1>4 DEF Inspect
    <2>2. 1 \in DOMAIN Candidates
      BY EnvironmentAssumption, EmptySeq, LenProperties
    <2>3. w \in [at : {"probing"}, program : Nat, says : Versions, deadline : Int]
      BY <1>0, <1>1, <2>2
    <2>4. inspector'[i] = w
      BY <1>0, <2>1 DEF ProbeTypeOK
    <2>5. ProbeIsRecent(i)'
      BY <1>0, <1>1, <2>1, <2>2, <2>4 DEF ProbeIsRecent
    <2>6. AnswerIsRecent(i)' /\ CacheIsRecent' /\ cached' \in [version : Versions, at : Int]
      BY <1>0, <2>1, <2>4 DEF AnswerIsRecent, CacheIsRecent, ProbeTypeOK
    <2> QED BY <2>1, <2>3, <2>5, <2>6, ThreadsKeepEnvironment
  <1>5. CASE TellVersion(i)
    <2>1. /\ inspector[i].at = "probing" /\ inspector[i].says # Absent /\ inspector[i].says \in Versions
          /\ Learn(i, inspector[i].says) /\ inspector[i].deadline \in Int
      BY <1>2, <1>5 DEF TellVersion
    <2>2. lastInstalled[inspector[i].says] \in Int
      BY <1>0, <2>1 DEF ProbeTypeOK, Versions
    <2>3. time - lastInstalled[inspector[i].says] <= VersionTimeout
      BY <1>0, <2>1, <2>2 DEF ProbeIsRecent
    <2> QED BY <2>1, <2>3, LearningKeepsEnvironment
  <1>6. CASE GiveUp(i) \/ (AskNext(i) /\ Learn(i, Absent))
    BY <1>6, LearningKeepsEnvironment DEF GiveUp, Versions
  <1>7. CASE AskNext(i) /\ ~ Learn(i, Absent)
    <2> DEFINE next == inspector[i].program + 1
               w == [inspector[i] EXCEPT !.program = next, !.says = installed[next]]
    <2>1. /\ inspector[i].at = "probing" /\ next \in DOMAIN Candidates
          /\ inspector' = [inspector EXCEPT ![i].program = next, ![i].says = installed[next]]
          /\ UNCHANGED <<time, installed, cached, lastInstalled>>
      BY <1>7 DEF AskNext
    <2>2. inspector' = [inspector EXCEPT ![i] = w]
      BY <2>1
    <2>3. /\ w \in [at : {"probing"}, program : Nat, says : Versions, deadline : Int]
          /\ w.at = "probing" /\ w.says = installed[next] /\ w.deadline = inspector[i].deadline
      <3>1. next \in Nat /\ installed[next] \in Versions
        BY <1>1, <1>2, <2>1
      <3> HIDE DEF next
      <3> QED BY <1>2, <2>1, <3>1
    <2> HIDE DEF next, w
    <2>4. inspector'[i] = w
      BY <1>0, <2>2 DEF ProbeTypeOK
    <2>5. ProbeIsRecent(i)'
      BY <1>0, <1>1, <2>1, <2>3, <2>4 DEF ProbeIsRecent
    <2>6. AnswerIsRecent(i)' /\ CacheIsRecent' /\ cached' \in [version : Versions, at : Int]
      BY <1>0, <2>1, <2>3, <2>4 DEF AnswerIsRecent, CacheIsRecent, ProbeTypeOK
    <2> QED BY <2>1, <2>2, <2>3, <2>5, <2>6, ThreadsKeepEnvironment
  <1> QED BY <1>3, <1>4, <1>5, <1>6, <1>7

\* Time passes, or somebody changes the programs: no version was there later
\* than it is now, and what was there is not forgotten.
LEMMA TimeKeepsEnvironment ==
  ASSUME EnvironmentInv, Tick \/ \E k \in DOMAIN Candidates, v \in Versions : Install(k, v)
  PROVE  EnvironmentInv'
  <1>0. /\ ProbeTypeOK /\ ProgramsAreSeen /\ CacheIsRecent
        /\ \A i \in Inspectors : ProbeIsRecent(i) /\ AnswerIsRecent(i)
        /\ time \in Nat /\ VersionTimeout \in Nat /\ CacheTtl \in Nat
        /\ lastInstalled \in [Installable -> Int]
        /\ UNCHANGED <<cached, inspector>>
    BY EnvironmentAssumption DEF EnvironmentInv, ProbeTypeOK, Tick, Install
  <1>1. /\ time' \in Nat /\ time' >= time /\ time' <= time + 1
        /\ installed' \in [DOMAIN Candidates -> Versions]
        /\ lastInstalled' \in [Installable -> Int]
        /\ \A v \in Installable : lastInstalled'[v] >= lastInstalled[v] /\ lastInstalled'[v] <= time'
        /\ ProgramsAreSeen'
    <2>1. CASE Tick
      BY <1>0, <2>1 DEF Tick, Passing, ProbeTypeOK, ProgramsAreSeen, Holds
    <2>2. ASSUME NEW k \in DOMAIN Candidates, NEW v \in Versions, Install(k, v)
          PROVE  <1>1!:
      <3>1. /\ installed' = [installed EXCEPT ![k] = v] /\ time' = time
            /\ lastInstalled' = IF v = Absent THEN lastInstalled ELSE [lastInstalled EXCEPT ![v] = time]
        BY <2>2 DEF Install
      <3>2. installed' \in [DOMAIN Candidates -> Versions] /\ \A j \in DOMAIN Candidates : installed'[j] = IF j = k THEN v ELSE installed[j]
        BY <1>0, <3>1 DEF ProbeTypeOK
      <3>3. \A u \in Installable : u # Absent => (Holds(u)' => u = v \/ Holds(u))
        BY <3>1, <3>2 DEF Holds
      <3>4. \A u \in Installable : lastInstalled'[u] = IF u = v /\ v # Absent THEN time ELSE lastInstalled[u]
        BY <1>0, <3>1
      <3>5. lastInstalled' \in [Installable -> Int]
        <4>0. lastInstalled \in [Installable -> Int] /\ time \in Int
          BY <1>0
        <4>1. [lastInstalled EXCEPT ![v] = time] \in [Installable -> Int]
          BY <4>0
        <4> QED BY <1>0, <3>1, <4>1
      <3> QED BY <1>0, <3>1, <3>2, <3>3, <3>4, <3>5 DEF ProgramsAreSeen
    <2> QED BY <2>1, <2>2
  <1>2. ProbeTypeOK'
    BY <1>0, <1>1 DEF ProbeTypeOK
  <1>3. CacheIsRecent'
    <2>1. cached.version # Absent => cached.version \in Installable /\ cached.at \in Int
      BY <1>0 DEF ProbeTypeOK, Versions
    <2> QED BY <1>0, <1>1, <2>1 DEF CacheIsRecent
  <1>4. ASSUME NEW i \in Inspectors
        PROVE  ProbeIsRecent(i)' /\ AnswerIsRecent(i)'
    <2>1. /\ inspector[i].at = "probing" => inspector[i].deadline \in Int /\ inspector[i].says \in Versions
          /\ inspector[i].at = "told" => inspector[i].when \in Int /\ inspector[i].version \in Versions
      BY <1>0 DEF ProbeTypeOK, Waiting
    <2>2. AnswerIsRecent(i)'
      BY <1>0, <1>1, <2>1 DEF AnswerIsRecent, Versions
    <2>3. inspector[i].at = "probing" => time' <= inspector[i].deadline
      BY <1>0, <2>1 DEF Tick, Install, ProbeIsRecent
    <2>4. ProbeIsRecent(i)'
      BY <1>0, <1>1, <2>1, <2>3 DEF ProbeIsRecent, Versions
    <2> QED BY <2>2, <2>4
  <1> QED BY <1>1, <1>2, <1>3, <1>4 DEF EnvironmentInv

\* However probes overlap, time out and share what they found, a version that a
\* thread was told was there within a minute and the time of a probe.
THEOREM EnvironmentInvariant == EnvironmentSpec => []EnvironmentInv
  <1>1. EnvironmentInit => EnvironmentInv
    BY EnvironmentInitially
  <1>2. EnvironmentInv /\ [EnvironmentNext]_environmentVars => EnvironmentInv'
    <2> SUFFICES ASSUME EnvironmentInv, [EnvironmentNext]_environmentVars
                 PROVE  EnvironmentInv'
      OBVIOUS
    <2>1. CASE UNCHANGED environmentVars
      BY <2>1 DEF environmentVars, EnvironmentInv, ProbeTypeOK, ProgramsAreSeen, CacheIsRecent, ProbeIsRecent, AnswerIsRecent, Holds
    <2> QED BY <2>1, AskingKeepsEnvironment, TimeKeepsEnvironment DEF EnvironmentNext, Versions
  <1> QED BY <1>1, <1>2, PTL DEF EnvironmentSpec

\* Versions are compared part by part.
Numbered(b) == b[1] \in Nat /\ b[2] \in Nat /\ b[3] \in Nat

\* Before compares the first part that differs.
LEMMA BeforeByParts ==
  ASSUME NEW v, NEW b, Numbered(v), Numbered(b)
  PROVE  Before(v, b) <=> \/ v[1] < b[1]
                          \/ v[1] = b[1] /\ v[2] < b[2]
                          \/ v[1] = b[1] /\ v[2] = b[2] /\ v[3] < b[3]
  <1>1. 1 .. 3 = {1, 2, 3} /\ 1 .. (1 - 1) = {} /\ 1 .. (2 - 1) = {1} /\ 1 .. (3 - 1) = {1, 2}
    OBVIOUS
  <1> QED BY <1>1 DEF Before

\* A missing part of a bound counts as zero.
LEMMA PaddedParts ==
  ASSUME NEW parts \in Seq(Nat)
  PROVE  /\ Numbered(Padded(parts)) /\ Padded(parts) \in [1 .. 3 -> Nat]
         /\ \A k \in 1 .. 3 : k <= Len(parts) => Padded(parts)[k] = parts[k]
         /\ \A k \in 1 .. 3 : k > Len(parts) => Padded(parts)[k] = 0
  <1>1. Len(parts) \in Nat /\ \A k \in 1 .. Len(parts) : parts[k] \in Nat
    BY LenProperties, ElementOfSeq
  <1>2. \A k \in 1 .. 3 : k <= Len(parts) => parts[k] \in Nat
    BY <1>1
  <1>3. Padded(parts) \in [1 .. 3 -> Nat]
    BY <1>2 DEF Padded
  <1> QED BY <1>1, <1>3 DEF Padded, Numbered

\* Two versions are equal when their three parts are.
LEMMA VersionsEqual ==
  ASSUME NEW v \in Nat \X Nat \X Nat, NEW b \in [1 .. 3 -> Nat]
  PROVE  v = b <=> v[1] = b[1] /\ v[2] = b[2] /\ v[3] = b[3]
  <1>1. v = <<v[1], v[2], v[3]>>
    OBVIOUS
  <1>2. b = <<b[1], b[2], b[3]>>
    OBVIOUS
  <1> QED BY <1>1, <1>2

\* NotBelow is the opposite of Before.
LEMMA NotBelowIsNotBefore ==
  ASSUME NEW v, NEW b, Numbered(v), Numbered(b),
         v = b <=> v[1] = b[1] /\ v[2] = b[2] /\ v[3] = b[3]
  PROVE  /\ NotBelow(v, b) <=> ~ Before(v, b)
         /\ NotBelow(b, v) <=> ~ Before(b, v)
         /\ v # b /\ NotBelow(v, b) <=> Before(b, v)
         /\ v # b /\ NotBelow(b, v) <=> Before(v, b)
  <1>1. Before(v, b) <=> \/ v[1] < b[1]
                         \/ v[1] = b[1] /\ v[2] < b[2]
                         \/ v[1] = b[1] /\ v[2] = b[2] /\ v[3] < b[3]
    BY BeforeByParts
  <1>2. Before(b, v) <=> \/ b[1] < v[1]
                         \/ b[1] = v[1] /\ b[2] < v[2]
                         \/ b[1] = v[1] /\ b[2] = v[2] /\ b[3] < v[3]
    BY BeforeByParts
  <1> QED BY <1>1, <1>2 DEF NotBelow, Numbered

\* A caret allows what has the leftmost number that is not zero in common.
LEMMA CaretIsAgreement ==
  ASSUME NEW v \in Nat \X Nat \X Nat, NEW b \in [1 .. 3 -> Nat]
  PROVE  ~ Before(v, b) /\ Before(v, CaretEnd(b)) <=> Agree(v, b, LeftmostNonzero(b)) /\ ~ Before(v, b)
  <1>1. Numbered(v) /\ Numbered(b)
    BY DEF Numbered
  <1>2. Numbered(CaretEnd(b))
    BY <1>1 DEF CaretEnd, Numbered
  <1>3. Before(v, b) <=> \/ v[1] < b[1]
                         \/ v[1] = b[1] /\ v[2] < b[2]
                         \/ v[1] = b[1] /\ v[2] = b[2] /\ v[3] < b[3]
    BY <1>1, BeforeByParts
  <1>4. LET e == CaretEnd(b)
        IN  Before(v, e) <=> \/ v[1] < e[1]
                             \/ v[1] = e[1] /\ v[2] < e[2]
                             \/ v[1] = e[1] /\ v[2] = e[2] /\ v[3] < e[3]
    BY <1>1, <1>2, BeforeByParts
  <1>5. b = <<0, 0, 0>> <=> b[1] = 0 /\ b[2] = 0 /\ b[3] = 0
    <2>1. b = <<b[1], b[2], b[3]>>
      OBVIOUS
    <2> QED BY <2>1
  <1>6. CASE b[1] > 0
    <2>1. LeftmostNonzero(b) = 1
      BY <1>1, <1>5, <1>6 DEF LeftmostNonzero, Numbered
    <2>2. Agree(v, b, 1) <=> v[1] = b[1]
      BY DEF Agree
    <2> QED BY <1>1, <1>3, <1>4, <1>6, <2>1, <2>2 DEF CaretEnd, Numbered
  <1>7. CASE b[1] = 0 /\ b[2] > 0
    <2>1. LeftmostNonzero(b) = 2
      BY <1>1, <1>5, <1>7 DEF LeftmostNonzero, Numbered
    <2>2. Agree(v, b, 2) <=> v[1] = b[1] /\ v[2] = b[2]
      BY DEF Agree
    <2> QED BY <1>1, <1>3, <1>4, <1>7, <2>1, <2>2 DEF CaretEnd, Numbered
  <1>8. CASE b[1] = 0 /\ b[2] = 0
    <2>1. LeftmostNonzero(b) = 3
      BY <1>1, <1>5, <1>8 DEF LeftmostNonzero, Numbered
    <2>2. Agree(v, b, 3) <=> v[1] = b[1] /\ v[2] = b[2] /\ v[3] = b[3]
      BY DEF Agree
    <2> QED BY <1>1, <1>3, <1>4, <1>8, <2>1, <2>2 DEF CaretEnd, Numbered
  <1> QED BY <1>1, <1>6, <1>7, <1>8 DEF Numbered

\* A part that is written in full says what it means.
LEMMA PartsMeanWhatTheySay ==
  ASSUME NEW v \in Nat \X Nat \X Nat, NEW part \in [op : Operators, parts : Seq(Nat)],
         part.parts # << >>, Len(part.parts) <= 3, Precise(part)
  PROVE  Satisfies(v, part) <=> InPart(v, part)
  <1> DEFINE b == Padded(part.parts)
             n == Len(part.parts)
  <1>1. /\ part.parts \in Seq(Nat) /\ part.op \in Operators
        /\ n \in 1 .. 3
    <2>1. part.parts \in Seq(Nat) /\ part.op \in Operators
      OBVIOUS
    <2>2. \A p \in Seq(Nat) : p # << >> => Len(p) \in Nat \ {0}
      BY EmptySeq
    <2>3. n \in Nat \ {0} /\ n <= 3
      BY <2>1, <2>2
    <2> HIDE DEF n
    <2> QED BY <2>1, <2>3
  <1>2. /\ Numbered(b) /\ b \in [1 .. 3 -> Nat]
        /\ \A k \in 1 .. 3 : k <= n => b[k] = part.parts[k]
        /\ \A k \in 1 .. 3 : k > n => b[k] = 0
    BY <1>1, PaddedParts
  <1>3. part.op = "" => part.parts[n] # 0
    BY DEF Precise
  <1> HIDE DEF b, n
  <1>4. Numbered(v) /\ (v = b <=> v[1] = b[1] /\ v[2] = b[2] /\ v[3] = b[3])
    BY <1>2, VersionsEqual DEF Numbered
  <1>5. /\ NotBelow(v, b) <=> ~ Before(v, b)
        /\ NotBelow(b, v) <=> ~ Before(b, v)
        /\ v # b /\ NotBelow(v, b) <=> Before(b, v)
        /\ v # b /\ NotBelow(b, v) <=> Before(v, b)
    BY <1>2, <1>4, NotBelowIsNotBefore
  <1>6. CASE part.op = ""
    <2>1. n = 1 \/ n = 2 \/ n = 3
      BY <1>1
    <2>2. b[n] # 0 /\ (n < 2 => b[2] = 0) /\ (n < 3 => b[3] = 0)
      <3>1. b[n] = part.parts[n]
        BY <1>1, <1>2
      <3>2. (n < 2 => b[2] = 0) /\ (n < 3 => b[3] = 0)
        BY <1>1, <1>2
      <3> QED BY <1>3, <1>6, <3>1, <3>2
    <2>3. Satisfies(v, part) <=> /\ v[1] = b[1]
                                 /\ b[2] # 0 \/ b[3] # 0 => v[2] = b[2]
                                 /\ b[3] # 0 => v[3] = b[3]
      BY <1>6 DEF Satisfies, b
    <2>4. InPart(v, part) <=> Agree(v, b, n)
      BY <1>6 DEF InPart, b, n
    <2>5. Agree(v, b, n) <=> \A k \in 1 .. n : v[k] = b[k]
      BY DEF Agree
    <2>6. CASE n = 1
      BY <2>2, <2>3, <2>4, <2>5, <2>6
    <2>7. CASE n = 2
      BY <2>2, <2>3, <2>4, <2>5, <2>7
    <2>8. CASE n = 3
      BY <2>2, <2>3, <2>4, <2>5, <2>8
    <2> QED BY <2>1, <2>6, <2>7, <2>8
  <1>7. CASE part.op = "^"
    <2>1. ~ Before(v, b) /\ Before(v, CaretEnd(b)) <=> Agree(v, b, LeftmostNonzero(b)) /\ ~ Before(v, b)
      BY <1>2, CaretIsAgreement
    <2> QED BY <1>5, <1>7, <2>1 DEF Satisfies, InPart, b
  <1>8. CASE part.op = "~"
    <2> DEFINE e == <<b[1], b[2] + 1, 0>>
    <2>1. Numbered(e) /\ e[1] = b[1] /\ e[2] = b[2] + 1 /\ e[3] = 0
      BY <1>2 DEF Numbered
    <2> HIDE DEF e
    <2>2. Before(v, e) <=> \/ v[1] < e[1]
                           \/ v[1] = e[1] /\ v[2] < e[2]
                           \/ v[1] = e[1] /\ v[2] = e[2] /\ v[3] < e[3]
      BY <1>4, <2>1, BeforeByParts
    <2>3. Before(v, b) <=> \/ v[1] < b[1]
                           \/ v[1] = b[1] /\ v[2] < b[2]
                           \/ v[1] = b[1] /\ v[2] = b[2] /\ v[3] < b[3]
      BY <1>2, <1>4, BeforeByParts
    <2>4. Agree(v, b, 2) <=> v[1] = b[1] /\ v[2] = b[2]
      BY DEF Agree
    <2>5. ~ Before(v, b) /\ Before(v, e) <=> Agree(v, b, 2) /\ ~ Before(v, b)
      BY <1>2, <1>4, <2>1, <2>2, <2>3, <2>4 DEF Numbered
    <2>6. Satisfies(v, part) <=> ~ Before(v, b) /\ Before(v, e)
      BY <1>8 DEF Satisfies, b, e
    <2>7. InPart(v, part) <=> Agree(v, b, 2) /\ NotBelow(v, b)
      BY <1>8 DEF InPart, b
    <2> QED BY <1>5, <2>5, <2>6, <2>7
  <1>9. CASE part.op \in {">=", "<=", ">", "<", "="}
    <2>1. CASE part.op = ">="
      BY <1>5, <2>1 DEF Satisfies, InPart, b
    <2>2. CASE part.op = "<="
      BY <1>5, <2>2 DEF Satisfies, InPart, b
    <2>3. CASE part.op = ">"
      BY <1>5, <2>3 DEF Satisfies, InPart, b
    <2>4. CASE part.op = "<"
      BY <1>5, <2>4 DEF Satisfies, InPart, b
    <2>5. CASE part.op = "="
      BY <2>5 DEF Satisfies, InPart, b
    <2> QED BY <1>9, <2>1, <2>2, <2>3, <2>4, <2>5
  <1> QED BY <1>1, <1>6, <1>7, <1>8, <1>9 DEF Operators

\* The verdict on a range that is written in full says what the range means.
LEMMA RangesMeanWhatTheySay ==
  ASSUME NEW range \in DeclaredRanges, NEW v \in Installable, v # Absent,
         \A k \in DOMAIN range : range[k].parts # << >> /\ Precise(range[k])
  PROVE  Verdict(range, v) = "match" <=> Means(range, v)
  <1>1. /\ range # Undeclared /\ range # Disjunction
        /\ \A k \in DOMAIN range : Len(range[k].parts) <= 3
        /\ v \in Nat \X Nat \X Nat
    BY EnvironmentAssumption
  <1>2. \A k \in DOMAIN range : range[k] \in [op : Operators, parts : Seq(Nat)]
    <2>1. range \in Seq([op : Operators, parts : Seq(Nat)])
      BY EnvironmentAssumption
    <2> QED BY <2>1, LenProperties, ElementOfSeq
  <1>3. \A k \in DOMAIN range : Satisfies(v, range[k]) <=> InPart(v, range[k])
    BY <1>1, <1>2, PartsMeanWhatTheySay
  <1>4. Verdict(range, v) = "match" <=> \A k \in DOMAIN range : Satisfies(v, range[k])
    BY <1>1 DEF Verdict
  <1> QED BY <1>3, <1>4 DEF Means

\* Whatever the ranges and the versions are: what a thread was told was there
\* not long before, and the verdict on it says what the range means.
THEOREM VerdictsJustified == EnvironmentSpec => []VerdictsAreJustified
  <1>1. EnvironmentInv => VerdictsAreJustified
    <2> SUFFICES ASSUME EnvironmentInv, NEW i \in Inspectors,
                        inspector[i].at = "told", inspector[i].version # Absent
                 PROVE  /\ inspector[i].when - lastInstalled[inspector[i].version] < CacheTtl + VersionTimeout
                        /\ \A range \in DeclaredRanges :
                             (\A k \in DOMAIN range : range[k].parts # <<>> /\ Precise(range[k])) =>
                               (Verdict(range, inspector[i].version) = "match" <=> Means(range, inspector[i].version))
      BY DEF VerdictsAreJustified
    <2>1. inspector[i].version \in Installable
      BY DEF EnvironmentInv, ProbeTypeOK, Waiting, Versions
    <2>2. inspector[i].when - lastInstalled[inspector[i].version] < CacheTtl + VersionTimeout
      BY DEF EnvironmentInv, AnswerIsRecent
    <2> QED BY <2>1, <2>2, RangesMeanWhatTheySay
  <1> QED BY <1>1, EnvironmentInvariant, PTL

-----------------------------------------------------------------------------
(* Carrying the library.  An export file is a complete one, because an       *)
(* import does not begin before a file is there and no part of a file is     *)
(* written alone.                                                            *)

Partial(S, T) == UNION {[D -> T] : D \in SUBSET S}

Origins == {"found", "typed"}
TransferEntries == [name : Origins, details : Origins, description : {NoText, "text"}, group : BOOLEAN]
TransferRows == [name : Origins, found : Origins, details : Origins,
                 description : {NoText, "text"}, group : BOOLEAN, facts : BOOLEAN]
TransferShelves == Partial(Shelves, SUBSET Dirs)

Searched == {"name", "details", "description", "facts"}

Catalogs ==
  [theme : Themes, roots : SUBSET Dirs, row : Partial(Dirs, TransferRows),
   indexed : Partial(Dirs, SUBSET Searched), shelf : TransferShelves]

ExportFiles ==
  [theme : Themes, roots : SUBSET Dirs, projects : Partial(Dirs, TransferEntries), shelves : TransferShelves]

TransferInv ==
  /\ catalog \in Catalogs
  /\ DOMAIN catalog.indexed = DOMAIN catalog.row
  /\ disk \subseteq Dirs
  /\ exportFile \in ExportFiles \cup {NoExport}
  /\ exporting \in {NoExport} \cup [theme : Themes, roots : SUBSET Dirs]
        \cup [theme : Themes, roots : SUBSET Dirs, projects : Partial(Dirs, TransferEntries)]
  /\ importing \in BOOLEAN
  /\ importing => exportFile # NoExport

\* Functions on a part of a set.
LEMMA WithIsPartial ==
  ASSUME NEW S, NEW T, NEW f \in Partial(S, T), NEW key \in S, NEW value \in T
  PROVE  With(f, key, value) \in Partial(S, T)
  <1>1. PICK D \in SUBSET S : f \in [D -> T]
    BY DEF Partial
  <1>2. With(f, key, value) \in [D \cup {key} -> T] /\ D \cup {key} \in SUBSET S
    BY <1>1 DEF With
  <1> QED BY <1>2 DEF Partial

\* Removing a key keeps a partial function.
LEMMA WithoutIsPartial ==
  ASSUME NEW S, NEW T, NEW f \in Partial(S, T), NEW key
  PROVE  Without(f, key) \in Partial(S, T)
  <1>1. PICK D \in SUBSET S : f \in [D -> T]
    BY DEF Partial
  <1>2. Without(f, key) \in [D \ {key} -> T] /\ D \ {key} \in SUBSET S
    BY <1>1 DEF Without
  <1> QED BY <1>2 DEF Partial

\* A partial function maps its domain into its range.
LEMMA PartialValues ==
  ASSUME NEW S, NEW T, NEW f \in Partial(S, T)
  PROVE  DOMAIN f \in SUBSET S /\ f \in [DOMAIN f -> T] /\ \A k \in DOMAIN f : f[k] \in T
  BY DEF Partial

\* Writing a row writes its index entry too.
LEMMA WrittenIsCatalog ==
  ASSUME catalog \in Catalogs, NEW p \in Dirs, NEW row \in TransferRows
  PROVE  /\ Written(p, row) \in Catalogs
         /\ DOMAIN catalog.indexed = DOMAIN catalog.row =>
              DOMAIN Written(p, row).indexed = DOMAIN Written(p, row).row
  <1>1. /\ catalog.row \in Partial(Dirs, TransferRows)
        /\ catalog.indexed \in Partial(Dirs, SUBSET Searched)
    BY DEF Catalogs
  <1>2. Words(row) \in SUBSET Searched
    BY DEF Words, Searched
  <1> DEFINE rows == With(catalog.row, p, row)
             words == With(catalog.indexed, p, Words(row))
  <1>3. rows \in Partial(Dirs, TransferRows)
    BY <1>1, WithIsPartial
  <1>4. words \in Partial(Dirs, SUBSET Searched)
    BY <1>1, <1>2, WithIsPartial
  <1>5. Written(p, row) = [catalog EXCEPT !.row = rows, !.indexed = words]
    BY DEF Written
  <1>6. DOMAIN rows = DOMAIN catalog.row \cup {p} /\ DOMAIN words = DOMAIN catalog.indexed \cup {p}
    BY DEF With
  <1> HIDE DEF rows, words
  <1> QED BY <1>3, <1>4, <1>5, <1>6 DEF Catalogs

\* What an import makes of the catalog: the rows of the file's projects that
\* are here, and the collections of the file.
LEMMA ImportedIs ==
  ASSUME TransferInv, exportFile # NoExport
  PROVE  /\ Imported \in Catalogs /\ DOMAIN Imported.indexed = DOMAIN Imported.row
         /\ \A p \in DOMAIN exportFile.projects \cap disk :
              /\ exportFile.projects[p] \in TransferEntries
              /\ Entry(Imported.row[p]) =
                   [name |-> exportFile.projects[p].name, details |-> exportFile.projects[p].details,
                    description |-> IF exportFile.projects[p].description = NoText /\ p \in DOMAIN catalog.row
                                    THEN catalog.row[p].description ELSE exportFile.projects[p].description,
                    group |-> exportFile.projects[p].group]
         /\ \A p \in DOMAIN catalog.row \ DOMAIN exportFile.projects : Imported.row[p] = catalog.row[p]
         /\ \A s \in DOMAIN exportFile.shelves :
              Imported.shelf[s] = exportFile.shelves[s] \cap disk
                                    \cap (DOMAIN catalog.row \cup (DOMAIN exportFile.projects \cap disk))
         /\ Imported.roots = catalog.roots \cup exportFile.roots
  <1> DEFINE here == DOMAIN exportFile.projects \cap disk
             known == DOMAIN catalog.row
             NewRow(p) ==
               [name |-> exportFile.projects[p].name, details |-> exportFile.projects[p].details,
                group |-> InGroup(p),
                found |-> IF p \in known THEN catalog.row[p].found ELSE exportFile.projects[p].name,
                description |-> IF exportFile.projects[p].description = NoText /\ p \in known
                                THEN catalog.row[p].description ELSE exportFile.projects[p].description,
                facts |-> p \in known /\ catalog.row[p].facts]
             rows == [p \in known \cup here |-> IF p \in here THEN NewRow(p) ELSE catalog.row[p]]
             words == [p \in known \cup here |->
                        IF p \in here THEN Words(exportFile.projects[p] @@ [facts |-> FALSE])
                                      ELSE catalog.indexed[p]]
             shelf == [s \in DOMAIN catalog.shelf \cup DOMAIN exportFile.shelves |->
                      IF s \in DOMAIN exportFile.shelves
                      THEN exportFile.shelves[s] \cap disk \cap (known \cup here)
                      ELSE catalog.shelf[s]]
  <1>1. Imported = [theme |-> exportFile.theme, roots |-> catalog.roots \cup exportFile.roots,
                    row |-> rows, indexed |-> words, shelf |-> shelf]
    BY DEF Imported
  <1>2. /\ exportFile.theme \in Themes /\ exportFile.roots \in SUBSET Dirs
        /\ exportFile.projects \in Partial(Dirs, TransferEntries)
        /\ exportFile.shelves \in TransferShelves
        /\ catalog.row \in Partial(Dirs, TransferRows) /\ catalog.roots \in SUBSET Dirs
        /\ catalog.indexed \in Partial(Dirs, SUBSET Searched)
        /\ catalog.shelf \in TransferShelves
        /\ disk \subseteq Dirs /\ DOMAIN catalog.indexed = known
    BY DEF TransferInv, ExportFiles, Catalogs, NoExport
  <1>3. /\ known \in SUBSET Dirs /\ here \in SUBSET Dirs
        /\ \A p \in here : exportFile.projects[p] \in TransferEntries
        /\ \A p \in known : catalog.row[p] \in TransferRows
        /\ \A p \in known : catalog.indexed[p] \in SUBSET Searched
    <2>1. known \in SUBSET Dirs /\ \A p \in known : catalog.row[p] \in TransferRows
      BY <1>2, PartialValues
    <2>2. \A p \in here : exportFile.projects[p] \in TransferEntries
      BY <1>2, PartialValues
    <2>3. \A p \in DOMAIN catalog.indexed : catalog.indexed[p] \in SUBSET Searched
      BY <1>2, PartialValues
    <2> QED BY <1>2, <2>1, <2>2, <2>3
  <1>4. /\ DOMAIN catalog.shelf \in SUBSET Shelves /\ DOMAIN exportFile.shelves \in SUBSET Shelves
        /\ \A s \in DOMAIN catalog.shelf : catalog.shelf[s] \in SUBSET Dirs
        /\ \A s \in DOMAIN exportFile.shelves : exportFile.shelves[s] \in SUBSET Dirs
    <2>1. catalog.shelf \in Partial(Shelves, SUBSET Dirs) /\ exportFile.shelves \in Partial(Shelves, SUBSET Dirs)
      BY <1>2 DEF TransferShelves
    <2> QED BY <2>1, PartialValues
  <1>5. \A p \in here : NewRow(p) \in TransferRows
    BY <1>3 DEF TransferRows, TransferEntries, InGroup
  <1>6. /\ rows \in [known \cup here -> TransferRows] /\ rows \in Partial(Dirs, TransferRows)
        /\ \A p \in here : rows[p] = NewRow(p)
        /\ \A p \in known \ here : rows[p] = catalog.row[p]
    <2> HIDE DEF NewRow, known, here
    <2>1. rows \in [known \cup here -> TransferRows]
      BY <1>3, <1>5 DEF known
    <2> QED BY <1>3, <2>1 DEF Partial
  <1>7. words \in Partial(Dirs, SUBSET Searched) /\ DOMAIN words = known \cup here
    <2> HIDE DEF known, here
    <2>1. \A p : Words(p) \in SUBSET Searched
      BY DEF Words, Searched
    <2>2. words \in [known \cup here -> SUBSET Searched]
      BY <1>3, <2>1
    <2> QED BY <1>3, <2>2 DEF Partial
  <1>8. /\ shelf \in TransferShelves
        /\ \A s \in DOMAIN exportFile.shelves : shelf[s] = exportFile.shelves[s] \cap disk \cap (known \cup here)
    <2> HIDE DEF known, here
    <2>1. shelf \in [DOMAIN catalog.shelf \cup DOMAIN exportFile.shelves -> SUBSET Dirs]
      BY <1>4
    <2> QED BY <1>4, <2>1 DEF Partial, TransferShelves
  <1>9. \A p \in here : Entry(NewRow(p)) =
           [name |-> exportFile.projects[p].name, details |-> exportFile.projects[p].details,
            description |-> IF exportFile.projects[p].description = NoText /\ p \in known
                            THEN catalog.row[p].description ELSE exportFile.projects[p].description,
            group |-> exportFile.projects[p].group]
    BY DEF Entry, InGroup
  <1>10. exportFile.theme \in Themes /\ catalog.roots \cup exportFile.roots \in SUBSET Dirs
    BY <1>2
  <1>11. DOMAIN rows = known \cup here /\ known \ DOMAIN exportFile.projects \subseteq known \ here
    OBVIOUS
  <1> HIDE DEF rows, words, shelf, NewRow
  <1>12. Imported.row = rows /\ Imported.indexed = words /\ Imported.shelf = shelf
         /\ Imported.roots = catalog.roots \cup exportFile.roots
    BY <1>1
  <1>13. Imported \in Catalogs
    BY <1>1, <1>6, <1>7, <1>8, <1>10 DEF Catalogs
  <1>14. \A p \in here : Entry(Imported.row[p]) = Entry(NewRow(p))
    BY <1>6, <1>12
  <1> QED BY <1>3, <1>6, <1>7, <1>8, <1>9, <1>11, <1>12, <1>13, <1>14

\* Before the first transfer the catalog is empty and nothing is under way.
LEMMA TransferInitially == TransferInit => TransferInv
  <1>1. Partial(Dirs, TransferRows) = Partial(Dirs, TransferRows) /\ \A S, T : << >> \in Partial(S, T)
    <2>1. \A S, T : << >> \in [{} -> T] /\ {} \in SUBSET S
      OBVIOUS
    <2> QED BY <2>1 DEF Partial
  <1>2. TransferInit => catalog \in Catalogs /\ DOMAIN catalog.indexed = DOMAIN catalog.row
    BY <1>1 DEF TransferInit, EmptyCatalog, Catalogs, Themes, TransferShelves
  <1> QED BY <1>2 DEF TransferInit, TransferInv

\* Edits of projects, collections, settings and directories.
LEMMA EditsKeepTransfer ==
  ASSUME TransferInv, NEW p \in Dirs,
         \/ DetectProject(p) \/ ForgetProject(p)
         \/ AuthorizeRoot(p) \/ DirectoryChanges(p)
         \/ \E description \in {NoText, "text"}, group \in BOOLEAN : EditProject(p, description, group)
  PROVE  TransferInv'
  <1>0. catalog \in Catalogs /\ DOMAIN catalog.indexed = DOMAIN catalog.row
    BY DEF TransferInv
  <1>1. p \in DOMAIN catalog.row => catalog.row[p] \in TransferRows
    <2>1. catalog.row \in Partial(Dirs, TransferRows)
      BY <1>0 DEF Catalogs
    <2> QED BY <2>1, PartialValues
  <1>2. UNCHANGED <<exportFile, exporting, importing>> /\ disk' \subseteq Dirs
    BY DEF DetectProject, ForgetProject, AuthorizeRoot, DirectoryChanges, EditProject, transfers, TransferInv
  <1>3. ASSUME NEW row \in TransferRows, catalog' = Written(p, row)
        PROVE  catalog' \in Catalogs /\ DOMAIN catalog'.indexed = DOMAIN catalog'.row
    BY <1>0, <1>3, WrittenIsCatalog
  <1>4. catalog' \in Catalogs /\ DOMAIN catalog'.indexed = DOMAIN catalog'.row
    <2>1. CASE DetectProject(p)
      <3> DEFINE row == IF p \in DOMAIN catalog.row THEN Redetected(catalog.row[p]) ELSE NewProject
      <3>1. row \in TransferRows
        BY <1>1 DEF TransferRows, Origins, Redetected, NewProject
      <3> QED BY <1>3, <2>1, <3>1 DEF DetectProject
    <2>2. CASE ForgetProject(p)
      <3> DEFINE rows == Without(catalog.row, p)
                 words == Without(catalog.indexed, p)
                 shelf == [s \in DOMAIN catalog.shelf |-> catalog.shelf[s] \ {p}]
      <3>1. rows \in Partial(Dirs, TransferRows)
        BY <1>0, WithoutIsPartial DEF Catalogs
      <3>2. words \in Partial(Dirs, SUBSET Searched)
        BY <1>0, WithoutIsPartial DEF Catalogs
      <3>3. shelf \in TransferShelves
        <4>1. catalog.shelf \in Partial(Shelves, SUBSET Dirs)
          BY <1>0 DEF Catalogs, TransferShelves
        <4>2. DOMAIN catalog.shelf \in SUBSET Shelves /\ \A s \in DOMAIN catalog.shelf : catalog.shelf[s] \in SUBSET Dirs
          BY <4>1, PartialValues
        <4>3. shelf \in [DOMAIN catalog.shelf -> SUBSET Dirs]
          BY <4>2
        <4> QED BY <4>2, <4>3 DEF Partial, TransferShelves
      <3>4. DOMAIN words = DOMAIN rows
        BY <1>0 DEF Without
      <3>5. catalog' = [catalog EXCEPT !.row = rows, !.indexed = words, !.shelf = shelf]
        BY <1>0, <2>2 DEF ForgetProject, Catalogs
      <3> HIDE DEF rows, words, shelf
      <3> QED BY <1>0, <3>1, <3>2, <3>3, <3>4, <3>5 DEF Catalogs
    <2>3. CASE AuthorizeRoot(p)
      BY <1>0, <2>3 DEF AuthorizeRoot, Catalogs
    <2>4. CASE DirectoryChanges(p)
      BY <1>0, <2>4 DEF DirectoryChanges
    <2>5. ASSUME NEW description \in {NoText, "text"}, NEW group \in BOOLEAN, EditProject(p, description, group)
          PROVE  catalog' \in Catalogs /\ DOMAIN catalog'.indexed = DOMAIN catalog'.row
      <3> DEFINE row == [catalog.row[p] EXCEPT !.name = "typed", !.details = "typed", !.description = description, !.group = group]
      <3>1. row \in TransferRows
        BY <1>1, <2>5 DEF TransferRows, Origins, EditProject
      <3> QED BY <1>3, <2>5, <3>1 DEF EditProject
    <2> QED BY <2>1, <2>2, <2>3, <2>4, <2>5
  <1> QED BY <1>2, <1>4 DEF TransferInv

\* Collections and the theme change without touching a transfer.
LEMMA ShelvesKeepTransfer ==
  ASSUME TransferInv,
         \/ \E theme \in Themes : ChangeTheme(theme)
         \/ \E s \in Shelves : DeleteCollection(s) \/ \E members \in SUBSET Dirs : SaveCollection(s, members)
  PROVE  TransferInv'
  <1>0. catalog \in Catalogs /\ DOMAIN catalog.indexed = DOMAIN catalog.row
        /\ catalog.shelf \in Partial(Shelves, SUBSET Dirs)
    BY DEF TransferInv, Catalogs, TransferShelves
  <1>1. UNCHANGED <<exportFile, exporting, importing, disk>>
    BY DEF ChangeTheme, DeleteCollection, SaveCollection, transfers
  <1>2. ASSUME NEW shelf \in Partial(Shelves, SUBSET Dirs), catalog' = [catalog EXCEPT !.shelf = shelf]
        PROVE  catalog' \in Catalogs /\ DOMAIN catalog'.indexed = DOMAIN catalog'.row
    BY <1>0, <1>2 DEF Catalogs, TransferShelves
  <1>3. ASSUME NEW s \in Shelves, DeleteCollection(s)
        PROVE  catalog' \in Catalogs /\ DOMAIN catalog'.indexed = DOMAIN catalog'.row
    <2>1. catalog' = [catalog EXCEPT !.shelf = Without(catalog.shelf, s)]
      BY <1>3, <1>0 DEF DeleteCollection, Catalogs
    <2>2. Without(catalog.shelf, s) \in Partial(Shelves, SUBSET Dirs)
      BY <1>0, WithoutIsPartial
    <2> QED BY <1>2, <2>1, <2>2
  <1>4. ASSUME NEW s \in Shelves, NEW members \in SUBSET Dirs, SaveCollection(s, members)
        PROVE  catalog' \in Catalogs /\ DOMAIN catalog'.indexed = DOMAIN catalog'.row
    <2>1. catalog' = [catalog EXCEPT !.shelf = With(catalog.shelf, s, members)]
      BY <1>4, <1>0 DEF SaveCollection, Catalogs
    <2>2. With(catalog.shelf, s, members) \in Partial(Shelves, SUBSET Dirs)
      BY <1>0, WithIsPartial
    <2> QED BY <1>2, <2>1, <2>2
  <1>5. ASSUME NEW theme \in Themes, ChangeTheme(theme)
        PROVE  catalog' \in Catalogs /\ DOMAIN catalog'.indexed = DOMAIN catalog'.row
    BY <1>0, <1>5 DEF ChangeTheme, Catalogs
  <1>6. catalog' \in Catalogs /\ DOMAIN catalog'.indexed = DOMAIN catalog'.row
    BY <1>3, <1>4, <1>5
  <1> QED BY <1>1, <1>6 DEF TransferInv

\* The parts of an export, and an import.
LEMMA FilesKeepTransfer ==
  ASSUME TransferInv,
         \/ ExportSettings \/ ExportProjects \/ ExportCollections
         \/ ValidateImport \/ ApplyImport \/ FailImport \/ MoveFile
  PROVE  TransferInv'
  <1>0. /\ catalog \in Catalogs /\ DOMAIN catalog.indexed = DOMAIN catalog.row /\ disk \subseteq Dirs
        /\ exportFile \in ExportFiles \cup {NoExport} /\ importing \in BOOLEAN
        /\ importing => exportFile # NoExport
        /\ exporting \in {NoExport} \cup [theme : Themes, roots : SUBSET Dirs]
              \cup [theme : Themes, roots : SUBSET Dirs, projects : Partial(Dirs, TransferEntries)]
    BY DEF TransferInv
  <1>1. CASE ExportSettings
    BY <1>0, <1>1 DEF ExportSettings, TransferInv, Catalogs
  <1>2. CASE ExportProjects
    <2> DEFINE entries == [p \in DOMAIN catalog.row |-> Entry(catalog.row[p])]
    <2>1. exporting \in [theme : Themes, roots : SUBSET Dirs]
      BY <1>0, <1>2 DEF ExportProjects, NoExport
    <2>2. entries \in Partial(Dirs, TransferEntries)
      <3>1. /\ DOMAIN catalog.row \in SUBSET Dirs
            /\ \A p \in DOMAIN catalog.row : catalog.row[p] \in TransferRows
        BY <1>0, PartialValues DEF Catalogs
      <3>2. \A p \in DOMAIN catalog.row : Entry(catalog.row[p]) \in TransferEntries
        BY <3>1 DEF TransferRows, TransferEntries, Entry
      <3>3. entries \in [DOMAIN catalog.row -> TransferEntries]
        BY <3>2
      <3> QED BY <3>1, <3>3 DEF Partial
    <2>3. exporting' = [theme |-> exporting.theme, roots |-> exporting.roots, projects |-> entries]
          /\ UNCHANGED <<catalog, disk, exportFile, importing>>
      BY <1>2 DEF ExportProjects
    <2> HIDE DEF entries
    <2>4. exporting' \in [theme : Themes, roots : SUBSET Dirs, projects : Partial(Dirs, TransferEntries)]
      BY <2>1, <2>2, <2>3
    <2> QED BY <1>0, <2>3, <2>4 DEF TransferInv
  <1>3. CASE ExportCollections
    <2>1. exporting \in [theme : Themes, roots : SUBSET Dirs, projects : Partial(Dirs, TransferEntries)]
      BY <1>0, <1>3 DEF ExportCollections, NoExport
    <2>2. exportFile' \in ExportFiles
      BY <1>0, <1>3, <2>1 DEF ExportCollections, ExportFiles, Catalogs
    <2>3. exportFile' # NoExport
      BY <1>3 DEF ExportCollections, NoExport
    <2> QED BY <1>0, <1>3, <2>2, <2>3 DEF ExportCollections, TransferInv
  <1>4. CASE ValidateImport \/ FailImport
    BY <1>0, <1>4 DEF ValidateImport, FailImport, TransferInv
  <1>5. CASE ApplyImport
    <2>1. Imported \in Catalogs /\ DOMAIN Imported.indexed = DOMAIN Imported.row
      BY <1>0, <1>5, ImportedIs DEF ApplyImport
    <2> QED BY <1>0, <1>5, <2>1 DEF ApplyImport, TransferInv
  <1>6. CASE MoveFile
    <2>1. \A S, T : << >> \in Partial(S, T)
      <3>1. \A S, T : << >> \in [{} -> T] /\ {} \in SUBSET S
        OBVIOUS
      <3> QED BY <3>1 DEF Partial
    <2>2. EmptyCatalog \in Catalogs /\ DOMAIN EmptyCatalog.indexed = DOMAIN EmptyCatalog.row
      BY <2>1 DEF EmptyCatalog, Catalogs, Themes, TransferShelves
    <2> QED BY <1>0, <1>6, <2>2 DEF MoveFile, TransferInv
  <1> QED BY <1>1, <1>2, <1>3, <1>4, <1>5, <1>6

\* The catalog and the export files always have their shape, and an import has
\* a file to read.
THEOREM TransferInvariant == TransferSpec => []TransferInv
  <1>1. TransferInit => TransferInv
    BY TransferInitially
  <1>2. TransferInv /\ [TransferNext]_transferVars => TransferInv'
    <2> SUFFICES ASSUME TransferInv, [TransferNext]_transferVars
                 PROVE  TransferInv'
      OBVIOUS
    <2>1. CASE UNCHANGED transferVars
      BY <2>1 DEF transferVars, TransferInv
    <2> QED BY <2>1, EditsKeepTransfer, ShelvesKeepTransfer, FilesKeepTransfer DEF TransferNext
  <1> QED BY <1>1, <1>2, PTL DEF TransferSpec

\* An import brings back what the export kept, whatever was edited between the
\* parts of the export and since, and leaves the rest alone.
THEOREM ImportsRestore == TransferSpec => ImportsRestoreEntries
  <1>1. TransferInv /\ [TransferNext]_transferVars =>
          [ApplyImport =>
             /\ \A p \in DOMAIN exportFile.projects \cap disk :
                   LET entry == exportFile.projects[p]  row == Entry(catalog'.row[p]) IN
                   \/ row = entry
                   \/ entry.description = NoText /\ row = [entry EXCEPT !.description = row.description]
             /\ \A s \in DOMAIN exportFile.shelves :
                   \A p \in DOMAIN exportFile.projects \cap disk :
                      p \in exportFile.shelves[s] <=> p \in catalog'.shelf[s]
             /\ \A p \in DOMAIN catalog.row \ DOMAIN exportFile.projects : catalog'.row[p] = catalog.row[p]
             /\ catalog.roots \subseteq catalog'.roots]_transferVars
    <2> SUFFICES ASSUME TransferInv, ApplyImport
                 PROVE  /\ \A p \in DOMAIN exportFile.projects \cap disk :
                             LET entry == exportFile.projects[p]  row == Entry(catalog'.row[p]) IN
                             \/ row = entry
                             \/ entry.description = NoText /\ row = [entry EXCEPT !.description = row.description]
                        /\ \A s \in DOMAIN exportFile.shelves :
                             \A p \in DOMAIN exportFile.projects \cap disk :
                                p \in exportFile.shelves[s] <=> p \in catalog'.shelf[s]
                        /\ \A p \in DOMAIN catalog.row \ DOMAIN exportFile.projects : catalog'.row[p] = catalog.row[p]
                        /\ catalog.roots \subseteq catalog'.roots
      OBVIOUS
    <2>1. catalog' = Imported /\ exportFile # NoExport
      BY DEF ApplyImport, TransferInv
    <2>2. ASSUME NEW p \in DOMAIN exportFile.projects \cap disk
          PROVE  LET entry == exportFile.projects[p]  row == Entry(catalog'.row[p]) IN
                 \/ row = entry
                 \/ entry.description = NoText /\ row = [entry EXCEPT !.description = row.description]
      <3> DEFINE entry == exportFile.projects[p]
                 row == Entry(catalog'.row[p])
                 description == IF entry.description = NoText /\ p \in DOMAIN catalog.row
                                THEN catalog.row[p].description ELSE entry.description
      <3>1. /\ entry \in TransferEntries
            /\ row = [name |-> entry.name, details |-> entry.details, description |-> description,
                       group |-> entry.group]
        BY <2>1, ImportedIs
      <3> HIDE DEF entry, row
      <3>2. CASE entry.description = NoText /\ p \in DOMAIN catalog.row
        <4>1. row.description = description
          BY <3>1
        <4>2. row = [entry EXCEPT !.description = description]
          BY <3>1 DEF TransferEntries
        <4> QED BY <3>2, <4>1, <4>2 DEF entry, row
      <3>3. CASE ~ (entry.description = NoText /\ p \in DOMAIN catalog.row)
        <4>1. row = [name |-> entry.name, details |-> entry.details, description |-> entry.description,
                    group |-> entry.group]
          BY <3>1, <3>3
        <4>2. row = entry
          BY <3>1, <4>1 DEF TransferEntries
        <4> QED BY <4>2 DEF entry, row
      <3> QED BY <3>2, <3>3
    <2>3. \A s \in DOMAIN exportFile.shelves :
            \A p \in DOMAIN exportFile.projects \cap disk :
               p \in exportFile.shelves[s] <=> p \in catalog'.shelf[s]
      BY <2>1, ImportedIs
    <2>4. \A p \in DOMAIN catalog.row \ DOMAIN exportFile.projects : catalog'.row[p] = catalog.row[p]
      BY <2>1, ImportedIs
    <2>5. catalog.roots \subseteq catalog'.roots
      BY <2>1, ImportedIs
    <2> QED BY <2>2, <2>3, <2>4, <2>5
  <1> QED BY <1>1, TransferInvariant, PTL DEF TransferSpec, ImportsRestoreEntries

=============================================================================
