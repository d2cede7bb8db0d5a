-------------------------- MODULE MCHistoryRefresh ---------------------------
(* The activity history for TLC.  Its refresh: one repository with one       *)
(* commit, then with two; batches of one commit; a range for both and one    *)
(* for the first.  The lists and summaries that show it: records in three    *)
(* buckets, one of them before 1970, with hours of two seconds.  The two     *)
(* share no variable: part is the one that runs.                             *)
EXTENDS HistoryRefresh, Footprints, TLC

CONSTANTS r1, h1, h2

MCRootOf == [d \in Paths |-> r1]
MCHeadOf == [v \in Versions |-> IF v = 0 THEN h1 ELSE h2]
MCLogOf == [h \in Heads |-> [r \in Ranges |-> IF h = h2 /\ r = <<1, 3>> THEN <<2, 1>> ELSE <<1>>]]
MCRanges == {<<1, 3>>, <<1, 2>>}
Symmetry == Permutations(Projects) \cup Permutations(Paths) \cup Permutations(Workers)

MCForms == {[source |-> "git", category |-> "git"], [source |-> "event", category |-> "open"]}
MCInstants == {-3, 2, 9}
MCDays == {<<-9, 1>>, <<-3, 9>>, <<1, 8>>, <<0, 16>>, <<-8, 3>>}
MCSpans == <<8, 4, 2>>
MCQueries == {[start |-> -9, end |-> 9, project |-> Unfiltered, category |-> Unfiltered],
              [start |-> -9, end |-> 17, project |-> Unfiltered, category |-> "open"]}

VARIABLE part

activityVars == <<part, vars, footprintVars>>

ActivityInit ==
  /\ part \in {"refresh", "footprints"}
  /\ Init
  /\ FootprintInit
  /\ part = "refresh" => query.category = Unfiltered

ActivityNext ==
  /\ \/ part = "refresh" /\ Next /\ UNCHANGED footprintVars
     \/ part = "footprints" /\ FootprintNext /\ UNCHANGED vars
  /\ UNCHANGED part

ActivitySpec == ActivityInit /\ [][ActivityNext]_activityVars
=============================================================================
