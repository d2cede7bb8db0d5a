---------------------------- MODULE QuickSearch ----------------------------
(***************************************************************************)
(* The quick-search window (src-tauri/src/quick_search.rs and              *)
(* src/lib/quick-search.ts).  Every request to show or hide the window, or *)
(* to open something in the main window, takes a new generation when it    *)
(* arrives and runs in a worker; only the latest generation may touch the  *)
(* windows.  Navigation is queued before the windows are touched and stays *)
(* queued until the main window acknowledges it; the event that announces  *)
(* it is a hint.                                                           *)
(*                                                                         *)
(* A worker is named by its generation, and so is the request it leaves in *)
(* a mailbox.                                                              *)
(***************************************************************************)
EXTENDS Naturals, FiniteSets, Sequences

CONSTANTS MaxRequestsToWindows, \* bound on the requests
          MaxPendingNavigation  \* MAX_PENDING

ASSUME QuickSearchAssumption ==
    MaxRequestsToWindows \in Nat /\ MaxPendingNavigation \in Nat \ {0}

Workers == 1..MaxRequestsToWindows
SHUTDOWN == MaxRequestsToWindows + 1
Labels == {"main", "quick-search"}
NoNumber == 0

VARIABLES lifecycle,   \* the latest generation, or SHUTDOWN
          worker,      \* what each request asks for and where its worker is
          windowsLock, \* the worker that holds the windows, 0 for none
          desktop,     \* the two windows
          focusBox,    \* the request to focus the search field
          navigation,  \* the queue of the main window
          hint,        \* labels with an event under way
          reader,      \* connectQuickSearchRequests in each window
          handled      \* requests a window has handled

quickVars == <<lifecycle, worker, windowsLock, desktop, focusBox, navigation,
               hint, reader, handled>>
windowVars == <<lifecycle, windowsLock, desktop>>
mailVars == <<focusBox, navigation, hint, reader, handled>>

Unasked == [kind |-> "none", at |-> "none", result |-> "none"]
Away == [at |-> "away", wake |-> FALSE, ack |-> NoNumber, request |-> NoNumber]

QuickInit ==
    /\ lifecycle = 0
    /\ worker = [g \in Workers |-> Unasked]
    /\ windowsLock = NoNumber
    /\ desktop = [main |-> "shown", search |-> "none"]
    /\ focusBox = NoNumber
    /\ navigation = <<>>
    /\ hint = {}
    /\ reader = [l \in Labels |-> Away]
    /\ handled = {}

IsCurrent(g) == lifecycle = g
IsShutdown == lifecycle = SHUTDOWN
SearchAttached == desktop.search \in {"hidden", "visible"}

GotoStep(g, step) == worker' = [worker EXCEPT ![g].at = step]
Finish(g, result) == [worker EXCEPT ![g].at = "report", ![g].result = result]

-----------------------------------------------------------------------------
\* A request at its ingress: Lifecycle::request.
Ask(kind) ==
    /\ lifecycle < SHUTDOWN - 1
    /\ lifecycle' = lifecycle + 1
    /\ worker' = [worker EXCEPT ![lifecycle + 1] =
                    [kind |-> kind, at |-> "lock", result |-> "none"]]
    /\ UNCHANGED <<windowsLock, desktop, focusBox, navigation, hint, reader, handled>>

\* A worker takes the windows.  A superseded show ends here; a navigation is
\* accepted even if a later request has superseded its window operations.
TakeWindows(g) ==
    /\ worker[g].at = "lock" /\ windowsLock = NoNumber
    /\ windowsLock' = g
    /\ CASE worker[g].kind = "show" ->
              worker' = IF IsCurrent(g) THEN [worker EXCEPT ![g].at = "find"]
                        ELSE Finish(g, "ok")
         [] worker[g].kind = "hide" -> GotoStep(g, "hide")
         [] worker[g].kind = "open" ->
              worker' = IF IsShutdown \/ desktop.main = "none" THEN Finish(g, "refused")
                        ELSE [worker EXCEPT ![g].at = "navigate"]
    /\ UNCHANGED <<lifecycle, desktop, mailVars>>

Navigate(g) ==
    /\ worker[g].at = "navigate"
    /\ IF Len(navigation) < MaxPendingNavigation
       THEN /\ navigation' = Append(navigation, g)
            /\ hint' = hint \cup {"main"}
            /\ GotoStep(g, "check")
       ELSE /\ worker' = Finish(g, "refused")
            /\ UNCHANGED <<navigation, hint>>
    /\ UNCHANGED <<windowVars, focusBox, reader, handled>>

\* show: the window exists, or it is built hidden and attached later.
FindSearch(g) ==
    /\ worker[g].at = "find"
    /\ \/ SearchAttached /\ GotoStep(g, "check") /\ UNCHANGED desktop
       \/ ~SearchAttached /\ GotoStep(g, "attach")
          /\ desktop' = [desktop EXCEPT !.search = "unattached"]
       \/ ~SearchAttached /\ worker' = Finish(g, "failed") /\ UNCHANGED desktop
    /\ UNCHANGED <<lifecycle, windowsLock, mailVars>>

AttachSearch(g) ==
    /\ worker[g].at = "attach"
    /\ desktop' = [desktop EXCEPT !.search = "hidden"]
    /\ GotoStep(g, "check")
    /\ UNCHANGED <<lifecycle, windowsLock, mailVars>>

-----------------------------------------------------------------------------
\* wake: show, restore and focus, each only while the request is current.
WindowOf(g) == IF worker[g].kind = "open" THEN "main" ELSE "search"
AfterWake(g) == IF worker[g].kind = "open" THEN "hide" ELSE "recheck"
Present(w) == desktop[w] \in {"shown", "hidden", "visible"}

CheckWake(g) ==
    /\ worker[g].at = "check"
    /\ GotoStep(g, IF IsCurrent(g) THEN "wake" ELSE AfterWake(g))
    /\ UNCHANGED <<windowVars, mailVars>>

WakeWindow(g) ==
    /\ worker[g].at = "wake" /\ Present(WindowOf(g))
    /\ desktop' = IF WindowOf(g) = "main" THEN desktop
                  ELSE [desktop EXCEPT !.search = "visible"]
    /\ GotoStep(g, "check focus")
    /\ UNCHANGED <<lifecycle, windowsLock, mailVars>>

\* Restoring and focusing change nothing the properties tell apart.  A show
\* that is still current leaves a request to focus the search field.
CheckFocus(g) ==
    /\ worker[g].at = "check focus"
    /\ IF IsCurrent(g) /\ worker[g].kind = "show"
       THEN focusBox' = g /\ hint' = hint \cup {"quick-search"}
       ELSE UNCHANGED <<focusBox, hint>>
    /\ GotoStep(g, AfterWake(g))
    /\ UNCHANGED <<windowVars, navigation, reader, handled>>

\* The native window refuses, or shutdown has destroyed it.
FailWake(g) ==
    /\ worker[g].at \in {"wake", "check focus"}
    /\ worker' = IF worker[g].kind = "open" THEN Finish(g, "failed")
                 ELSE [worker EXCEPT ![g].at = "recheck", ![g].result = "failed"]
    /\ UNCHANGED <<windowVars, mailVars>>

RecheckShutdown(g) ==
    /\ worker[g].at = "recheck"
    /\ desktop' = IF IsShutdown THEN [desktop EXCEPT !.search = "none"] ELSE desktop
    /\ worker' = [worker EXCEPT ![g].at = "report",
                                ![g].result = IF @ = "failed" THEN "failed" ELSE "ok"]
    /\ UNCHANGED <<lifecycle, windowsLock, mailVars>>

-----------------------------------------------------------------------------
\* Mutant of CheckHide: a superseded request hides the window all the same.
CheckHideAlways(g) ==
    /\ worker[g].at = "hide"
    /\ GotoStep(g, IF SearchAttached THEN "hide window" ELSE "clear focus")
    /\ UNCHANGED <<windowVars, mailVars>>

\* hide_current, for a hide and at the end of a navigation.
CheckHide(g) ==
    /\ worker[g].at = "hide"
    /\ worker' = IF ~IsCurrent(g) THEN Finish(g, "ok")
                 ELSE [worker EXCEPT ![g].at =
                          IF SearchAttached THEN "hide window" ELSE "clear focus"]
    /\ UNCHANGED <<windowVars, mailVars>>

HideSearch(g) ==
    /\ worker[g].at = "hide window"
    /\ \/ SearchAttached /\ GotoStep(g, "clear focus")
          /\ desktop' = [desktop EXCEPT !.search = "hidden"]
       \/ worker' = Finish(g, "failed") /\ UNCHANGED desktop
    /\ UNCHANGED <<lifecycle, windowsLock, mailVars>>

ClearFocus(g) ==
    /\ worker[g].at = "clear focus"
    /\ focusBox' = IF IsCurrent(g) THEN NoNumber ELSE focusBox
    /\ worker' = Finish(g, "ok")
    /\ UNCHANGED <<windowVars, navigation, hint, reader, handled>>

\* The worker returns.  show_and_report wakes the main window after a
\* failure, which the model keeps shown.
ReturnWindows(g) ==
    /\ worker[g].at = "report"
    /\ windowsLock' = NoNumber
    /\ GotoStep(g, "done")
    /\ UNCHANGED <<lifecycle, desktop, mailVars>>

-----------------------------------------------------------------------------
\* Main is destroyed: its callback never waits for the windows' lock.
Shutdown ==
    /\ ~IsShutdown
    /\ lifecycle' = SHUTDOWN
    /\ desktop' = [desktop EXCEPT !.main = "closing"]
    /\ UNCHANGED <<worker, windowsLock, mailVars>>

DestroySearch ==
    /\ desktop.main = "closing"
    /\ desktop' = [main |-> "none",
                   search |-> IF SearchAttached THEN "none" ELSE desktop.search]
    /\ reader' = [l \in Labels |-> Away]
    /\ UNCHANGED <<lifecycle, worker, windowsLock, focusBox, navigation, hint, handled>>

-----------------------------------------------------------------------------
\* The windows' readers.  One drain runs at a time; an event during a drain
\* makes it look again.
PageLoaded(l) == IF l = "main" THEN desktop.main = "shown" ELSE SearchAttached
Head0(l) == IF l = "quick-search" THEN focusBox
            ELSE IF navigation = <<>> THEN NoNumber ELSE Head(navigation)

Connect(l) ==
    /\ reader[l] = Away /\ PageLoaded(l)
    /\ reader' = [reader EXCEPT ![l].at = "ready"]
    /\ UNCHANGED <<windowVars, worker, focusBox, navigation, hint, handled>>

\* A reload forgets the acknowledgement: the request is handled again.
Reload(l) ==
    /\ reader[l].at # "away"
    /\ reader' = [reader EXCEPT ![l] = Away]
    /\ UNCHANGED <<windowVars, worker, focusBox, navigation, hint, handled>>

DeliverHint(l) ==
    /\ l \in hint
    /\ hint' = hint \ {l}
    /\ reader' = [reader EXCEPT ![l] =
          CASE @.at = "idle" -> [@ EXCEPT !.at = "ready"]
            [] @.at \in {"ready", "answer", "handle"} -> [@ EXCEPT !.wake = TRUE]
            [] OTHER -> @]
    /\ UNCHANGED <<windowVars, worker, focusBox, navigation, handled>>

\* quick_search_ready: only the head with the acknowledged identity goes.
Acknowledge(l) ==
    IF Head0(l) = NoNumber \/ Head0(l) # reader[l].ack THEN UNCHANGED <<focusBox, navigation>>
    ELSE IF l = "main" THEN navigation' = Tail(navigation) /\ UNCHANGED focusBox
         ELSE focusBox' = NoNumber /\ UNCHANGED navigation

QuickSearchReady(l) ==
    /\ reader[l].at = "ready"
    /\ Acknowledge(l)
    /\ reader' = [reader EXCEPT ![l].at = "answer", ![l].request = Head0(l)']
    /\ UNCHANGED <<windowVars, worker, hint, handled>>

\* The answer reaches the page, which forgets the acknowledgement.
ReadAnswer(l) ==
    /\ reader[l].at = "answer"
    /\ reader' = [reader EXCEPT ![l] =
          IF @.request # NoNumber THEN [@ EXCEPT !.at = "handle", !.ack = NoNumber]
          ELSE [Away EXCEPT !.at = IF reader[l].wake THEN "ready" ELSE "idle"]]
    /\ UNCHANGED <<windowVars, worker, focusBox, navigation, hint, handled>>

HandleRequest(l) ==
    /\ reader[l].at = "handle"
    /\ handled' = handled \cup {reader[l].request}
    /\ reader' = [reader EXCEPT ![l].at = "ready", ![l].ack = reader[l].request,
                                ![l].request = NoNumber]
    /\ UNCHANGED <<windowVars, worker, focusBox, navigation, hint>>

-----------------------------------------------------------------------------
WorkerStep(g) ==
    \/ TakeWindows(g) \/ Navigate(g) \/ FindSearch(g) \/ AttachSearch(g)
    \/ CheckWake(g) \/ WakeWindow(g) \/ CheckFocus(g) \/ FailWake(g)
    \/ RecheckShutdown(g) \/ CheckHide(g) \/ HideSearch(g) \/ ClearFocus(g) \/ ReturnWindows(g)

ReaderStep(l) ==
    Connect(l) \/ QuickSearchReady(l) \/ ReadAnswer(l) \/ HandleRequest(l)

QuickNext ==
    \/ \E kind \in {"show", "hide", "open"} : Ask(kind)
    \/ \E g \in Workers : WorkerStep(g)
    \/ \E l \in Labels : ReaderStep(l) \/ DeliverHint(l) \/ Reload(l)
    \/ Shutdown \/ DestroySearch

QuickSpec == QuickInit /\ [][QuickNext]_quickVars

-----------------------------------------------------------------------------
\* Once every worker has returned, the search window is as the last request
\* left it, whatever order the workers ran in: shown by a show, hidden by a
\* hide or a navigation, and gone after shutdown, even if it was still being
\* built when the main window was destroyed.
WindowsFollowTheLastRequest ==
    (\A g \in Workers : worker[g].at \in {"none", "done"}) =>
        /\ desktop.main = "none" => desktop.search = "none"
        /\ \A g \in Workers :
              IsCurrent(g) /\ worker[g].result = "ok" =>
                  (desktop.search = "visible" <=> worker[g].kind = "show")

=============================================================================
