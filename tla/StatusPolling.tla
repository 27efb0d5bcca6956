---------------------------- MODULE StatusPolling ----------------------------
(***************************************************************************)
(* How one browser tab follows the runs of the server:                     *)
(*   web/src/hooks/useSyncStatus.ts  the poll and what it invalidates      *)
(*   web/src/hooks/useHistory.ts     the list of runs                      *)
(*   web/src/App.tsx                 SyncStatusMonitor, on every page      *)
(*   web/src/pages/                  Dashboard, Sync, History              *)
(* A run passes three moments on the server: it is the current run with a  *)
(* row at running, the row is finished, it is not the current run any      *)
(* more.  What the query cache holds is the moment at which the server     *)
(* gave that answer, which is some moment after the fetch was sent.        *)
(***************************************************************************)
EXTENDS Integers

CONSTANTS
    MaxRuns,      \* bound: runs of the server
    MaxLost       \* bound: requests that fail, with their retry

ASSUME PollingAssumption == MaxRuns \in Nat \ {0} /\ MaxLost \in Nat

VARIABLES
    moment,       \* how far the server has come
    queued,       \* Dispatcher: a request waits in the channel
    place,        \* the page that is open
    status,       \* query sync-status, observed on every page
    history,      \* query history, observed on the page History
    starting,     \* mutation runSync: isPending
    lost,         \* how many requests have failed
    noticed       \* history: when the tab last noticed a run come or go

serverVars == <<moment, queued>>
pollVars == <<serverVars, place, status, history, starting, lost, noticed>>

Never   == -1
Idle    == -2      \* no fetch is under way
Moments == 0 .. 3 * MaxRuns
\* A query of the cache: its data, whether they count as stale, when the fetch
\* under way was sent, and whether an invalidation has come since that could
\* not replace it.
PolledQuery == [data : Moments \union {Never}, stale : BOOLEAN,
                fetch : Moments \union {Idle}, early : BOOLEAN]
Places  == {"dashboard", "history", "other"}     \* Sync is like Dashboard

\* What GET /sync/status and /history answer at a moment.
CurrentRun(m) == IF m % 3 = 0 THEN 0 ELSE m \div 3 + 1
RowDone(m, r) == m >= 3 * (r - 1) + 2
ShowsRun(q)   == q.data # Never /\ CurrentRun(q.data) # 0

PollInit ==
    /\ moment = 0
    /\ queued = FALSE
    /\ place = "other"
    /\ \E q \in {[data |-> Never, stale |-> TRUE, fetch |-> Idle, early |-> FALSE]} :
           status = [q EXCEPT !.fetch = 0] /\ history = q
    /\ starting = FALSE
    /\ lost = 0
    /\ noticed = Never

-----------------------------------------------------------------------------
(* The server: the dispatcher and its callers.                             *)

\* The scheduler, the watchdog or another tab.
SubmitElsewhere ==
    /\ ~queued
    /\ queued' = TRUE
    /\ UNCHANGED <<moment, place, status, history, starting, lost, noticed>>

RunProceeds ==
    /\ moment < 3 * MaxRuns
    /\ moment % 3 = 0 => queued
    /\ queued' = (queued /\ moment % 3 # 0)
    /\ moment' = moment + 1
    /\ UNCHANGED <<place, status, history, starting, lost, noticed>>

-----------------------------------------------------------------------------
(* The query cache.                                                        *)

Fetching(q)   == q.fetch # Idle
Fetch(q)      == [q EXCEPT !.fetch = moment, !.early = FALSE]
FetchIfStale(q) == IF q.stale /\ ~Fetching(q) THEN Fetch(q) ELSE q
Fetched(q, m) == [data |-> m, stale |-> FALSE, fetch |-> Idle, early |-> q.early]
ReadAt(q, m)  == Fetching(q) /\ m \in q.fetch .. moment
Failed_Fresh(q) ==                                  \* a fault, for mutation
    [q EXCEPT !.fetch = Idle, !.early = FALSE, !.stale = FALSE]
Failed(q) == [q EXCEPT !.fetch = Idle, !.early = FALSE]

\* invalidateQueries: data that are shown are fetched anew, and a fetch under
\* way is dropped; data that are not shown only become stale.  A first fetch,
\* of a query without data, is joined: nothing new is sent, and its answer
\* counts as fresh like any other.
Loading(q)       == Fetching(q) /\ q.data = Never
MarkedStale(q)   == [q EXCEPT !.stale = TRUE, !.early = Fetching(q)]
Invalidated_Joining(q, shown) ==                    \* a fault, for mutation
    IF shown /\ ~Loading(q) THEN FetchIfStale([q EXCEPT !.stale = TRUE]) ELSE MarkedStale(q)
Invalidated(q, shown) ==
    IF shown /\ ~Loading(q) THEN Fetch([q EXCEPT !.stale = TRUE]) ELSE MarkedStale(q)

\* useSyncStatus: the effect on current.
Transition_Starts(old, new) ==                      \* a fault, for mutation
    ~ShowsRun(old) /\ ShowsRun(new)
Transition(old, new) == ShowsRun(old) # ShowsRun(new)
NoticeTransition(old, new) ==
    IF Transition(old, new)
    THEN history' = Invalidated(history, place = "history") /\ noticed' = new.data
    ELSE UNCHANGED <<history, noticed>>

StatusAnswered ==
    /\ \E m \in Moments :
           /\ ReadAt(status, m)
           /\ status' = Fetched(status, m)
           /\ NoticeTransition(status, Fetched(status, m))
    /\ UNCHANGED <<serverVars, place, starting, lost>>

HistoryAnswered ==
    /\ \E m \in Moments : ReadAt(history, m) /\ history' = Fetched(history, m)
    /\ UNCHANGED <<serverVars, place, status, starting, lost, noticed>>

QueryFails ==
    /\ lost < MaxLost
    /\ lost' = lost + 1
    /\ \/ Fetching(status) /\ status' = Failed(status) /\ UNCHANGED history
       \/ Fetching(history) /\ history' = Failed(history) /\ UNCHANGED status
    /\ UNCHANGED <<serverVars, place, starting, noticed>>

\* refetchInterval: every 3 seconds while a run is shown, every 30 otherwise.
PollDue_WhileRunning == ShowsRun(status)                    \* a fault, for mutation
PollDue == TRUE
PollStatus ==
    /\ PollDue /\ ~Fetching(status)
    /\ status' = Fetch(status)
    /\ UNCHANGED <<serverVars, place, history, starting, lost, noticed>>

\* staleTime has passed.
GrowOld ==
    /\ ~Fetching(history) /\ ~history.stale
    /\ history' = [history EXCEPT !.stale = TRUE]
    /\ UNCHANGED <<serverVars, place, status, starting, lost, noticed>>

\* A page fetches what it observes when it opens, if that is stale.  The
\* hook of Dashboard and Sync starts from "undefined": a run that is shown
\* already counts as a change.
OpenPage(p) ==
    /\ p # place
    /\ place' = p
    /\ history' = IF p = "history" THEN FetchIfStale(history)
                  ELSE IF p = "dashboard" /\ ShowsRun(status)
                  THEN Invalidated(history, FALSE) ELSE history
    /\ UNCHANGED <<serverVars, status, starting, lost, noticed>>

\* The window gets the focus back.
Refocus ==
    /\ place = "history"
    /\ history' = FetchIfStale(history)
    /\ UNCHANGED <<serverVars, place, status, starting, lost, noticed>>

-----------------------------------------------------------------------------
(* The button Run Sync Now.                                                *)

RunSync ==
    /\ place = "dashboard"
    /\ ~starting /\ ~ShowsRun(status)
    /\ starting' = TRUE
    /\ UNCHANGED <<serverVars, place, status, history, lost, noticed>>

\* The server accepts unless a request waits already; then the status is
\* invalidated.  Its marks do not matter, since the poll fetches it anyway.
RunSyncAnswered ==
    /\ starting
    /\ starting' = FALSE
    /\ queued' = TRUE
    /\ status' = IF queued \/ Loading(status) THEN status ELSE Fetch(status)
    /\ UNCHANGED <<moment, place, history, lost, noticed>>

-----------------------------------------------------------------------------
PollNext ==
    \/ SubmitElsewhere \/ RunProceeds \/ StatusAnswered \/ HistoryAnswered
    \/ QueryFails \/ PollStatus \/ GrowOld
    \/ \E p \in Places : OpenPage(p)
    \/ Refocus \/ RunSync \/ RunSyncAnswered

\* A run ends, requests are answered or fail, and the timer of the poll fires.
PollSpec ==
    /\ PollInit /\ [][PollNext]_pollVars
    /\ WF_pollVars(RunProceeds) /\ WF_pollVars(StatusAnswered)
    /\ WF_pollVars(HistoryAnswered) /\ WF_pollVars(PollStatus)
-----------------------------------------------------------------------------
(* Properties.                                                             *)

\* The variables hold values of their kind; nothing is from the future, and
\* a query without data is stale, so that opening its page fetches it.
PollingTypeOK ==
    /\ moment \in Moments /\ noticed \in Moments \union {Never}
    /\ queued \in BOOLEAN /\ starting \in BOOLEAN
    /\ place \in Places
    /\ status \in PolledQuery /\ history \in PolledQuery
    /\ lost \in 0 .. MaxLost
    /\ \A q \in {status, history} :
           q.data <= moment /\ q.fetch <= moment /\ (q.data = Never => q.stale)
    /\ noticed <= status.data

\* "the History page refreshes both when a run appears and when it completes"
\* (useSyncStatus): what the page History shows is no older than the last
\* change noticed, is being fetched, or is known to be stale.  The exception
\* is an answer under way when the change came that the invalidation could
\* not replace: that of a closed page, and that of the first load.
HistoryCoversNotices ==
    place = "history" =>
        \/ history.data >= noticed
        \/ Fetching(history) \/ history.stale \/ history.early

\* A run that the tab has seen is in the end shown as finished by the page
\* History, if it stays open, whatever runs follow; only a failing request,
\* and the exception of HistoryCoversNotices, may leave the list as it is
\* until the window gets the focus.
SeenRunReachesHistory ==
    \A r \in 1 .. MaxRuns :
        (status.data # Never /\ CurrentRun(status.data) = r)
            ~> \/ place # "history" \/ RowDone(history.data, r)
               \/ lost > 0 \/ history.early

\* The page does not keep showing a run that is over, nor miss one that lasts.
StatusCatchesUp ==
    <>[](status.data # Never /\ CurrentRun(status.data) = CurrentRun(moment))
=============================================================================
