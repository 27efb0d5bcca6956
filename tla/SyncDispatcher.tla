--------------------------- MODULE SyncDispatcher ---------------------------
(***************************************************************************)
(* The dispatcher of AGHSync and the life of a sync run:                   *)
(*   internal/sync/dispatcher.go   Submit, the dispatch loop, Status       *)
(*   internal/sync/engine.go       Run (doSync is one step here; the       *)
(*                                 module SyncEngine opens it)             *)
(*   internal/history/store.go     StartRun, FinishRun                     *)
(*   cmd/aghsync/main.go           start, ordered shutdown, process exit   *)
(*                                                                         *)
(* Goroutines: one loop, one main, and any number of callers of Submit     *)
(* (API handlers, cron jobs, watchdog timers, the startup trigger).  Run   *)
(* ids, uuids in the code, are numbered in the order of acceptance.        *)
(***************************************************************************)
EXTENDS Integers, Sequences

CONSTANTS
    Callers,    \* goroutines that call Submit
    MaxRuns,    \* bound: how many requests are accepted in a behaviour
    Faults      \* the database calls that may fail, a subset of FaultPoints

FaultPoints == {"preflight", "list", "start", "finish", "fetch"}

ASSUME MaxRunsAssumption == MaxRuns \in Nat
ASSUME FaultsAssumption  == Faults \subseteq FaultPoints

VARIABLES
    hasSlaves,  \* the table instances holds an enabled slave
    caller,     \* caller[c]: where goroutine c is in Submit
    reply,      \* reply[c]: what its last Submit returned
    queue,      \* Dispatcher.queue, a channel of capacity 1
    accepted,   \* number of requests ever put into the queue
    loop,       \* where the dispatch loop is
    held,       \* the request the loop has taken from the queue
    result,     \* what doSync, then Run, has returned for it
    current,    \* Dispatcher.current: the run it names, or NoRun
    last,       \* Dispatcher.last: the run and its status
    rows,       \* the table sync_runs: status of each run, or "absent"
    notices,    \* the calls notifier.Notify has received, in order
    main,       \* where main is: serving, closing, cancelled (ctx), down
    fate        \* history variable: what became of requests that got no final row

submitVars == <<caller, reply, queue, accepted>>
loopVars   == <<loop, held, result, current, last>>
storeVars  == <<rows, notices>>
vars == <<hasSlaves, submitVars, loopVars, storeVars, main, fate>>

RunIds      == 1 .. MaxRuns
NoRun       == 0
FinalStates == {"success", "partial_failure", "error"}
NoLast      == [run |-> NoRun, status |-> "none"]

CallerStates == {"idle", "called", "checked"}
Replies      == {"none", "accepted", "busy", "no_slaves", "failed"}
LoopStates   == {"select", "dequeued", "check", "start", "sync", "finish",
                 "notify", "publish", "exited"}
Results      == FinalStates \union {"none", "no_slaves"}
MainStates   == {"serving", "closing", "cancelled", "down"}
Fates        == {"open", "skipped", "unfinished", "orphan", "lost"}

Alive     == main # "down"
Cancelled == main = "cancelled"     \* ctx.Done() of the dispatcher is closed

\* A database call made with ctx may fail, and does once ctx is cancelled;
\* FinishRun and the notification use context.Background().
CtxCallFails(p)        == Cancelled \/ p \in Faults
CtxCallSucceeds_Always == TRUE      \* Fault: context.Background() instead of ctx
CtxCallSucceeds        == ~Cancelled
BackgroundCallFails(p) == p \in Faults

Init ==
    /\ hasSlaves \in BOOLEAN
    /\ caller = [c \in Callers |-> "idle"]
    /\ reply = [c \in Callers |-> "none"]
    /\ queue = <<>>
    /\ accepted = 0
    /\ loop = "select"
    /\ held = NoRun
    /\ result = "none"
    /\ current = NoRun
    /\ last = NoLast
    /\ rows = [r \in RunIds |-> "absent"]
    /\ notices = <<>>
    /\ main = "serving"
    /\ fate = [r \in RunIds |-> "open"]

-----------------------------------------------------------------------------
(* Submit: a pre-flight read of the instances, then a non-blocking send.   *)

Return(c, answer) ==
    /\ caller' = [caller EXCEPT ![c] = "idle"]
    /\ reply' = [reply EXCEPT ![c] = answer]

\* A trigger fires.  No new ones come once the HTTP server, the watchdog and
\* the scheduler are stopped; calls already made go on until the process ends.
Call(c) ==
    /\ main \in {"serving", "closing"}
    /\ caller[c] = "idle"
    /\ caller' = [caller EXCEPT ![c] = "called"]
    /\ reply' = [reply EXCEPT ![c] = "none"]
    /\ UNCHANGED <<hasSlaves, queue, accepted, loopVars, storeVars, main, fate>>

\* The read uses the caller's context, never the dispatcher's once that is
\* cancelled: it fails with the database or with a client that hangs up.
PreFlight(c) ==
    /\ Alive
    /\ caller[c] = "called"
    /\ \/ /\ hasSlaves
          /\ caller' = [caller EXCEPT ![c] = "checked"]
          /\ UNCHANGED reply
       \/ ~hasSlaves /\ Return(c, "no_slaves")
       \/ "preflight" \in Faults /\ Return(c, "failed")
    /\ UNCHANGED <<hasSlaves, queue, accepted, loopVars, storeVars, main, fate>>

QueueFull == Len(queue) = 1

Enqueue(c) ==
    /\ Alive
    /\ caller[c] = "checked"
    /\ \/ /\ ~QueueFull
          /\ accepted < MaxRuns
          /\ accepted' = accepted + 1
          /\ queue' = Append(queue, accepted + 1)
          /\ Return(c, "accepted")
       \/ /\ QueueFull
          /\ Return(c, "busy")
          /\ UNCHANGED <<queue, accepted>>
    /\ UNCHANGED <<hasSlaves, loopVars, storeVars, main, fate>>

-----------------------------------------------------------------------------
(* The dispatch loop and, from "check" to "notify", Engine.Run.            *)

\* The select statement chooses freely when ctx is cancelled and a request waits.
ExitLoop ==
    /\ Alive /\ loop = "select" /\ Cancelled
    /\ loop' = "exited"
    /\ UNCHANGED <<hasSlaves, submitVars, held, result, current, last,
                   storeVars, main, fate>>

Dequeue ==
    /\ Alive /\ loop = "select" /\ queue # <<>>
    /\ held' = Head(queue)
    /\ queue' = Tail(queue)
    /\ loop' = "dequeued"
    /\ UNCHANGED <<hasSlaves, caller, reply, accepted, result, current, last,
                   storeVars, main, fate>>

SetCurrent ==
    /\ Alive /\ loop = "dequeued"
    /\ current' = held
    /\ loop' = "check"
    /\ UNCHANGED <<hasSlaves, submitVars, held, result, last, storeVars, main, fate>>

\* Run's own pre-flight: the table may have changed since Submit looked at it.
CheckSlaves ==
    /\ Alive /\ loop = "check"
    /\ \/ CtxCallFails("list") /\ result' = "error" /\ loop' = "publish"
       \/ CtxCallSucceeds /\ ~hasSlaves /\ result' = "no_slaves" /\ loop' = "publish"
       \/ CtxCallSucceeds /\ hasSlaves /\ loop' = "start" /\ UNCHANGED result
    /\ UNCHANGED <<hasSlaves, submitVars, held, current, last, storeVars, main, fate>>

StartRun ==
    /\ Alive /\ loop = "start"
    /\ \/ /\ CtxCallFails("start")
          /\ result' = "error" /\ loop' = "publish"
          /\ UNCHANGED rows
       \/ /\ CtxCallSucceeds
          /\ rows' = [rows EXCEPT ![held] = "running"]
          /\ loop' = "sync" /\ UNCHANGED result
    /\ UNCHANGED <<hasSlaves, submitVars, held, current, last, notices, main, fate>>

\* doSync returns; it may take for ever when an AdGuard Home server hangs.
DoSync ==
    /\ Alive /\ loop = "sync"
    /\ result' \in FinalStates
    /\ loop' = "finish"
    /\ UNCHANGED <<hasSlaves, submitVars, held, current, last, storeVars, main, fate>>

\* Fault: FinishRun's failure is ignored whatever doSync returned.
FinishRun_IgnoringFailure ==
    /\ Alive /\ loop = "finish"
    /\ \/ rows' = [rows EXCEPT ![held] = result]
       \/ BackgroundCallFails("finish") /\ UNCHANGED rows
    /\ loop' = "notify"
    /\ UNCHANGED <<hasSlaves, submitVars, held, result, current, last, notices, main, fate>>

\* Fault: the UPDATE closes every row that says "running".
FinishRun_ClosingAll ==
    /\ Alive /\ loop = "finish"
    /\ rows' = [r \in RunIds |-> IF rows[r] = "running" THEN result ELSE rows[r]]
    /\ loop' = "notify"
    /\ UNCHANGED <<hasSlaves, submitVars, held, result, current, last, notices, main, fate>>

\* When doSync failed, the outcome of FinishRun is ignored; otherwise its
\* failure ends Run with an error and without a notification.
FinishRun ==
    /\ Alive /\ loop = "finish"
    /\ \/ /\ rows' = [rows EXCEPT ![held] = result]
          /\ loop' = "notify" /\ UNCHANGED result
       \/ /\ BackgroundCallFails("finish") /\ result = "error"
          /\ loop' = "notify" /\ UNCHANGED <<rows, result>>
       \/ /\ BackgroundCallFails("finish") /\ result # "error"
          /\ result' = "error" /\ loop' = "publish" /\ UNCHANGED rows
    /\ UNCHANGED <<hasSlaves, submitVars, held, current, last, notices, main, fate>>

\* Fault: the notice carries the status Run passes along.
NoticeStatus_AsPassed == result
\* The status the row has when sendNotification reads it back.
NoticeStatus == rows[held]

SendNotification ==
    /\ Alive /\ loop = "notify"
    /\ \/ notices' = Append(notices, [run |-> held, status |-> NoticeStatus])
       \/ BackgroundCallFails("fetch") /\ UNCHANGED notices
    /\ loop' = "publish"
    /\ UNCHANGED <<hasSlaves, submitVars, held, result, current, last, rows, main, fate>>

\* What has become of a request when the loop lets go of it.
ReleasedFate(r) == CASE rows[r] = "absent"  -> "skipped"
                     [] rows[r] = "running" -> "unfinished"
                     [] OTHER               -> "open"

\* Run has returned: one critical section sets last and clears current.
PublishOutcome ==
    /\ last' = IF result = "no_slaves" THEN last
               ELSE [run |-> held, status |-> result]
    /\ current' = NoRun
    /\ fate' = [fate EXCEPT ![held] = ReleasedFate(held)]
    /\ held' = NoRun
    /\ result' = "none"
    /\ loop' = "select"
    /\ UNCHANGED <<hasSlaves, submitVars, storeVars, main>>

\* Fault: the loop continues on ErrNoSlaves and leaves current as it is.
Publish_Continuing ==
    /\ Alive /\ loop = "publish"
    /\ \/ result # "no_slaves" /\ PublishOutcome
       \/ /\ result = "no_slaves" /\ loop' = "select" /\ result' = "none"
          /\ UNCHANGED <<hasSlaves, submitVars, held, current, last, storeVars, main, fate>>
Publish == Alive /\ loop = "publish" /\ PublishOutcome

-----------------------------------------------------------------------------
(* The process: ordered shutdown, crash, restart.                          *)

\* SIGTERM, SIGINT or a failed listener: srv.Shutdown (at most 10 s), then
\* watchdog.Stop and scheduler.Stop.
Terminate ==
    /\ main = "serving"
    /\ main' = "closing"
    /\ UNCHANGED <<hasSlaves, submitVars, loopVars, storeVars, fate>>

\* Fault: main waits for dispatcherDone before it cancels ctx.
Cancel_AfterLoop ==
    /\ main = "closing" /\ loop = "exited"
    /\ main' = "cancelled"
    /\ UNCHANGED <<hasSlaves, submitVars, loopVars, storeVars, fate>>
Cancel ==
    /\ main = "closing"
    /\ main' = "cancelled"
    /\ UNCHANGED <<hasSlaves, submitVars, loopVars, storeVars, fate>>

\* What becomes of a request the process takes with it.
AbandonedFate(r) == CASE rows[r] = "absent"  -> "lost"
                      [] rows[r] = "running" -> "orphan"
                      [] OTHER               -> "open"

\* Everything but the database goes with the process.
ProcessGone ==
    /\ main' = "down"
    /\ caller' = [c \in Callers |-> "idle"]
    /\ reply' = [c \in Callers |-> "none"]
    /\ queue' = <<>>
    /\ loop' = "exited"
    /\ held' = NoRun
    /\ result' = "none"
    /\ current' = NoRun
    /\ last' = NoLast
    /\ fate' = [r \in RunIds |->
                   IF r = held \/ queue = <<r>> THEN AbandonedFate(r) ELSE fate[r]]
    /\ UNCHANGED <<hasSlaves, accepted, storeVars>>

\* Fault: main returns without waiting for dispatcherDone.
Exit_NotWaiting == Cancelled /\ ProcessGone
Exit == Cancelled /\ loop = "exited" /\ ProcessGone

Crash == Alive /\ ProcessGone

\* Nothing at start looks at rows left "running".
Restart ==
    /\ main = "down"
    /\ main' = "serving"
    /\ loop' = "select"
    /\ UNCHANGED <<hasSlaves, submitVars, held, result, current, last, storeVars, fate>>

\* An API call creates, deletes, enables, disables or promotes instances.
FleetChanges ==
    /\ Alive
    /\ hasSlaves' = ~hasSlaves
    /\ UNCHANGED <<submitVars, loopVars, storeVars, main, fate>>

-----------------------------------------------------------------------------
RunStep  == CheckSlaves \/ StartRun \/ FinishRun \/ SendNotification
LoopStep == ExitLoop \/ Dequeue \/ SetCurrent \/ RunStep \/ Publish

Next ==
    \/ \E c \in Callers : Call(c) \/ PreFlight(c) \/ Enqueue(c)
    \/ LoopStep
    \/ DoSync
    \/ Terminate \/ Cancel \/ Exit \/ Crash \/ Restart
    \/ FleetChanges

\* Goroutines that can run do run.  Requests to AdGuard Home carry ctx and no
\* timeout: doSync is sure to return only once ctx is cancelled.  Nothing here
\* bounds the notification: its context is context.Background().
Fairness ==
    /\ WF_vars(loop # "notify" /\ LoopStep)
    /\ WF_vars(Cancelled /\ DoSync)
    /\ WF_vars(Cancel)
    /\ WF_vars(Exit)

Spec == Init /\ [][Next]_vars /\ Fairness

\* What the world may be assumed to do.  Notification channels come back: the
\* clients for Green API and WhatsApp time out after 15 s; shoutrrr, called
\* without a context, must too.  AdGuard Home servers answer.
ChannelsReturn == WF_vars(SendNotification)
ServersAnswer  == WF_vars(DoSync)

-----------------------------------------------------------------------------
(* Properties.                                                             *)

\* Types; the channel in particular never holds more than one request.
TypeOK ==
    /\ hasSlaves \in BOOLEAN
    /\ caller \in [Callers -> CallerStates]
    /\ reply \in [Callers -> Replies]
    /\ queue = <<>> \/ \E r \in RunIds : queue = <<r>>
    /\ accepted \in 0 .. MaxRuns
    /\ loop \in LoopStates
    /\ held \in RunIds \union {NoRun}
    /\ result \in Results
    /\ current \in RunIds \union {NoRun}
    /\ last \in [run : RunIds \union {NoRun}, status : FinalStates \union {"none"}]
    /\ rows \in [RunIds -> FinalStates \union {"absent", "running"}]
    /\ notices \in Seq([run : RunIds, status : FinalStates \union {"running"}])
    /\ main \in MainStates
    /\ fate \in [RunIds -> Fates]

\* The status panel (GET /sync/status) never contradicts the history page: a
\* run shown as succeeded or partly failed has that status in sync_runs, one
\* shown as failed has failed there, never got a row, or has lost its
\* FinishRun; and the run in progress is newer than the last one.
StatusPanelAgreesWithHistory ==
    /\ last.status \in {"success", "partial_failure"} => rows[last.run] = last.status
    /\ last.status = "error" =>
           \/ rows[last.run] \in {"error", "absent"}
           \/ fate[last.run] = "unfinished"
    /\ current # NoRun => last.run < current

\* A row stands at "running" only while the dispatcher shows that run as
\* current, unless a crash cut it off or the database refused FinishRun: an
\* orderly shutdown in the middle of a sync leaves no such row behind.
RunningRowIsOwned ==
    \A r \in RunIds :
        rows[r] = "running" =>
            \/ r = current
            \/ fate[r] = "orphan"
            \/ fate[r] = "unfinished" /\ "finish" \in Faults

\* Every request answered with a run id waits in the queue, is in the hands of
\* the loop, has a final row, or is known to have been skipped or cut off: the
\* dispatcher forgets none while the process lives.
AcceptedIsAccountedFor ==
    \A r \in 1 .. accepted :
        \/ queue = <<r>>
        \/ r = held
        \/ rows[r] \in FinalStates
        \/ fate[r] # "open"

\* Notifications go out in the order of the runs, at most one for each, and
\* say what the history says then and ever after.
NoticesTellTheHistory ==
    \A i \in DOMAIN notices :
        /\ notices[i].status = rows[notices[i].run]
        /\ \A j \in 1 .. i - 1 : notices[j].run < notices[i].run

\* The loop may still take a request after the shutdown has begun, since its
\* select is free to; no run is opened in the history then.
NoRunOpensAfterCancel ==
    [][Cancelled => \A r \in RunIds : rows[r] = "absent" => rows'[r] = "absent"]_vars

\* An orderly exit costs no more than the request still waiting in the queue:
\* main waits for the run in flight.
GracefulExitFinishesTheRun ==
    [][Exit => \A r \in RunIds : fate'[r] # fate[r] => queue = <<r>>]_vars

\* The table sync_runs is a journal: see RunJournal.
Journal == INSTANCE RunJournal WITH MaxRuns <- MaxRuns, rows <- rows
HistoryIsAJournal == Journal!JournalSpec

\* Once a shutdown is asked for, the process ends, AdGuard Home servers that
\* never answer notwithstanding, if every notification channel comes back.
ShutdownCompletes == ChannelsReturn => (main = "closing" ~> main = "down")

\* An accepted request gets a final row, or is skipped or cut off: it never
\* waits for ever behind another run, nor for ever in the loop, if servers
\* answer and channels come back.
AcceptedIsSettled ==
    ChannelsReturn /\ ServersAnswer => \A r \in RunIds :
        queue = <<r>> ~> rows[r] \in FinalStates \/ fate[r] # "open"
=============================================================================
