------------------------------ MODULE Watchdog ------------------------------
(***************************************************************************)
(* The file watchdog (internal/sync/watchdog.go), the handler that changes *)
(* its settings (UpdateWatchdog in internal/api/handlers/settings.go) and  *)
(* what main does with it at start and at shutdown.  Each Start makes a    *)
(* watch: an fsnotify watcher on the directory, a goroutine and a pair of  *)
(* channels.  Handlers run side by side; the mutex covers the fields, not  *)
(* the whole of Start or Stop.                                             *)
(***************************************************************************)
EXTENDS Naturals, FiniteSets

CONSTANTS
    Handlers,      \* requests PUT /settings/watchdog in progress at once
    Dirs, Names,   \* directories, and names of files in them
    MaxWatches,    \* bound: watches there may be at once
    MaxChanges     \* bound: changes of files between two starts

Main     == "main"
Procs    == Handlers \cup {Main}
Watches  == 1 .. MaxWatches
NoWatch  == 0
NoPath   == <<"", "">>
Nothing  == [enabled |-> FALSE, path |-> NoPath]
Paths    == Dirs \X Names
Base(p)  == IF p = NoPath THEN "." ELSE p[2]     \* filepath.Base
Settings == {s \in [enabled : BOOLEAN, path : Paths \cup {NoPath}] :
                s.enabled => s.path # NoPath}

ASSUME NamesAssumption ==
           Main \notin Handlers /\ "." \notin Names /\ "" \notin Dirs \cup Names
ASSUME LimitsAssumption == MaxWatches \in Nat \ {0} /\ MaxChanges \in Nat

VARIABLES
    stored,       \* watchdog_enabled and watchdog_path in app_config
    path,         \* Watchdog.path
    cur,          \* the watch whose watcher, stop and stopped the fields hold
    of,           \* of[k]: the path watch k was started for
    place,        \* place[k]: where watch k is; "none" when there is no such watch
    name,         \* name[k]: the file name its goroutine compares events with
    stopClosed,   \* stopClosed[k]: close(stop) has been called
    events,       \* events[k]: names in the events its goroutine has yet to receive
    armed,        \* armed[k]: its debounce timer runs
    firing,       \* callbacks of debounce timers that have yet to call Submit
    pc, req,      \* where each process is, and the request it works on
    held,         \* held[p]: the watch process p is stopping or has made
    changes,      \* number of changes so far
    unreported,   \* history variable: the watched file changed, no Submit since
    overlap,      \* history variable: two processes were changing the watch at once
    failed        \* history variable: the last change to the watch failed halfway

fields     == <<path, cur>>
watchVars  == <<of, place, name, stopClosed, events, armed>>
procVars   == <<pc, req, held>>
history    == <<unreported, overlap, failed>>
vars       == <<stored, fields, watchVars, firing, procVars, changes, history>>

Places     == {"none", "added", "spawned", "running", "ended"}
Live       == {k \in Watches : place[k] \in {"spawned", "running"}}
BeingStopped == {held[p] : p \in {q \in Procs : pc[q] \in {"close", "wait"}}}
StopPoints == {"stop", "close", "wait"}
Points     == StopPoints \cup {"idle", "enabled", "path", "add", "install", "done"}

Goto(p, point) == pc' = [pc EXCEPT ![p] = point]

\* A request ends, and its locals are gone.
Reply(p, success) ==
    /\ pc' = [pc EXCEPT ![p] = IF p = Main THEN "done" ELSE "idle"]
    /\ req' = [req EXCEPT ![p] = Nothing]
    /\ held' = [held EXCEPT ![p] = NoWatch]
    /\ failed' = ~success

-----------------------------------------------------------------------------
(* The process.                                                            *)

Init ==
    /\ stored = Nothing
    /\ path = NoPath /\ cur = NoWatch
    /\ of = [k \in Watches |-> NoPath]
    /\ place = [k \in Watches |-> "none"]
    /\ name = [k \in Watches |-> "."]
    /\ stopClosed = [k \in Watches |-> FALSE]
    /\ events = [k \in Watches |-> {}]
    /\ armed = [k \in Watches |-> FALSE]
    /\ firing = 0
    /\ pc = [p \in Procs |-> "idle"]
    /\ req = [p \in Procs |-> Nothing]
    /\ held = [p \in Procs |-> NoWatch]
    /\ changes = 0
    /\ unreported = FALSE /\ overlap = FALSE /\ failed = FALSE

\* The process ends or dies at any point, and main starts the watch that is
\* stored, if any is and its directory can be watched.
Restart ==
    /\ cur' \in IF stored.enabled /\ stored.path # NoPath THEN {NoWatch, 1} ELSE {NoWatch}
    /\ path' = IF cur' = NoWatch THEN NoPath ELSE stored.path
    /\ of' = [k \in Watches |-> IF k = cur' THEN stored.path ELSE NoPath]
    /\ place' = [k \in Watches |-> IF k = cur' THEN "spawned" ELSE "none"]
    /\ name' = [k \in Watches |-> "."]
    /\ stopClosed' = [k \in Watches |-> FALSE]
    /\ events' = [k \in Watches |-> {}]
    /\ armed' = [k \in Watches |-> FALSE]
    /\ firing' = 0
    /\ pc' = [p \in Procs |-> "idle"]
    /\ req' = [p \in Procs |-> Nothing]
    /\ held' = [p \in Procs |-> NoWatch]
    /\ changes' = 0
    /\ unreported' = FALSE /\ overlap' = FALSE
    /\ failed' = (cur' = NoWatch /\ stored.enabled)
    /\ UNCHANGED stored

\* A signal: main waits for the handlers for 10 s at most, then calls Stop.
Terminate ==
    /\ pc[Main] = "idle"
    /\ Goto(Main, "stop")
    /\ overlap' = (overlap \/ \E h \in Handlers : pc[h] # "idle")
    /\ UNCHANGED <<stored, fields, watchVars, firing, req, held, changes, unreported, failed>>

-----------------------------------------------------------------------------
(* UpdateWatchdog: store the settings, one key after the other, then apply *)
(* them.                                                                   *)

Request(h) ==
    /\ pc[h] = "idle" /\ pc[Main] = "idle"
    /\ \E s \in Settings : req' = [req EXCEPT ![h] = s]
    /\ Goto(h, "enabled")
    /\ overlap' = (overlap \/ \E q \in Handlers : pc[q] # "idle")
    /\ UNCHANGED <<stored, fields, watchVars, firing, held, changes, unreported, failed>>

\* A write that fails ends the request.
Save(h, from, to, new) ==
    /\ pc[h] = from
    /\ \/ stored' = new /\ Goto(h, to) /\ UNCHANGED <<req, held, failed>>
       \/ UNCHANGED stored /\ Reply(h, FALSE)
    /\ UNCHANGED <<fields, watchVars, firing, changes, unreported, overlap>>

SaveEnabled(h) == Save(h, "enabled", "path", [stored EXCEPT !.enabled = req[h].enabled])
\* Fault: Start does not call Stop first.
SavePath_NotStopping(h) ==
    Save(h, "path", IF req[h].enabled THEN "add" ELSE "stop",
         [stored EXCEPT !.path = req[h].path])
SavePath(h) == Save(h, "path", "stop", [stored EXCEPT !.path = req[h].path])

-----------------------------------------------------------------------------
(* Stop.                                                                   *)

\* Fault: a path is all it takes to go on to Start.
AfterStop_ByPath(p) ==
    IF req[p].path # NoPath
    THEN Goto(p, "add") /\ held' = [held EXCEPT ![p] = NoWatch] /\ UNCHANGED <<req, failed>>
    ELSE Reply(p, TRUE)

\* Stop was called by Start, or has been all there is to do.
AfterStop(p) ==
    IF req[p].enabled
    THEN Goto(p, "add") /\ held' = [held EXCEPT ![p] = NoWatch] /\ UNCHANGED <<req, failed>>
    ELSE Reply(p, TRUE)

StopWhatWasTaken(p) ==
    IF cur = NoWatch THEN AfterStop(p)
    ELSE Goto(p, "close") /\ held' = [held EXCEPT ![p] = cur] /\ UNCHANGED <<req, failed>>

\* Faults: the fields are left as they are, or only the path is.
Clear_Nothing == UNCHANGED fields
Clear_KeepingPath == cur' = NoWatch /\ UNCHANGED path
Clear == cur' = NoWatch /\ path' = NoPath

\* The fields are taken and cleared under the mutex.
Take(p) ==
    /\ pc[p] = "stop"
    /\ StopWhatWasTaken(p)
    /\ Clear
    /\ unreported' = FALSE
    /\ UNCHANGED <<stored, watchVars, firing, changes, overlap>>

CloseStop(p) ==
    /\ pc[p] = "close"
    /\ stopClosed' = [stopClosed EXCEPT ![held[p]] = TRUE]
    /\ Goto(p, "wait")
    /\ UNCHANGED <<stored, fields, of, place, name, events, armed, firing, req, held,
                   changes, history>>

\* <-stopped, then watcher.Close(): of the watch nothing is left.
AwaitStopped(p) ==
    /\ pc[p] = "wait"
    /\ place[held[p]] = "ended"
    /\ of' = [of EXCEPT ![held[p]] = NoPath]
    /\ place' = [place EXCEPT ![held[p]] = "none"]
    /\ name' = [name EXCEPT ![held[p]] = "."]
    /\ stopClosed' = [stopClosed EXCEPT ![held[p]] = FALSE]
    /\ events' = [events EXCEPT ![held[p]] = {}]
    /\ AfterStop(p)
    /\ UNCHANGED <<stored, fields, armed, firing, changes, unreported, overlap>>

-----------------------------------------------------------------------------
(* Start, after Stop.                                                      *)

\* Fault: the goroutine is started before the fields are set.
Made_Running == "spawned"
Made == "added"

\* NewWatcher and Add, which fail when the directory cannot be watched.
AddWatch(h) ==
    /\ pc[h] = "add"
    /\ \/ \E k \in Watches :
              /\ place[k] = "none"
              /\ of' = [of EXCEPT ![k] = req[h].path]
              /\ place' = [place EXCEPT ![k] = Made]
              /\ held' = [held EXCEPT ![h] = k]
              /\ Goto(h, "install")
              /\ UNCHANGED <<req, failed>>
       \/ Reply(h, FALSE) /\ UNCHANGED <<of, place>>
    /\ UNCHANGED <<stored, fields, name, stopClosed, events, armed, firing, changes,
                   unreported, overlap>>

\* The fields are set under the mutex, whatever they hold; then go w.run.
Install(h) ==
    /\ pc[h] = "install"
    /\ cur' = held[h]
    /\ path' = req[h].path
    /\ place' = [place EXCEPT ![held[h]] = IF @ = Made THEN "spawned" ELSE @]
    /\ unreported' = FALSE
    /\ Reply(h, TRUE)
    /\ UNCHANGED <<stored, of, name, stopClosed, events, armed, firing, changes, overlap>>

-----------------------------------------------------------------------------
(* run, the goroutine of a watch, and its debounce timer.                  *)

\* Fault: Stop keeps the mutex until the goroutine has ended.
LockHeld_Stopping == {"close", "wait"}
LockHeld == {}     \* points at which a process has the mutex: none, between two steps

ReadName(k) ==
    /\ place[k] = "spawned"
    /\ \A p \in Procs : pc[p] \notin LockHeld
    /\ name' = [name EXCEPT ![k] = Base(path)]
    /\ place' = [place EXCEPT ![k] = "running"]
    /\ UNCHANGED <<stored, fields, of, stopClosed, events, armed, firing, procVars,
                   changes, history>>

\* Fault: an event that finds the timer running stops it and does not set it again.
Hear_Stopping(k, n) == armed' = [armed EXCEPT ![k] = IF n = name[k] THEN ~@ ELSE @]
\* An event of the file sets the timer, or sets it again; others are ignored.
Hear(k, n) == armed' = [armed EXCEPT ![k] = @ \/ n = name[k]]

HandleEvent(k) ==
    /\ place[k] = "running"
    /\ \E n \in events[k] : Hear(k, n) /\ events' = [events EXCEPT ![k] = @ \ {n}]
    /\ UNCHANGED <<stored, fields, of, place, name, stopClosed, firing, procVars,
                   changes, history>>

\* Fault: the timer is left running.
StopTimer_Not(k) == UNCHANGED armed
StopTimer(k) == armed' = [armed EXCEPT ![k] = FALSE]

StopRun(k) ==
    /\ place[k] = "running"
    /\ stopClosed[k]
    /\ StopTimer(k)
    /\ place' = [place EXCEPT ![k] = "ended"]
    /\ UNCHANGED <<stored, fields, of, name, stopClosed, events, firing, procVars,
                   changes, history>>

\* The two seconds are over: the callback starts, and Stop cannot call it back.
Fire(k) ==
    /\ armed[k]
    /\ armed' = [armed EXCEPT ![k] = FALSE]
    /\ firing' = firing + 1
    /\ UNCHANGED <<stored, fields, of, place, name, stopClosed, events, procVars,
                   changes, history>>

Submit ==
    /\ firing > 0
    /\ firing' = firing - 1
    /\ unreported' = FALSE
    /\ UNCHANGED <<stored, fields, watchVars, procVars, changes, overlap, failed>>

-----------------------------------------------------------------------------
\* AdGuard Home replaces file p: whoever watches the directory has an event.
Change(p) ==
    /\ changes < MaxChanges
    /\ changes' = changes + 1
    /\ events' = [k \in Watches |->
                     IF place[k] # "none" /\ of[k][1] = p[1] THEN events[k] \cup {p[2]}
                                                            ELSE events[k]]
    /\ unreported' = (unreported \/ path = p)
    /\ UNCHANGED <<stored, fields, of, place, name, stopClosed, armed, firing, procVars,
                   overlap, failed>>

StopStep(p)    == Take(p) \/ CloseStop(p) \/ AwaitStopped(p)
HandlerStep(h) == SaveEnabled(h) \/ SavePath(h) \/ AddWatch(h) \/ Install(h)
WatchStep(k)   == ReadName(k) \/ HandleEvent(k) \/ StopRun(k) \/ Fire(k)

Next ==
    \/ Terminate \/ Restart \/ Submit
    \/ \E h \in Handlers : Request(h) \/ HandlerStep(h)
    \/ \E p \in Procs : StopStep(p)
    \/ \E k \in Watches : WatchStep(k)
    \/ \E p \in Paths : Change(p)

\* Goroutines run, select does not pass over the stop channel for ever, and the
\* file rests for two seconds now and then.
Fairness ==
    /\ \A p \in Procs : WF_vars(StopStep(p))
    /\ \A k \in Watches : /\ WF_vars(ReadName(k)) /\ WF_vars(HandleEvent(k))
                          /\ WF_vars(StopRun(k)) /\ WF_vars(Fire(k))
    /\ WF_vars(Submit)

Spec == Init /\ [][Next]_vars /\ Fairness

-----------------------------------------------------------------------------
(* Properties.                                                             *)

HistoryTypeOK == unreported \in BOOLEAN /\ overlap \in BOOLEAN /\ failed \in BOOLEAN

\* Types; the fields change together: a path is watched exactly when they
\* hold a watch, and it is the path that watch was started for.
WatchdogTypeOK ==
    /\ stored \in [enabled : BOOLEAN, path : Paths \cup {NoPath}]
    /\ path \in Paths \cup {NoPath}
    /\ cur \in Watches \cup {NoWatch}
    /\ of \in [Watches -> Paths \cup {NoPath}]
    /\ place \in [Watches -> Places]
    /\ name \in [Watches -> Names \cup {"."}]
    /\ stopClosed \in [Watches -> BOOLEAN]
    /\ events \in [Watches -> SUBSET Names]
    /\ armed \in [Watches -> BOOLEAN]
    /\ firing \in Nat
    /\ pc \in [Procs -> Points]
    /\ req \in [Procs -> [enabled : BOOLEAN, path : Paths \cup {NoPath}]]
    /\ held \in [Procs -> Watches \cup {NoWatch}]
    /\ changes \in 0 .. MaxChanges
    /\ HistoryTypeOK
    /\ IF cur = NoWatch THEN path = NoPath ELSE path = of[cur] /\ path \in Paths

\* Whatever requests and shutdown do at once, close(stop) meets an open
\* channel of a goroutine that is there to see it: to close one twice panics.
StopChannelClosedOnce ==
    \A p \in Procs : pc[p] = "close" => held[p] \in Live /\ ~stopClosed[held[p]]

\* Unless updates overlapped, a goroutine that watches is the one the fields
\* know, or a Stop has it in hand: there is never a second one beside it.
OneWatch == ~overlap => Live \subseteq {cur} \cup BeingStopped

\* The watch in force compares events with the file it was asked to watch,
\* although its goroutine reads the name from a field others overwrite.
ListensToItsFile == cur # NoWatch /\ place[cur] = "running" => name[cur] = Base(of[cur])

\* When no update is in progress, none overlapped and the last one succeeded,
\* what runs is what is stored, and so what a restart would bring back.
SettingsInForce ==
    (\A p \in Procs : pc[p] = "idle") /\ ~overlap /\ ~failed =>
        path = IF stored.enabled THEN stored.path ELSE NoPath

\* The three together: there is one watch, it is the one that is stored, and it
\* looks at the right file (Start, Stop, run, UpdateWatchdog).
WatchInForce == OneWatch /\ ListensToItsFile /\ SettingsInForce

\* Once the goroutine of a watch has ended, none of its timers can go off.
EndedWatchIsSilent == \A k \in Watches : armed[k] => place[k] = "running"

\* Stop returns: a shutdown gets past the watchdog, and no request hangs in
\* Stop, whoever holds or wants the mutex meanwhile.
StopReturns == \A p \in Procs : pc[p] \in StopPoints ~> pc[p] \notin StopPoints

\* A change of the watched file is followed by a call of Submit, unless the
\* watch is stopped or replaced first.
ChangeIsReported == unreported ~> ~unreported

-----------------------------------------------------------------------------
\* "Any existing watch is stopped first" (watchdog.go:37), so that there is
\* one goroutine at most that nobody is stopping.
AnyExistingWatchIsStopped == Cardinality(Live \ BeingStopped) <= 1

=============================================================================
