-------------------------- MODULE Watchdog_proofs --------------------------
(***************************************************************************)
(* Theorems about Watchdog: for any number of requests at once, any files  *)
(* and directories.                                                        *)
(***************************************************************************)
EXTENDS Watchdog, TLAPS

Holds(p) == pc[p] \in {"close", "wait", "install"}

\* Who may ask for what: only a request that switches the watch on gets to Start.
RequestInv ==
    /\ pc[Main] \in StopPoints \cup {"idle", "done"}
    /\ \A p \in Procs : req[p].enabled => p # Main /\ req[p].path \in Paths
    /\ \A p \in Procs : pc[p] \in {"add", "install"} => req[p].enabled

\* Every watch has one part at a time: in force, being made, or being stopped
\* by one process.
RoleInv ==
    /\ cur # NoWatch => cur \in Live /\ ~stopClosed[cur]
    /\ \A p \in Procs :
          /\ Holds(p) => held[p] \in Watches /\ held[p] # cur
          /\ pc[p] = "install" => place[held[p]] = "added" /\ of[held[p]] = req[p].path
          /\ pc[p] = "close" => held[p] \in Live /\ ~stopClosed[held[p]]
          /\ pc[p] = "wait" => place[held[p]] \in {"spawned", "running", "ended"}
    /\ \A p, q \in Procs : Holds(p) /\ Holds(q) /\ held[p] = held[q] => p = q

\* What a goroutine and its timer may rely on.
WatchInv ==
    /\ \A k \in Watches : place[k] \in {"none", "added"} => ~stopClosed[k]
    /\ EndedWatchIsSilent
    /\ ListensToItsFile

\* As long as updates do not overlap, one process at most is at work, and the
\* watch, the fields and what is stored follow its request.
Alone ==
    /\ \A p, q \in Procs : pc[p] # "idle" /\ pc[q] # "idle" => p = q
    /\ Live \subseteq {cur} \cup BeingStopped
    /\ \A p \in Procs : pc[p] \in {"close", "wait", "add", "install"} => cur = NoWatch
    /\ \A h \in Handlers : pc[h] = "path" => stored.enabled = req[h].enabled
    /\ \A h \in Handlers :
          pc[h] \in {"stop", "close", "wait", "add", "install"} => stored = req[h]
    /\ (\A p \in Procs : pc[p] = "idle") /\ ~failed =>
          path = IF stored.enabled THEN stored.path ELSE NoPath
AloneInv == ~overlap => Alone

WatchdogInv == WatchdogTypeOK /\ RequestInv /\ RoleInv /\ WatchInv /\ AloneInv

LEMMA ConstantFacts ==
    /\ NoWatch \notin Watches /\ 1 \in Watches
    /\ NoPath \notin Paths
    /\ Main \in Procs /\ Main \notin Handlers
    /\ Handlers \subseteq Procs /\ Procs = Handlers \cup {Main}
    /\ Base(NoPath) = "." /\ \A p \in Paths : Base(p) = p[2] /\ p[2] \in Names
<1>1. NoWatch \notin Watches /\ 1 \in Watches
  BY LimitsAssumption DEF NoWatch, Watches
<1>2. NoPath \notin Paths /\ \A p \in Paths : p[2] \in Names
  BY NamesAssumption DEF NoPath, Paths
<1>3. Base(NoPath) = "." /\ \A p \in Paths : Base(p) = p[2]
  BY <1>2 DEF Base
<1> QED
  BY <1>1, <1>2, <1>3, NamesAssumption DEF Procs

\* The history variables are Boolean.
LEMMA HistoryStep ==
    ASSUME HistoryTypeOK, [Next]_vars
    PROVE  HistoryTypeOK'
<1> USE DEF HistoryTypeOK, history
<1>1. ASSUME Terminate PROVE HistoryTypeOK'
  BY <1>1 DEF Terminate
<1>2. ASSUME Restart PROVE HistoryTypeOK'
  BY <1>2 DEF Restart
<1>3. ASSUME Submit PROVE HistoryTypeOK'
  BY <1>3 DEF Submit
<1>4. ASSUME NEW h \in Handlers, Request(h) PROVE HistoryTypeOK'
  BY <1>4 DEF Request
<1>5. ASSUME NEW h \in Handlers, SaveEnabled(h) PROVE HistoryTypeOK'
  BY <1>5 DEF SaveEnabled, Save, Reply
<1>6. ASSUME NEW h \in Handlers, SavePath(h) PROVE HistoryTypeOK'
  BY <1>6 DEF SavePath, Save, Reply
<1>7. ASSUME NEW h \in Handlers, AddWatch(h) PROVE HistoryTypeOK'
  BY <1>7 DEF AddWatch, Reply
<1>8. ASSUME NEW h \in Handlers, Install(h) PROVE HistoryTypeOK'
  BY <1>8 DEF Install, Made, Reply
<1>9. ASSUME NEW p \in Procs, Take(p) PROVE HistoryTypeOK'
  BY <1>9 DEF Take, Clear, StopWhatWasTaken, AfterStop, Reply
<1>10. ASSUME NEW p \in Procs, CloseStop(p) PROVE HistoryTypeOK'
  BY <1>10 DEF CloseStop
<1>11. ASSUME NEW p \in Procs, AwaitStopped(p) PROVE HistoryTypeOK'
  BY <1>11 DEF AwaitStopped, AfterStop, Reply
<1>12. ASSUME NEW k \in Watches, ReadName(k) PROVE HistoryTypeOK'
  BY <1>12 DEF ReadName
<1>13. ASSUME NEW k \in Watches, HandleEvent(k) PROVE HistoryTypeOK'
  BY <1>13 DEF HandleEvent, Hear
<1>14. ASSUME NEW k \in Watches, StopRun(k) PROVE HistoryTypeOK'
  BY <1>14 DEF StopRun, StopTimer
<1>15. ASSUME NEW k \in Watches, Fire(k) PROVE HistoryTypeOK'
  BY <1>15 DEF Fire
<1>16. ASSUME NEW f \in Paths, Change(f) PROVE HistoryTypeOK'
  BY <1>16 DEF Change
<1>17. CASE UNCHANGED vars
  BY <1>17 DEF vars
<1> QED
  BY <1>1, <1>2, <1>3, <1>4, <1>5, <1>6, <1>7, <1>8, <1>9, <1>10, <1>11, <1>12, <1>13,
     <1>14, <1>15, <1>16, <1>17 DEF Next, HandlerStep, StopStep, WatchStep

\* The locals of a process keep their types when it goes on and when it ends.
ProcTypeOK ==
    /\ pc \in [Procs -> Points]
    /\ req \in [Procs -> [enabled : BOOLEAN, path : Paths \cup {NoPath}]]
    /\ held \in [Procs -> Watches \cup {NoWatch}]

LEMMA ReplyTypes ==
    ASSUME ProcTypeOK, NEW p \in Procs, NEW success, Reply(p, success)
    PROVE  ProcTypeOK'
  BY DEF ProcTypeOK, Reply, Nothing, Points

LEMMA AfterStopTypes ==
    ASSUME ProcTypeOK, NEW p \in Procs, AfterStop(p)
    PROVE  ProcTypeOK'
<1>1. CASE req[p].enabled
  BY <1>1 DEF ProcTypeOK, AfterStop, Goto, Points
<1>2. CASE ~req[p].enabled
  BY <1>2, ReplyTypes DEF AfterStop
<1> QED
  BY <1>1, <1>2

LEMMA SaveTypes ==
    ASSUME WatchdogTypeOK, NEW h \in Handlers, NEW from, NEW to \in Points,
           NEW new \in [enabled : BOOLEAN, path : Paths \cup {NoPath}], Save(h, from, to, new)
    PROVE  WatchdogTypeOK'
<1>1. HistoryTypeOK'
  <2> USE DEF WatchdogTypeOK, HistoryTypeOK, Save
  <2>1. CASE Reply(h, FALSE)
    BY <2>1 DEF Reply
  <2>2. CASE UNCHANGED failed
    BY <2>2
  <2> QED
    BY <2>1, <2>2
<1>2. ProcTypeOK
  BY DEF WatchdogTypeOK, ProcTypeOK
<1>3. ProcTypeOK' /\ stored' \in [enabled : BOOLEAN, path : Paths \cup {NoPath}]
  <2>1. CASE Reply(h, FALSE) /\ UNCHANGED stored
    BY <1>2, <2>1, ReplyTypes, ConstantFacts DEF WatchdogTypeOK
  <2>2. CASE stored' = new /\ Goto(h, to) /\ UNCHANGED <<req, held>>
    BY <1>2, <2>2 DEF Goto, ProcTypeOK
  <2> QED
    BY <2>1, <2>2 DEF Save
<1> QED
  BY <1>1, <1>3 DEF Save, WatchdogTypeOK, ProcTypeOK, fields, watchVars

LEMMA SettingsTypes ==
    ASSUME WatchdogTypeOK, NEW h \in Handlers, SaveEnabled(h) \/ SavePath(h)
    PROVE  WatchdogTypeOK'
<1>1. /\ [stored EXCEPT !.enabled = req[h].enabled] \in [enabled : BOOLEAN, path : Paths \cup {NoPath}]
      /\ [stored EXCEPT !.path = req[h].path] \in [enabled : BOOLEAN, path : Paths \cup {NoPath}]
  BY ConstantFacts DEF WatchdogTypeOK
<1>2. "path" \in Points /\ "stop" \in Points
  BY DEF Points, StopPoints
<1>3. CASE SaveEnabled(h)
  <2>1. Save(h, "enabled", "path", [stored EXCEPT !.enabled = req[h].enabled])
    BY <1>3 DEF SaveEnabled
  <2> QED
    BY <1>1, <1>2, <2>1, SaveTypes
<1>4. CASE SavePath(h)
  <2>1. Save(h, "path", "stop", [stored EXCEPT !.path = req[h].path])
    BY <1>4 DEF SavePath
  <2> QED
    BY <1>1, <1>2, <2>1, SaveTypes
<1> QED
  BY <1>3, <1>4

\* Types are kept.
LEMMA TypeStep ==
    ASSUME WatchdogTypeOK, RequestInv, RoleInv, [Next]_vars
    PROVE  WatchdogTypeOK'
<1>0. HistoryTypeOK'
  BY HistoryStep DEF WatchdogTypeOK
<1> USE ConstantFacts DEF WatchdogTypeOK, Settings, Nothing, Places, Points,
   StopPoints, fields, watchVars, procVars, history, RequestInv, RoleInv, Holds
<1>1. ASSUME Terminate PROVE WatchdogTypeOK'
  BY <1>0, <1>1 DEF Terminate, Goto
<1>2. ASSUME Restart PROVE WatchdogTypeOK'
  <2>1. cur' \in Watches \cup {NoWatch} /\ (cur' # NoWatch => stored.path \in Paths)
    BY <1>2 DEF Restart
  <2> QED
    BY <1>0, <1>2, <2>1, LimitsAssumption DEF Restart
<1>3. ASSUME Submit PROVE WatchdogTypeOK'
  BY <1>0, <1>3 DEF Submit
<1>4. ASSUME NEW h \in Handlers, Request(h) PROVE WatchdogTypeOK'
  BY <1>0, <1>4 DEF Request, Goto, Settings
<1>5. ASSUME NEW h \in Handlers, SaveEnabled(h) PROVE WatchdogTypeOK'
  BY <1>5, SettingsTypes
<1>6. ASSUME NEW h \in Handlers, SavePath(h) PROVE WatchdogTypeOK'
  BY <1>6, SettingsTypes
<1>7. ASSUME NEW h \in Handlers, AddWatch(h) PROVE WatchdogTypeOK'
  <2>1. ProcTypeOK
    BY DEF ProcTypeOK
  <2>2. CASE Goto(h, "install")
    BY <1>0, <1>7, <2>2 DEF AddWatch, Made, Goto, Reply, Live
  <2>3. CASE Reply(h, FALSE) /\ UNCHANGED <<of, place>>
    BY <1>0, <1>7, <2>1, <2>3, ReplyTypes DEF AddWatch, ProcTypeOK
  <2> QED
    BY <1>7, <2>2, <2>3 DEF AddWatch
<1>8. ASSUME NEW h \in Handlers, Install(h) PROVE WatchdogTypeOK'
  BY <1>0, <1>8 DEF Install, Made, Reply
<1>9. ASSUME NEW p \in Procs, Take(p) PROVE WatchdogTypeOK'
  <2>1. ProcTypeOK'
    <3>1. CASE cur = NoWatch
      BY <1>9, <3>1, AfterStopTypes DEF Take, Clear, StopWhatWasTaken, ProcTypeOK
    <3>2. CASE cur # NoWatch
      BY <1>9, <3>2 DEF Take, Clear, StopWhatWasTaken, Goto, ProcTypeOK
    <3> QED
      BY <3>1, <3>2
  <2> QED
    BY <1>0, <1>9, <2>1 DEF Take, Clear, ProcTypeOK
<1>10. ASSUME NEW p \in Procs, CloseStop(p) PROVE WatchdogTypeOK'
  BY <1>0, <1>10 DEF CloseStop, Goto
<1>11. ASSUME NEW p \in Procs, AwaitStopped(p) PROVE WatchdogTypeOK'
  <2>1. ProcTypeOK'
    BY <1>11, AfterStopTypes DEF AwaitStopped, ProcTypeOK
  <2>2. held[p] \in Watches /\ held[p] # cur
    BY <1>11 DEF AwaitStopped
  <2> QED
    BY <1>0, <1>11, <2>1, <2>2 DEF AwaitStopped, ProcTypeOK
<1>12. ASSUME NEW k \in Watches, ReadName(k) PROVE WatchdogTypeOK'
  BY <1>0, <1>12 DEF ReadName
<1>13. ASSUME NEW k \in Watches, HandleEvent(k) PROVE WatchdogTypeOK'
  BY <1>0, <1>13 DEF HandleEvent, Hear
<1>14. ASSUME NEW k \in Watches, StopRun(k) PROVE WatchdogTypeOK'
  BY <1>0, <1>14 DEF StopRun, StopTimer
<1>15. ASSUME NEW k \in Watches, Fire(k) PROVE WatchdogTypeOK'
  BY <1>0, <1>15 DEF Fire
<1>16. ASSUME NEW f \in Paths, Change(f) PROVE WatchdogTypeOK'
  <2>1. changes' \in 0 .. MaxChanges
    BY <1>16, LimitsAssumption DEF Change
  <2>2. f[2] \in Names
    BY DEF Paths
  <2>3. events' \in [Watches -> SUBSET Names]
    BY <1>16, <2>2 DEF Change
  <2> QED
    BY <1>0, <1>16, <2>1, <2>3 DEF Change
<1>17. CASE UNCHANGED vars
  BY <1>0, <1>17 DEF vars
<1> QED
  BY <1>1, <1>2, <1>3, <1>4, <1>5, <1>6, <1>7, <1>8, <1>9, <1>10, <1>11, <1>12, <1>13,
     <1>14, <1>15, <1>16, <1>17 DEF Next, HandlerStep, StopStep, WatchStep

\* Requests are kept apart from main.
LEMMA RequestStep ==
    ASSUME WatchdogTypeOK, RequestInv, [Next]_vars
    PROVE  RequestInv'
<1> USE ConstantFacts DEF WatchdogTypeOK, Settings, Nothing, Places, Points,
   StopPoints, fields, watchVars, procVars, history, RequestInv
<1>1. ASSUME Terminate PROVE RequestInv'
  BY <1>1 DEF Terminate, Goto
<1>2. ASSUME Restart PROVE RequestInv'
  BY <1>2 DEF Restart
<1>3. ASSUME Submit PROVE RequestInv'
  BY <1>3 DEF Submit
<1>4. ASSUME NEW h \in Handlers, Request(h) PROVE RequestInv'
  BY <1>4 DEF Request, Goto, Settings
<1>5. ASSUME NEW h \in Handlers, SaveEnabled(h) PROVE RequestInv'
  BY <1>5 DEF SaveEnabled, Save, Goto, Reply
<1>6. ASSUME NEW h \in Handlers, SavePath(h) PROVE RequestInv'
  BY <1>6 DEF SavePath, Save, Goto, Reply
<1>7. ASSUME NEW h \in Handlers, AddWatch(h) PROVE RequestInv'
  BY <1>7 DEF AddWatch, Made, Goto, Reply
<1>8. ASSUME NEW h \in Handlers, Install(h) PROVE RequestInv'
  BY <1>8 DEF Install, Made, Reply
<1>9. ASSUME NEW p \in Procs, Take(p) PROVE RequestInv'
  BY <1>9 DEF Take, Clear, StopWhatWasTaken, AfterStop, Goto, Reply
<1>10. ASSUME NEW p \in Procs, CloseStop(p) PROVE RequestInv'
  BY <1>10 DEF CloseStop, Goto
<1>11. ASSUME NEW p \in Procs, AwaitStopped(p) PROVE RequestInv'
  BY <1>11 DEF AwaitStopped, AfterStop, Goto, Reply
<1>12. ASSUME NEW k \in Watches, ReadName(k) PROVE RequestInv'
  BY <1>12 DEF ReadName
<1>13. ASSUME NEW k \in Watches, HandleEvent(k) PROVE RequestInv'
  BY <1>13 DEF HandleEvent, Hear
<1>14. ASSUME NEW k \in Watches, StopRun(k) PROVE RequestInv'
  BY <1>14 DEF StopRun, StopTimer
<1>15. ASSUME NEW k \in Watches, Fire(k) PROVE RequestInv'
  BY <1>15 DEF Fire
<1>16. ASSUME NEW f \in Paths, Change(f) PROVE RequestInv'
  BY <1>16 DEF Change
<1>17. CASE UNCHANGED vars
  BY <1>17 DEF vars
<1> QED
  BY <1>1, <1>2, <1>3, <1>4, <1>5, <1>6, <1>7, <1>8, <1>9, <1>10, <1>11, <1>12, <1>13,
     <1>14, <1>15, <1>16, <1>17 DEF Next, HandlerStep, StopStep, WatchStep

\* No watch gets two parts.
LEMMA RoleStep ==
    ASSUME WatchdogTypeOK, RequestInv, RoleInv, WatchInv, [Next]_vars
    PROVE  RoleInv'
<1> USE ConstantFacts DEF WatchdogTypeOK, Settings, Nothing, Places, Points,
   StopPoints, fields, watchVars, procVars, history, RequestInv, RoleInv, WatchInv,
   Holds, Live
<1>1. ASSUME Terminate PROVE RoleInv'
  BY <1>1 DEF Terminate, Goto
<1>2. ASSUME Restart PROVE RoleInv'
  BY <1>2 DEF Restart
<1>3. ASSUME Submit PROVE RoleInv'
  BY <1>3 DEF Submit
<1>4. ASSUME NEW h \in Handlers, Request(h) PROVE RoleInv'
  BY <1>4 DEF Request, Goto, Settings
<1>5. ASSUME NEW h \in Handlers, SaveEnabled(h) PROVE RoleInv'
  BY <1>5 DEF SaveEnabled, Save, Goto, Reply
<1>6. ASSUME NEW h \in Handlers, SavePath(h) PROVE RoleInv'
  BY <1>6 DEF SavePath, Save, Goto, Reply
<1>7. ASSUME NEW h \in Handlers, AddWatch(h) PROVE RoleInv'
  BY <1>7 DEF AddWatch, Made, Goto, Reply
<1>8. ASSUME NEW h \in Handlers, Install(h) PROVE RoleInv'
  BY <1>8 DEF Install, Made, Reply
<1>9. ASSUME NEW p \in Procs, Take(p) PROVE RoleInv'
  BY <1>9 DEF Take, Clear, StopWhatWasTaken, AfterStop, Goto, Reply
<1>10. ASSUME NEW p \in Procs, CloseStop(p) PROVE RoleInv'
  BY <1>10 DEF CloseStop, Goto
<1>11. ASSUME NEW p \in Procs, AwaitStopped(p) PROVE RoleInv'
  BY <1>11 DEF AwaitStopped, AfterStop, Goto, Reply
<1>12. ASSUME NEW k \in Watches, ReadName(k) PROVE RoleInv'
  BY <1>12 DEF ReadName
<1>13. ASSUME NEW k \in Watches, HandleEvent(k) PROVE RoleInv'
  BY <1>13 DEF HandleEvent, Hear
<1>14. ASSUME NEW k \in Watches, StopRun(k) PROVE RoleInv'
  BY <1>14 DEF StopRun, StopTimer
<1>15. ASSUME NEW k \in Watches, Fire(k) PROVE RoleInv'
  BY <1>15 DEF Fire
<1>16. ASSUME NEW f \in Paths, Change(f) PROVE RoleInv'
  BY <1>16 DEF Change
<1>17. CASE UNCHANGED vars
  BY <1>17 DEF vars
<1> QED
  BY <1>1, <1>2, <1>3, <1>4, <1>5, <1>6, <1>7, <1>8, <1>9, <1>10, <1>11, <1>12, <1>13,
     <1>14, <1>15, <1>16, <1>17 DEF Next, HandlerStep, StopStep, WatchStep

\* Goroutines listen to the right name and end with their timers.
LEMMA WatchInvStep ==
    ASSUME WatchdogTypeOK, RoleInv, WatchInv, [Next]_vars
    PROVE  WatchInv'
<1> USE ConstantFacts DEF WatchdogTypeOK, Settings, Nothing, Places, Points,
   StopPoints, fields, watchVars, procVars, history, RoleInv, WatchInv,
   EndedWatchIsSilent, ListensToItsFile, Holds, Live
<1>1. ASSUME Terminate PROVE WatchInv'
  BY <1>1 DEF Terminate, Goto
<1>2. ASSUME Restart PROVE WatchInv'
  BY <1>2 DEF Restart
<1>3. ASSUME Submit PROVE WatchInv'
  BY <1>3 DEF Submit
<1>4. ASSUME NEW h \in Handlers, Request(h) PROVE WatchInv'
  BY <1>4 DEF Request, Goto, Settings
<1>5. ASSUME NEW h \in Handlers, SaveEnabled(h) PROVE WatchInv'
  BY <1>5 DEF SaveEnabled, Save, Goto, Reply
<1>6. ASSUME NEW h \in Handlers, SavePath(h) PROVE WatchInv'
  BY <1>6 DEF SavePath, Save, Goto, Reply
<1>7. ASSUME NEW h \in Handlers, AddWatch(h) PROVE WatchInv'
  BY <1>7 DEF AddWatch, Made, Goto, Reply
<1>8. ASSUME NEW h \in Handlers, Install(h) PROVE WatchInv'
  BY <1>8 DEF Install, Made, Reply
<1>9. ASSUME NEW p \in Procs, Take(p) PROVE WatchInv'
  BY <1>9 DEF Take, Clear, StopWhatWasTaken, AfterStop, Goto, Reply
<1>10. ASSUME NEW p \in Procs, CloseStop(p) PROVE WatchInv'
  BY <1>10 DEF CloseStop, Goto
<1>11. ASSUME NEW p \in Procs, AwaitStopped(p) PROVE WatchInv'
  BY <1>11 DEF AwaitStopped, AfterStop, Goto, Reply
<1>12. ASSUME NEW k \in Watches, ReadName(k) PROVE WatchInv'
  BY <1>12 DEF ReadName
<1>13. ASSUME NEW k \in Watches, HandleEvent(k) PROVE WatchInv'
  BY <1>13 DEF HandleEvent, Hear
<1>14. ASSUME NEW k \in Watches, StopRun(k) PROVE WatchInv'
  BY <1>14 DEF StopRun, StopTimer
<1>15. ASSUME NEW k \in Watches, Fire(k) PROVE WatchInv'
  BY <1>15 DEF Fire
<1>16. ASSUME NEW f \in Paths, Change(f) PROVE WatchInv'
  BY <1>16 DEF Change
<1>17. CASE UNCHANGED vars
  BY <1>17 DEF vars
<1> QED
  BY <1>1, <1>2, <1>3, <1>4, <1>5, <1>6, <1>7, <1>8, <1>9, <1>10, <1>11, <1>12, <1>13,
     <1>14, <1>15, <1>16, <1>17 DEF Next, HandlerStep, StopStep, WatchStep

\* One update at a time leaves what was asked for.
LEMMA AloneStep ==
    ASSUME WatchdogTypeOK, RequestInv, RoleInv, AloneInv, [Next]_vars
    PROVE  AloneInv'
<1> USE ConstantFacts DEF WatchdogTypeOK, Settings, Nothing, Places, Points,
   StopPoints, fields, watchVars, procVars, history, RequestInv, RoleInv, AloneInv,
   Alone, Holds, Live, BeingStopped
<1>1. ASSUME Terminate PROVE AloneInv'
  <2>1. ASSUME ~overlap' PROVE Alone'
    <3>1. \A p \in Procs : pc[p] = "idle"
      BY <1>1, <2>1 DEF Terminate
    <3>2. pc' = [pc EXCEPT ![Main] = "stop"] /\ BeingStopped' = BeingStopped
      BY <1>1, <3>1 DEF Terminate, Goto
    <3>3. \A p \in Procs : pc'[p] # "idle" <=> p = Main
      BY <3>1, <3>2
    <3>4. Live' \subseteq {cur'} \cup BeingStopped'
      BY <1>1, <2>1, <3>2 DEF Terminate
    <3>5. pc'[Main] = "stop" /\ \A h \in Handlers : pc'[h] = "idle"
      BY <3>1, <3>2
    <3> QED
      BY <3>3, <3>4, <3>5
  <2> QED
    BY <2>1
<1>2. ASSUME Restart PROVE AloneInv'
  BY <1>2 DEF Restart
<1>3. ASSUME Submit PROVE AloneInv'
  BY <1>3 DEF Submit
<1>4. ASSUME NEW h \in Handlers, Request(h) PROVE AloneInv'
  <2>1. ASSUME ~overlap' PROVE Alone'
    <3>1. \A p \in Procs : pc[p] = "idle"
      BY <1>4, <2>1 DEF Request
    <3>2. pc' = [pc EXCEPT ![h] = "enabled"] /\ BeingStopped' = BeingStopped
      BY <1>4, <3>1 DEF Request, Goto
    <3> QED
      BY <1>4, <2>1, <3>1, <3>2 DEF Request
  <2> QED
    BY <2>1
<1>5. ASSUME NEW h \in Handlers, SaveEnabled(h) PROVE AloneInv'
  <2>1. CASE Reply(h, FALSE)
    <3>1. failed' /\ pc' = [pc EXCEPT ![h] = "idle"] /\ UNCHANGED <<cur, place, overlap>>
      BY <1>5, <2>1 DEF SaveEnabled, Save, Reply
    <3>2. ASSUME ~overlap PROVE Alone'
      <4>1. \A q \in Procs : pc'[q] = "idle" /\ pc[q] \in {"idle", "enabled"}
        BY <1>5, <3>1, <3>2 DEF SaveEnabled, Save
      <4> QED
        BY <3>1, <3>2, <4>1
    <3> QED
      BY <3>1, <3>2
  <2>2. CASE Goto(h, "path")
    BY <1>5, <2>2 DEF SaveEnabled, Save, Goto, Reply
  <2> QED
    BY <1>5, <2>1, <2>2 DEF SaveEnabled, Save
<1>6. ASSUME NEW h \in Handlers, SavePath(h) PROVE AloneInv'
  <2>1. CASE Reply(h, FALSE)
    <3>1. failed' /\ pc' = [pc EXCEPT ![h] = "idle"] /\ UNCHANGED <<cur, place, overlap>>
      BY <1>6, <2>1 DEF SavePath, Save, Reply
    <3>2. ASSUME ~overlap PROVE Alone'
      <4>1. \A q \in Procs : pc'[q] = "idle" /\ pc[q] \in {"idle", "path"}
        BY <1>6, <3>1, <3>2 DEF SavePath, Save
      <4> QED
        BY <3>1, <3>2, <4>1
    <3> QED
      BY <3>1, <3>2
  <2>2. CASE Goto(h, "stop") /\ stored' = [stored EXCEPT !.path = req[h].path]
    BY <1>6, <2>2 DEF SavePath, Save, Goto, Reply
  <2> QED
    BY <1>6, <2>1, <2>2 DEF SavePath, Save
<1>7. ASSUME NEW h \in Handlers, AddWatch(h) PROVE AloneInv'
  BY <1>7 DEF AddWatch, Made, Goto, Reply
<1>8. ASSUME NEW h \in Handlers, Install(h) PROVE AloneInv'
  <2>1. ASSUME ~overlap PROVE Alone'
    <3>1. pc' = [pc EXCEPT ![h] = "idle"] /\ \A q \in Procs : pc'[q] = "idle"
      BY <1>8, <2>1 DEF Install, Made, Reply
    <3>2. stored = req[h] /\ stored.enabled /\ path' = stored.path /\ UNCHANGED stored
      BY <1>8, <2>1 DEF Install, Made
    <3>3. Live' \subseteq {cur'}
      BY <1>8, <2>1 DEF Install, Made
    <3> QED
      BY <3>1, <3>2, <3>3
  <2> QED
    BY <1>8, <2>1 DEF Install, Made
<1>9. ASSUME NEW p \in Procs, Take(p) PROVE AloneInv'
  BY <1>9 DEF Take, Clear, StopWhatWasTaken, AfterStop, Goto, Reply
<1>10. ASSUME NEW p \in Procs, CloseStop(p) PROVE AloneInv'
  BY <1>10 DEF CloseStop, Goto
<1>11. ASSUME NEW p \in Procs, AwaitStopped(p) PROVE AloneInv'
  BY <1>11 DEF AwaitStopped, AfterStop, Goto, Reply
<1>12. ASSUME NEW k \in Watches, ReadName(k) PROVE AloneInv'
  BY <1>12 DEF ReadName
<1>13. ASSUME NEW k \in Watches, HandleEvent(k) PROVE AloneInv'
  BY <1>13 DEF HandleEvent, Hear
<1>14. ASSUME NEW k \in Watches, StopRun(k) PROVE AloneInv'
  BY <1>14 DEF StopRun, StopTimer
<1>15. ASSUME NEW k \in Watches, Fire(k) PROVE AloneInv'
  BY <1>15 DEF Fire
<1>16. ASSUME NEW f \in Paths, Change(f) PROVE AloneInv'
  BY <1>16 DEF Change
<1>17. CASE UNCHANGED vars
  BY <1>17 DEF vars
<1> QED
  BY <1>1, <1>2, <1>3, <1>4, <1>5, <1>6, <1>7, <1>8, <1>9, <1>10, <1>11, <1>12, <1>13,
     <1>14, <1>15, <1>16, <1>17 DEF Next, HandlerStep, StopStep, WatchStep

-----------------------------------------------------------------------------
\* Types and the four parts hold together: what the theorems below rest on.
THEOREM WatchdogInductive == Spec => []WatchdogInv
<1>1. Init => WatchdogInv
  <2> SUFFICES ASSUME Init PROVE WatchdogInv
    OBVIOUS
  <2>1. WatchdogTypeOK
    <3>1. HistoryTypeOK
      BY DEF Init, HistoryTypeOK
    <3>2. stored \in [enabled : BOOLEAN, path : Paths \cup {NoPath}] /\ ProcTypeOK
      BY DEF Init, Nothing, Points, ProcTypeOK
    <3>3. changes \in 0 .. MaxChanges /\ firing \in Nat
      BY LimitsAssumption DEF Init
    <3> QED
      BY <3>1, <3>2, <3>3 DEF Init, WatchdogTypeOK, ProcTypeOK, Places
  <2>2. RequestInv /\ RoleInv /\ WatchInv
    BY ConstantFacts
       DEF Init, RequestInv, RoleInv, WatchInv, EndedWatchIsSilent, ListensToItsFile, Holds, Nothing
  <2>3. AloneInv
    BY ConstantFacts DEF Init, AloneInv, Alone, Live, Nothing
  <2> QED
    BY <2>1, <2>2, <2>3 DEF WatchdogInv
<1>2. WatchdogInv /\ [Next]_vars => WatchdogInv'
  BY TypeStep, RequestStep, RoleStep, WatchInvStep, AloneStep DEF WatchdogInv
<1> QED
  BY <1>1, <1>2, PTL DEF Spec

\* The fields change together, and what they say is watched is.
THEOREM WatchdogTypes == Spec => []WatchdogTypeOK
<1>1. WatchdogInv => WatchdogTypeOK
  BY DEF WatchdogInv
<1> QED
  BY <1>1, WatchdogInductive, PTL

\* No stop channel is closed twice, however many calls of Stop there are.
THEOREM ClosedOnce == Spec => []StopChannelClosedOnce
<1>1. WatchdogInv => StopChannelClosedOnce
  BY DEF WatchdogInv, RoleInv, StopChannelClosedOnce
<1> QED
  BY <1>1, WatchdogInductive, PTL

\* Without overlap there is no goroutine beside the one in force.
THEOREM NoSecondWatch == Spec => []OneWatch
<1>1. WatchdogInv => OneWatch
  BY DEF WatchdogInv, AloneInv, Alone, OneWatch
<1> QED
  BY <1>1, WatchdogInductive, PTL

\* The watch in force listens to its file, whatever updates overlap.
THEOREM RightName == Spec => []ListensToItsFile
<1>1. WatchdogInv => ListensToItsFile
  BY DEF WatchdogInv, WatchInv
<1> QED
  BY <1>1, WatchdogInductive, PTL

\* What is stored is in force after an update that was alone and succeeded.
THEOREM InForce == Spec => []SettingsInForce
<1>1. WatchdogInv => SettingsInForce
  BY DEF WatchdogInv, AloneInv, Alone, SettingsInForce
<1> QED
  BY <1>1, WatchdogInductive, PTL

\* One watch, the stored one, on its file.
THEOREM RightWatch == Spec => []WatchInForce
<1>1. WatchdogInv => WatchInForce
  BY DEF WatchdogInv, WatchInv, AloneInv, Alone, OneWatch, ListensToItsFile,
         SettingsInForce, WatchInForce
<1> QED
  BY <1>1, WatchdogInductive, PTL

\* A watch that has ended starts no more runs.
THEOREM SilentEnd == Spec => []EndedWatchIsSilent
<1>1. WatchdogInv => EndedWatchIsSilent
  BY DEF WatchdogInv, WatchInv
<1> QED
  BY <1>1, WatchdogInductive, PTL

=============================================================================
