----------------------- MODULE SyncDispatcher_proofs -----------------------
(***************************************************************************)
(* Theorems about SyncDispatcher, for every set of callers, every number   *)
(* of runs and every choice of database calls that may fail.               *)
(*                                                                         *)
(* The inductive invariant IInv says where each request can be: ids grow   *)
(* from last over held to the queue, only the row of the held request is   *)
(* being written, and what it says follows from where the loop is.         *)
(***************************************************************************)
EXTENDS SyncDispatcher, TLAPS

\* Requests move through the dispatcher in the order of their ids, and no row
\* exists beyond the request the loop holds.
OrderInv ==
    /\ \A r \in RunIds : queue = <<r>> => r = accepted
    /\ held <= accepted
    /\ last.run <= accepted
    /\ held # NoRun => last.run < held
    /\ queue # <<>> => held < accepted /\ last.run < accepted
    /\ \A r \in RunIds : r > accepted => rows[r] = "absent"
    /\ queue # <<>> => rows[accepted] = "absent"
    /\ held # NoRun => \A r \in RunIds : r > held => rows[r] = "absent"

\* What the loop has done for the request it holds.
LoopInv ==
    /\ (held = NoRun) <=> (loop \in {"select", "exited"})
    /\ current = IF loop \in {"select", "exited", "dequeued"} THEN NoRun ELSE held
    /\ main = "down" => loop = "exited" /\ queue = <<>>
    /\ loop \in {"dequeued", "check", "start"} => rows[held] = "absent"
    /\ loop \in {"sync", "finish"} => rows[held] = "running"
    /\ loop \in {"finish", "notify"} => result \in FinalStates
    /\ loop = "notify" =>
           \/ rows[held] = result
           \/ rows[held] = "running" /\ result = "error" /\ "finish" \in Faults
    /\ loop = "publish" =>
           \/ result \in {"no_slaves", "error"} /\ rows[held] = "absent"
           \/ result \in FinalStates /\ rows[held] = result
           \/ result = "error" /\ rows[held] = "running" /\ "finish" \in Faults

\* A row at "running" belongs to the held request or has been given up.
OwnerInv ==
    \A r \in RunIds :
        rows[r] = "running" =>
            \/ r = held
            \/ fate[r] = "orphan"
            \/ fate[r] = "unfinished" /\ "finish" \in Faults

\* What last says of its run is what the history says of it.
LastInv ==
    /\ last.status = "none" <=> last.run = NoRun
    /\ last.status \in {"success", "partial_failure"} => rows[last.run] = last.status
    /\ last.status = "error" =>
           \/ rows[last.run] \in {"error", "absent"}
           \/ fate[last.run] = "unfinished"

IInv == TypeOK /\ OrderInv /\ LoopInv /\ OwnerInv /\ LastInv

-----------------------------------------------------------------------------
(* IInv is inductive: one lemma for each of its conjuncts, one step in it  *)
(* for each action.                                                        *)

\* What the two operations on the channel of capacity 1 do.
LEMMA Enqueued ==
    ASSUME TypeOK, NEW c \in Callers, Enqueue(c)
    PROVE  /\ main # "down"
           /\ caller' = [caller EXCEPT ![c] = "idle"]
           /\ \/ /\ queue = <<>> /\ accepted < MaxRuns
                 /\ accepted' = accepted + 1 /\ queue' = <<accepted'>>
                 /\ reply' = [reply EXCEPT ![c] = "accepted"]
              \/ /\ UNCHANGED <<queue, accepted>>
                 /\ reply' = [reply EXCEPT ![c] = "busy"]
<1>1. CASE QueueFull
  BY <1>1 DEF Enqueue, Return, Alive
<1>2. CASE ~QueueFull
  <2>1. queue = <<>>
    BY <1>2 DEF TypeOK, QueueFull
  <2>2. Append(<<>>, accepted + 1) = <<accepted + 1>>
    OBVIOUS
  <2> QED
    BY <1>2, <2>1, <2>2 DEF Enqueue, Return, Alive
<1> QED
  BY <1>1, <1>2

\* Enqueue keeps the types.
LEMMA EnqueueTypes ==
    ASSUME TypeOK, NEW c \in Callers, Enqueue(c)
    PROVE  caller' \in [Callers -> CallerStates] /\ reply' \in [Callers -> Replies]
<1>1. "idle" \in CallerStates /\ {"accepted", "busy"} \subseteq Replies
  BY DEF CallerStates, Replies
<1>2. /\ caller' = [caller EXCEPT ![c] = "idle"]
      /\ reply' \in {[reply EXCEPT ![c] = "accepted"], [reply EXCEPT ![c] = "busy"]}
  BY Enqueued
<1> QED
  BY <1>1, <1>2 DEF TypeOK

\* PreFlight keeps the types.
LEMMA PreFlightTypes ==
    ASSUME TypeOK, NEW c \in Callers, PreFlight(c)
    PROVE  caller' \in [Callers -> CallerStates] /\ reply' \in [Callers -> Replies]
<1>1. {"idle", "checked"} \subseteq CallerStates /\ {"no_slaves", "failed"} \subseteq Replies
  BY DEF CallerStates, Replies
<1> QED
  BY <1>1 DEF TypeOK, PreFlight, Return

\* SendNotification keeps the types.
LEMMA NoticeTypes ==
    ASSUME notices \in Seq([run : RunIds, status : FinalStates \union {"running"}]),
           held \in RunIds, rows[held] \in FinalStates \union {"running"},
           SendNotification
    PROVE  notices' \in Seq([run : RunIds, status : FinalStates \union {"running"}])
<1> DEFINE Notice == [run : RunIds, status : FinalStates \union {"running"}]
           notice == [run |-> held, status |-> rows[held]]
<1>1. notice \in Notice
  OBVIOUS
<1>2. notices' = notices \/ notices' = Append(notices, notice)
  BY DEF SendNotification, NoticeStatus
<1>3. notices \in Seq(Notice)
  OBVIOUS
<1> HIDE DEF Notice, notice
<1>4. Append(notices, notice) \in Seq(Notice)
  BY <1>1, <1>3
<1>5. notices' \in Seq(Notice)
  BY <1>2, <1>3, <1>4
<1> QED
  BY <1>5 DEF Notice

\* What Dequeue does: the only request of the channel goes to the loop.
LEMMA Dequeued ==
    ASSUME TypeOK, Dequeue
    PROVE  \E r \in RunIds : queue = <<r>> /\ held' = r /\ queue' = <<>>
<1>1. PICK r \in RunIds : queue = <<r>>
  BY DEF TypeOK, Dequeue
<1>2. Head(<<r>>) = r /\ Tail(<<r>>) = <<>>
  OBVIOUS
<1> QED
  BY <1>1, <1>2 DEF Dequeue

\* Every step keeps the types.
LEMMA TypeStep ==
    ASSUME IInv, [Next]_vars
    PROVE  TypeOK'
<1> USE MaxRunsAssumption DEF IInv, TypeOK, LoopInv,
        RunIds, NoRun, NoLast, FinalStates, CallerStates, Replies, LoopStates, Results, MainStates, Fates,
        submitVars, loopVars, storeVars
<1>1. ASSUME NEW c \in Callers, Call(c) PROVE TypeOK'
  BY <1>1 DEF Call
<1>2. ASSUME NEW c \in Callers, PreFlight(c) PROVE TypeOK'
  BY <1>2, PreFlightTypes DEF PreFlight
<1>3. ASSUME NEW c \in Callers, Enqueue(c) PROVE TypeOK'
  <2>1. UNCHANGED <<hasSlaves, loopVars, storeVars, main, fate>>
    BY <1>3 DEF Enqueue
  <2>2. TypeOK
    OBVIOUS
  <2> QED
    BY <1>3, <2>1, <2>2, Enqueued, EnqueueTypes
<1>4. CASE ExitLoop
  BY <1>4 DEF ExitLoop
<1>5. CASE Dequeue
  <2>1. PICK r \in RunIds : queue = <<r>> /\ held' = r /\ queue' = <<>>
    BY <1>5, Dequeued
  <2> QED
    BY <1>5, <2>1 DEF Dequeue
<1>6. CASE SetCurrent
  BY <1>6 DEF SetCurrent
<1>7. CASE CheckSlaves
  BY <1>7 DEF CheckSlaves
<1>8. CASE StartRun
  BY <1>8 DEF StartRun
<1>9. CASE FinishRun
  BY <1>9 DEF FinishRun
<1>10. CASE SendNotification
  <2>1. held \in RunIds /\ rows[held] \in FinalStates \union {"running"}
    BY <1>10 DEF SendNotification
  <2>2. notices' \in Seq([run : RunIds, status : FinalStates \union {"running"}])
    BY <1>10, <2>1, NoticeTypes
  <2> QED
    BY <1>10, <2>2 DEF SendNotification
<1>11. CASE Publish
  BY <1>11 DEF Publish, PublishOutcome, ReleasedFate
<1>12. CASE DoSync
  BY <1>12 DEF DoSync
<1>13. CASE Terminate
  BY <1>13 DEF Terminate
<1>14. CASE Cancel
  BY <1>14 DEF Cancel
<1>15. CASE Exit
  BY <1>15 DEF Exit, ProcessGone, AbandonedFate, Cancelled
<1>16. CASE Crash
  BY <1>16 DEF Crash, ProcessGone, AbandonedFate
<1>17. CASE Restart
  BY <1>17 DEF Restart
<1>18. CASE FleetChanges
  BY <1>18 DEF FleetChanges
<1>19. CASE UNCHANGED vars
  BY <1>19 DEF vars
<1> QED
  BY <1>1, <1>2, <1>3, <1>4, <1>5, <1>6, <1>7, <1>8, <1>9, <1>10, <1>11, <1>12, <1>13,
     <1>14, <1>15, <1>16, <1>17, <1>18, <1>19 DEF Next, LoopStep, RunStep

\* Every step keeps requests in the order of their ids.
LEMMA OrderStep ==
    ASSUME IInv, TypeOK', [Next]_vars
    PROVE  OrderInv'
<1> USE MaxRunsAssumption DEF IInv, TypeOK, OrderInv, LoopInv,
        RunIds, NoRun, NoLast, FinalStates, CallerStates, Replies, LoopStates, Results, MainStates, Fates,
        submitVars, loopVars, storeVars
<1>1. ASSUME NEW c \in Callers, Call(c) PROVE OrderInv'
  BY <1>1 DEF Call
<1>2. ASSUME NEW c \in Callers, PreFlight(c) PROVE OrderInv'
  BY <1>2 DEF PreFlight, Return
<1>3. ASSUME NEW c \in Callers, Enqueue(c) PROVE OrderInv'
  <2>1. UNCHANGED <<hasSlaves, loopVars, storeVars, main, fate>>
    BY <1>3 DEF Enqueue
  <2>2. TypeOK
    OBVIOUS
  <2> QED
    BY <1>3, <2>1, <2>2, Enqueued
<1>4. CASE ExitLoop
  BY <1>4 DEF ExitLoop
<1>5. CASE Dequeue
  <2>1. PICK r \in RunIds : queue = <<r>> /\ held' = r /\ queue' = <<>>
    BY <1>5, Dequeued
  <2> QED
    BY <1>5, <2>1 DEF Dequeue
<1>6. CASE SetCurrent
  BY <1>6 DEF SetCurrent
<1>7. CASE CheckSlaves
  BY <1>7 DEF CheckSlaves
<1>8. CASE StartRun
  BY <1>8 DEF StartRun
<1>9. CASE FinishRun
  BY <1>9 DEF FinishRun
<1>10. CASE SendNotification
  BY <1>10 DEF SendNotification, NoticeStatus
<1>11. CASE Publish
  BY <1>11 DEF Publish, PublishOutcome, ReleasedFate
<1>12. CASE DoSync
  BY <1>12 DEF DoSync
<1>13. CASE Terminate
  BY <1>13 DEF Terminate
<1>14. CASE Cancel
  BY <1>14 DEF Cancel
<1>15. CASE Exit
  BY <1>15 DEF Exit, ProcessGone, AbandonedFate, Cancelled
<1>16. CASE Crash
  BY <1>16 DEF Crash, ProcessGone, AbandonedFate
<1>17. CASE Restart
  BY <1>17 DEF Restart
<1>18. CASE FleetChanges
  BY <1>18 DEF FleetChanges
<1>19. CASE UNCHANGED vars
  BY <1>19 DEF vars
<1> QED
  BY <1>1, <1>2, <1>3, <1>4, <1>5, <1>6, <1>7, <1>8, <1>9, <1>10, <1>11, <1>12, <1>13,
     <1>14, <1>15, <1>16, <1>17, <1>18, <1>19 DEF Next, LoopStep, RunStep

\* Every step keeps what the loop knows of the request it holds.
LEMMA LoopInvStep ==
    ASSUME IInv, TypeOK', [Next]_vars
    PROVE  LoopInv'
<1> USE MaxRunsAssumption DEF IInv, TypeOK, OrderInv, LoopInv, Cancelled, Alive,
        RunIds, NoRun, NoLast, FinalStates, CallerStates, Replies, LoopStates, Results, MainStates, Fates,
        submitVars, loopVars, storeVars
<1>1. ASSUME NEW c \in Callers, Call(c) PROVE LoopInv'
  BY <1>1 DEF Call
<1>2. ASSUME NEW c \in Callers, PreFlight(c) PROVE LoopInv'
  BY <1>2 DEF PreFlight, Return
<1>3. ASSUME NEW c \in Callers, Enqueue(c) PROVE LoopInv'
  <2>1. UNCHANGED <<hasSlaves, loopVars, storeVars, main, fate>>
    BY <1>3 DEF Enqueue
  <2>2. TypeOK
    OBVIOUS
  <2> QED
    BY <1>3, <2>1, <2>2, Enqueued
<1>4. CASE ExitLoop
  BY <1>4 DEF ExitLoop
<1>5. CASE Dequeue
  <2>1. PICK r \in RunIds : queue = <<r>> /\ held' = r /\ queue' = <<>>
    BY <1>5, Dequeued
  <2> QED
    BY <1>5, <2>1 DEF Dequeue
<1>6. CASE SetCurrent
  BY <1>6 DEF SetCurrent
<1>7. CASE CheckSlaves
  BY <1>7 DEF CheckSlaves
<1>8. CASE StartRun
  BY <1>8 DEF StartRun
<1>9. CASE FinishRun
  <2>1. held \in RunIds /\ held' = held /\ loop' \in {"notify", "publish"}
    BY <1>9 DEF FinishRun
  <2>2. rows[held] = "running" /\ result \in FinalStates
    BY <1>9 DEF FinishRun
  <2>3. CASE rows' = [rows EXCEPT ![held] = result] /\ loop' = "notify" /\ result' = result
    <3>1. rows'[held'] = result'
      BY <2>1, <2>3
    <3> QED
      BY <1>9, <2>1, <2>2, <2>3, <3>1 DEF FinishRun
  <2>4. CASE rows' = rows
    BY <1>9, <2>1, <2>2, <2>4 DEF FinishRun, BackgroundCallFails
  <2> QED
    BY <1>9, <2>3, <2>4 DEF FinishRun
<1>10. CASE SendNotification
  BY <1>10 DEF SendNotification, NoticeStatus
<1>11. CASE Publish
  BY <1>11 DEF Publish, PublishOutcome, ReleasedFate
<1>12. CASE DoSync
  BY <1>12 DEF DoSync
<1>13. CASE Terminate
  BY <1>13 DEF Terminate
<1>14. CASE Cancel
  BY <1>14 DEF Cancel
<1>15. CASE Exit
  BY <1>15 DEF Exit, ProcessGone, AbandonedFate, Cancelled
<1>16. CASE Crash
  BY <1>16 DEF Crash, ProcessGone, AbandonedFate
<1>17. CASE Restart
  BY <1>17 DEF Restart
<1>18. CASE FleetChanges
  BY <1>18 DEF FleetChanges
<1>19. CASE UNCHANGED vars
  BY <1>19 DEF vars
<1> QED
  BY <1>1, <1>2, <1>3, <1>4, <1>5, <1>6, <1>7, <1>8, <1>9, <1>10, <1>11, <1>12, <1>13,
     <1>14, <1>15, <1>16, <1>17, <1>18, <1>19 DEF Next, LoopStep, RunStep

\* Every step keeps an owner for each row at "running".
LEMMA OwnerStep ==
    ASSUME IInv, TypeOK', [Next]_vars
    PROVE  OwnerInv'
<1> USE MaxRunsAssumption DEF IInv, TypeOK, OrderInv, LoopInv, OwnerInv,
        RunIds, NoRun, NoLast, FinalStates, CallerStates, Replies, LoopStates, Results, MainStates, Fates,
        submitVars, loopVars, storeVars
<1>1. ASSUME NEW c \in Callers, Call(c) PROVE OwnerInv'
  BY <1>1 DEF Call
<1>2. ASSUME NEW c \in Callers, PreFlight(c) PROVE OwnerInv'
  BY <1>2 DEF PreFlight, Return
<1>3. ASSUME NEW c \in Callers, Enqueue(c) PROVE OwnerInv'
  <2>1. UNCHANGED <<hasSlaves, loopVars, storeVars, main, fate>>
    BY <1>3 DEF Enqueue
  <2>2. TypeOK
    OBVIOUS
  <2> QED
    BY <1>3, <2>1, <2>2, Enqueued
<1>4. CASE ExitLoop
  BY <1>4 DEF ExitLoop
<1>5. CASE Dequeue
  <2>1. PICK r \in RunIds : queue = <<r>> /\ held' = r /\ queue' = <<>>
    BY <1>5, Dequeued
  <2> QED
    BY <1>5, <2>1 DEF Dequeue
<1>6. CASE SetCurrent
  BY <1>6 DEF SetCurrent
<1>7. CASE CheckSlaves
  BY <1>7 DEF CheckSlaves
<1>8. CASE StartRun
  BY <1>8 DEF StartRun
<1>9. CASE FinishRun
  BY <1>9 DEF FinishRun
<1>10. CASE SendNotification
  BY <1>10 DEF SendNotification, NoticeStatus
<1>11. CASE Publish
  BY <1>11 DEF Publish, PublishOutcome, ReleasedFate
<1>12. CASE DoSync
  BY <1>12 DEF DoSync
<1>13. CASE Terminate
  BY <1>13 DEF Terminate
<1>14. CASE Cancel
  BY <1>14 DEF Cancel
<1>15. CASE Exit
  BY <1>15 DEF Exit, ProcessGone, AbandonedFate, Cancelled
<1>16. CASE Crash
  BY <1>16 DEF Crash, ProcessGone, AbandonedFate
<1>17. CASE Restart
  BY <1>17 DEF Restart
<1>18. CASE FleetChanges
  BY <1>18 DEF FleetChanges
<1>19. CASE UNCHANGED vars
  BY <1>19 DEF vars
<1> QED
  BY <1>1, <1>2, <1>3, <1>4, <1>5, <1>6, <1>7, <1>8, <1>9, <1>10, <1>11, <1>12, <1>13,
     <1>14, <1>15, <1>16, <1>17, <1>18, <1>19 DEF Next, LoopStep, RunStep

\* Every step keeps last in agreement with the history.
LEMMA LastStep ==
    ASSUME IInv, TypeOK', [Next]_vars
    PROVE  LastInv'
<1> USE MaxRunsAssumption DEF IInv, TypeOK, OrderInv, LoopInv, OwnerInv, LastInv,
        RunIds, NoRun, NoLast, FinalStates, CallerStates, Replies, LoopStates, Results, MainStates, Fates,
        submitVars, loopVars, storeVars
<1>1. ASSUME NEW c \in Callers, Call(c) PROVE LastInv'
  BY <1>1 DEF Call
<1>2. ASSUME NEW c \in Callers, PreFlight(c) PROVE LastInv'
  BY <1>2 DEF PreFlight, Return
<1>3. ASSUME NEW c \in Callers, Enqueue(c) PROVE LastInv'
  <2>1. UNCHANGED <<hasSlaves, loopVars, storeVars, main, fate>>
    BY <1>3 DEF Enqueue
  <2>2. TypeOK
    OBVIOUS
  <2> QED
    BY <1>3, <2>1, <2>2, Enqueued
<1>4. CASE ExitLoop
  BY <1>4 DEF ExitLoop
<1>5. CASE Dequeue
  <2>1. PICK r \in RunIds : queue = <<r>> /\ held' = r /\ queue' = <<>>
    BY <1>5, Dequeued
  <2> QED
    BY <1>5, <2>1 DEF Dequeue
<1>6. CASE SetCurrent
  BY <1>6 DEF SetCurrent
<1>7. CASE CheckSlaves
  BY <1>7 DEF CheckSlaves
<1>8. CASE StartRun
  BY <1>8 DEF StartRun
<1>9. CASE FinishRun
  BY <1>9 DEF FinishRun
<1>10. CASE SendNotification
  BY <1>10 DEF SendNotification, NoticeStatus
<1>11. CASE Publish
  BY <1>11 DEF Publish, PublishOutcome, ReleasedFate
<1>12. CASE DoSync
  BY <1>12 DEF DoSync
<1>13. CASE Terminate
  BY <1>13 DEF Terminate
<1>14. CASE Cancel
  BY <1>14 DEF Cancel
<1>15. CASE Exit
  BY <1>15 DEF Exit, ProcessGone, AbandonedFate, Cancelled
<1>16. CASE Crash
  BY <1>16 DEF Crash, ProcessGone, AbandonedFate
<1>17. CASE Restart
  BY <1>17 DEF Restart
<1>18. CASE FleetChanges
  BY <1>18 DEF FleetChanges
<1>19. CASE UNCHANGED vars
  BY <1>19 DEF vars
<1> QED
  BY <1>1, <1>2, <1>3, <1>4, <1>5, <1>6, <1>7, <1>8, <1>9, <1>10, <1>11, <1>12, <1>13,
     <1>14, <1>15, <1>16, <1>17, <1>18, <1>19 DEF Next, LoopStep, RunStep

\* IInv is an invariant.
THEOREM Inductive == Spec => []IInv
<1>1. Init => IInv
  BY MaxRunsAssumption
     DEF Init, IInv, TypeOK, OrderInv, LoopInv, OwnerInv, LastInv, RunIds, NoRun, NoLast,
         FinalStates, CallerStates, Replies, LoopStates, Results, MainStates, Fates
<1>2. IInv /\ [Next]_vars => IInv'
  BY TypeStep, OrderStep, LoopInvStep, OwnerStep, LastStep DEF IInv
<1> QED
  BY <1>1, <1>2, PTL DEF Spec

-----------------------------------------------------------------------------
(* What follows from IInv.                                                 *)

\* Every variable keeps its type.
THEOREM TypeCorrect == Spec => []TypeOK
  BY Inductive, PTL DEF IInv

\* The status panel never contradicts the history page.
THEOREM PanelTruthful == Spec => []StatusPanelAgreesWithHistory
<1>1. IInv => StatusPanelAgreesWithHistory
  BY DEF IInv, TypeOK, OrderInv, LoopInv, LastInv, StatusPanelAgreesWithHistory,
         RunIds, NoRun, FinalStates
<1> QED
  BY <1>1, Inductive, PTL

\* A row at "running" is the current run's, or was given up by a crash or by a
\* FinishRun the database refused.
THEOREM RunningOwned == Spec => []RunningRowIsOwned
<1>1. IInv => RunningRowIsOwned
  BY DEF IInv, TypeOK, LoopInv, OwnerInv, RunningRowIsOwned, RunIds, NoRun, LoopStates
<1> QED
  BY <1>1, Inductive, PTL

\* Once ctx is cancelled, no run gets a row any more.
THEOREM NoneOpensAfterCancel == Spec => NoRunOpensAfterCancel
<1>1. IInv /\ [Next]_vars =>
          [Cancelled => \A r \in RunIds : rows[r] = "absent" => rows'[r] = "absent"]_vars
  <2> SUFFICES ASSUME IInv, [Next]_vars, Cancelled, NEW r \in RunIds, rows[r] = "absent"
               PROVE  rows'[r] = "absent"
    OBVIOUS
  <2>1. CASE StartRun
    BY <2>1 DEF StartRun, CtxCallSucceeds, Cancelled
  <2>2. CASE FinishRun
    BY <2>2 DEF FinishRun, IInv, LoopInv, TypeOK
  <2>3. CASE rows' = rows
    BY <2>3
  <2> QED
    BY <2>1, <2>2, <2>3
       DEF Next, LoopStep, RunStep, Call, PreFlight, Enqueue, ExitLoop, Dequeue,
           SetCurrent, CheckSlaves, SendNotification, Publish, PublishOutcome, DoSync,
           Terminate, Cancel, Exit, Crash, ProcessGone, Restart, FleetChanges,
           vars, storeVars
<1> QED
  BY <1>1, Inductive, PTL DEF Spec, NoRunOpensAfterCancel

\* An orderly exit drops nothing but the request still in the queue.
THEOREM GracefulExit == Spec => GracefulExitFinishesTheRun
<1>1. IInv => [Exit => \A r \in RunIds : fate'[r] # fate[r] => queue = <<r>>]_vars
  <2> SUFFICES ASSUME IInv, Exit, NEW r \in RunIds, fate'[r] # fate[r]
               PROVE  queue = <<r>>
    OBVIOUS
  <2>1. r # held
    BY MaxRunsAssumption DEF IInv, LoopInv, Exit, RunIds, NoRun
  <2> QED
    BY <2>1 DEF Exit, ProcessGone
<1> QED
  BY <1>1, Inductive, PTL DEF GracefulExitFinishesTheRun

-----------------------------------------------------------------------------
(* No accepted request is forgotten.                                       *)

\* Every step keeps account of the accepted requests.
LEMMA AccountedStep ==
    ASSUME IInv, IInv', AcceptedIsAccountedFor, [Next]_vars
    PROVE  AcceptedIsAccountedFor'
<1> USE MaxRunsAssumption DEF AcceptedIsAccountedFor, RunIds, NoRun, submitVars,
   loopVars, storeVars
<1>1. TypeOK /\ OrderInv /\ LoopInv /\ accepted \in 0 .. MaxRuns
  BY DEF IInv, TypeOK
<1>2. ASSUME NEW c \in Callers, Call(c) \/ PreFlight(c) PROVE AcceptedIsAccountedFor'
  BY <1>2 DEF Call, PreFlight
<1>3. ASSUME NEW c \in Callers, Enqueue(c) PROVE AcceptedIsAccountedFor'
  <2>1. UNCHANGED <<held, rows, fate>>
    BY <1>3 DEF Enqueue
  <2> QED
    BY <1>1, <1>3, <2>1, Enqueued
<1>4. CASE Dequeue
  <2>1. held = NoRun
    BY <1>1, <1>4 DEF Dequeue, LoopInv
  <2>2. PICK r \in RunIds : queue = <<r>> /\ held' = r /\ queue' = <<>>
    BY <1>1, <1>4, Dequeued
  <2>3. UNCHANGED <<accepted, rows, fate>>
    BY <1>4 DEF Dequeue
  <2>4. \A q : queue = <<q>> => q = r
    BY <2>2
  <2> QED
    BY <2>1, <2>2, <2>3, <2>4
<1>5. CASE StartRun \/ FinishRun
  <2>1. held \in RunIds /\ \A r \in RunIds : r # held => rows'[r] = rows[r]
    BY <1>1, <1>5 DEF StartRun, FinishRun, TypeOK, LoopInv
  <2> QED
    BY <1>1, <1>5, <2>1 DEF StartRun, FinishRun
<1>6. CASE Publish
  <2>1. held \in RunIds /\ fate \in [RunIds -> Fates]
    BY <1>1, <1>6 DEF Publish, TypeOK, LoopInv
  <2>2. rows[held] \in FinalStates \union {"absent", "running"}
    BY <1>1, <2>1 DEF TypeOK
  <2>3. rows[held] \in FinalStates \/ fate'[held] # "open"
    BY <1>6, <2>1, <2>2 DEF Publish, PublishOutcome, ReleasedFate
  <2>4. \A r \in RunIds : r # held => fate'[r] = fate[r]
    BY <1>6, <2>1 DEF Publish, PublishOutcome
  <2>5. UNCHANGED <<queue, accepted, rows>>
    BY <1>6 DEF Publish, PublishOutcome
  <2> QED
    BY <1>1, <2>1, <2>3, <2>4, <2>5
<1>7. CASE Exit \/ Crash
  <2>1. ProcessGone /\ UNCHANGED <<accepted, rows>>
    BY <1>7 DEF Exit, Crash, ProcessGone
  <2>2. ASSUME NEW r \in RunIds, r = held \/ queue = <<r>>
        PROVE  rows[r] \in FinalStates \/ fate'[r] # "open"
    BY <1>1, <2>1, <2>2 DEF TypeOK, ProcessGone, AbandonedFate
  <2>3. ASSUME NEW r \in RunIds, ~(r = held \/ queue = <<r>>)
        PROVE  fate'[r] = fate[r]
    BY <2>1, <2>3 DEF ProcessGone
  <2> QED
    BY <1>1, <2>1, <2>2, <2>3
<1>8. CASE UNCHANGED <<queue, accepted, held, rows, fate>>
  BY <1>8
<1> QED
  BY <1>2, <1>3, <1>4, <1>5, <1>6, <1>7, <1>8
     DEF Next, LoopStep, RunStep, ExitLoop, SetCurrent, CheckSlaves, SendNotification,
         DoSync, Terminate, Cancel, Restart, FleetChanges, vars

\* Every request answered with a run id stays accounted for.
THEOREM Accounted == Spec => []AcceptedIsAccountedFor
<1>1. Init => AcceptedIsAccountedFor
  BY DEF Init, AcceptedIsAccountedFor
<1>2. IInv /\ IInv' /\ AcceptedIsAccountedFor /\ [Next]_vars => AcceptedIsAccountedFor'
  BY AccountedStep
<1> QED
  BY <1>1, <1>2, Inductive, PTL DEF Spec

-----------------------------------------------------------------------------
(* Notifications repeat the history, in its order.                         *)

\* No notice is of a request still to be run: those sent are of older ones.
NoticeBound(r) ==
    /\ r <= accepted
    /\ queue # <<>> => r < accepted
    /\ held # NoRun => r <= held
    /\ held # NoRun /\ loop # "publish" => r < held

NoticeInv ==
    /\ NoticesTellTheHistory
    /\ \A i \in DOMAIN notices : \A r \in RunIds : notices[i].run = r => NoticeBound(r)

\* A step that sends no notice changes no row a notice is about.
LEMMA BoundStep ==
    ASSUME IInv, IInv', NEW r \in RunIds, NoticeBound(r), [Next]_vars, ~SendNotification
    PROVE  NoticeBound(r)' /\ rows'[r] = rows[r]
<1> USE MaxRunsAssumption DEF NoticeBound, RunIds, NoRun, submitVars, loopVars, storeVars
<1>1. /\ TypeOK /\ OrderInv /\ LoopInv
      /\ accepted \in 0 .. MaxRuns /\ held \in RunIds \union {NoRun}
  BY DEF IInv, TypeOK
<1>2. ASSUME NEW c \in Callers, Enqueue(c) PROVE NoticeBound(r)' /\ rows'[r] = rows[r]
  <2>1. UNCHANGED <<held, loop, rows>>
    BY <1>2 DEF Enqueue
  <2> QED
    BY <1>1, <1>2, <2>1, Enqueued
<1>3. CASE Dequeue
  <2>1. PICK q \in RunIds : queue = <<q>> /\ held' = q /\ queue' = <<>>
    BY <1>1, <1>3, Dequeued
  <2>2. UNCHANGED <<accepted, rows>> /\ q = accepted
    BY <1>1, <1>3, <2>1 DEF Dequeue, OrderInv
  <2> QED
    BY <1>1, <2>1, <2>2
<1>4. CASE StartRun \/ FinishRun
  BY <1>1, <1>4 DEF StartRun, FinishRun, LoopInv, TypeOK
<1>5. CASE Publish \/ Exit \/ Crash
  BY <1>1, <1>5 DEF Publish, PublishOutcome, Exit, Crash, ProcessGone
<1>6. ASSUME NEW c \in Callers, Call(c) \/ PreFlight(c)
      PROVE  NoticeBound(r)' /\ rows'[r] = rows[r]
  BY <1>1, <1>6 DEF Call, PreFlight
<1>7. CASE ExitLoop \/ SetCurrent \/ CheckSlaves \/ DoSync
  BY <1>1, <1>7 DEF ExitLoop, SetCurrent, CheckSlaves, DoSync
<1>8. CASE Terminate \/ Cancel \/ Restart \/ FleetChanges \/ UNCHANGED vars
  BY <1>1, <1>8 DEF Terminate, Cancel, Restart, FleetChanges, vars, LoopInv
<1> QED
  BY <1>2, <1>3, <1>4, <1>5, <1>6, <1>7, <1>8 DEF Next, LoopStep, RunStep

\* What the list of notices holds after one was appended.
LEMMA AppendedNotice ==
    ASSUME NEW S, NEW s \in Seq(S), NEW e \in S, NEW t, t = Append(s, e)
    PROVE  /\ DOMAIN t = 1 .. Len(s) + 1
           /\ DOMAIN s = 1 .. Len(s) /\ Len(s) \in Nat
           /\ \A i \in 1 .. Len(s) : t[i] = s[i]
           /\ t[Len(s) + 1] = e
  OBVIOUS

\* Every step keeps the notices in order, and true.
LEMMA NoticeStep ==
    ASSUME IInv, IInv', NoticeInv, [Next]_vars
    PROVE  NoticeInv'
<1>1. \A i \in DOMAIN notices : notices[i].run \in RunIds
  <2> DEFINE Notice == [run : RunIds, status : FinalStates \union {"running"}]
  <2>1. notices \in Seq(Notice)
    BY DEF IInv, TypeOK
  <2>2. \A i \in DOMAIN notices : notices[i] \in Notice
    <3> HIDE DEF Notice
    <3> QED
      BY <2>1
  <2> QED
    BY <2>2
<1>2. CASE SendNotification
  <2>1. /\ held \in RunIds /\ rows[held] \in FinalStates \union {"running"} /\ held <= accepted /\ (queue # <<>> => held < accepted)
        /\ UNCHANGED <<queue, accepted, held, rows>> /\ loop = "notify" /\ loop' = "publish"
    BY <1>2 DEF SendNotification, IInv, TypeOK, OrderInv, LoopInv, submitVars, NoRun
  <2>2. CASE notices' = notices
    BY <2>1, <2>2 DEF NoticeInv, NoticesTellTheHistory, NoticeBound, NoRun
  <2>3. CASE notices' = Append(notices, [run |-> held, status |-> rows[held]])
    <3> DEFINE new == [run |-> held, status |-> rows[held]]
    <3>1. /\ DOMAIN notices' = 1 .. Len(notices) + 1
          /\ DOMAIN notices = 1 .. Len(notices) /\ Len(notices) \in Nat
          /\ \A i \in 1 .. Len(notices) : notices'[i] = notices[i]
          /\ notices'[Len(notices) + 1] = new
      <4> DEFINE Notice == [run : RunIds, status : FinalStates \union {"running"}]
      <4>1. notices \in Seq(Notice) /\ new \in Notice /\ notices' = Append(notices, new)
        BY <2>1, <2>3 DEF IInv, TypeOK
      <4> HIDE DEF Notice, new
      <4> QED
        BY <4>1, AppendedNotice
    <3>2. \A i \in 1 .. Len(notices) :
              /\ notices[i].status = rows[notices[i].run]
              /\ notices[i].run < held
              /\ \A j \in 1 .. i - 1 : notices[j].run < notices[i].run
      BY <1>1, <2>1, <3>1 DEF NoticeInv, NoticesTellTheHistory, NoticeBound, NoRun, RunIds
    <3>3. NoticesTellTheHistory'
      <4> SUFFICES ASSUME NEW i \in DOMAIN notices'
                   PROVE  /\ notices'[i].status = rows'[notices'[i].run]
                          /\ \A j \in 1 .. i - 1 : notices'[j].run < notices'[i].run
        BY DEF NoticesTellTheHistory
      <4>1. CASE i = Len(notices) + 1
        BY <2>1, <3>1, <3>2, <4>1
      <4>2. CASE i \in 1 .. Len(notices)
        BY <2>1, <3>1, <3>2, <4>2
      <4> QED
        BY <3>1, <4>1, <4>2
    <3>4. ASSUME NEW i \in DOMAIN notices', NEW r \in RunIds, notices'[i].run = r
          PROVE  NoticeBound(r)'
      <4>1. r <= held
        BY <2>1, <3>1, <3>2, <3>4 DEF RunIds
      <4> QED
        BY <2>1, <4>1, MaxRunsAssumption DEF NoticeBound, RunIds, IInv, TypeOK
    <3> QED
      BY <3>3, <3>4 DEF NoticeInv
  <2> QED
    BY <1>2, <2>2, <2>3 DEF SendNotification, NoticeStatus
<1>3. CASE ~SendNotification
  <2>1. notices' = notices
    BY <1>3 DEF Next, LoopStep, RunStep, Call, PreFlight, Enqueue, ExitLoop, Dequeue,
         SetCurrent, CheckSlaves, StartRun, FinishRun, Publish, PublishOutcome, DoSync,
         Terminate, Cancel, Exit, Crash, ProcessGone, Restart, FleetChanges,
         vars, storeVars
  <2>2. ASSUME NEW i \in DOMAIN notices, NEW r \in RunIds, notices[i].run = r
        PROVE  NoticeBound(r)' /\ rows'[r] = rows[r]
    BY <1>3, <2>2, BoundStep DEF NoticeInv
  <2>3. NoticesTellTheHistory'
    BY <1>1, <2>1, <2>2 DEF NoticeInv, NoticesTellTheHistory
  <2> QED
    BY <2>1, <2>2, <2>3 DEF NoticeInv
<1> QED
  BY <1>2, <1>3

\* Notices are in the order of the runs, one at most for each, and true.
THEOREM NoticesTruthful == Spec => []NoticesTellTheHistory
<1>1. Init => NoticeInv
  BY DEF Init, NoticeInv, NoticesTellTheHistory
<1>2. IInv /\ IInv' /\ NoticeInv /\ [Next]_vars => NoticeInv'
  BY NoticeStep
<1>3. NoticeInv => NoticesTellTheHistory
  BY DEF NoticeInv
<1> QED
  BY <1>1, <1>2, <1>3, Inductive, PTL DEF Spec

-----------------------------------------------------------------------------
(* The history is a journal: initial states map to initial states, and     *)
(* every step opens a row, closes the newest one, or leaves the table be.  *)

\* Every step is a step of the journal, or leaves it alone.
LEMMA JournalStep ==
    ASSUME IInv, [Next]_vars
    PROVE  [Journal!JournalNext]_rows
<1> USE DEF Journal!JournalNext, Journal!Open, Journal!Close, Journal!NothingAfter,
            Journal!RunIds, Journal!FinalStates
<1>1. CASE StartRun
  <2>1. held \in RunIds /\ rows[held] = "absent"
    BY <1>1 DEF StartRun, IInv, TypeOK, LoopInv, NoRun
  <2>2. rows' = rows \/ Journal!Open(held)
    BY <1>1, <2>1 DEF StartRun, IInv, OrderInv, RunIds, NoRun
  <2> QED
    BY <2>1, <2>2 DEF RunIds
<1>2. CASE FinishRun
  <2>1. held \in RunIds /\ rows[held] = "running" /\ result \in FinalStates
    BY <1>2 DEF FinishRun, IInv, TypeOK, LoopInv, NoRun
  <2>2. rows' = rows \/ Journal!Close(held, result)
    BY <1>2, <2>1 DEF FinishRun, IInv, OrderInv, RunIds, NoRun
  <2> QED
    BY <2>1, <2>2 DEF RunIds, FinalStates
<1>3. CASE rows' = rows
  BY <1>3
<1> QED
  BY <1>1, <1>2, <1>3
     DEF Next, LoopStep, RunStep, Call, PreFlight, Enqueue, ExitLoop, Dequeue,
         SetCurrent, CheckSlaves, SendNotification, Publish, PublishOutcome, DoSync,
         Terminate, Cancel, Exit, Crash, ProcessGone, Restart, FleetChanges,
         vars, storeVars

\* The dispatcher, with every fault, crash and restart, implements RunJournal.
THEOREM ImplementsJournal == Spec => HistoryIsAJournal
<1>1. Init => Journal!JournalInit
  BY DEF Init, Journal!JournalInit, Journal!RunIds, RunIds
<1>2. IInv /\ [Next]_vars => [Journal!JournalNext]_rows
  BY JournalStep
<1> QED
  BY <1>1, <1>2, Inductive, PTL DEF Spec, HistoryIsAJournal, Journal!JournalSpec
=============================================================================
