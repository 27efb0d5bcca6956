---------------------------- MODULE MCWebFollow ----------------------------
(***************************************************************************)
(* The two parts of the page whose progress matters, for TLC: the poll of  *)
(* the status and the debounced panel Sync Config.  Init chooses the part  *)
(* that runs; the other one rests.                                         *)
(***************************************************************************)
EXTENDS StatusPolling, SyncConfigPanel

VARIABLE part

followVars == <<part, pollVars, panelVars>>

\* A tab that has loaded the status and sees no run.
PollRests ==
    /\ moment = 0 /\ queued = FALSE /\ place = "other"
    /\ \E q \in {[data |-> 0, stale |-> FALSE, fetch |-> Idle, early |-> FALSE]} :
           status = q /\ history = q
    /\ starting = FALSE /\ lost = 0 /\ noticed = Never

FollowInit ==
    /\ part \in {"polling", "panel"}
    /\ IF part = "polling" THEN PollInit ELSE PollRests
    /\ PanelInit

Polling(A) == part = "polling" /\ A /\ UNCHANGED <<part, panelVars>>
Panel(A)   == part = "panel" /\ A /\ UNCHANGED <<part, pollVars>>

FollowNext == Polling(PollNext) \/ Panel(PanelNext)
FollowSpec ==
    /\ FollowInit /\ [][FollowNext]_followVars
    /\ WF_followVars(Polling(RunProceeds)) /\ WF_followVars(Polling(StatusAnswered))
    /\ WF_followVars(Polling(HistoryAnswered)) /\ WF_followVars(Polling(PollStatus))
    /\ WF_followVars(Panel(PanelProgress))
=============================================================================
