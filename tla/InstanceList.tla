---------------------------- MODULE InstanceList ----------------------------
(***************************************************************************)
(* The list of the page Instances: its rows, switches and confirm dialogs. *)
(*   web/src/pages/Instances.tsx           the table and the two dialogs   *)
(*   web/src/components/ConfirmDialog.tsx                                  *)
(*   web/src/hooks/useInstances.ts         the query and its mutations     *)
(* The server's side of each request is module InstanceRepo; here it is    *)
(* one step.  A row is absent, the master or a slave, each of the two with *)
(* its switch (sync_enabled), which of the master has no effect.           *)
(***************************************************************************)
EXTENDS Integers, FiniteSets

CONSTANTS
    Rows,         \* instances
    MaxCalls      \* bound: mutations under way at one time

ASSUME InstanceListAssumption == MaxCalls \in Nat \ {0}

VARIABLES
    roster,       \* the server: what each row is
    listed,       \* query instances: its data
    listFetch,    \* query instances: its fetch
    confirming,   \* confirmDelete, confirmPromote
    calls,        \* the mutations under way, two equal ones being one
    outdated,     \* query instances: invalidated, or without data
    unseen        \* history: the tab cannot know of some change

instanceListVars == <<roster, listed, listFetch, outdated, confirming, calls, unseen>>

Kinds   == [role : {"master", "slave"}, on : BOOLEAN] \union {[role |-> "absent", on |-> FALSE]}
Rosters == {r \in [Rows -> Kinds] :
               \A i, j \in Rows : r[i].role = "master" /\ r[j].role = "master" => i = j}
Gone     == [role |-> "absent", on |-> FALSE]
NoRoster == [i \in Rows |-> Gone]
NoFetch   == [at |-> "idle", data |-> NoRoster]
Requested == [at |-> "asked", data |-> NoRoster]
Call     == [kind : {"delete", "promote", "on", "off"}, row : Rows, at : {"sent", "done"}]

InstanceListInit ==
    /\ \E m \in Rows : roster = [i \in Rows |-> [role |-> IF i = m THEN "master" ELSE "slave", on |-> TRUE]]
    /\ listed = NoRoster
    /\ listFetch = Requested
    /\ outdated = TRUE
    /\ confirming = {}
    /\ calls = {}
    /\ unseen = FALSE

-----------------------------------------------------------------------------
(* The page.  What it offers depends on the rows that are listed.          *)

IsPending(kind) == \E c \in calls : c.kind = kind
Mutate(kind, i) ==
    /\ Cardinality(calls) < MaxCalls
    /\ calls' = calls \union {[kind |-> kind, row |-> i, at |-> "sent"]}

ToggleSync(i) ==
    /\ listed[i].role = "slave" /\ confirming = {}
    /\ Mutate(IF listed[i].on THEN "off" ELSE "on", i)
    /\ UNCHANGED <<roster, listed, listFetch, outdated, confirming, unseen>>

AskConfirm(kind, i) ==
    /\ confirming = {}
    /\ listed[i].role \in (IF kind = "promote" THEN {"slave"} ELSE {"slave", "master"})
    /\ confirming' = {[kind |-> kind, row |-> i, at |-> "sent"]}
    /\ UNCHANGED <<roster, listed, listFetch, outdated, calls, unseen>>
Cancel ==
    /\ \E c \in confirming : ~IsPending(c.kind)
    /\ confirming' = {}
    /\ UNCHANGED <<roster, listed, listFetch, outdated, calls, unseen>>
\* The buttons of a dialog are disabled while its mutation is under way.
Confirm ==
    /\ \E c \in confirming : ~IsPending(c.kind) /\ Mutate(c.kind, c.row)
    /\ confirming' = {}
    /\ UNCHANGED <<roster, listed, listFetch, outdated, unseen>>

-----------------------------------------------------------------------------
(* The server.                                                             *)

Promoted_Both(r, i) == [r EXCEPT ![i].role = "master"]  \* a fault, for mutation
Promoted(r, i) ==
    [j \in Rows |-> IF r[j] = Gone THEN Gone
                    ELSE [r[j] EXCEPT !.role = IF j = i THEN "master" ELSE "slave"]]
AfterCall(r, c) ==
    CASE c.kind = "delete"  -> [r EXCEPT ![c.row] = Gone]
      [] c.kind = "promote" -> Promoted(r, c.row)
      [] OTHER -> [r EXCEPT ![c.row].on = (c.kind = "on")]

\* A row that is gone is answered by 404, and nothing comes of the answer.
ServeCall(c) ==
    /\ c.at = "sent"
    /\ IF roster[c.row] = Gone
       THEN roster' = roster /\ calls' = calls \ {c}
       ELSE /\ roster' = AfterCall(roster, c)
            /\ calls' = (calls \ {c}) \union {[c EXCEPT !.at = "done"]}
    /\ UNCHANGED <<listed, listFetch, outdated, confirming, unseen>>

\* Bound: one lost request or answer, or one change from elsewhere.
LoseCall(c) ==
    /\ ~unseen
    /\ unseen' = TRUE
    /\ calls' = calls \ {c}
    /\ UNCHANGED <<roster, listed, listFetch, outdated, confirming>>

\* The dialog of module InstanceForm, another tab, a script.
OtherChanges ==
    /\ ~unseen
    /\ \E c \in Call :
           /\ c.kind \in {"delete", "promote"} /\ roster[c.row] # Gone
           /\ roster' = AfterCall(roster, c)
    /\ unseen' = TRUE
    /\ UNCHANGED <<listed, listFetch, outdated, confirming, calls>>

ReadList ==
    /\ listFetch.at = "asked"
    /\ listFetch' = [at |-> "read", data |-> roster]
    /\ UNCHANGED <<roster, listed, outdated, confirming, calls, unseen>>
\* The fetch fails, with its retry: the rows stay, and stay outdated until
\* something fetches them again.
ListFails ==
    /\ listFetch.at # "idle"
    /\ listFetch' = NoFetch
    /\ UNCHANGED <<roster, listed, outdated, confirming, calls, unseen>>
RefetchList ==
    /\ outdated /\ listFetch.at = "idle"
    /\ listFetch' = Requested
    /\ UNCHANGED <<roster, listed, outdated, confirming, calls, unseen>>

-----------------------------------------------------------------------------
(* The answers.                                                            *)

ListAnswered ==
    /\ listFetch.at = "read"
    /\ listed' = listFetch.data
    /\ listFetch' = NoFetch /\ outdated' = FALSE
    /\ UNCHANGED <<roster, confirming, calls, unseen>>

\* invalidateAll drops a fetch under way for a new one.  It would join the
\* first fetch of all, but a mutation needs a row, which that one brings.
InvalidateAll_Joining ==                            \* a fault, for mutation
    IF listFetch.at = "idle" THEN Requested ELSE listFetch
InvalidateAll == Requested

CallAnswered(c) ==
    /\ c.at = "done"
    /\ listFetch' = InvalidateAll /\ outdated' = TRUE
    /\ calls' = calls \ {c}
    /\ UNCHANGED <<roster, listed, confirming, unseen>>

-----------------------------------------------------------------------------
InstanceListNext ==
    \/ \E i \in Rows :
           ToggleSync(i) \/ \E kind \in {"delete", "promote"} : AskConfirm(kind, i)
    \/ Cancel \/ Confirm \/ OtherChanges \/ ReadList \/ ListAnswered \/ ListFails \/ RefetchList
    \/ \E c \in calls : ServeCall(c) \/ LoseCall(c) \/ CallAnswered(c)
InstanceListSpec == InstanceListInit /\ [][InstanceListNext]_instanceListVars
-----------------------------------------------------------------------------
(* Properties.                                                             *)

\* The variables hold values of their kind; at most one row is the master.
InstanceListTypeOK ==
    /\ roster \in Rosters /\ listed \in Rosters
    /\ listFetch \in [at : {"idle", "asked", "read"}, data : Rosters]
    /\ confirming \subseteq Call /\ calls \subseteq Call /\ unseen \in BOOLEAN
    /\ outdated \in BOOLEAN /\ (outdated \/ listFetch.at = "idle")

\* Once its requests are answered, in whatever order they overtook each
\* other, the page lists the instances as they are or knows that its rows are
\* outdated, because a fetch has failed; unless others changed them or an
\* answer was lost (invalidateAll).
ListCatchesUp ==
    (listFetch.at = "idle" /\ ~outdated /\ ~unseen /\ calls = {}) => listed = roster
=============================================================================
