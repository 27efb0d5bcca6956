----------------------------- MODULE SyncEngine -----------------------------
(***************************************************************************)
(* One run of Engine.doSync (internal/sync/engine.go), the step DoSync of  *)
(* SyncDispatcher taken apart: the reads from the database, the snapshots  *)
(* of the master, the fan-out to one goroutine per slave behind a          *)
(* semaphore, and the result rows.  The API goes on serving meanwhile: any *)
(* write of InstanceRepo may come between two steps; the replacement of    *)
(* all instances by backup.Restore is not among them.  AdGuard Home        *)
(* servers may fail a request or never answer it.                          *)
(***************************************************************************)
EXTENDS InstanceRepo

CONSTANTS
    MaxParallel,   \* capacity of the semaphore: 5 in the code
    MaxWrites,     \* bound: writes to the instances during the run
    BadSecrets     \* instances whose password cannot be decrypted

ASSUME BoundsAssumption == MaxParallel \in Nat \ {0} /\ MaxWrites \in Nat

\* Every instance can have an address of its own.
OwnAddresses == {a \in [Ids -> Addresses] : \A i, j \in Ids : a[i] = a[j] => i = j}
ASSUME AddressesAssumption == OwnAddresses # {}

VARIABLES
    phase,       \* where doSync is
    master,      \* the master it has found, NoInstance before
    children,    \* the slaves it syncs to
    todo,        \* types still to be read from the master
    snaps,       \* types it has a snapshot of
    g,           \* g[c]: where the goroutine of child c is
    left,        \* left[c]: types it has yet to apply
    doing,       \* doing[c]: the result it is about to record
    failed,      \* children whose syncChild returned, or will return, true
    pushed,      \* history variable: <<c, t>> such that Apply has returned nil
    results,     \* rows of sync_results for this run
    outcome,     \* what doSync has returned, or "none"
    cancelled,   \* ctx is cancelled
    writes       \* number of writes to the instances so far

runVars   == <<master, children, todo, snaps>>
childVars == <<g, left, doing, failed, pushed>>
engineVars == <<phase, runVars, childVars, results, outcome, cancelled, writes>>
allVars == <<repoVars, engineVars>>

NoInstance == "no instance"
NoResult   == <<"none", "none">>
Phases     == {"list", "creds", "lookup", "config", "snapshot", "fanout", "returned"}
Places     == {"none", "queued", "creds", "loop", "record", "ended"}
\* The slaves that hold the semaphore.
Holding == {c \in Ids : g[c] \in {"creds", "loop", "record"}}

\* A fleet as the API can leave it: a configured master or none, any slaves,
\* and room for instances that are created during the run.
EngineInit ==
    /\ row \in [Ids -> {"present", "unborn"}]
    /\ \E m \in Ids, c \in Configs :
           /\ \A t \in ConfigTypes : c[t] = "none" <=> t \notin AllConfigTypes
           /\ \/ /\ Present(m)
                 /\ isMaster = [i \in Ids |-> i = m]
                 /\ cfg = [i \in Ids |-> IF i = m THEN c ELSE NoConfig]
              \/ /\ isMaster = [i \in Ids |-> FALSE]
                 /\ cfg = [i \in Ids |-> NoConfig]
    /\ syncEnabled \in [Ids -> BOOLEAN]
    /\ \A i \in Ids : syncEnabled[i] => Present(i)
    /\ LET own == CHOOSE a \in OwnAddresses : TRUE
       IN  address = [i \in Ids |-> IF Present(i) THEN own[i] ELSE NoAddress]
    /\ edits = {}
    /\ dhcpAsked = TRUE
    /\ phase = "list"
    /\ master = NoInstance /\ children = {} /\ todo = {} /\ snaps = {}
    /\ g = [c \in Ids |-> "none"]
    /\ left = [c \in Ids |-> {}]
    /\ doing = [c \in Ids |-> NoResult]
    /\ failed = {} /\ pushed = {} /\ results = {}
    /\ outcome = "none"
    /\ cancelled = FALSE
    /\ writes = 0

Return(status) == phase' = "returned" /\ outcome' = status

-----------------------------------------------------------------------------
(* doSync, up to the fan-out.                                              *)

\* Fault: the test for a slave is not in the else branch of the one for a master.
Listed_All == {i \in Ids : Present(i) /\ syncEnabled[i]}
Listed == {i \in Slaves : syncEnabled[i]}

ListInstances ==
    /\ phase = "list"
    /\ IF cancelled \/ Masters = {}
       THEN Return("error") /\ UNCHANGED runVars
       ELSE /\ phase' = "creds"
            /\ master' = CHOOSE i \in Ids : isMaster[i]
            /\ children' = Listed
            /\ UNCHANGED <<todo, snaps, outcome>>
    /\ UNCHANGED <<repoVars, childVars, results, cancelled, writes>>

CredentialsOf(i) == ~cancelled /\ Present(i) /\ i \notin BadSecrets

MasterCredentials ==
    /\ phase = "creds"
    /\ IF CredentialsOf(master) THEN phase' = "lookup" /\ UNCHANGED outcome
                                ELSE Return("error")
    /\ UNCHANGED <<repoVars, runVars, childVars, results, cancelled, writes>>

\* GetSyncConfig looks the instance up, then reads its rows, if any are left.
LookUpMaster ==
    /\ phase = "lookup"
    /\ IF ~cancelled /\ Present(master) THEN phase' = "config" /\ UNCHANGED outcome
                                        ELSE Return("error")
    /\ UNCHANGED <<repoVars, runVars, childVars, results, cancelled, writes>>

EnabledTypes == {t \in AllConfigTypes : cfg[master][t] = "on"}

ReadMasterConfig ==
    /\ phase = "config"
    /\ IF cancelled THEN Return("error") /\ UNCHANGED todo
                    ELSE phase' = "snapshot" /\ todo' = EnabledTypes /\ UNCHANGED outcome
    /\ UNCHANGED <<repoVars, master, children, snaps, childVars, results, cancelled, writes>>

\* Fault: a snapshot that fails is tried again.
TakeSnapshot_Retrying ==
    /\ phase = "snapshot"
    /\ \E t \in todo :
           \/ ~cancelled /\ snaps' = snaps \union {t} /\ todo' = todo \ {t}
           \/ UNCHANGED <<snaps, todo>>
    /\ UNCHANGED <<repoVars, phase, master, children, childVars, results, outcome,
                   cancelled, writes>>

\* A snapshot that fails is skipped with a warning.
TakeSnapshot ==
    /\ phase = "snapshot"
    /\ \E t \in todo :
           /\ todo' = todo \ {t}
           /\ \/ ~cancelled /\ snaps' = snaps \union {t}
              \/ UNCHANGED snaps
    /\ UNCHANGED <<repoVars, phase, master, children, childVars, results, outcome,
                   cancelled, writes>>

FanOut ==
    /\ phase = "snapshot" /\ todo = {}
    /\ IF children = {} THEN Return("success") /\ UNCHANGED g
       ELSE /\ phase' = "fanout"
            /\ g' = [c \in Ids |-> IF c \in children THEN "queued" ELSE "none"]
            /\ UNCHANGED outcome
    /\ UNCHANGED <<repoVars, runVars, left, doing, failed, pushed, results,
                   cancelled, writes>>

-----------------------------------------------------------------------------
(* The goroutine of child c: the semaphore, then syncChild.                *)

Room == Cardinality(Holding) < MaxParallel

Acquire(c) ==
    /\ g[c] = "queued" /\ Room
    /\ g' = [g EXCEPT ![c] = "creds"]
    /\ UNCHANGED <<repoVars, phase, runVars, left, doing, failed, pushed, results,
                   outcome, cancelled, writes>>

\* Fault: a child without credentials counts as a success.
Unreachable_Ignored(c) == failed
\* Without credentials syncChild returns true at once and writes no result.
Unreachable(c) == failed \union {c}

ChildCredentials(c) ==
    /\ g[c] = "creds"
    /\ IF CredentialsOf(c)
       THEN /\ g' = [g EXCEPT ![c] = "loop"]
            /\ left' = [left EXCEPT ![c] = snaps]
            /\ UNCHANGED failed
       ELSE /\ g' = [g EXCEPT ![c] = "ended"]
            /\ failed' = Unreachable(c)
            /\ UNCHANGED left
    /\ UNCHANGED <<repoVars, phase, runVars, doing, pushed, results, outcome,
                   cancelled, writes>>

\* Fault: a type that fails is tried again.
Apply_Retrying(c) ==
    /\ g[c] = "loop"
    /\ \E t \in left[c] :
           \/ /\ ~cancelled
              /\ left' = [left EXCEPT ![c] = @ \ {t}]
              /\ pushed' = pushed \union {<<c, t>>}
              /\ doing' = [doing EXCEPT ![c] = <<t, "success">>]
              /\ UNCHANGED failed
           \/ /\ doing' = [doing EXCEPT ![c] = <<t, "error">>]
              /\ failed' = failed \union {c}
              /\ UNCHANGED <<left, pushed>>
    /\ g' = [g EXCEPT ![c] = "record"]
    /\ UNCHANGED <<repoVars, phase, runVars, results, outcome, cancelled, writes>>

\* One type, in the order of a Go map: any.  The snapshot of the child taken
\* first, for the diff, may fail without consequence, and hang like Apply.
Apply(c) ==
    /\ g[c] = "loop"
    /\ \E t \in left[c] :
           /\ left' = [left EXCEPT ![c] = @ \ {t}]
           /\ \/ /\ ~cancelled
                 /\ pushed' = pushed \union {<<c, t>>}
                 /\ doing' = [doing EXCEPT ![c] = <<t, "success">>]
                 /\ UNCHANGED failed
              \/ /\ doing' = [doing EXCEPT ![c] = <<t, "error">>]
                 /\ failed' = failed \union {c}
                 /\ UNCHANGED pushed
    /\ g' = [g EXCEPT ![c] = "record"]
    /\ UNCHANGED <<repoVars, phase, runVars, results, outcome, cancelled, writes>>

\* Fault: the row names whatever type comes next.
ResultRow_Stale(c) == [instance |-> c, type |-> CHOOSE t \in snaps : TRUE,
                       status |-> doing[c][2]]
ResultRow(c) == [instance |-> c, type |-> doing[c][1], status |-> doing[c][2]]

\* AddResult uses ctx and a foreign key to the instance; its error is ignored.
AddResult(c) ==
    /\ g[c] = "record"
    /\ results' = IF ~cancelled /\ Present(c) THEN results \union {ResultRow(c)} ELSE results
    /\ doing' = [doing EXCEPT ![c] = NoResult]
    /\ g' = [g EXCEPT ![c] = "loop"]
    /\ UNCHANGED <<repoVars, phase, runVars, left, failed, pushed, outcome,
                   cancelled, writes>>

EndChild(c) ==
    /\ g[c] = "loop" /\ left[c] = {}
    /\ g' = [g EXCEPT ![c] = "ended"]
    /\ UNCHANGED <<repoVars, phase, runVars, left, doing, failed, pushed, results,
                   outcome, cancelled, writes>>

\* Fault: doSync collects as many results as there are, without wg.Wait.
AllEnded_One == \E c \in children : g[c] = "ended"
AllEnded == \A c \in children : g[c] = "ended"

Collect ==
    /\ phase = "fanout" /\ AllEnded
    /\ Return(IF failed = {} THEN "success" ELSE "partial_failure")
    /\ UNCHANGED <<repoVars, runVars, childVars, results, cancelled, writes>>

-----------------------------------------------------------------------------
\* The dispatcher's context is cancelled.
CancelCtx ==
    /\ ~cancelled
    /\ cancelled' = TRUE
    /\ UNCHANGED <<repoVars, phase, runVars, childVars, results, outcome, writes>>

\* A request of /instances writes to them; deleting one deletes its result rows.
Administer ==
    /\ writes < MaxWrites
    /\ writes' = writes + 1
    /\ RepoNext
    /\ results' = {r \in results : Present(r.instance)'}
    /\ UNCHANGED <<phase, runVars, childVars, outcome, cancelled>>

\* doSync has returned: its caller goes on (SyncDispatcher).
Returned == phase = "returned" /\ UNCHANGED allVars

Child(c)   == Acquire(c) \/ ChildCredentials(c) \/ Apply(c) \/ AddResult(c) \/ EndChild(c)
DoSyncStep == ListInstances \/ MasterCredentials \/ LookUpMaster \/ ReadMasterConfig
              \/ TakeSnapshot \/ FanOut \/ Collect
Waiting(c) == g[c] = "loop" /\ left[c] # {}    \* for an answer of the child's server

EngineNext ==
    DoSyncStep \/ (\E c \in Ids : Child(c)) \/ CancelCtx \/ Administer \/ Returned

\* A server may leave a request unanswered until ctx is cancelled.
EngineFairness ==
    /\ WF_allVars((phase # "snapshot" \/ todo = {} \/ cancelled) /\ DoSyncStep)
    /\ \A c \in Ids : WF_allVars((cancelled \/ ~Waiting(c)) /\ Child(c))

EngineSpec == EngineInit /\ [][EngineNext]_allVars /\ EngineFairness

\* All servers answer.
ServersAnswer == WF_allVars(DoSyncStep) /\ \A c \in Ids : WF_allVars(Child(c))

-----------------------------------------------------------------------------
(* Properties.                                                             *)

\* Types; no master among the slaves of the run, no result of a type without
\* a snapshot.
EngineTypeOK ==
    /\ phase \in Phases
    /\ master \in Ids \union {NoInstance}
    /\ children \subseteq Ids \ {master}
    /\ todo \subseteq AllConfigTypes /\ snaps \subseteq AllConfigTypes
    /\ g \in [Ids -> Places]
    /\ left \in [Ids -> SUBSET snaps]
    /\ doing \in [Ids -> {NoResult} \union (snaps \X {"success", "error"})]
    /\ failed \subseteq children
    /\ pushed \subseteq children \X snaps
    /\ results \subseteq [instance : children, type : snaps, status : {"success", "error"}]
    /\ outcome \in {"none", "success", "partial_failure", "error"}
    /\ cancelled \in BOOLEAN
    /\ writes \in 0 .. MaxWrites

\* "success" means that every slave of the run has taken every type that could
\* be read from the master, whatever happened to the instances meanwhile.
SuccessMeansPushed == outcome = "success" => children \X snaps \subseteq pushed

\* The history tells what was done: a result row says of its slave and type
\* what Apply returned, and each is there unless the slave was deleted, its
\* password could not be read or ctx was cancelled.
ResultsTellWhatHappened ==
    /\ \A r \in results : r.status = "success" <=> <<r.instance, r.type>> \in pushed
    /\ outcome \in {"success", "partial_failure"} /\ ~cancelled =>
           \A c \in children \ BadSecrets, t \in snaps :
               Present(c) => \E r \in results : r.instance = c /\ r.type = t

\* When doSync has returned, and FinishRun and the notification read the
\* results, no goroutine of the run is at work any more.
NoneWorksAfterReturn == outcome # "none" => \A c \in Ids : g[c] \in {"none", "ended"}

\* The dispatcher in the state it is in during the run: it holds a request, has
\* written its row, and a shutdown may cancel ctx.
Dispatcher == INSTANCE SyncDispatcher WITH
    Callers <- {}, MaxRuns <- 1, Faults <- {},
    hasSlaves <- Listed # {},
    caller <- << >>, reply <- << >>, queue <- << >>, accepted <- 1,
    loop <- IF phase = "returned" THEN "finish" ELSE "sync",
    held <- 1, result <- outcome, current <- 1, last <- [run |-> 0, status |-> "none"],
    rows <- <<"running">>, notices <- << >>,
    main <- IF cancelled THEN "cancelled" ELSE "closing",
    fate <- <<"open">>

\* doSync does what the dispatcher takes it to do, its one step DoSync, while
\* the fleet changes and ctx is cancelled as they do there.
RunIsDoSync == [][Dispatcher!Next]_(Dispatcher!vars)

\* What a run has yet to do at most: phases and snapshots, and for the slaves
\* the slot, the password, the end, and each type to apply and to record.
Rank == [list |-> 0, creds |-> 1, lookup |-> 2, config |-> 3, snapshot |-> 4,
         fanout |-> 5, returned |-> 6]
InHand(c, places) == phase # "returned" /\ g[c] \in places
ToApply(c, t) == InHand(c, {"none", "queued", "creds"}) \/ (InHand(c, Places) /\ t \in left[c])
WorkLeft ==
    [phases    |-> Rank[phase] .. 5,
     snapshots |-> {t \in AllConfigTypes : Rank[phase] < 4 \/ (Rank[phase] = 4 /\ t \in todo)},
     slots     |-> {c \in Ids : InHand(c, {"none", "queued"})},
     passwords |-> {c \in Ids : InHand(c, {"none", "queued", "creds"})},
     ends      |-> {c \in Ids : InHand(c, Places \ {"ended"})},
     applies   |-> {p \in Ids \X AllConfigTypes : ToApply(p[1], p[2])},
     records   |-> {p \in Ids \X AllConfigTypes :
                        \/ ToApply(p[1], p[2])
                        \/ InHand(p[1], {"record"}) /\ doing[p[1]][1] = p[2]}]

\* In the fan-out no slave waits for a slot that nobody will free.
SlotsAreFreed ==
    phase = "fanout" /\ ~AllEnded =>
        \E c \in children : g[c] \in {"creds", "loop", "record"} \/ (g[c] = "queued" /\ Room)

\* What termination rests on, whatever fails: a run that has not returned has a
\* step to take, every step leaves less to do, as nothing is tried twice, and
\* neither the API nor a cancellation adds to it.
RunMovesOn ==
    /\ []SlotsAreFreed
    /\ [][/\ \A k \in DOMAIN WorkLeft : WorkLeft'[k] \subseteq WorkLeft[k]
          /\ (DoSyncStep \/ \E c \in Ids : Child(c)) => WorkLeft' # WorkLeft]_allVars

\* A run returns when the servers answer.
RunReturns == ServersAnswer => <>(phase = "returned")

\* Once ctx is cancelled, a run returns though servers hang: what the shutdown
\* in SyncDispatcher relies on.
CancelledRunReturns == cancelled ~> phase = "returned"

\* README.md:179 says that a run applies the master's snapshot to slaves.
MasterIsNotOverwritten ==
    [][\A c \in Ids, t \in AllConfigTypes :
          <<c, t>> \in pushed' \ pushed => ~isMaster[c]]_allVars
=============================================================================
