--------------------------- MODULE SyncConfigPanel ---------------------------
(***************************************************************************)
(* The panel Sync Config below the row of the master.                      *)
(*   web/src/pages/Instances.tsx   toggleExpand, handleConfigToggle, the   *)
(*                                 timers and the checkboxes               *)
(*   web/src/hooks/useInstances.ts getSyncConfig, updateSyncConfig         *)
(* A toggle shows at once; half a second after the last one the whole      *)
(* configuration is sent, and nobody looks at the answer.                  *)
(***************************************************************************)
EXTENDS Integers

CONSTANTS
    Types,       \* configuration types
    Dhcp,        \* the one that is off by default
    MaxToggles,  \* bound: clicks on checkboxes
    MaxLoads,    \* bound: requests GET under way at one time
    MaxSends,    \* bound: requests PUT under way at one time
    MaxMisses    \* bound: requests that are lost, and changes from elsewhere

ASSUME PanelAssumption ==
    /\ Dhcp \in Types /\ MaxToggles \in Nat /\ MaxMisses \in Nat
    /\ MaxLoads \in Nat \ {0} /\ MaxSends \in Nat \ {0}

VARIABLES
    config,      \* the server: sync_config of the master
    shown,       \* expandedId is this instance
    local,       \* syncConfigs of this instance, and whether there is any
    loads,       \* getSyncConfig, the requests under way
    timer,       \* debounceRef
    sends,       \* updateSyncConfig, the requests under way
    toggles,     \* how many clicks
    clicked,     \* history: the types clicked on
    misses,      \* how many requests lost and changes from elsewhere
    blind,       \* history: a checkbox was clicked before the config had come
    foreign,     \* history: somebody else has changed the configuration
    crossed      \* history: requests overlapped, or the tab missed something

panelVars ==
    <<config, shown, local, loads, timer, sends, toggles, clicked, misses, blind, foreign,
      crossed>>

Configs  == [Types -> BOOLEAN]
AllTrue  == [t \in Types |-> TRUE]
Default  == [t \in Types |-> t # Dhcp]
Loads    == 1 .. MaxLoads
Sends    == 1 .. MaxSends
\* A configuration that may be there, and how far a request has come.
Maybe    == [is : {"no", "asked", "yes"}, value : Configs]
NoConfig == [is |-> "no", value |-> Default]
Asked    == [is |-> "asked", value |-> Default]
Holding(v) == [is |-> "yes", value |-> v]

PanelInit ==
    /\ config = Default
    /\ shown = FALSE
    /\ local = NoConfig /\ timer = NoConfig
    /\ loads = [l \in Loads |-> NoConfig] /\ sends = [s \in Sends |-> NoConfig]
    /\ toggles = 0 /\ misses = 0 /\ clicked = {}
    /\ blind = FALSE /\ foreign = FALSE /\ crossed = FALSE

Sending == \E s \in Sends : sends[s].is # "no"

-----------------------------------------------------------------------------
(* The page.                                                               *)

FirstFree(slots, s) ==
    slots[s].is = "no" /\ \A o \in DOMAIN slots : o < s => slots[o].is # "no"
\* Each time the panel opens without a configuration, one is asked for,
\* whether or not another request for it is under way.
Expand ==
    IF local.is = "no"
    THEN /\ \E l \in Loads : FirstFree(loads, l) /\ loads' = [loads EXCEPT ![l] = Asked]
         /\ crossed' = (crossed \/ Sending)
    ELSE UNCHANGED <<loads, crossed>>

ToggleExpand_Cleans ==  \* a fault, for mutation: collapsing clears the timer
    /\ shown' = ~shown
    /\ IF shown THEN UNCHANGED <<loads, crossed>> ELSE Expand
    /\ timer' = NoConfig
    /\ UNCHANGED <<config, local, sends, toggles, clicked, misses, blind, foreign>>
ToggleExpand ==
    /\ shown' = ~shown
    /\ IF shown THEN UNCHANGED <<loads, crossed>> ELSE Expand
    /\ UNCHANGED <<config, local, timer, sends, toggles, clicked, misses, blind, foreign>>

\* The checkboxes are there before the configuration is: all of them on.
Existing_Drawn == AllTrue  \* a fault, for mutation: never looks at what was loaded
Existing == IF local.is = "yes" THEN local.value ELSE AllTrue

Armed_First(v) == IF timer.is = "yes" THEN timer ELSE Holding(v)  \* a fault, for mutation
Armed(v) == Holding(v)

HandleConfigToggle(t) ==
    /\ shown /\ toggles < MaxToggles
    /\ toggles' = toggles + 1 /\ clicked' = clicked \union {t}
    /\ local' = Holding([Existing EXCEPT ![t] = ~@])
    /\ timer' = Armed([Existing EXCEPT ![t] = ~@])
    /\ blind' = (blind \/ local.is = "no")
    /\ UNCHANGED <<config, shown, loads, sends, misses, foreign, crossed>>

TimerFires ==
    /\ timer.is = "yes"
    /\ \E s \in Sends : FirstFree(sends, s) /\ sends' = [sends EXCEPT ![s] = timer]
    /\ timer' = NoConfig
    /\ crossed' = (crossed \/ Sending)
    /\ UNCHANGED <<config, shown, local, loads, toggles, clicked, misses, blind, foreign>>

\* The configuration that has been loaded replaces what has been clicked, and
\* so does that of a second request after edits of the first.
LoadArrives(l) ==
    /\ loads[l].is = "yes"
    /\ local' = loads[l]
    /\ loads' = [loads EXCEPT ![l] = NoConfig]
    /\ crossed' = (crossed \/ (local.is = "yes" /\ local.value # loads[l].value))
    /\ UNCHANGED <<config, shown, timer, sends, toggles, clicked, misses, blind, foreign>>

\* Unmounting clears the timers; a request PUT stays under way, the answer of
\* a request GET goes nowhere.
LeavePage_Armed ==  \* a fault, for mutation: the timers outlive the page
    /\ shown' = FALSE
    /\ local' = NoConfig /\ loads' = [l \in Loads |-> NoConfig]
    /\ UNCHANGED <<config, timer, sends, toggles, clicked, misses, blind, foreign, crossed>>
LeavePage ==
    /\ shown' = FALSE
    /\ local' = NoConfig /\ loads' = [l \in Loads |-> NoConfig] /\ timer' = NoConfig
    /\ UNCHANGED <<config, sends, toggles, clicked, misses, blind, foreign, crossed>>

-----------------------------------------------------------------------------
(* The server and everybody else.                                          *)

ReadConfig(l) ==
    /\ loads[l].is = "asked"
    /\ loads' = [loads EXCEPT ![l] = Holding(config)]
    /\ UNCHANGED <<config, shown, local, timer, sends, toggles, clicked, misses, blind, foreign,
                   crossed>>

ServeSend(s) ==
    /\ sends[s].is = "yes"
    /\ config' = sends[s].value
    /\ sends' = [sends EXCEPT ![s] = NoConfig]
    /\ UNCHANGED <<shown, local, loads, timer, toggles, clicked, misses, blind, foreign, crossed>>

Miss == misses < MaxMisses /\ misses' = misses + 1 /\ crossed' = TRUE

SendLost(s) ==
    /\ Miss
    /\ sends[s].is = "yes"
    /\ sends' = [sends EXCEPT ![s] = NoConfig]
    /\ UNCHANGED <<config, shown, local, loads, timer, toggles, clicked, blind, foreign>>
LoadLost(l) ==
    /\ Miss
    /\ loads[l].is = "asked"
    /\ loads' = [loads EXCEPT ![l] = NoConfig]
    /\ UNCHANGED <<config, shown, local, timer, sends, toggles, clicked, blind, foreign>>
OtherConfigures ==
    /\ Miss
    /\ foreign' = TRUE
    /\ \E c \in Configs : config' = c
    /\ UNCHANGED <<shown, local, loads, timer, sends, toggles, clicked, blind>>

-----------------------------------------------------------------------------
PanelNext ==
    \/ ToggleExpand \/ TimerFires \/ LeavePage \/ OtherConfigures
    \/ \E l \in Loads : LoadArrives(l) \/ ReadConfig(l) \/ LoadLost(l)
    \/ \E t \in Types : HandleConfigToggle(t)
    \/ \E s \in Sends : ServeSend(s) \/ SendLost(s)
\* The timer fires, the server answers.
PanelProgress == TimerFires \/ \E s \in Sends : ServeSend(s)
PanelSpec == PanelInit /\ [][PanelNext]_panelVars /\ WF_panelVars(PanelProgress)
-----------------------------------------------------------------------------
(* Properties.                                                             *)

\* The variables hold values of their kind.
PanelTypeOK ==
    /\ config \in Configs /\ shown \in BOOLEAN
    /\ local \in Maybe /\ timer \in Maybe
    /\ loads \in [Loads -> Maybe] /\ sends \in [Sends -> Maybe]
    /\ toggles \in 0 .. MaxToggles /\ misses \in 0 .. MaxMisses /\ clicked \subseteq Types
    /\ blind \in BOOLEAN /\ foreign \in BOOLEAN /\ crossed \in BOOLEAN
    /\ timer.is = "yes" => local.is = "yes"

\* The panel differs from the server only while an edit is on its way, and
\* that edit is the state of all checkboxes.  The exceptions: it was clicked
\* on before the configuration had come (blind); requests were lost, two PUT
\* overlapped, a GET was sent beside a PUT, the answer of a second GET
\* replaced an edit, or others wrote (crossed).
PanelAgrees ==
    (local.is = "yes" /\ ~blind /\ ~crossed) =>
        IF timer.is = "yes" THEN timer.value = local.value
        ELSE \/ local.value = config
             \/ \E s \in Sends : sends[s] = local

\* Every edit reaches the server if the page stays open: the panel and the
\* server agree in the end (debounceRef), with the exceptions of PanelAgrees.
EditReachesServer ==
    <>[](local.is = "no" \/ local.value = config \/ blind \/ crossed)

\* An edit sends every checkbox, and yet a type changes at the server only if
\* it was clicked on: DHCP, off by default, is not switched on by an edit of
\* another type, whatever requests are lost, overlap or overtake each other.
\* Not so after a click before the configuration had come, which sends the
\* other checkboxes as they were drawn, all of them on (blind), nor when
\* somebody else writes, whose choice an old answer may undo (foreign).
OnlyWhatWasClicked ==
    [][\A t \in Types : config'[t] # config[t] => t \in clicked \/ blind \/ foreign']_panelVars
=============================================================================
