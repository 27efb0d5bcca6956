---------------------------- MODULE WatchdogForm ----------------------------
(***************************************************************************)
(* The card Filesystem Watchdog of the page Sync.                          *)
(*   web/src/pages/Sync.tsx            the form, its effect and its Save   *)
(*   web/src/lib/api.ts                updateWatchdog                      *)
(*   web/src/hooks/useSettings.ts      the cached settings                 *)
(*   internal/api/handlers/settings.go UpdateWatchdog, GetSettings         *)
(* Module Watchdog has what the server does with the settings.             *)
(***************************************************************************)
CONSTANTS
    Paths,      \* paths of configuration files
    NoPath      \* the empty path

ASSUME WatchdogFormAssumption == NoPath \notin Paths

VARIABLES
    dogStored,    \* app_config: watchdog_enabled and watchdog_path
    dogForm,      \* Sync: watchdogEnabled and watchdogPath
    dogCache,     \* query settings: its data, if it has any
    dogFetch,     \* query settings: its fetch, with what the server has read
    dogStale,     \* query settings: invalidated, or older than its staleTime
    dogPut,       \* mutation saveWatchdog
    dogEdited,    \* history: the form holds an edit that has not been saved
    dogStrangers  \* history: the tab cannot know of some write

dogQuery == <<dogCache, dogFetch, dogStale>>
dogVars == <<dogStored, dogForm, dogQuery, dogPut, dogEdited, dogStrangers>>

Watches == [on : BOOLEAN, path : Paths \union {NoPath}]
Off     == [on |-> FALSE, path |-> NoPath]
\* What a slot may hold, and how far its contents have come.
Slot(states) == [at : states, value : Watches]
None(state)  == [at |-> state, value |-> Off]
\* open: the page that sent the request is still there.  One at a time.
DogPuts  == [at : {"none", "sent", "half", "ok", "failed"}, value : Watches, open : BOOLEAN]
NoDogPut == [at |-> "none", value |-> Off, open |-> TRUE]

DogInit ==
    /\ dogStored \in Watches
    /\ dogForm = Off
    /\ dogCache = None("empty") /\ dogFetch = None("asked") /\ dogStale = TRUE
    /\ dogPut = NoDogPut
    /\ dogEdited = FALSE
    /\ dogStrangers = FALSE

-----------------------------------------------------------------------------
(* The form.                                                               *)

\* The input of the path is disabled while the switch is off.
EditWatchdog ==
    /\ \/ dogForm' = [dogForm EXCEPT !.on = ~@]
       \/ dogForm.on /\ \E p \in Paths \union {NoPath} : dogForm' = [dogForm EXCEPT !.path = p]
    /\ dogEdited' = TRUE
    /\ UNCHANGED <<dogStored, dogQuery, dogPut, dogStrangers>>

Pathless(v) == v.on /\ v.path = NoPath
Savable_Any == TRUE                                 \* a fault, for mutation
Savable == ~Pathless(dogForm)

SaveWatchdog ==
    /\ dogPut.at = "none"
    /\ Savable
    /\ dogPut' = [at |-> "sent", value |-> dogForm, open |-> TRUE]
    /\ dogEdited' = FALSE
    /\ UNCHANGED <<dogStored, dogForm, dogQuery, dogStrangers>>

\* invalidateQueries: a fetch under way is dropped for a new one, but for the
\* first of all, which is joined even if the server has answered it already.
DogJoined == dogCache.at = "empty" /\ dogFetch.at # "idle"
InvalidateDog ==
    dogStale' = TRUE /\ dogFetch' = IF DogJoined THEN dogFetch ELSE None("asked")

\* onSuccess: the form shows the answer, over what has been typed meanwhile.
WatchdogSaved ==
    /\ dogPut.at = "ok"
    /\ dogForm' = IF dogPut.open THEN dogPut.value ELSE dogForm
    /\ dogEdited' = (dogEdited /\ ~dogPut.open)
    /\ InvalidateDog
    /\ dogStrangers' = (dogStrangers \/ (DogJoined /\ dogFetch.at = "read"))
    /\ dogPut' = NoDogPut
    /\ UNCHANGED <<dogStored, dogCache>>
WatchdogRefused ==
    /\ dogPut.at = "failed"
    /\ dogPut' = NoDogPut
    /\ dogEdited' = (dogEdited \/ dogPut.open)
    /\ UNCHANGED <<dogStored, dogForm, dogQuery, dogStrangers>>

\* The effect of Sync runs when the cached settings have changed.
Cached(v) == [at |-> "loaded", value |-> v]
FormAfter_Once(v) ==                                \* a fault, for mutation
    IF dogCache.at = "empty" THEN v ELSE dogForm
FormAfter(v) == IF Cached(v) # dogCache THEN v ELSE dogForm

WatchdogLoaded ==
    /\ dogFetch.at = "read"
    /\ dogCache' = Cached(dogFetch.value)
    /\ dogForm' = FormAfter(dogFetch.value)
    /\ dogEdited' = (dogEdited /\ Cached(dogFetch.value) = dogCache)
    /\ dogFetch' = None("idle") /\ dogStale' = FALSE
    /\ UNCHANGED <<dogStored, dogPut, dogStrangers>>

\* Another mutation of a setting, the focus of the window, or a page that
\* opens after the staleTime.
RefetchWatchdog ==
    /\ InvalidateDog
    /\ UNCHANGED <<dogStored, dogForm, dogCache, dogPut, dogEdited, dogStrangers>>

\* The page opens anew: its form starts from what is cached, and a query that
\* is stale is fetched.
ReopenWatchdog ==
    /\ dogForm' = dogCache.value
    /\ dogEdited' = FALSE
    /\ dogPut' = IF dogPut.at = "none" THEN dogPut ELSE [dogPut EXCEPT !.open = FALSE]
    /\ dogFetch' = IF dogStale /\ dogFetch.at = "idle" THEN None("asked") ELSE dogFetch
    /\ UNCHANGED <<dogStored, dogCache, dogStale, dogStrangers>>

-----------------------------------------------------------------------------
(* The server and everybody else.                                          *)

\* GetSettings: a setting that cannot be read is answered as if it were unset.
DogAnswers(v) == {v, [v EXCEPT !.on = FALSE], [v EXCEPT !.path = NoPath], Off}

\* UpdateWatchdog stores the switch, then the path, starts the watch, and
\* answers with the settings as they are; when the watch cannot be started
\* they are stored all the same.
PutSwitch ==
    /\ dogPut.at = "sent"
    /\ dogStored' = [dogStored EXCEPT !.on = dogPut.value.on]
    /\ dogPut' = [dogPut EXCEPT !.at = "half"]
    /\ UNCHANGED <<dogForm, dogQuery, dogEdited, dogStrangers>>
DogAnswered(w) ==
    \/ \E v \in DogAnswers(w) :
           /\ dogPut' = [dogPut EXCEPT !.at = "ok", !.value = v]
           /\ dogStrangers' = (dogStrangers \/ v # w)
    \/ dogPut.value.on /\ dogPut' = [dogPut EXCEPT !.at = "failed"] /\ dogStrangers' = TRUE
PutPath ==
    /\ dogPut.at = "half"
    /\ dogStored' = [dogStored EXCEPT !.path = dogPut.value.path]
    /\ DogAnswered(dogStored')
    /\ UNCHANGED <<dogForm, dogQuery, dogEdited>>
\* A write fails, maybe after the other was stored, or the answer is lost.
PutFails ==
    /\ dogPut.at \in {"sent", "half", "ok"}
    /\ dogPut' = [dogPut EXCEPT !.at = "failed"]
    /\ dogStrangers' = (dogStrangers \/ dogPut.at # "sent")
    /\ UNCHANGED <<dogStored, dogForm, dogQuery, dogEdited>>

ReadWatchdog ==
    /\ dogFetch.at = "asked"
    /\ \E v \in DogAnswers(dogStored) :
           /\ dogFetch' = [at |-> "read", value |-> v]
           /\ dogStrangers' = (dogStrangers \/ v # dogStored)
    /\ UNCHANGED <<dogStored, dogForm, dogCache, dogStale, dogPut, dogEdited>>
\* GET /settings fails, with its retry: the data stay as they were, and stale.
DogReadFails ==
    /\ dogFetch.at # "idle" /\ dogFetch' = None("idle")
    /\ UNCHANGED <<dogStored, dogForm, dogCache, dogStale, dogPut, dogEdited, dogStrangers>>

\* Another tab, or a restored backup, which may switch on without a path.
OtherSavesWatchdog(v) ==
    /\ dogStored' = v
    /\ dogStrangers' = TRUE
    /\ UNCHANGED <<dogForm, dogQuery, dogPut, dogEdited>>

-----------------------------------------------------------------------------
DogNext ==
    \/ EditWatchdog \/ SaveWatchdog \/ WatchdogSaved \/ WatchdogRefused
    \/ WatchdogLoaded \/ RefetchWatchdog \/ ReopenWatchdog
    \/ PutSwitch \/ PutPath \/ PutFails \/ ReadWatchdog \/ DogReadFails
    \/ \E v \in Watches : OtherSavesWatchdog(v)
DogSpec == DogInit /\ [][DogNext]_dogVars
-----------------------------------------------------------------------------
(* Properties.                                                             *)

\* The variables hold values of their kind; no request switches the watchdog
\* on without a path; a query that is being fetched, or that has no data, is
\* stale.
WatchdogFormTypeOK ==
    /\ dogStored \in Watches /\ dogForm \in Watches
    /\ dogCache \in Slot({"empty", "loaded"}) /\ dogFetch \in Slot({"idle", "asked", "read"})
    /\ dogStale \in BOOLEAN /\ (dogStale \/ (dogFetch.at = "idle" /\ dogCache.at = "loaded"))
    /\ dogPut \in DogPuts
    /\ dogPut.at \in {"sent", "half"} => ~Pathless(dogPut.value)
    /\ dogEdited \in BOOLEAN /\ dogStrangers \in BOOLEAN

\* A form without unsaved edits shows the settings that are stored, once all
\* answers are in, or its tab knows that they are old: no late answer brings
\* older settings back (the effect of Sync, onSuccess).  The exceptions:
\* others write too, a request fails after it has stored something, a read
\* error is swallowed, or the first load was under way during a save.
WatchdogFormAgrees ==
    (/\ dogCache.at = "loaded" /\ dogFetch.at = "idle" /\ dogPut.at = "none"
     /\ ~dogEdited /\ ~dogStrangers /\ ~dogStale) => dogForm = dogStored
=============================================================================
