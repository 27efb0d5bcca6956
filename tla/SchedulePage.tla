---------------------------- MODULE SchedulePage ----------------------------
(***************************************************************************)
(* The schedule, from the card Schedule of the page Sync to the cron job:  *)
(*   web/src/pages/Sync.tsx            the input, Save and Clear           *)
(*   web/src/hooks/useSettings.ts      the cached settings                 *)
(*   internal/api/handlers/sync.go     SetSchedule: installs, then stores  *)
(*   internal/sync/scheduler.go        removes the old job, parses, adds   *)
(*   cmd/aghsync/main.go               reloads the schedule at start       *)
(*   internal/backup/backup.go         Restore stores a schedule only      *)
(***************************************************************************)
EXTENDS Integers, FiniteSets

CONSTANTS
    Valid,       \* cron expressions the parser accepts
    Bad,         \* one that it refuses
    Blank,       \* the empty string
    MaxPuts,     \* bound: requests under way at one time
    MaxTroubles  \* bound: failing writes and reads, lost answers, restarts, restores
                 \* and requests of other clients

ASSUME ScheduleAssumption ==
    /\ Bad \notin Valid /\ Blank \notin Valid /\ Bad # Blank
    /\ {"idle", "asked", "unloaded"} \intersect (Valid \union {Bad, Blank}) = {}
    /\ MaxPuts \in Nat \ {0} /\ MaxTroubles \in Nat

VARIABLES
    cronStored,    \* app_config: scheduler_cron
    cronEntry,     \* Scheduler: the job that is installed, Blank being none
    puts,          \* requests PUT /sync/schedule, two equal ones being one
    cron,          \* Sync: state cron
    savedCron,     \* Sync: state savedCron
    cronCache,     \* query settings: scheduler_cron, once it is loaded
    cronFetch,     \* query settings: its fetch, with what the server has read
    cronStale,     \* query settings: invalidated, or older than its staleTime
    cronTouched,   \* history: the user has edited the input
    cronFate,      \* history: what became of the requests
    cronStrangers, \* history: the cache cannot know of some write
    cronTroubles   \* how many faults there have been

cronServer == <<cronStored, cronEntry, cronFate>>
cronPage   == <<cron, savedCron, cronTouched>>
cronQuery  == <<cronCache, cronFetch, cronStale>>
cronVars   == <<cronServer, puts, cronPage, cronQuery, cronStrangers, cronTroubles>>

Saved   == Valid \union {Blank}
Exprs   == Saved \union {Bad}
Unloaded == "unloaded"
\* by: the open page, the tab whose page is gone, or another client.
Put   == [expr : Exprs, by : {"page", "tab", "other"},
          at : {"sent", "installed", "stored", "refused"}]

Pending == \E p \in puts : p.by = "page"
\* displayCron: what the input shows.
CurrentCron == IF cronCache = Unloaded THEN Blank ELSE cronCache
DisplayCron == IF cron # Blank \/ savedCron # Blank THEN cron ELSE CurrentCron

\* main: what it installs at its start.  A stored schedule that does not parse
\* only earns a warning.
StartEntry == IF cronStored \in Valid THEN cronStored ELSE Blank
StartFate  == IF cronStored = Bad THEN "refused" ELSE "clean"

ScheduleInit ==
    /\ cronStored \in Exprs /\ cronEntry = StartEntry /\ cronFate = StartFate
    /\ puts = {}
    /\ cron = Blank /\ savedCron = Blank /\ cronTouched = FALSE
    /\ cronCache = Unloaded /\ cronFetch = "asked" /\ cronStale = TRUE
    /\ cronStrangers = FALSE
    /\ cronTroubles = 0

-----------------------------------------------------------------------------
(* The page.                                                               *)

TypeCron(x) ==
    /\ cron' = x /\ cronTouched' = TRUE
    /\ UNCHANGED <<cronServer, puts, savedCron, cronQuery, cronStrangers, cronTroubles>>

SendPut(x, by) ==
    /\ Cardinality(puts) < MaxPuts
    /\ puts' = puts \union {[expr |-> x, by |-> by, at |-> "sent"]}

SaveSchedule ==
    /\ ~Pending
    /\ SendPut(IF cron # Blank THEN cron ELSE DisplayCron, "page")
    /\ UNCHANGED <<cronServer, cronPage, cronQuery, cronStrangers, cronTroubles>>

ClearSchedule ==
    /\ CurrentCron # Blank /\ ~Pending
    /\ cron' = Blank /\ savedCron' = Blank /\ cronTouched' = TRUE
    /\ SendPut(Blank, "page")
    /\ UNCHANGED <<cronServer, cronQuery, cronStrangers, cronTroubles>>

\* The user leaves the page and comes back; a page that opens has a query
\* fetched that is stale and not being fetched.
ReopenSync ==
    /\ cron' = Blank /\ savedCron' = Blank /\ cronTouched' = FALSE
    /\ puts' = {[p EXCEPT !.by = IF @ = "page" THEN "tab" ELSE @] : p \in puts}
    /\ cronFetch' = IF cronStale /\ cronFetch = "idle" THEN "asked" ELSE cronFetch
    /\ UNCHANGED <<cronServer, cronCache, cronStale, cronStrangers, cronTroubles>>

\* invalidateQueries: a fetch under way is dropped for a new one, but for the
\* first of all, which is joined even if the server has answered it already.
\* The query settings is observed on every page.
Joined == cronCache = Unloaded /\ cronFetch # "idle"
InvalidateSettings ==
    cronStale' = TRUE /\ cronFetch' = IF Joined THEN cronFetch ELSE "asked"

\* What useMutation does with an answer.
Own(p) == p.by # "other" /\ p.at = "stored"
Refresh_No(p) == UNCHANGED <<cronFetch, cronStale>> \* a fault, for mutation
Refresh(p) == IF Own(p) THEN InvalidateSettings ELSE UNCHANGED <<cronFetch, cronStale>>

PutAnswered(p) ==
    /\ p.at \in {"stored", "refused"}
    /\ savedCron' = IF p.by = "page" /\ p.at = "stored" THEN p.expr ELSE savedCron
    /\ Refresh(p)
    /\ cronStrangers' = (cronStrangers \/ (Own(p) /\ Joined /\ cronFetch # "asked"))
    /\ puts' = puts \ {p}
    /\ UNCHANGED <<cronServer, cron, cronTouched, cronCache, cronTroubles>>

\* Another mutation of a setting, the focus of the window, or a page that
\* opens after the staleTime.
RefetchSettings ==
    /\ InvalidateSettings
    /\ UNCHANGED <<cronServer, puts, cronPage, cronCache, cronStrangers, cronTroubles>>

ReadSettings ==
    /\ cronFetch = "asked"
    /\ cronFetch' = cronStored
    /\ UNCHANGED <<cronServer, puts, cronPage, cronCache, cronStale, cronStrangers, cronTroubles>>
SettingsArrive ==
    /\ cronFetch \in Exprs
    /\ cronCache' = cronFetch /\ cronFetch' = "idle" /\ cronStale' = FALSE
    /\ UNCHANGED <<cronServer, puts, cronPage, cronStrangers, cronTroubles>>

-----------------------------------------------------------------------------
(* The server and everybody else.                                          *)

Trouble == cronTroubles < MaxTroubles /\ cronTroubles' = cronTroubles + 1

OtherClient(x) ==
    /\ Trouble
    /\ SendPut(x, "other")
    /\ cronStrangers' = TRUE
    /\ UNCHANGED <<cronServer, cronPage, cronQuery>>

\* Scheduler.SetSchedule: the old job goes first, whatever comes then.
Entry_Kept(x) ==                                    \* a fault, for mutation
    IF x = Blank THEN cronEntry ELSE IF x \in Valid THEN x ELSE Blank
Entry_Unparsed(x) == x                              \* a fault, for mutation
Entry(x) == IF x \in Valid THEN x ELSE Blank

Installing == \E p \in puts : p.at = "installed"
Becomes(p, at) == puts' = (puts \ {p}) \union {[p EXCEPT !.at = at]}

Install(p) ==
    /\ p.at = "sent"
    /\ cronEntry' = Entry(p.expr)
    /\ IF p.expr = Bad
       THEN Becomes(p, "refused") /\ cronFate' = "refused"
       ELSE /\ Becomes(p, "installed")
            /\ cronFate' = IF Installing THEN "split" ELSE "clean"
    /\ UNCHANGED <<cronStored, cronPage, cronQuery, cronStrangers, cronTroubles>>

StoreCron(p) ==
    /\ p.at = "installed"
    /\ cronStored' = p.expr
    /\ Becomes(p, "stored")
    /\ UNCHANGED <<cronEntry, cronFate, cronPage, cronQuery, cronStrangers, cronTroubles>>

StoreFails(p) ==
    /\ Trouble
    /\ p.at = "installed"
    /\ Becomes(p, "refused")
    /\ cronFate' = "split"
    /\ UNCHANGED <<cronStored, cronEntry, cronPage, cronQuery, cronStrangers>>

AnswerLost(p) ==
    /\ Trouble
    /\ p.at = "stored"
    /\ Becomes(p, "refused")
    /\ cronStrangers' = TRUE
    /\ UNCHANGED <<cronServer, cronPage, cronQuery>>

\* GET /settings fails, with its retry: the data stay as they were, and stale.
ReadFails ==
    /\ Trouble
    /\ cronFetch # "idle" /\ cronFetch' = "idle"
    /\ UNCHANGED <<cronServer, puts, cronPage, cronCache, cronStale, cronStrangers>>
\* GetSettings drops the error of a setting it cannot read and answers 200.
ReadSwallowed ==
    /\ Trouble
    /\ cronFetch = "asked" /\ cronFetch' = Blank
    /\ cronStrangers' = TRUE
    /\ UNCHANGED <<cronServer, puts, cronPage, cronCache, cronStale>>

\* main: the schedule that is stored is installed if it parses; requests fail.
RestartServer ==
    /\ Trouble
    /\ cronEntry' = StartEntry /\ cronFate' = StartFate
    /\ puts' = {[p EXCEPT !.at = "refused"] : p \in puts}
    /\ cronFetch' = IF cronFetch = "idle" THEN "idle" ELSE "asked"
    /\ cronStrangers' = (cronStrangers \/ \E p \in puts : p.at = "stored")
    /\ UNCHANGED <<cronStored, cronPage, cronCache, cronStale>>

\* Restore stores the schedule of the backup, whatever the file says, and
\* installs nothing.
RestoreCron ==
    /\ Trouble
    /\ \E x \in Exprs : cronStored' = x
    /\ cronFate' = "split" /\ cronStrangers' = TRUE
    /\ UNCHANGED <<cronEntry, puts, cronPage, cronQuery>>

-----------------------------------------------------------------------------
ScheduleNext ==
    \/ \E x \in Exprs : TypeCron(x) \/ OtherClient(x)
    \/ SaveSchedule \/ ClearSchedule \/ ReopenSync
    \/ RefetchSettings \/ ReadSettings \/ SettingsArrive \/ ReadFails \/ ReadSwallowed
    \/ RestartServer \/ RestoreCron
    \/ \E p \in puts :
           Install(p) \/ StoreCron(p) \/ StoreFails(p) \/ AnswerLost(p) \/ PutAnswered(p)
ScheduleSpec == ScheduleInit /\ [][ScheduleNext]_cronVars
-----------------------------------------------------------------------------
(* Properties.                                                             *)

\* The variables hold values of their kind: the scheduler never runs, and no
\* request ever stores, an expression that cannot be parsed (a restored backup
\* may); a query that is being fetched, or that has no data, is stale.
ScheduleTypeOK ==
    /\ cronStored \in Exprs /\ cronEntry \in Saved
    /\ puts \subseteq Put
    /\ \A p \in puts : p.expr = Bad => p.at \in {"sent", "refused"}
    /\ cron \in Exprs /\ savedCron \in Saved
    /\ cronCache \in Exprs \union {Unloaded} /\ cronFetch \in Exprs \union {"idle", "asked"}
    /\ cronStale \in BOOLEAN /\ (cronStale \/ (cronFetch = "idle" /\ cronCache # Unloaded))
    /\ cronTouched \in BOOLEAN
    /\ cronFate \in {"clean", "split", "refused"} /\ cronStrangers \in BOOLEAN
    /\ cronTroubles \in 0 .. MaxTroubles

\* The job that runs is the one that is stored, except between the two steps
\* of a request.  A refused request stops the schedule and leaves it stored;
\* a stored expression that main cannot parse, which a backup may bring, runs
\* nothing.  Two requests at once, a failing write and a restored backup may
\* split the two until the next request or restart (SetSchedule, main,
\* Restore).
ScheduleInForce ==
    \/ Installing
    \/ cronFate = "split"
    \/ cronFate = "refused" /\ cronEntry = Blank
    \/ cronEntry = cronStored

\* Once its requests have been answered, the tab shows the schedule that is
\* stored or knows that it is old, which a fetch that failed leaves behind.
\* The exceptions: somebody else wrote, an answer was lost, a read error was
\* swallowed, or the first load was under way when a request was answered.
CronCacheCatchesUp ==
    (cronFetch = "idle" /\ ~cronStrangers /\ puts = {}) => cronCache = cronStored \/ cronStale

\* "leave it blank to disable scheduled sync" (README): an input that was
\* left blank is saved as blank.
BlankDisablesSchedule ==
    [][SaveSchedule /\ cronTouched /\ cron = Blank
           => [expr |-> Blank, by |-> "page", at |-> "sent"] \in puts']_cronVars
=============================================================================
