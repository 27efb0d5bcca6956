--------------------------- MODULE WebPages_proofs ---------------------------
(***************************************************************************)
(* Theorems about the pages and dialogs of MCWebPages, for any sets of     *)
(* expressions, settings, instances, addresses, passwords, channels, types *)
(* and texts, and any number of requests, losses and restarts.  The parts  *)
(* that each page needs come first; the last section proves what is said   *)
(* of all of them under the specification that composes them.              *)
(***************************************************************************)
EXTENDS MCWebPages, Transfers_proofs, RunDiff_proofs, TLAPS

-----------------------------------------------------------------------------
(* SchedulePage.                                                           *)

\* ScheduleInForce is not inductive without what a request under way is about
\* to store: in the clean case that is the job which has been installed.
InStep ==
    /\ cronFate = "refused" => cronEntry = Blank
    /\ cronFate = "clean" =>
           IF Installing THEN \A p \in puts : p.at = "installed" => p.expr = cronEntry
           ELSE cronEntry = cronStored
ScheduleInv == ScheduleTypeOK /\ InStep

\* What main installs: the stored schedule, or nothing if it does not parse.
LEMMA StartFacts ==
    ASSUME cronStored \in Exprs
    PROVE  /\ StartEntry \in Saved
           /\ \/ StartFate = "refused" /\ StartEntry = Blank
              \/ StartFate = "clean" /\ StartEntry = cronStored
  BY ScheduleAssumption DEF StartEntry, StartFate, Saved, Exprs

LEMMA ScheduleStart == ScheduleInit => ScheduleInv
<1> SUFFICES ASSUME ScheduleInit PROVE ScheduleInv
  OBVIOUS
<1>1. puts = {} /\ cronTroubles = 0 /\ 0 \in 0 .. MaxTroubles
  BY ScheduleAssumption DEF ScheduleInit
<1>2. StartEntry \in Saved /\ StartFate \in {"clean", "refused"}
  BY DEF StartEntry, StartFate, Saved
<1>3. ScheduleTypeOK
  BY <1>1, <1>2 DEF ScheduleInit, ScheduleTypeOK, Saved, Exprs
<1>4. InStep
  BY <1>1, StartFacts DEF ScheduleInit, InStep, Installing
<1> QED
  BY <1>3, <1>4 DEF ScheduleInv

\* The steps of the page write neither the schedule nor the requests of others.
LEMMA PageSteps ==
    ASSUME ScheduleInv, NEW x \in Exprs,
           \/ TypeCron(x) \/ OtherClient(x) \/ SaveSchedule \/ ClearSchedule
           \/ RefetchSettings \/ ReadSettings \/ SettingsArrive \/ ReadFails \/ ReadSwallowed
    PROVE  ScheduleInv'
<1> USE DEF ScheduleInv, InStep, Installing, cronServer, cronPage, cronQuery
<1>1. CASE TypeCron(x) \/ ReadSettings \/ SettingsArrive
  BY <1>1, ScheduleAssumption
     DEF TypeCron, ReadSettings, SettingsArrive, ScheduleTypeOK, Exprs, Saved, Unloaded
<1>3. CASE RefetchSettings
  BY <1>3 DEF RefetchSettings, InvalidateSettings, ScheduleTypeOK
<1>4. CASE ReadFails \/ ReadSwallowed
  <2>1. cronTroubles' \in 0 .. MaxTroubles
    BY <1>4, ScheduleAssumption DEF ReadFails, ReadSwallowed, Trouble, ScheduleTypeOK
  <2>2. CASE ReadFails
    BY <2>1, <2>2, ScheduleAssumption DEF ReadFails, ScheduleTypeOK
  <2>3. CASE ReadSwallowed
    BY <2>1, <2>3 DEF ReadSwallowed, ScheduleTypeOK, Exprs, Saved
  <2> QED
    BY <1>4, <2>2, <2>3
<1>2. CASE OtherClient(x) \/ SaveSchedule \/ ClearSchedule
  <2>1. PICK y \in Exprs, b \in {"page", "tab", "other"} :
            puts' = puts \union {[expr |-> y, by |-> b, at |-> "sent"]}
    <3>1. DisplayCron \in Exprs /\ cron \in Exprs /\ Blank \in Exprs
      BY DEF DisplayCron, CurrentCron, ScheduleTypeOK, Exprs, Saved
    <3> QED
      BY <1>2, <3>1 DEF OtherClient, SaveSchedule, ClearSchedule, SendPut
  <2>2. /\ UNCHANGED <<cronStored, cronEntry, cronFate, cronCache, cronFetch, cronStale>>
        /\ cronTroubles' \in 0 .. MaxTroubles
        /\ savedCron' \in {savedCron, Blank} /\ cron' \in {cron, Blank}
        /\ cronTouched' \in {cronTouched, TRUE} /\ cronStrangers' \in {cronStrangers, TRUE}
    <3>1. CASE OtherClient(x)
      BY <3>1, ScheduleAssumption DEF OtherClient, Trouble, ScheduleTypeOK
    <3>2. CASE SaveSchedule
      BY <3>2 DEF SaveSchedule, ScheduleTypeOK
    <3>3. CASE ClearSchedule
      BY <3>3 DEF ClearSchedule, ScheduleTypeOK
    <3> QED
      BY <1>2, <3>1, <3>2, <3>3
  <2>3. ScheduleTypeOK'
    <3>1. puts' \subseteq Put /\ \A p \in puts' : p.expr = Bad => p.at \in {"sent", "refused"}
      BY <2>1 DEF ScheduleTypeOK, Put
    <3>2. cron' \in Exprs /\ savedCron' \in Saved
      BY <2>2 DEF ScheduleTypeOK, Exprs, Saved
    <3>3. cronTouched' \in BOOLEAN /\ cronStrangers' \in BOOLEAN
      BY <2>2 DEF ScheduleTypeOK
    <3> QED
      BY <2>2, <3>1, <3>2, <3>3 DEF ScheduleTypeOK
  <2>4. InStep'
    BY <2>1, <2>2
  <2> QED
    BY <2>3, <2>4
<1> QED
  BY <1>1, <1>2, <1>3, <1>4

\* Leaving the page changes who waits, and nothing else.
LEMMA ReopenStep ==
    ASSUME ScheduleInv, ReopenSync
    PROVE  ScheduleInv'
<1> DEFINE g(p) == [p EXCEPT !.by = IF @ = "page" THEN "tab" ELSE @]
<1>1. \A p \in puts : g(p) \in Put /\ g(p).at = p.at /\ g(p).expr = p.expr
  BY DEF ScheduleInv, ScheduleTypeOK, Put
<1>2. puts' = {g(p) : p \in puts}
  BY DEF ReopenSync
<1> HIDE DEF g
<1>3. \A q \in puts' : q \in Put /\ \E p \in puts : q.at = p.at /\ q.expr = p.expr
  BY <1>1, <1>2
<1>4. \A p \in puts : \E q \in puts' : q.at = p.at /\ q.expr = p.expr
  BY <1>1, <1>2
<1>5. ScheduleTypeOK'
  BY <1>3 DEF ReopenSync, ScheduleInv, ScheduleTypeOK, cronServer, cronQuery, Exprs, Saved
<1>6. UNCHANGED <<cronStored, cronEntry, cronFate>>
  BY DEF ReopenSync, cronServer
<1>7. InStep'
  BY <1>3, <1>4, <1>6 DEF ScheduleInv, InStep, Installing
<1> QED
  BY <1>5, <1>7 DEF ScheduleInv

\* What becomes of a request: its state, and nothing else of it.
LEMMA BecomesFacts ==
    ASSUME NEW p \in puts, puts \subseteq Put, NEW a \in {"installed", "stored", "refused"},
           Becomes(p, a)
    PROVE  \E q \in puts' : /\ q \in Put /\ q.at = a /\ q.expr = p.expr /\ q.by = p.by
                            /\ \A r \in puts' : r = q \/ (r \in puts /\ r # p)
                            /\ \A r \in puts : r = p \/ r \in puts'
<1>1. [p EXCEPT !.at = a] \in Put /\ [p EXCEPT !.at = a].at = a
      /\ [p EXCEPT !.at = a].expr = p.expr /\ [p EXCEPT !.at = a].by = p.by
  BY DEF Put
<1> QED
  BY <1>1 DEF Becomes

\* The steps of a request at the server, and its answer.
LEMMA PutSteps ==
    ASSUME ScheduleInv, NEW p \in puts,
           \/ Install(p) \/ StoreCron(p) \/ StoreFails(p) \/ AnswerLost(p) \/ PutAnswered(p)
    PROVE  ScheduleInv'
<1> USE DEF ScheduleInv, cronServer, cronPage, cronQuery
<1>1. p \in Put /\ puts \subseteq Put /\ (p.expr \in Saved \/ p.expr = Bad)
      /\ (p.expr = Bad => p.at \in {"sent", "refused"})
  BY DEF ScheduleTypeOK, Put, Exprs
<1>2. CASE Install(p)
  <2>1. CASE p.expr = Bad
    <3>1. Becomes(p, "refused") /\ cronEntry' = Blank /\ cronFate' = "refused"
      BY <1>2, <2>1, ScheduleAssumption DEF Install, Entry
    <3>2. PICK q \in puts' : /\ q \in Put /\ q.at = "refused" /\ q.expr = p.expr
                             /\ \A r \in puts' : r = q \/ (r \in puts /\ r # p)
      BY <1>1, <3>1, BecomesFacts
    <3> QED
      BY <1>2, <3>1, <3>2 DEF Install, ScheduleTypeOK, InStep, Saved
  <2>2. CASE p.expr # Bad
    <3>1. /\ Becomes(p, "installed") /\ cronEntry' = p.expr
          /\ cronFate' = IF Installing THEN "split" ELSE "clean"
      BY <1>1, <1>2, <2>2 DEF Install, Entry, Saved
    <3>2. PICK q \in puts' : /\ q \in Put /\ q.at = "installed" /\ q.expr = p.expr
                             /\ \A r \in puts' : r = q \/ (r \in puts /\ r # p)
      BY <1>1, <3>1, BecomesFacts
    <3>3. puts' \subseteq Put /\ \A r \in puts' : r.expr = Bad => r.at \in {"sent", "refused"}
      BY <2>2, <3>2 DEF ScheduleTypeOK
    <3>4. p.expr \in Saved
      BY <1>1, <2>2
    <3>5. ScheduleTypeOK'
      BY <1>2, <2>2, <3>1, <3>3, <3>4 DEF Install, ScheduleTypeOK
    <3>6. InStep'
      BY <3>1, <3>2 DEF InStep, Installing
    <3> QED
      BY <3>5, <3>6
  <2> QED
    BY <2>1, <2>2
<1>3. CASE StoreCron(p)
  <2>1. PICK q \in puts' : /\ q \in Put /\ q.at = "stored" /\ q.expr = p.expr
                           /\ \A r \in puts' : r = q \/ (r \in puts /\ r # p)
    BY <1>1, <1>3, BecomesFacts DEF StoreCron
  <2>2. p.at = "installed" /\ cronStored' = p.expr /\ p.expr \in Saved /\ p.expr # Bad
    BY <1>1, <1>3 DEF StoreCron
  <2>3. ScheduleTypeOK'
    BY <1>3, <2>1, <2>2 DEF StoreCron, ScheduleTypeOK, Exprs
  <2>4. InStep'
    BY <1>3, <2>1, <2>2 DEF StoreCron, InStep, Installing
  <2> QED
    BY <2>3, <2>4
<1>4. CASE StoreFails(p)
  <2>1. PICK q \in puts' : /\ q \in Put /\ q.at = "refused" /\ q.expr = p.expr
                           /\ \A r \in puts' : r = q \/ (r \in puts /\ r # p)
    BY <1>1, <1>4, BecomesFacts DEF StoreFails
  <2> QED
    BY <1>1, <1>4, <2>1, ScheduleAssumption DEF StoreFails, Trouble, ScheduleTypeOK, InStep
<1>5. CASE AnswerLost(p)
  <2>1. PICK q \in puts' : /\ q \in Put /\ q.at = "refused" /\ q.expr = p.expr
                           /\ \A r \in puts' : r = q \/ (r \in puts /\ r # p)
                           /\ \A r \in puts : r = p \/ r \in puts'
    BY <1>1, <1>5, BecomesFacts DEF AnswerLost
  <2>2. ScheduleTypeOK'
    BY <1>1, <1>5, <2>1, ScheduleAssumption DEF AnswerLost, Trouble, ScheduleTypeOK
  <2>3. InStep'
    BY <1>5, <2>1 DEF AnswerLost, InStep, Installing
  <2> QED
    BY <2>2, <2>3
<1>6. CASE PutAnswered(p)
  <2>1. puts' = puts \ {p} /\ p.at # "installed"
    BY <1>6 DEF PutAnswered
  <2>2. ScheduleTypeOK'
    <3>1. savedCron' \in Saved /\ puts' \subseteq Put
      BY <1>1, <1>6, <2>1 DEF PutAnswered, ScheduleTypeOK
    <3>2. /\ cronFetch' \in Exprs \union {"idle", "asked"}
          /\ cronStale' \in BOOLEAN
          /\ cronStale' \/ (cronFetch' = "idle" /\ cronCache # Unloaded)
      BY <1>6 DEF PutAnswered, Refresh, InvalidateSettings, ScheduleTypeOK
    <3>3. cronStrangers' \in BOOLEAN
      BY <1>6 DEF PutAnswered
    <3> QED
      BY <1>1, <1>6, <2>1, <3>1, <3>2, <3>3 DEF PutAnswered, ScheduleTypeOK
  <2>3. InStep'
    BY <1>6, <2>1 DEF PutAnswered, InStep, Installing
  <2> QED
    BY <2>2, <2>3
<1> QED
  BY <1>2, <1>3, <1>4, <1>5, <1>6

\* A restart of the server, and a backup that is restored.
LEMMA ServerSteps ==
    ASSUME ScheduleInv, RestartServer \/ RestoreCron
    PROVE  ScheduleInv'
<1> USE DEF ScheduleInv, cronServer, cronPage, cronQuery
<1>1. CASE RestartServer
  <2> DEFINE g(p) == [p EXCEPT !.at = "refused"]
  <2>1. \A p \in puts : g(p) \in Put /\ g(p).at = "refused"
    BY DEF ScheduleTypeOK, Put
  <2>2. puts' = {g(p) : p \in puts}
    BY <1>1 DEF RestartServer
  <2> HIDE DEF g
  <2>3. \A q \in puts' : q \in Put /\ q.at = "refused"
    BY <2>1, <2>2
  <2>4. ScheduleTypeOK'
    <3>1. StartEntry \in Saved /\ StartFate \in {"clean", "refused"} /\ cronTroubles' \in 0 .. MaxTroubles
      BY <1>1, StartFacts, ScheduleAssumption DEF RestartServer, Trouble, ScheduleTypeOK
    <3> QED
      BY <1>1, <2>3, <3>1 DEF RestartServer, ScheduleTypeOK
  <2>5. InStep'
    <3>1. \/ StartFate = "refused" /\ StartEntry = Blank
          \/ StartFate = "clean" /\ StartEntry = cronStored
      BY StartFacts DEF ScheduleTypeOK
    <3> QED
      BY <1>1, <2>3, <3>1 DEF RestartServer, InStep, Installing
  <2> QED
    BY <2>4, <2>5
<1>2. CASE RestoreCron
  BY <1>2, ScheduleAssumption DEF RestoreCron, Trouble, ScheduleTypeOK, InStep
<1> QED
  BY <1>1, <1>2

LEMMA ScheduleStep == ScheduleInv /\ [ScheduleNext]_cronVars => ScheduleInv'
<1> SUFFICES ASSUME ScheduleInv, [ScheduleNext]_cronVars PROVE ScheduleInv'
  OBVIOUS
<1>1. CASE UNCHANGED cronVars
  BY <1>1 DEF cronVars, cronServer, cronPage, cronQuery, ScheduleInv, ScheduleTypeOK, InStep,
     Installing
<1>2. CASE ScheduleNext
  <2>1. Blank \in Exprs
    BY DEF Exprs, Saved
  <2> QED
    BY <1>2, <2>1, PageSteps, ReopenStep, PutSteps, ServerSteps DEF ScheduleNext
<1> QED
  BY <1>1, <1>2

\* What is stored and what runs are tied together at every moment, through
\* requests, restarts and restored backups whose schedule may not parse.
THEOREM ScheduleInductive == ScheduleSpec => []ScheduleInv
  BY ScheduleStart, ScheduleStep, PTL DEF ScheduleSpec

\* Types; no expression that cannot be parsed is installed, nor stored by a
\* request.
THEOREM ScheduleTypes == ScheduleSpec => []ScheduleTypeOK
  BY ScheduleInductive, PTL DEF ScheduleInv

\* The job that runs is the one that is stored, but for the named cases: a
\* request between its steps or refused, two at once, a write that failed, a
\* restored backup, and a stored expression that main could not parse.
THEOREM ScheduleRuns == ScheduleSpec => []ScheduleInForce
<1>1. ScheduleInv => ScheduleInForce
  BY DEF ScheduleInv, ScheduleTypeOK, InStep, ScheduleInForce
<1> QED
  BY <1>1, ScheduleInductive, PTL

\* The cache of a tab that nothing has been kept from: it has what is stored,
\* or will fetch it when the answer to a request arrives.
StoredOut == \E p \in puts : p.at = "stored"
CacheKnown ==
    /\ \A p \in puts : p.by # "other"
    /\ cronFetch = "idle" => cronCache = cronStored \/ cronStale \/ StoredOut
    /\ cronFetch \in Exprs => cronFetch = cronStored \/ StoredOut
CacheInv == ~cronStrangers => CacheKnown

LEMMA FetchWords == "idle" \notin Exprs /\ "asked" \notin Exprs
  BY ScheduleAssumption DEF Saved, Exprs

LEMMA CacheStart == ScheduleInit => CacheInv
  BY FetchWords DEF ScheduleInit, CacheInv, CacheKnown, StoredOut

LEMMA CacheStep ==
    ASSUME ScheduleTypeOK, CacheInv, [ScheduleNext]_cronVars
    PROVE  CacheInv'
<1> USE DEF CacheInv, cronServer, cronPage, cronQuery
<1>1. puts \subseteq Put /\ cronStored \in Exprs /\ cronFetch \in Exprs \union {"idle", "asked"}
      /\ (cronStale \/ cronFetch = "idle")
  BY DEF ScheduleTypeOK
<1>2. CASE UNCHANGED cronVars
  BY <1>2 DEF cronVars, CacheKnown, StoredOut
<1>3. ASSUME NEW x \in Exprs, TypeCron(x) PROVE CacheInv'
  BY <1>3 DEF TypeCron, CacheKnown, StoredOut
<1>4. ASSUME NEW x \in Exprs, OtherClient(x) PROVE CacheInv'
  BY <1>4 DEF OtherClient
<1>5. CASE SaveSchedule \/ ClearSchedule
  <2>1. PICK y : puts' = puts \union {[expr |-> y, by |-> "page", at |-> "sent"]}
    BY <1>5 DEF SaveSchedule, ClearSchedule, SendPut
  <2>2. UNCHANGED <<cronStored, cronCache, cronFetch, cronStale, cronStrangers>>
    BY <1>5 DEF SaveSchedule, ClearSchedule
  <2> QED
    BY <2>1, <2>2 DEF CacheKnown, StoredOut
<1>6. CASE ReopenSync
  <2> DEFINE g(p) == [p EXCEPT !.by = IF @ = "page" THEN "tab" ELSE @]
  <2>1. \A p \in puts : g(p).at = p.at /\ (p.by # "other" => g(p).by # "other")
    BY <1>1 DEF Put
  <2>2. puts' = {g(p) : p \in puts}
    BY <1>6 DEF ReopenSync
  <2> HIDE DEF g
  <2>3. /\ StoredOut => StoredOut'
        /\ (\A p \in puts : p.by # "other") => (\A p \in puts' : p.by # "other")
    BY <2>1, <2>2 DEF StoredOut
  <2> QED
    BY <1>6, <2>3, FetchWords DEF ReopenSync, CacheKnown
<1>7. CASE ReadSettings
  BY <1>1, <1>7, FetchWords DEF ReadSettings, CacheKnown, StoredOut
<1>8. CASE SettingsArrive
  BY <1>8, FetchWords DEF SettingsArrive, CacheKnown, StoredOut
<1>17. CASE RefetchSettings
  BY <1>1, <1>17, FetchWords DEF RefetchSettings, InvalidateSettings, CacheKnown, StoredOut
<1>18. CASE ReadFails
  BY <1>1, <1>18, FetchWords DEF ReadFails, CacheKnown, StoredOut
<1>19. CASE ReadSwallowed
  BY <1>19 DEF ReadSwallowed
<1>9. CASE RestartServer
  <2> DEFINE g(p) == [p EXCEPT !.at = "refused"]
  <2>1. \A p \in puts : g(p).by = p.by
    BY <1>1 DEF Put
  <2>2. puts' = {g(p) : p \in puts}
    BY <1>9 DEF RestartServer
  <2> HIDE DEF g
  <2>3. ~cronStrangers' => ~cronStrangers /\ ~StoredOut
    BY <1>9 DEF RestartServer, StoredOut
  <2>4. (\A p \in puts : p.by # "other") => (\A p \in puts' : p.by # "other")
    BY <2>1, <2>2
  <2>5. cronFetch' \in {"idle", "asked"} /\ (cronFetch' = "idle" => cronFetch = "idle")
        /\ UNCHANGED <<cronStored, cronCache, cronStale>>
    BY <1>9 DEF RestartServer
  <2> QED
    BY <2>3, <2>4, <2>5, FetchWords DEF CacheKnown
<1>10. CASE RestoreCron
  BY <1>10 DEF RestoreCron
<1>11. ASSUME NEW p \in puts, Install(p) PROVE CacheInv'
  <2>1. PICK a \in {"installed", "refused"} : Becomes(p, a)
    BY <1>11 DEF Install
  <2>2. PICK q \in puts' : /\ q.by = p.by
                           /\ \A r \in puts' : r = q \/ (r \in puts /\ r # p)
                           /\ \A r \in puts : r = p \/ r \in puts'
    BY <1>1, <2>1, BecomesFacts
  <2>3. StoredOut => StoredOut'
    BY <1>11, <2>2 DEF Install, StoredOut
  <2> QED
    BY <1>11, <2>2, <2>3 DEF Install, CacheKnown
<1>12. ASSUME NEW p \in puts, StoreCron(p) PROVE CacheInv'
  <2>1. PICK q \in puts' : /\ q.at = "stored" /\ q.by = p.by
                           /\ \A r \in puts' : r = q \/ (r \in puts /\ r # p)
    BY <1>1, <1>12, BecomesFacts DEF StoreCron
  <2> QED
    BY <1>12, <2>1 DEF StoreCron, CacheKnown, StoredOut
<1>13. ASSUME NEW p \in puts, StoreFails(p) PROVE CacheInv'
  <2>1. PICK q \in puts' : /\ q.by = p.by
                           /\ \A r \in puts' : r = q \/ (r \in puts /\ r # p)
                           /\ \A r \in puts : r = p \/ r \in puts'
    BY <1>1, <1>13, BecomesFacts DEF StoreFails
  <2>2. StoredOut => StoredOut'
    BY <1>13, <2>1 DEF StoreFails, StoredOut
  <2> QED
    BY <1>13, <2>1, <2>2 DEF StoreFails, CacheKnown
<1>14. ASSUME NEW p \in puts, AnswerLost(p) PROVE CacheInv'
  BY <1>14 DEF AnswerLost
<1>15. ASSUME NEW p \in puts, PutAnswered(p) PROVE CacheInv'
  <2> SUFFICES ASSUME ~cronStrangers' PROVE CacheKnown'
    OBVIOUS
  <2>1. puts' = puts \ {p} /\ UNCHANGED <<cronStored, cronCache>>
    BY <1>15 DEF PutAnswered
  <2>2. ~cronStrangers /\ ~(Own(p) /\ Joined /\ cronFetch # "asked")
    <3>1. cronStrangers' = (cronStrangers \/ (Own(p) /\ Joined /\ cronFetch # "asked"))
      BY <1>15 DEF PutAnswered
    <3> QED
      BY <3>1
  <2>3. CASE p.at = "stored"
    <3>1. Own(p)
      BY <2>2, <2>3 DEF Own, CacheKnown
    <3>2. cronFetch' = "asked"
      BY <1>15, <2>2, <3>1 DEF PutAnswered, Refresh, InvalidateSettings
    <3> QED
      BY <2>1, <2>2, <3>2, FetchWords DEF CacheKnown
  <2>4. CASE p.at # "stored"
    <3>1. UNCHANGED <<cronFetch, cronStale>>
      BY <1>15, <2>4 DEF PutAnswered, Refresh, Own
    <3> QED
      BY <2>1, <2>2, <2>4, <3>1 DEF CacheKnown, StoredOut
  <2> QED
    BY <2>3, <2>4
<1>16. CASE ScheduleNext
  BY <1>3, <1>4, <1>5, <1>6, <1>7, <1>8, <1>9, <1>10, <1>11, <1>12, <1>13, <1>14, <1>15, <1>16,
     <1>17, <1>18, <1>19 DEF ScheduleNext
<1> QED
  BY <1>2, <1>16

-----------------------------------------------------------------------------
(* WatchdogForm.                                                           *)

\* What a form without unsaved edits holds, and where the settings are that
\* the server has, while answers are under way: WatchdogFormAgrees says so
\* only of a tab at rest.
DogKnown ==
    /\ dogPut.at = "ok" => dogStored = dogPut.value
    /\ dogPut.at \notin {"half", "ok"} =>
           /\ dogFetch.at = "idle" => dogStale \/ dogCache.value = dogStored
           /\ dogFetch.at = "read" => dogFetch.value = dogStored
DogShown ==
    (~dogEdited /\ dogCache.at = "loaded") =>
        /\ dogPut.at = "none" => dogForm \in {dogCache.value, dogStored}
        /\ ~dogPut.open => dogForm = dogCache.value
DogInv ==
    /\ WatchdogFormTypeOK
    /\ dogPut.at = "none" => dogPut.open
    /\ ~dogStrangers => DogKnown /\ DogShown

LEMMA DogWrites ==
    /\ \A b \in BOOLEAN, w \in Watches : [w EXCEPT !.on = b] \in Watches
    /\ \A p \in Paths \union {NoPath}, w \in Watches : [w EXCEPT !.path = p] \in Watches
  BY DEF Watches

LEMMA DogValues ==
    /\ Off \in Watches
    /\ \A w \in Watches : w.on \in BOOLEAN /\ w.path \in Paths \union {NoPath}
    /\ \A w \in Watches : DogAnswers(w) \subseteq Watches
    /\ \A s \in {"idle", "asked", "empty"} : None(s).at = s /\ None(s).value = Off
    /\ None("idle") \in Slot({"idle", "asked", "read"})
    /\ None("asked") \in Slot({"idle", "asked", "read"})
    /\ None("empty") \in Slot({"empty", "loaded"})
    /\ \A w \in Watches : Cached(w) \in Slot({"empty", "loaded"})
    /\ \A w \in Watches : Cached(w).at = "loaded" /\ Cached(w).value = w
<1>1. /\ Off \in Watches
      /\ \A w \in Watches : w.on \in BOOLEAN /\ w.path \in Paths \union {NoPath}
  BY DEF Off, Watches
<1>2. \A w \in Watches : DogAnswers(w) \subseteq Watches
  <2> TAKE w \in Watches
  <2>1. [w EXCEPT !.on = FALSE] \in Watches /\ [w EXCEPT !.path = NoPath] \in Watches
    BY DogWrites
  <2> QED
    BY <1>1, <2>1 DEF DogAnswers
<1> QED
  BY <1>1, <1>2 DEF None, Slot, Cached

LEMMA DogStart == DogInit => DogInv
<1> SUFFICES ASSUME DogInit PROVE DogInv
  OBVIOUS
<1>1. NoDogPut \in DogPuts /\ NoDogPut.at = "none" /\ NoDogPut.open
  BY DogValues DEF NoDogPut, DogPuts
<1> QED
  BY <1>1, DogValues DEF DogInit, DogInv, DogKnown, DogShown, WatchdogFormTypeOK

\* A fetch that is asked for.
LEMMA InvalidateFacts ==
    ASSUME WatchdogFormTypeOK, InvalidateDog
    PROVE  /\ dogFetch' \in Slot({"idle", "asked", "read"}) /\ dogStale' = TRUE
           /\ (dogFetch' = dogFetch /\ DogJoined) \/ dogFetch'.at = "asked"
  BY DogValues DEF InvalidateDog, WatchdogFormTypeOK

\* The user's steps, and those of others.
LEMMA DogUserSteps ==
    ASSUME DogInv,
           \/ EditWatchdog \/ SaveWatchdog \/ ReopenWatchdog \/ RefetchWatchdog
           \/ \E v \in Watches : OtherSavesWatchdog(v)
    PROVE  DogInv'
<1> USE DogValues DEF DogInv, DogKnown, DogShown, dogQuery
<1>0. WatchdogFormTypeOK
  OBVIOUS
<1>1. CASE EditWatchdog
  <2>1. dogForm' \in Watches
    <3>1. dogForm \in Watches /\ (~dogForm.on) \in BOOLEAN
      BY DEF WatchdogFormTypeOK
    <3>2. CASE dogForm' = [dogForm EXCEPT !.on = ~@]
      BY <3>1, <3>2 DEF Watches
    <3>3. ASSUME NEW p \in Paths \union {NoPath}, dogForm' = [dogForm EXCEPT !.path = p]
          PROVE  dogForm' \in Watches
      BY <3>1, <3>3, DogWrites
    <3> QED
      BY <1>1, <3>2, <3>3 DEF EditWatchdog
  <2> QED
    BY <1>1, <2>1 DEF EditWatchdog, WatchdogFormTypeOK
<1>2. ASSUME NEW v \in Watches, OtherSavesWatchdog(v) PROVE DogInv'
  BY <1>2 DEF OtherSavesWatchdog, WatchdogFormTypeOK
<1>3. CASE SaveWatchdog
  <2>1. /\ dogPut' \in DogPuts /\ dogPut'.at = "sent" /\ dogPut'.open
        /\ ~Pathless(dogPut'.value)
    BY <1>3 DEF SaveWatchdog, Savable, DogPuts, WatchdogFormTypeOK
  <2> QED
    BY <1>3, <2>1 DEF SaveWatchdog, WatchdogFormTypeOK
<1>4. CASE ReopenWatchdog
  <2>1. /\ dogPut' \in DogPuts /\ dogPut'.at = dogPut.at /\ dogPut'.value = dogPut.value
        /\ dogPut.at = "none" => dogPut' = dogPut
    BY <1>4 DEF ReopenWatchdog, WatchdogFormTypeOK, DogPuts
  <2>2. /\ dogFetch' = dogFetch \/ (dogStale /\ dogFetch'.at = "asked")
        /\ dogFetch' \in Slot({"idle", "asked", "read"})
    BY <1>4 DEF ReopenWatchdog, WatchdogFormTypeOK
  <2>3. dogForm' \in Watches /\ dogForm' = dogCache.value /\ dogEdited' = FALSE
    BY <1>4 DEF ReopenWatchdog, WatchdogFormTypeOK, Slot
  <2>4. UNCHANGED <<dogStored, dogCache, dogStale, dogStrangers>>
    BY <1>4 DEF ReopenWatchdog
  <2> QED
    BY <2>1, <2>2, <2>3, <2>4 DEF WatchdogFormTypeOK
<1>5. CASE RefetchWatchdog
  <2>1. /\ dogFetch' \in Slot({"idle", "asked", "read"}) /\ dogStale' = TRUE
        /\ \/ dogFetch' = dogFetch
           \/ dogFetch'.at = "asked"
    BY <1>5, InvalidateFacts DEF RefetchWatchdog
  <2> QED
    BY <1>5, <2>1 DEF RefetchWatchdog, WatchdogFormTypeOK
<1> QED
  BY <1>1, <1>2, <1>3, <1>4, <1>5

\* The steps of the server.
LEMMA DogServerSteps ==
    ASSUME DogInv, PutSwitch \/ PutPath \/ PutFails \/ ReadWatchdog \/ DogReadFails
    PROVE  DogInv'
<1> USE DogValues DEF DogInv, DogKnown, DogShown, dogQuery
<1>1. dogStored \in Watches /\ dogPut \in DogPuts /\ dogPut.value \in Watches
  BY DEF WatchdogFormTypeOK, DogPuts
<1>2. CASE PutSwitch
  <2>1. /\ dogPut' \in DogPuts /\ dogPut'.at = "half" /\ dogPut'.value = dogPut.value
        /\ dogPut'.open = dogPut.open
    BY <1>1, <1>2 DEF PutSwitch, DogPuts
  <2>2. dogStored' \in Watches
    BY <1>1, <1>2, DogWrites DEF PutSwitch
  <2> QED
    BY <1>2, <2>1, <2>2 DEF PutSwitch, WatchdogFormTypeOK
<1>3. CASE PutPath
  <2> DEFINE w == [dogStored EXCEPT !.path = dogPut.value.path]
  <2>0. dogStored' = w
    BY <1>3 DEF PutPath
  <2>1. w \in Watches
    BY <1>1, DogWrites
  <2> HIDE DEF w
  <2>2. dogPut.at = "half" /\ UNCHANGED <<dogForm, dogCache, dogFetch, dogStale, dogEdited>>
    BY <1>3 DEF PutPath
  <2>3. ASSUME NEW v \in DogAnswers(dogStored'),
               dogPut' = [dogPut EXCEPT !.at = "ok", !.value = v],
               dogStrangers' = (dogStrangers \/ v # dogStored')
        PROVE  DogInv'
    <3>0. dogStored' \in Watches
      BY <2>0, <2>1
    <3>1. /\ dogPut' \in DogPuts /\ dogPut'.at = "ok" /\ dogPut'.value = v
          /\ dogPut'.open = dogPut.open
      BY <1>1, <3>0, <2>3 DEF DogPuts
    <3>2. dogStrangers' \in BOOLEAN /\ (~dogStrangers' => ~dogStrangers /\ v = dogStored')
      BY <2>3
    <3> QED
      BY <3>0, <2>2, <3>1, <3>2 DEF WatchdogFormTypeOK
  <2>4. ASSUME dogPut' = [dogPut EXCEPT !.at = "failed"], dogStrangers' = TRUE
        PROVE  DogInv'
    <3>0. dogStored' \in Watches
      BY <2>0, <2>1
    <3>1. dogPut' \in DogPuts /\ dogPut'.at = "failed"
      BY <1>1, <2>4 DEF DogPuts
    <3> QED
      BY <3>0, <2>2, <2>4, <3>1 DEF WatchdogFormTypeOK
  <2>5. DogAnswered(dogStored')
    BY <1>3 DEF PutPath
  <2> QED
    <3> HIDE DEF DogInv, DogKnown, DogShown
    <3> QED
      BY <2>3, <2>4, <2>5, Zenon DEF DogAnswered
<1>4. CASE PutFails
  <2>1. /\ dogPut' \in DogPuts /\ dogPut'.at = "failed" /\ dogPut'.open = dogPut.open
        /\ UNCHANGED <<dogStored, dogForm, dogCache, dogFetch, dogStale, dogEdited>>
    BY <1>1, <1>4 DEF PutFails, DogPuts
  <2>2. dogStrangers' \in BOOLEAN /\ (~dogStrangers' => ~dogStrangers /\ dogPut.at = "sent")
    <3>1. dogStrangers' = (dogStrangers \/ dogPut.at # "sent")
      BY <1>4 DEF PutFails
    <3> QED
      BY <3>1
  <2> QED
    BY <2>1, <2>2 DEF WatchdogFormTypeOK
<1>5. CASE ReadWatchdog
  <2>1. PICK v \in DogAnswers(dogStored) : /\ dogFetch' = [at |-> "read", value |-> v]
                                        /\ dogStrangers' = (dogStrangers \/ v # dogStored)
    BY <1>5 DEF ReadWatchdog
  <2>2. /\ dogFetch' \in Slot({"idle", "asked", "read"}) /\ dogFetch'.at = "read"
        /\ dogFetch'.value = v
    BY <1>1, <2>1 DEF Slot
  <2>3. dogStrangers' \in BOOLEAN /\ (~dogStrangers' => ~dogStrangers /\ v = dogStored)
    BY <2>1
  <2>4. dogStale
    BY <1>5 DEF ReadWatchdog, WatchdogFormTypeOK
  <2> QED
    BY <1>5, <2>2, <2>3, <2>4 DEF ReadWatchdog, WatchdogFormTypeOK
<1>6. CASE DogReadFails
  <2>1. dogStale
    BY <1>6 DEF DogReadFails, WatchdogFormTypeOK
  <2> QED
    BY <1>6, <2>1 DEF DogReadFails, WatchdogFormTypeOK
<1> QED
  BY <1>2, <1>3, <1>4, <1>5, <1>6

\* The answers.
LEMMA DogAnswerSteps ==
    ASSUME DogInv, WatchdogSaved \/ WatchdogRefused \/ WatchdogLoaded
    PROVE  DogInv'
<1> USE DogValues DEF DogInv, DogKnown, DogShown, dogQuery
<1>1. /\ NoDogPut \in DogPuts /\ NoDogPut.at = "none" /\ NoDogPut.open
      /\ dogPut \in DogPuts /\ dogPut.value \in Watches /\ dogPut.open \in BOOLEAN
  BY DEF WatchdogFormTypeOK, NoDogPut, DogPuts
<1>2. CASE WatchdogSaved
  <2>1. /\ dogFetch' \in Slot({"idle", "asked", "read"}) /\ dogStale' = TRUE
        /\ (dogFetch' = dogFetch /\ DogJoined) \/ dogFetch'.at = "asked"
    BY <1>2, InvalidateFacts DEF WatchdogSaved
  <2>2. /\ dogStrangers' \in BOOLEAN
        /\ ~dogStrangers' => ~dogStrangers /\ ~(DogJoined /\ dogFetch.at = "read")
    <3>1. dogStrangers' = (dogStrangers \/ (DogJoined /\ dogFetch.at = "read"))
      BY <1>2 DEF WatchdogSaved
    <3> QED
      BY <3>1
  <2>3. /\ dogPut' = NoDogPut /\ UNCHANGED <<dogStored, dogCache>>
        /\ dogForm' = IF dogPut.open THEN dogPut.value ELSE dogForm
        /\ dogPut.at = "ok"
    BY <1>2 DEF WatchdogSaved
  <2>4. dogEdited' \in BOOLEAN /\ (~dogEdited' => ~dogEdited \/ dogPut.open)
    <3>1. dogEdited' = (dogEdited /\ ~dogPut.open)
      BY <1>2 DEF WatchdogSaved
    <3> QED
      BY <3>1
  <2> QED
    BY <1>1, <2>1, <2>2, <2>3, <2>4 DEF WatchdogFormTypeOK, DogJoined
<1>3. CASE WatchdogRefused
  <2>1. dogEdited' \in BOOLEAN /\ (~dogEdited' => ~dogEdited /\ ~dogPut.open)
    <3>1. dogEdited' = (dogEdited \/ dogPut.open)
      BY <1>3 DEF WatchdogRefused
    <3> QED
      BY <3>1
  <2> QED
    BY <1>1, <1>3, <2>1 DEF WatchdogRefused, WatchdogFormTypeOK
<1>4. CASE WatchdogLoaded
  <2> DEFINE v == dogFetch.value
  <2>1. v \in Watches /\ dogFetch.at = "read"
    BY <1>4 DEF WatchdogLoaded, WatchdogFormTypeOK, Slot
  <2>2. /\ dogCache'.at = "loaded" /\ dogCache'.value = v
        /\ dogCache' \in Slot({"empty", "loaded"})
        /\ dogFetch' = None("idle") /\ dogStale' = FALSE
        /\ UNCHANGED <<dogStored, dogPut, dogStrangers>>
    BY <1>4, <2>1 DEF WatchdogLoaded
  <2>3. IF Cached(v) = dogCache
        THEN dogForm' = dogForm /\ dogEdited' = dogEdited /\ dogCache.at = "loaded"
             /\ dogCache.value = v
        ELSE dogForm' = v /\ dogEdited' = FALSE
    <3>1. dogEdited' = (dogEdited /\ Cached(v) = dogCache) /\ dogForm' = FormAfter(v)
      BY <1>4 DEF WatchdogLoaded
    <3>2. dogEdited \in BOOLEAN
      BY DEF WatchdogFormTypeOK
    <3>3. Cached(v).at = "loaded" /\ Cached(v).value = v
      BY <2>1
    <3>4. CASE Cached(v) = dogCache
      <4>1. dogEdited' = dogEdited
        BY <3>1, <3>2, <3>4
      <4> QED
        BY <3>1, <3>3, <3>4, <4>1 DEF FormAfter
    <3>5. CASE Cached(v) # dogCache
      <4>1. dogEdited' = FALSE
        BY <3>1, <3>5
      <4> QED
        BY <3>1, <3>5, <4>1 DEF FormAfter
    <3> QED
      BY <3>4, <3>5
  <2>4. dogForm' \in Watches /\ dogEdited' \in BOOLEAN
    BY <2>1, <2>3 DEF WatchdogFormTypeOK
  <2> HIDE DEF v
  <2>5. WatchdogFormTypeOK'
    BY <2>2, <2>4 DEF WatchdogFormTypeOK
  <2>6. v = dogFetch.value
    BY DEF v
  <2>7. ASSUME ~dogStrangers' PROVE DogKnown' /\ DogShown'
    <3>1. DogKnown /\ DogShown
      BY <2>2, <2>7
    <3> QED
      BY <2>1, <2>2, <2>3, <2>6, <3>1
  <2> QED
    BY <2>2, <2>5, <2>7
<1> QED
  BY <1>2, <1>3, <1>4

LEMMA DogStep == DogInv /\ [DogNext]_dogVars => DogInv'
<1> SUFFICES ASSUME DogInv, [DogNext]_dogVars PROVE DogInv'
  OBVIOUS
<1>1. CASE UNCHANGED dogVars
  BY <1>1 DEF dogVars, dogQuery, DogInv, DogKnown, DogShown, WatchdogFormTypeOK
<1>2. CASE DogNext
  BY <1>2, DogUserSteps, DogServerSteps, DogAnswerSteps DEF DogNext
<1> QED
  BY <1>1, <1>2

-----------------------------------------------------------------------------
(* InstanceList.                                                           *)

\* What is listed or about to be listed is what the server has, or a mutation
\* is done whose answer will have the list fetched again.
AnswerOut == \E c \in calls : c.at = "done"
ListKnown ==
    /\ listFetch.at = "read" => listFetch.data = roster \/ AnswerOut
    /\ listFetch.at = "idle" /\ ~outdated => listed = roster \/ AnswerOut
ListInv == InstanceListTypeOK /\ (~unseen => ListKnown)

LEMMA NoRosterFact ==
    /\ NoRoster \in Rosters
    /\ {NoFetch, Requested} \subseteq [at : {"idle", "asked", "read"}, data : Rosters]
    /\ NoFetch.at = "idle" /\ Requested.at = "asked"
<1>1. NoRoster \in Rosters
  BY DEF NoRoster, Rosters, Kinds, Gone
<1> QED
  BY <1>1 DEF NoFetch, Requested

LEMMA ListStart == InstanceListInit => ListInv
<1> SUFFICES ASSUME InstanceListInit PROVE ListInv
  OBVIOUS
<1>1. PICK m \in Rows : roster = [i \in Rows |-> [role |-> IF i = m THEN "master" ELSE "slave", on |-> TRUE]]
  BY DEF InstanceListInit
<1>2. roster \in Rosters
  BY <1>1 DEF Rosters, Kinds
<1> QED
  BY <1>2, NoRosterFact DEF InstanceListInit, ListInv, InstanceListTypeOK, ListKnown

\* No request makes a second master, or brings a row back that is gone.
LEMMA RosterAfterCall ==
    ASSUME NEW r \in Rosters, NEW c \in Call, r[c.row] # Gone
    PROVE  AfterCall(r, c) \in Rosters
<1>1. /\ c.row \in Rows /\ c.kind \in {"delete", "promote", "on", "off"}
      /\ r \in [Rows -> Kinds]
      /\ \A i, j \in Rows : r[i].role = "master" /\ r[j].role = "master" => i = j
  BY DEF Call, Rosters
<1>2. CASE c.kind = "delete"
  <2>1. AfterCall(r, c) = [r EXCEPT ![c.row] = Gone]
    BY <1>2 DEF AfterCall
  <2>2. Gone \in Kinds /\ Gone.role # "master"
    BY DEF Gone, Kinds
  <2> QED
    BY <1>1, <2>1, <2>2 DEF Rosters
<1>3. CASE c.kind = "promote"
  <2> DEFINE s == Promoted(r, c.row)
  <2>1. AfterCall(r, c) = s
    BY <1>3 DEF AfterCall
  <2>2. \A j \in Rows : /\ s[j] \in Kinds
                        /\ s[j].role = "master" => j = c.row
    <3> TAKE j \in Rows
    <3>1. CASE r[j] = Gone
      BY <3>1 DEF Promoted, Gone, Kinds
    <3>2. CASE r[j] # Gone
      <4>1. r[j] \in [role : {"master", "slave"}, on : BOOLEAN]
        BY <1>1, <3>2 DEF Kinds, Gone
      <4>2. s[j] = [r[j] EXCEPT !.role = IF j = c.row THEN "master" ELSE "slave"]
        BY <3>2 DEF Promoted
      <4> QED
        BY <4>1, <4>2 DEF Kinds
    <3> QED
      BY <3>1, <3>2
  <2>3. s = [j \in Rows |-> s[j]]
    BY DEF Promoted
  <2> HIDE DEF s
  <2>4. s \in [Rows -> Kinds]
    BY <2>2, <2>3
  <2> QED
    BY <2>1, <2>2, <2>4 DEF Rosters
<1>4. CASE c.kind \in {"on", "off"}
  <2>1. PICK b \in BOOLEAN : b = (c.kind = "on")
    OBVIOUS
  <2> DEFINE row == [r[c.row] EXCEPT !.on = b]
  <2>2. AfterCall(r, c) = [r EXCEPT ![c.row] = row]
    BY <1>4, <2>1 DEF AfterCall
  <2>3. r[c.row] \in [role : {"master", "slave"}, on : BOOLEAN]
    BY <1>1 DEF Kinds, Gone
  <2>4. row \in Kinds /\ row.role = r[c.row].role
    BY <2>3 DEF Kinds
  <2> HIDE DEF row
  <2> QED
    BY <1>1, <2>2, <2>4 DEF Rosters
<1> QED
  BY <1>1, <1>2, <1>3, <1>4

\* Clicks and dialogs.
LEMMA ListPageSteps ==
    ASSUME ListInv,
           \/ \E i \in Rows :
                  ToggleSync(i) \/ \E kind \in {"delete", "promote"} : AskConfirm(kind, i)
           \/ Cancel \/ Confirm
    PROVE  ListInv'
<1> USE DEF ListInv, InstanceListTypeOK
<1>1. ASSUME NEW i \in Rows, NEW kind \in {"delete", "promote", "on", "off"}, Mutate(kind, i),
             UNCHANGED <<roster, listed, listFetch, outdated, unseen>>, confirming' \in {{}, confirming}
      PROVE  ListInv'
  <2>1. calls' = calls \union {[kind |-> kind, row |-> i, at |-> "sent"]}
    BY <1>1 DEF Mutate
  <2>2. calls' \subseteq Call
    BY <2>1 DEF Call
  <2>3. AnswerOut => AnswerOut'
    BY <2>1 DEF AnswerOut
  <2> QED
    BY <1>1, <2>2, <2>3 DEF ListKnown
<1>2. ASSUME NEW i \in Rows, ToggleSync(i) PROVE ListInv'
  BY <1>1, <1>2 DEF ToggleSync
<1>3. ASSUME NEW i \in Rows, NEW kind \in {"delete", "promote"}, AskConfirm(kind, i)
      PROVE  ListInv'
  BY <1>3 DEF AskConfirm, Call, ListKnown, AnswerOut
<1>4. CASE Cancel
  BY <1>4 DEF Cancel, ListKnown, AnswerOut
<1>5. CASE Confirm
  <2>1. PICK c \in confirming : Mutate(c.kind, c.row)
    BY <1>5 DEF Confirm
  <2>2. c.kind \in {"delete", "promote", "on", "off"} /\ c.row \in Rows
    BY DEF Call
  <2> QED
    BY <1>1, <1>5, <2>1, <2>2 DEF Confirm
<1> QED
  BY <1>2, <1>3, <1>4, <1>5

\* The server, the answers, and everybody else.
LEMMA ListServerSteps ==
    ASSUME ListInv,
           \/ OtherChanges \/ ReadList \/ ListAnswered \/ ListFails \/ RefetchList
           \/ \E c \in calls : ServeCall(c) \/ LoseCall(c) \/ CallAnswered(c)
    PROVE  ListInv'
<1> USE DEF ListInv, InstanceListTypeOK
<1>1. CASE OtherChanges
  BY <1>1, RosterAfterCall DEF OtherChanges
<1>2. CASE ReadList
  BY <1>2 DEF ReadList, ListKnown, AnswerOut
<1>3. CASE ListAnswered
  BY <1>3, NoRosterFact DEF ListAnswered, ListKnown, AnswerOut
<1>4. ASSUME NEW c \in calls, ServeCall(c) PROVE ListInv'
  <2>1. c \in Call
    OBVIOUS
  <2>2. CASE roster[c.row] = Gone
    <3>1. AnswerOut => AnswerOut'
      BY <1>4, <2>2 DEF ServeCall, AnswerOut
    <3> QED
      BY <1>4, <2>2, <3>1 DEF ServeCall, ListKnown
  <2>3. CASE roster[c.row] # Gone
    <3>1. [c EXCEPT !.at = "done"] \in Call /\ [c EXCEPT !.at = "done"].at = "done"
      BY <2>1 DEF Call
    <3>2. AnswerOut' /\ calls' \subseteq Call
      BY <1>4, <2>3, <3>1 DEF ServeCall, AnswerOut
    <3>3. roster' \in Rosters
      BY <1>4, <2>1, <2>3, RosterAfterCall DEF ServeCall
    <3> QED
      BY <1>4, <3>2, <3>3 DEF ServeCall, ListKnown
  <2> QED
    BY <2>2, <2>3
<1>5. ASSUME NEW c \in calls, LoseCall(c) PROVE ListInv'
  BY <1>5 DEF LoseCall
<1>6. ASSUME NEW c \in calls, CallAnswered(c) PROVE ListInv'
  BY <1>6, NoRosterFact DEF CallAnswered, InvalidateAll, ListKnown
<1>7. CASE ListFails
  BY <1>7, NoRosterFact DEF ListFails, ListKnown, AnswerOut
<1>8. CASE RefetchList
  BY <1>8, NoRosterFact DEF RefetchList, ListKnown, AnswerOut
<1> QED
  BY <1>1, <1>2, <1>3, <1>4, <1>5, <1>6, <1>7, <1>8

LEMMA ListStep == ListInv /\ [InstanceListNext]_instanceListVars => ListInv'
<1> SUFFICES ASSUME ListInv, [InstanceListNext]_instanceListVars PROVE ListInv'
  OBVIOUS
<1>1. CASE UNCHANGED instanceListVars
  BY <1>1 DEF instanceListVars, ListInv, ListKnown, AnswerOut, InstanceListTypeOK
<1>2. CASE InstanceListNext
  BY <1>2, ListPageSteps, ListServerSteps DEF InstanceListNext
<1> QED
  BY <1>1, <1>2

-----------------------------------------------------------------------------
(* ThemeSync.                                                              *)

NoThemePut == \A p \in ThemePutSlots : themePuts[p] = Unset
\* Until something goes astray: requests carry what is shown, and a theme that
\* the tab has been told of and shows is the one the server has, or is on its
\* way there.  The second part is what a page needs that opens with an old cache.
ThemeKnown ==
    /\ \A p \in ThemePutSlots : themePuts[p] \in {Unset, theme}
    /\ NoThemePut /\ theme \in {themeFetch, themeCache} => serverTheme = theme
    /\ NoThemePut /\ mounted /\ synced => serverTheme = theme
ThemeInv == ThemeTypeOK /\ (~astray => ThemeKnown)

LEMMA ThemeStart == ThemeInit => ThemeInv
<1> SUFFICES ASSUME ThemeInit PROVE ThemeInv
  OBVIOUS
<1>1. theme \in Themes /\ theme \notin {"idle", Unset, NoData}
  BY DEF ThemeInit, Stored, Themes, Unset, NoData
<1>2. themePuts \in [ThemePutSlots -> Stored] /\ Unset \in Stored /\ 0 \in 0 .. MaxThemeLosses
  BY ThemeAssumption DEF ThemeInit, Stored
<1>3. ThemeTypeOK
  BY <1>1, <1>2 DEF ThemeInit, ThemeTypeOK
<1> QED
  BY <1>1, <1>3 DEF ThemeInit, ThemeInv, ThemeKnown

\* What Shown does to the requests.
LEMMA ShownFacts ==
    ASSUME ThemeInv, NEW v \in Themes, Shown(v), mounted' \in BOOLEAN
    PROVE  /\ theme' = v /\ themePuts' \in [ThemePutSlots -> Stored] /\ astray' \in BOOLEAN
           /\ ~astray' => /\ ~astray
                          /\ \A p \in ThemePutSlots : themePuts'[p] \in {Unset, v}
                          /\ (v # theme => mounted' /\ ~(NoThemePut'))
                          /\ (v = theme => themePuts' = themePuts)
<1> USE DEF ThemeInv, ThemeTypeOK
<1>1. CASE v = theme
  BY <1>1 DEF Shown, ThemeKnown
<1>2. CASE v # theme /\ ~mounted'
  BY <1>2 DEF Shown
<1>3. CASE v # theme /\ mounted'
  <2>1. PICK p \in ThemePutSlots : themePuts[p] = Unset /\ themePuts' = [themePuts EXCEPT ![p] = v]
    BY <1>3 DEF Shown, SendTheme
  <2>2. themePuts' \in [ThemePutSlots -> Stored] /\ themePuts'[p] = v /\ v # Unset
    BY <2>1 DEF Stored, Themes, Unset
  <2>3. ~astray' => ~astray /\ NoThemePut
    BY <1>3 DEF Shown, NoThemePut
  <2> QED
    BY <1>3, <2>1, <2>2, <2>3 DEF Shown, NoThemePut
<1> QED
  BY <1>1, <1>2, <1>3

LEMMA ThemeStep == ThemeInv /\ [ThemeNext]_themeVars => ThemeInv'
<1> SUFFICES ASSUME ThemeInv, [ThemeNext]_themeVars PROVE ThemeInv'
  OBVIOUS
<1> USE DEF ThemeInv, ThemeTypeOK
<1>0. {"idle", "asked", Unset, NoData} \intersect Themes = {}
  BY DEF Themes, Unset, NoData
<1>1. CASE EnterApp
  <2>1. CASE themeCache \in {Unset, NoData}
    BY <1>0, <1>1, <2>1 DEF EnterApp, Applied, ThemeKnown, NoThemePut
  <2>2. CASE themeCache \notin {Unset, NoData}
    <3>1. themeCache \in Themes /\ Shown(themeCache) /\ localTheme' = themeCache /\ synced'
      BY <1>1, <2>2 DEF EnterApp, Applied, Stored
    <3>2. UNCHANGED <<osTheme, serverTheme, themeCache, themeLosses>> /\ mounted'
          /\ themeFetch' \in {themeFetch, "asked"}
      BY <1>1 DEF EnterApp
    <3> QED
      BY <1>0, <3>1, <3>2, ShownFacts DEF ThemeKnown, NoThemePut, Stored
  <2> QED
    BY <2>1, <2>2
<1>2. CASE LeaveApp
  BY <1>2 DEF LeaveApp, ThemeKnown, NoThemePut
<1>3. CASE ThemeRead
  <2>1. themeFetch' \in {serverTheme, Unset} /\ theme # Unset
    BY <1>0, <1>3 DEF ThemeRead
  <2>2. UNCHANGED <<theme, localTheme, osTheme, serverTheme, themeCache, mounted, synced,
                    themePuts, themeLosses, astray>>
    BY <1>3 DEF ThemeRead
  <2>3. ThemeTypeOK'
    BY <2>1, <2>2 DEF Stored
  <2>4. ThemeKnown => ThemeKnown'
    BY <2>1, <2>2 DEF ThemeKnown, NoThemePut
  <2> QED
    BY <2>2, <2>3, <2>4
<1>4. CASE ThemeArrives
  <2>0. themeFetch # NoData
    BY <1>4 DEF ThemeArrives, Stored, Themes, Unset, NoData
  <2>1. CASE themeFetch = Unset \/ (synced \/ ~mounted)
    BY <1>0, <1>4, <2>0, <2>1 DEF ThemeArrives, Applied, ThemeKnown, NoThemePut, Stored
  <2>2. CASE ~(themeFetch = Unset \/ (synced \/ ~mounted))
    <3>1. themeFetch \in Themes /\ Shown(themeFetch) /\ localTheme' = themeFetch /\ synced'
      BY <1>4, <2>0, <2>2 DEF ThemeArrives, Applied, Stored
    <3>2. UNCHANGED <<osTheme, serverTheme, themeLosses, mounted>>
          /\ themeCache' = themeFetch /\ themeFetch' = "idle"
      BY <1>4 DEF ThemeArrives
    <3> QED
      BY <1>0, <3>1, <3>2, ShownFacts DEF ThemeKnown, NoThemePut, Stored
  <2> QED
    BY <2>1, <2>2
<1>5. CASE RefetchTheme
  BY <1>0, <1>5 DEF RefetchTheme, ThemeKnown, NoThemePut
<1>6. CASE ToggleTheme
  <2>1. Other(theme) \in Themes /\ Other(theme) # theme
    BY <1>0 DEF Other, Themes
  <2> QED
    BY <1>0, <1>6, <2>1, ShownFacts DEF ToggleTheme, ThemeKnown, Stored
<1>7. CASE OsThemeChanges
  <2>1. Other(osTheme) \in Themes
    BY DEF Other, Themes
  <2>2. CASE localTheme # Unset
    BY <1>7, <2>1, <2>2 DEF OsThemeChanges, Followed, ThemeKnown, NoThemePut
  <2>3. CASE localTheme = Unset
    <3>1. Shown(Other(osTheme))
      BY <1>7, <2>3 DEF OsThemeChanges, Followed
    <3> QED
      BY <1>0, <1>7, <2>1, <2>3, <3>1, ShownFacts DEF OsThemeChanges, ThemeKnown, NoThemePut
  <2> QED
    BY <2>2, <2>3
<1>8. ASSUME NEW p \in ThemePutSlots, ServeTheme(p) PROVE ThemeInv'
  BY <1>0, <1>8 DEF ServeTheme, ThemeKnown, Stored
<1>9. ASSUME NEW p \in ThemePutSlots, LoseTheme(p) PROVE ThemeInv'
  BY <1>9, ThemeAssumption DEF LoseTheme, Loss, Stored
<1>10. ASSUME NEW v \in Themes, OtherSavesTheme(v) PROVE ThemeInv'
  BY <1>10, ThemeAssumption DEF OtherSavesTheme, Loss, Stored
<1>12. CASE ThemeReadFails
  BY <1>0, <1>12 DEF ThemeReadFails, ThemeKnown, NoThemePut
<1>13. ASSUME NEW v \in Themes, OtherTabKeepsTheme(v) PROVE ThemeInv'
  BY <1>13, ThemeAssumption DEF OtherTabKeepsTheme, Loss, Stored
<1>11. CASE UNCHANGED themeVars
  BY <1>11 DEF themeVars, ThemeKnown, NoThemePut
<1> QED
  BY <1>1, <1>2, <1>3, <1>4, <1>5, <1>6, <1>7, <1>8, <1>9, <1>10, <1>11, <1>12, <1>13
  DEF ThemeNext

-----------------------------------------------------------------------------
(* InstanceForm.                                                           *)

FormInv == InstanceFormTypeOK /\ SavedWasTested

LEMMA FormStart == InstanceFormInit => FormInv
<1> SUFFICES ASSUME InstanceFormInit PROVE FormInv
  OBVIOUS
<1>1. EmptyForm \in Fields
  BY DEF EmptyForm, Fields
<1>2. NoSubmit \in [target : Ids \union {New, Closed}, values : Fields]
  BY <1>1 DEF NoSubmit
<1>3. accounts \in [Ids -> Account \union {Absent}]
  BY DEF InstanceFormInit, Account
<1> QED
  BY <1>1, <1>2, <1>3 DEF InstanceFormInit, FormInv, InstanceFormTypeOK, NoTest, SavedWasTested

\* What the user does with the dialog.
LEMMA DialogSteps ==
    ASSUME FormInv,
           \/ OpenCreate \/ CloseDialog \/ TestConnection \/ Submit
           \/ \E i \in Ids : OpenEdit(i)
           \/ \E a \in Addresses \union {Empty} : TypeAddress(a)
           \/ \E p \in Passwords \union {Empty} : TypePassword(p)
    PROVE  FormInv'
<1> USE DEF FormInv, InstanceFormTypeOK
<1>1. CASE OpenCreate
  BY <1>1 DEF OpenCreate, EmptyForm, Fields, SavedWasTested
<1>2. CASE CloseDialog
  <2>1. NoTest \in Fields
    BY DEF NoTest, EmptyForm, Fields
  <2> QED
    BY <1>2, <2>1 DEF CloseDialog, SavedWasTested
<1>3. CASE TestConnection
  BY <1>3 DEF TestConnection, SavedWasTested
<1>4. CASE Submit
  <2>1. submitting' \in [target : Ids \union {New, Closed}, values : Fields]
    BY <1>4 DEF Submit
  <2> QED
    BY <1>4, <2>1 DEF Submit, SavedWasTested
<1>5. ASSUME NEW i \in Ids, OpenEdit(i) PROVE FormInv'
  <2>1. accounts[i].address \in Addresses
    BY <1>5 DEF OpenEdit, Account
  <2>2. /\ form' \in Fields /\ form'.password = Empty /\ form'.address = origAddress'
        /\ vouched' = form' /\ origAddress' \in Addresses /\ dialog' = i /\ testStatus' = "ok"
        /\ UNCHANGED <<accounts, testing, submitting>>
    BY <1>5, <2>1 DEF OpenEdit, Fields
  <2>3. InstanceFormTypeOK'
    BY <2>2
  <2>4. SavedWasTested'
    BY <2>2 DEF SavedWasTested
  <2> QED
    BY <2>3, <2>4
<1>6. ASSUME NEW a \in Addresses \union {Empty}, TypeAddress(a) PROVE FormInv'
  <2>1. form' \in Fields /\ form'.address = a /\ form'.password = form.password
    BY <1>6 DEF TypeAddress, Fields
  <2> QED
    BY <1>6, <2>1 DEF TypeAddress, AfterAddress, SavedWasTested
<1>7. ASSUME NEW p \in Passwords \union {Empty}, TypePassword(p) PROVE FormInv'
  <2>1. form' \in Fields /\ form'.password = p /\ form'.address = form.address
    BY <1>7 DEF TypePassword, Fields
  <2> QED
    BY <1>7, <2>1 DEF TypePassword, AfterPassword, SavedWasTested
<1> QED
  BY <1>1, <1>2, <1>3, <1>4, <1>5, <1>6, <1>7

\* What the answers bring, and what others do.
LEMMA AnswerSteps ==
    ASSUME FormInv,
           \/ SaveInstance \/ SaveUnanswered \/ SaveRefused
           \/ \E i \in Ids : InstanceDeleted(i)
           \/ \E v \in {"ok", "failed"} : TestAnswered(v)
    PROVE  FormInv'
<1> USE DEF FormInv, InstanceFormTypeOK
<1>1. NoSubmit \in [target : Ids \union {New, Closed}, values : Fields] /\ NoTest \in Fields
  BY DEF NoSubmit, NoTest, EmptyForm, Fields
<1>2. ASSUME NEW i \in Ids, SaveAs(i)
      PROVE  /\ accounts' \in [Ids -> Account \union {Absent}]
             /\ \A j, k \in Ids : j # k /\ accounts'[j] # Absent /\ accounts'[k] # Absent
                                     => accounts'[j].address # accounts'[k].address
  <2> DEFINE new == submitting.values
             old == accounts[i]
             saved == IF submitting.target = New THEN new ELSE Updated(old, new)
  <2>1. new \in Fields /\ new.address \in Addresses
    BY <1>2 DEF SaveAs, Fields
  <2>2. new \in Account
    BY <2>1 DEF Fields, Account
  <2>3. old # Absent => Updated(old, new) \in Account /\ Updated(old, new).address = new.address
    BY <2>1 DEF Updated, Fields, Account
  <2>4. submitting.target # New => old # Absent
    BY <1>2 DEF SaveAs
  <2>5. saved \in Account /\ saved.address = new.address
    BY <2>2, <2>3, <2>4
  <2>6. accounts' = [accounts EXCEPT ![i] = saved]
    BY <1>2 DEF SaveAs
  <2>7. \A j \in Ids \ {i} : accounts[j] # Absent => accounts[j].address # new.address
    BY <1>2 DEF SaveAs, Taken
  <2> HIDE DEF saved, new, old
  <2> QED
    BY <2>5, <2>6, <2>7
<1>3. CASE SaveInstance
  BY <1>1, <1>2, <1>3 DEF SaveInstance, SavedWasTested
<1>4. CASE SaveUnanswered
  BY <1>1, <1>2, <1>4 DEF SaveUnanswered, SavedWasTested
<1>5. CASE SaveRefused
  BY <1>1, <1>5 DEF SaveRefused, SavedWasTested
<1>6. ASSUME NEW i \in Ids, InstanceDeleted(i) PROVE FormInv'
  BY <1>6 DEF InstanceDeleted, SavedWasTested
<1>7. ASSUME NEW v \in {"ok", "failed"}, TestAnswered(v) PROVE FormInv'
  BY <1>1, <1>7 DEF TestAnswered, SavedWasTested
<1> QED
  BY <1>3, <1>4, <1>5, <1>6, <1>7

LEMMA FormStep == FormInv /\ [InstanceFormNext]_instanceFormVars => FormInv'
<1> SUFFICES ASSUME FormInv, [InstanceFormNext]_instanceFormVars PROVE FormInv'
  OBVIOUS
<1>1. CASE UNCHANGED instanceFormVars
  BY <1>1 DEF instanceFormVars, FormInv, InstanceFormTypeOK, SavedWasTested
<1>2. CASE InstanceFormNext
  BY <1>2, DialogSteps, AnswerSteps DEF InstanceFormNext
<1> QED
  BY <1>1, <1>2

\* A password that is stored changes only to one that was typed.
LEMMA PasswordStep ==
    ASSUME FormInv, InstanceFormNext, NEW i \in Ids, accounts[i] # Absent, accounts'[i] # Absent
    PROVE  \/ accounts'[i].password = accounts[i].password
           \/ /\ accounts'[i].password = submitting.values.password
              /\ submitting.values.password # Empty
<1> USE DEF FormInv, InstanceFormTypeOK
<1>1. ASSUME NEW j \in Ids, InstanceDeleted(j)
      PROVE  accounts'[i] = accounts[i]
  BY <1>1 DEF InstanceDeleted
<1>2. ASSUME NEW j \in Ids, SaveAs(j)
      PROVE  \/ accounts'[i].password = accounts[i].password
             \/ /\ accounts'[i].password = submitting.values.password
                /\ submitting.values.password # Empty
  <2>1. CASE i # j
    BY <1>2, <2>1 DEF SaveAs
  <2>2. CASE i = j
    <3>1. submitting.target # New
      BY <1>2, <2>2 DEF SaveAs
    <3>2. accounts'[i] = Updated(accounts[i], submitting.values)
      BY <1>2, <2>2, <3>1 DEF SaveAs
    <3> QED
      BY <3>2 DEF Updated, Fields
  <2> QED
    BY <2>1, <2>2
<1>3. CASE UNCHANGED accounts
  BY <1>3
<1>4. \/ UNCHANGED accounts
      \/ \E j \in Ids : SaveAs(j) \/ InstanceDeleted(j)
  BY DEF InstanceFormNext, OpenCreate, CloseDialog, TestConnection, Submit, SaveInstance,
     SaveUnanswered, SaveRefused, OpenEdit, TypeAddress, TypePassword, TestAnswered
<1> QED
  BY <1>1, <1>2, <1>3, <1>4

-----------------------------------------------------------------------------
(* ChannelForm.                                                            *)

\* A configuration that is read into the form is built from it again.
LEMMA ParseThenBuild ==
    ASSUME NEW c \in Channel, c.config \in Config, c.config.shape = c.type
    PROVE  BuildConfig(ParseIntoForm(c)) = c.config
<1>1. c.type \in ChannelTypes /\ c.config.text \in Written
  BY DEF Channel, Config
<1>2. /\ ParseIntoForm(c).type = c.type
      /\ ParseIntoForm(c).of = [[t \in ChannelTypes |-> NoText] EXCEPT ![c.type] = c.config.text]
  BY DEF ParseIntoForm, EmptyFields
<1>3. BuildConfig(ParseIntoForm(c)) = [shape |-> c.type, text |-> c.config.text]
  BY <1>1, <1>2 DEF BuildConfig
<1>4. c.config = [shape |-> c.config.shape, text |-> c.config.text]
  BY DEF Config
<1> QED
  BY <1>3, <1>4

ChannelInv == ChannelFormTypeOK /\ VerdictIsOfTheForm

LEMMA FormWrites ==
    ASSUME fields \in Form
    PROVE  BuildConfig(fields) \in Config /\ BuildConfig(fields).shape = fields.type
  BY DEF Form, BuildConfig, Config

LEMMA FormReads == ASSUME NEW c \in Channel PROVE ParseIntoForm(c) \in Form
<1>1. c.type \in ChannelTypes
  BY DEF Channel
<1>2. NoText \in Written
  BY DEF Written
<1>3. (c.config \in Config) => c.config.text \in Written
  BY DEF Config
<1> DEFINE v == IF c.config \in Config /\ c.config.shape = c.type THEN c.config.text ELSE NoText
<1>4. v \in Written
  BY <1>2, <1>3
<1>5. EmptyFields \in Form
  BY <1>2, ChannelFormAssumption DEF EmptyFields, Form
<1>6. ParseIntoForm(c) = [EmptyFields EXCEPT !.type = c.type, !.of[c.type] = v]
  BY Zenon DEF ParseIntoForm
<1>7. [EmptyFields EXCEPT !.type = c.type, !.of[c.type] = v] \in Form
  <2> HIDE DEF v
  <2> QED
    BY <1>1, <1>4, <1>5 DEF Form
<1> QED
  BY <1>6, <1>7

LEMMA ChannelStart == ChannelFormInit => ChannelInv
<1> SUFFICES ASSUME ChannelFormInit PROVE ChannelInv
  OBVIOUS
<1>1. EmptyFields \in Form
  BY ChannelFormAssumption DEF EmptyFields, Form, Written
<1> QED
  BY <1>1, ChannelFormAssumption DEF ChannelFormInit, ChannelInv, ChannelFormTypeOK, NotSaving,
     VerdictIsOfTheForm

LEMMA ChannelStep == ChannelInv /\ [ChannelFormNext]_channelFormVars => ChannelInv'
<1> SUFFICES ASSUME ChannelInv, [ChannelFormNext]_channelFormVars PROVE ChannelInv'
  OBVIOUS
<1> USE DEF ChannelInv, ChannelFormTypeOK, VerdictIsOfTheForm
<1>1. CASE OpenAddChannel
  <2>1. EmptyFields \in Form
    BY ChannelFormAssumption DEF EmptyFields, Form, Written
  <2> QED
    BY <1>1, <2>1 DEF OpenAddChannel
<1>2. CASE CloseChannel
  BY <1>2 DEF CloseChannel
<1>3. CASE SendTest
  BY <1>3, FormWrites DEF SendTest
<1>4. CASE SubmitChannel
  <2>1. fields.type \in ChannelTypes
    BY DEF Form
  <2> QED
    BY <1>4, <2>1, FormWrites DEF SubmitChannel
<1>5. ASSUME NEW i \in Channels, OpenEditChannel(i) PROVE ChannelInv'
  <2>1. ParseIntoForm(channels[i]) \in Form
    BY <1>5, FormReads DEF OpenEditChannel
  <2> QED
    BY <1>5, <2>1 DEF OpenEditChannel
<1>6. ASSUME NEW i \in Channels, DeleteChannel(i) PROVE ChannelInv'
  BY <1>6 DEF DeleteChannel
<1>7. ASSUME NEW t \in ChannelTypes, SelectType(t) PROVE ChannelInv'
  <2>1. fields' \in Form /\ testState' = "idle"
    BY <1>7 DEF SelectType, ResetTestState, Form
  <2> QED
    BY <1>7, <2>1 DEF SelectType
<1>8. ASSUME NEW v \in Written, TypeFields(v) PROVE ChannelInv'
  <2>1. fields' \in Form /\ testState' = "idle"
    BY <1>8 DEF TypeFields, ResetTestState, Form
  <2> QED
    BY <1>8, <2>1 DEF TypeFields
<1>9. ASSUME NEW c \in tests, NEW v \in {"ok", "failed"}, ChannelTested(c, v) PROVE ChannelInv'
  <2>1. c \in Config /\ tests' \subseteq Config
    BY <1>9 DEF ChannelTested
  <2>2. /\ tested' \in {c, Unreadable} /\ (tested' = c => c = BuildConfig(fields) \/ c = Unreadable)
        /\ UNCHANGED <<channels, editing, fields, saving>> /\ testState' = v
    BY <1>9 DEF ChannelTested
  <2>3. ChannelFormTypeOK'
    BY <2>1, <2>2
  <2>4. VerdictIsOfTheForm'
    BY <2>2 DEF BuildConfig
  <2> QED
    BY <2>3, <2>4
<1>10. CASE StoreChannel \/ StoreUnanswered
  <2>1. PICK i \in Channels : StoredAs(i)
    BY <1>10 DEF StoreChannel, StoreUnanswered
  <2>2. channels' \in [Channels -> Channel \union {NoChannel}]
    BY <2>1 DEF StoredAs, Channel
  <2>3. saving' = NotSaving
    BY <1>10 DEF StoreChannel, StoreUnanswered
  <2> QED
    BY <1>10, <2>2, <2>3, ChannelFormAssumption
       DEF StoreChannel, StoreUnanswered, NotSaving, BuildConfig
<1>11. CASE ChannelRefused
  BY <1>11, ChannelFormAssumption DEF ChannelRefused, NotSaving, BuildConfig
<1>12. CASE UNCHANGED channelFormVars
  BY <1>12 DEF channelFormVars, BuildConfig
<1> QED
  BY <1>1, <1>2, <1>3, <1>4, <1>5, <1>6, <1>7, <1>8, <1>9, <1>10, <1>11, <1>12
     DEF ChannelFormNext

\* Only opening the dialog of a channel makes it the one that is edited.
LEMMA ReopenChannelStep ==
    ASSUME ChannelInv, ChannelFormNext, NEW i \in Channels, editing' = i, editing # i,
           channels[i].config \in Config, channels[i].config.shape = channels[i].type
    PROVE  BuildConfig(fields') = channels[i].config
<1>1. OpenEditChannel(i)
  <2>1. i # NoDialog /\ i # NewChannel
    BY ChannelFormAssumption DEF NoDialog, NewChannel
  <2> QED
    BY <2>1 DEF ChannelFormNext, OpenAddChannel, CloseChannel, SendTest, SubmitChannel,
       StoreChannel, StoreUnanswered, ChannelRefused, OpenEditChannel, DeleteChannel,
       SelectType, TypeFields, ChannelTested
<1>2. channels[i] \in Channel
  BY <1>1 DEF OpenEditChannel, ChannelInv, ChannelFormTypeOK
<1> QED
  BY <1>1, <1>2, ParseThenBuild DEF OpenEditChannel

-----------------------------------------------------------------------------
(* All pages, under the specification that composes them.                  *)

\* A step of a page is a step of each part, or leaves it alone.
LEMMA PagesStep ==
    ASSUME [PagesNext]_<<page, pagesVars>>
    PROVE  /\ [ScheduleNext]_cronVars
           /\ [DogNext]_dogVars
           /\ [InstanceFormNext]_instanceFormVars
           /\ [InstanceListNext]_instanceListVars
           /\ [ChannelFormNext]_channelFormVars
           /\ [BackupNext]_backupVars
           /\ [ThemeNext]_themeVars
           /\ [ToggleDiff]_diffVars
           /\ [RewriteNext]_rewriteVars
  BY DEF PagesNext, pagesVars

PagesInv ==
    /\ ScheduleInv /\ CacheInv /\ DogInv /\ FormInv /\ ListInv /\ ChannelInv /\ ThemeInv
    /\ RewriteTypeOK

\* What each page needs to know of itself holds in every state of all of them.
THEOREM PagesInductive == PagesSpec => []PagesInv
<1>1. PagesInit => PagesInv
  BY ScheduleStart, CacheStart, DogStart, FormStart, ListStart, ChannelStart, ThemeStart,
     RewriteStart DEF PagesInit, PagesInv
<1>2. PagesInv /\ [PagesNext]_<<page, pagesVars>> => PagesInv'
  <2> SUFFICES ASSUME PagesInv, [PagesNext]_<<page, pagesVars>> PROVE PagesInv'
    OBVIOUS
  <2>1. ScheduleInv' /\ CacheInv'
    BY PagesStep, ScheduleStep, CacheStep DEF PagesInv, ScheduleInv
  <2>2. DogInv' /\ ListInv' /\ ThemeInv'
    BY PagesStep, DogStep, ListStep, ThemeStep DEF PagesInv
  <2>3. FormInv' /\ ChannelInv'
    BY PagesStep, FormStep, ChannelStep DEF PagesInv
  <2>4. RewriteTypeOK'
    BY PagesStep, RewriteTypes DEF PagesInv
  <2> QED
    BY <2>1, <2>2, <2>3, <2>4 DEF PagesInv
<1> QED
  BY <1>1, <1>2, PTL DEF PagesSpec

\* No page ever sends or keeps what is not of its kind, and the server behind
\* it neither: no request stores, and the scheduler never runs, a schedule that
\* does not parse (though a restored backup may leave one stored), no address
\* is taken twice, no second master is made, a configuration that is sent is of
\* the type it is sent with, and the theme shown is the one kept as long as no
\* other tab writes to the storage.
THEOREM PagesTypes == PagesSpec => []PagesTypeOK
<1>1. PagesInv => PagesTypeOK
  BY DEF PagesInv, PagesTypeOK, ScheduleInv, DogInv, FormInv, ListInv, ChannelInv, ThemeInv
<1> QED
  BY <1>1, PagesInductive, PTL

\* A page at rest shows what the server stores or knows that its data are
\* stale, however its requests, fetches and answers have overtaken each other
\* and whatever fetch has failed; but for the cases the four parts except,
\* among them a first load that was under way during a save and a save that
\* failed half done (useSettings, invalidateAll, the effects of Sync and of
\* ThemeServerSync).
THEOREM CaughtUp == PagesSpec => []PagesCatchUp
<1>1. ASSUME PagesInv PROVE CronCacheCatchesUp
  BY <1>1 DEF PagesInv, CacheInv, CacheKnown, StoredOut, CronCacheCatchesUp
<1>2. ASSUME PagesInv PROVE WatchdogFormAgrees
  BY <1>2 DEF PagesInv, DogInv, DogKnown, DogShown, WatchdogFormAgrees
<1>3. ASSUME PagesInv PROVE ListCatchesUp
  BY <1>3 DEF PagesInv, ListInv, ListKnown, AnswerOut, ListCatchesUp
<1>4. ASSUME PagesInv PROVE ServerFollowsTheme
  BY <1>4 DEF PagesInv, ThemeInv, ThemeKnown, NoThemePut, ServerFollowsTheme
<1>5. PagesInv => PagesCatchUp
  BY <1>1, <1>2, <1>3, <1>4 DEF PagesCatchUp
<1> QED
  BY <1>5, PagesInductive, PTL

\* While the verdict of a connection test stands and did not come late, each
\* value that the form would save was in the test, is the stored one, or is a
\* password left blank; the two may still be a pair that was never tried
\* together.  The verdict of a channel was given on what its form would save,
\* unless it came late (handleTestConnection, handleTest).
THEOREM TestedIsSaved == PagesSpec => []VerdictsAreOfTheForm
<1>1. PagesInv => VerdictsAreOfTheForm
  BY DEF PagesInv, FormInv, ChannelInv, VerdictsAreOfTheForm
<1> QED
  BY <1>1, PagesInductive, PTL

\* A password left blank and a configuration opened and saved again survive
\* the save (handleSubmit, buildConfig, parseIntoForm).
THEOREM SaveKeeps == PagesSpec => NothingIsLostOnSave
<1> DEFINE Blank1 == \A i \in Ids :
             (accounts[i] # Absent /\ accounts'[i] # Absent) =>
                 \/ accounts'[i].password = accounts[i].password
                 \/ accounts'[i].password = submitting.values.password
                      /\ submitting.values.password # Empty
           Reopen1 == \A i \in Channels :
             editing' = i /\ editing # i =>
                 LET c == channels[i] IN
                 (c.config \in Config /\ c.config.shape = c.type)
                     => BuildConfig(fields') = c.config
<1>1. PagesInv /\ [PagesNext]_<<page, pagesVars>> => [Blank1]_instanceFormVars
  BY PasswordStep, PagesStep DEF PagesInv
<1>2. PagesInv /\ [PagesNext]_<<page, pagesVars>> => [Reopen1]_channelFormVars
  BY ReopenChannelStep, PagesStep DEF PagesInv
<1>3. PagesSpec => [][PagesNext]_<<page, pagesVars>>
  BY DEF PagesSpec
<1>4. PagesSpec => [][Blank1]_instanceFormVars
  BY <1>1, <1>3, PagesInductive, PTL
<1>5. PagesSpec => [][Reopen1]_channelFormVars
  BY <1>2, <1>3, PagesInductive, PTL
<1> QED
  BY <1>4, <1>5 DEF NothingIsLostOnSave, BlankKeepsPassword, ReopeningKeepsConfig

\* The composition lets each part run as its own specification says, so that
\* what is proved of a part holds of it beside all the others.
THEOREM PagesImplementParts ==
    PagesSpec => /\ ScheduleSpec /\ DogSpec /\ InstanceFormSpec /\ InstanceListSpec
                 /\ ChannelFormSpec /\ BackupSpec /\ ThemeSpec /\ DiffSpec /\ RewriteSpec
<1>1. PagesInit => /\ ScheduleInit /\ DogInit /\ InstanceFormInit /\ InstanceListInit
                   /\ ChannelFormInit /\ BackupInit /\ ThemeInit /\ DiffInit /\ RewriteInit
  BY DEF PagesInit
<1> QED
  BY <1>1, PagesStep, PTL DEF PagesSpec, ScheduleSpec, DogSpec, InstanceFormSpec,
     InstanceListSpec, ChannelFormSpec, BackupSpec, ThemeSpec, DiffSpec, RewriteSpec

\* Beside all the others: the stored schedule is the one in force, but for the
\* named exceptions, a stored one that main cannot parse among them; a restart
\* reads every secret, a backup is whole, the difference shown is right and no
\* name of a slave goes without an answer while its rewrites are replaced.
THEOREM PartsOfPages ==
    PagesSpec => /\ [](ScheduleInForce /\ RestartReadsAll /\ DiffIsRight /\ RewritesAreSafe)
                 /\ BackupIsWhole
  BY PagesImplementParts, ScheduleRuns, SecretsReadable, DiffRight, SafeRewrites, WholeBackup,
     PTL
=============================================================================
