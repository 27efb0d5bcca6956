-------------------------- MODULE WebFollow_proofs --------------------------
(***************************************************************************)
(* Theorems about StatusPolling and SyncConfigPanel: for any number of     *)
(* runs, clicks, requests under way and losses, and any set of types.      *)
(***************************************************************************)
EXTENDS StatusPolling, SyncConfigPanel, TLAPS

-----------------------------------------------------------------------------
(* StatusPolling.                                                          *)

\* A fetch of the history that may answer with an old state is marked early.
FetchCovers ==
    Fetching(history) => history.stale /\ (history.fetch >= noticed \/ history.early)
Covered ==
    \/ history.data >= noticed
    \/ Fetching(history) \/ history.stale \/ history.early
\* A status never goes back in time.
StatusAdvances == Fetching(status) => status.fetch >= status.data
PollInv == PollingTypeOK /\ StatusAdvances /\ FetchCovers /\ Covered

USE DEF Never, Idle, Fetching

LEMMA MomentsAreNumbers == \A m \in Moments : m \in Int /\ m >= 0
  BY PollingAssumption DEF Moments

\* What becomes of a query.
LEMMA FetchFacts ==
    ASSUME NEW q \in PolledQuery, moment \in Moments
    PROVE  /\ Fetch(q) \in PolledQuery /\ Fetch(q).data = q.data /\ Fetch(q).fetch = moment
           /\ Fetch(q).stale = q.stale /\ Fetch(q).early = FALSE
  BY DEF PolledQuery, Fetch
LEMMA FailedFacts ==
    ASSUME NEW q \in PolledQuery
    PROVE  /\ Failed(q) \in PolledQuery /\ Failed(q).data = q.data
           /\ Failed(q).fetch = Idle /\ Failed(q).stale = q.stale
  BY DEF PolledQuery, Failed
LEMMA FetchedFacts ==
    ASSUME NEW q \in PolledQuery, NEW m \in Moments
    PROVE  /\ Fetched(q, m) \in PolledQuery /\ Fetched(q, m).data = m
           /\ Fetched(q, m).fetch = Idle /\ Fetched(q, m).early = q.early
  BY DEF PolledQuery, Fetched
LEMMA InvalidatedFacts ==
    ASSUME NEW q \in PolledQuery, moment \in Moments, NEW b \in BOOLEAN
    PROVE  /\ Invalidated(q, b) \in PolledQuery /\ Invalidated(q, b).data = q.data
           /\ Invalidated(q, b).stale = TRUE
           /\ \/ Invalidated(q, b).fetch = moment
              \/ Invalidated(q, b).fetch = q.fetch /\ (q.fetch # Idle => Invalidated(q, b).early)
  BY DEF PolledQuery, Fetch, Invalidated, MarkedStale

\* What PollInv says of the two queries, as numbers.
Sound(q) ==
    /\ q \in PolledQuery /\ q.data <= moment /\ q.fetch <= moment
    /\ q.data = Never => q.stale
Sizes ==
    /\ moment \in Moments /\ moment \in Int /\ moment >= 0
    /\ noticed \in Int /\ noticed <= moment /\ noticed \in Moments \union {Never}
    /\ status.data \in Int /\ status.fetch \in Int
    /\ history.data \in Int /\ history.fetch \in Int
    /\ Sound(status) /\ Sound(history)

LEMMA PollSizes ==
    ASSUME PollInv
    PROVE  Sizes
<1>1. /\ moment \in Moments /\ noticed \in Moments \union {Never}
      /\ status \in PolledQuery /\ history \in PolledQuery
      /\ Sound(status) /\ Sound(history) /\ noticed <= status.data
  BY DEF PollInv, PollingTypeOK, Sound
<1>2. /\ status.data \in Int /\ status.fetch \in Int
      /\ history.data \in Int /\ history.fetch \in Int
  BY <1>1, MomentsAreNumbers DEF PolledQuery
<1> QED
  BY <1>1, <1>2, MomentsAreNumbers DEF Sizes, Sound

\* The invariant of the history: a step keeps it that leaves noticed alone
\* and does to the query one of the things the page does.
LEMMA HistoryStep ==
    ASSUME PollInv, UNCHANGED <<noticed, status>>, moment' = moment,
           \/ history' = history
           \/ history' = Fetch(history) /\ history.stale
           \/ history' = Invalidated(history, FALSE)
           \/ history' = Failed(history) /\ Fetching(history)
           \/ \E m \in Moments : ReadAt(history, m) /\ history' = Fetched(history, m)
    PROVE  /\ Sound(history)' /\ FetchCovers' /\ Covered'
<1>0. Sizes /\ FetchCovers /\ Covered
  BY PollSizes DEF PollInv
<1> USE DEF Sizes, Sound, FetchCovers, Covered
<1>1. CASE history' = history
  BY <1>0, <1>1
<1>2. CASE history' = Fetch(history) /\ history.stale
  <2>1. /\ history' \in PolledQuery /\ history'.data = history.data
        /\ history'.fetch = moment /\ history'.stale = history.stale
    BY <1>0, <1>2, FetchFacts
  <2> QED
    BY <1>0, <1>2, <2>1
<1>3. CASE history' = Invalidated(history, FALSE)
  <2>1. /\ history' \in PolledQuery /\ history'.data = history.data
        /\ history'.stale = TRUE
        /\ \/ history'.fetch = moment
           \/ history'.fetch = history.fetch /\ (history.fetch # Idle => history'.early)
    BY <1>0, <1>3, InvalidatedFacts
  <2> QED
    BY <1>0, <2>1
<1>4. CASE history' = Failed(history) /\ Fetching(history)
  BY <1>0, <1>4, FailedFacts
<1>5. ASSUME NEW m \in Moments, ReadAt(history, m), history' = Fetched(history, m)
      PROVE  /\ Sound(history)' /\ FetchCovers' /\ Covered'
  <2>1. m \in Int /\ m >= 0 /\ m >= history.fetch /\ m <= moment /\ history.fetch # Idle
    BY <1>0, <1>5, MomentsAreNumbers DEF ReadAt
  <2>2. /\ history' \in PolledQuery /\ history'.data = m /\ history'.fetch = Idle
        /\ history'.early = history.early
    BY <1>0, <1>5, FetchedFacts
  <2> QED
    BY <1>0, <2>1, <2>2
<1> QED
  BY <1>1, <1>2, <1>3, <1>4, <1>5

LEMMA PollStep ==
    ASSUME PollInv, [PollNext]_pollVars
    PROVE  PollInv'
<1>0. Sizes /\ FetchCovers /\ Covered /\ StatusAdvances /\ noticed <= status.data
      /\ queued \in BOOLEAN /\ starting \in BOOLEAN /\ place \in Places /\ lost \in 0 .. MaxLost
  BY PollSizes DEF PollInv, PollingTypeOK
<1>1. ASSUME Sound(status)', Sound(history)', FetchCovers', Covered', StatusAdvances',
             noticed' <= status'.data, moment' \in Moments,
             noticed' \in Moments \union {Never}, queued' \in BOOLEAN,
             starting' \in BOOLEAN, place' \in Places, lost' \in 0 .. MaxLost
      PROVE  PollInv'
  BY <1>1 DEF PollInv, PollingTypeOK, Sound
<1>2. ASSUME StatusAnswered PROVE PollInv'
  <2>1. PICK m \in Moments :
            /\ ReadAt(status, m) /\ status' = Fetched(status, m)
            /\ NoticeTransition(status, Fetched(status, m))
    BY <1>2 DEF StatusAnswered
  <2>2. m \in Int /\ m >= 0 /\ m <= moment /\ m >= status.data
    BY <1>0, <2>1, MomentsAreNumbers DEF ReadAt, Sizes, StatusAdvances
  <2>3. /\ status' \in PolledQuery /\ status'.data = m /\ status'.fetch = Idle
    BY <1>0, <2>1, FetchedFacts DEF Sizes, Sound
  <2>4. UNCHANGED <<moment, queued, place, starting, lost>>
    BY <1>2 DEF StatusAnswered, serverVars
  <2>5. Sound(status)' /\ StatusAdvances'
    BY <1>0, <2>2, <2>3, <2>4 DEF Sound, Sizes, StatusAdvances
  <2>6. CASE history' = Invalidated(history, place = "history") /\ noticed' = m
    <3>1. /\ history' \in PolledQuery /\ history'.data = history.data
          /\ history'.stale = TRUE
          /\ \/ history'.fetch = moment
             \/ history'.fetch = history.fetch /\ (history.fetch # Idle => history'.early)
      BY <1>0, <2>6, InvalidatedFacts DEF Sizes, Sound
    <3>2. Sound(history)' /\ FetchCovers' /\ Covered'
      BY <1>0, <2>2, <2>4, <2>6, <3>1 DEF Sizes, Sound, FetchCovers, Covered
    <3> QED
      BY <1>0, <1>1, <2>2, <2>3, <2>4, <2>5, <2>6, <3>2 DEF Sizes
  <2>7. CASE UNCHANGED <<history, noticed>>
    <3>1. Sound(history)' /\ FetchCovers' /\ Covered'
      BY <1>0, <2>4, <2>7 DEF Sizes, Sound, FetchCovers, Covered
    <3> QED
      BY <1>0, <1>1, <2>2, <2>3, <2>4, <2>5, <2>7, <3>1 DEF Sizes
  <2>8. Fetched(status, m).data = m
    BY <1>0, FetchedFacts DEF Sizes, Sound
  <2> QED
    BY <2>1, <2>6, <2>7, <2>8 DEF NoticeTransition
<1>3. ASSUME UNCHANGED <<status, noticed, moment>>,
             Sound(history)', FetchCovers', Covered', queued' \in BOOLEAN,
             starting' \in BOOLEAN, place' \in Places, lost' \in 0 .. MaxLost
      PROVE  PollInv'
  BY <1>0, <1>1, <1>3 DEF Sizes, Sound, StatusAdvances
<1>4. ASSUME HistoryAnswered PROVE PollInv'
  BY <1>0, <1>3, <1>4, HistoryStep DEF HistoryAnswered, serverVars
<1>5. ASSUME NEW q, q \in {Failed(status), Fetch(status)}, status' = q,
             UNCHANGED <<moment, place, history, noticed>>,
             queued' \in BOOLEAN, starting' \in BOOLEAN, lost' \in 0 .. MaxLost
      PROVE  PollInv'
  <2>1. Sound(status)' /\ StatusAdvances' /\ status'.data = status.data
    <3>1. CASE q = Failed(status)
      <4>1. /\ status' \in PolledQuery /\ status'.data = status.data
            /\ status'.fetch = Idle /\ status'.stale = status.stale
        BY <1>0, <1>5, <3>1, FailedFacts DEF Sizes, Sound
      <4> QED
        BY <1>0, <1>5, <4>1 DEF Sizes, Sound, StatusAdvances
    <3>2. CASE q = Fetch(status)
      <4>1. /\ status' \in PolledQuery /\ status'.data = status.data
            /\ status'.fetch = moment /\ status'.stale = status.stale
        BY <1>0, <1>5, <3>2, FetchFacts DEF Sizes, Sound
      <4> QED
        BY <1>0, <1>5, <4>1 DEF Sizes, Sound, StatusAdvances
    <3> QED
      BY <1>5, <3>1, <3>2
  <2>2. Sound(history)' /\ FetchCovers' /\ Covered'
    BY <1>0, <1>5 DEF Sizes, Sound, FetchCovers, Covered
  <2> QED
    BY <1>0, <1>1, <1>5, <2>1, <2>2 DEF Sizes
<1>6. ASSUME QueryFails PROVE PollInv'
  <2>1. lost' \in 0 .. MaxLost
    BY <1>0, <1>6, PollingAssumption DEF QueryFails
  <2>2. CASE status' = Failed(status) /\ UNCHANGED history
    BY <1>0, <1>5, <1>6, <2>1, <2>2 DEF QueryFails, serverVars
  <2>3. CASE Fetching(history) /\ history' = Failed(history) /\ UNCHANGED status
    BY <1>0, <1>3, <1>6, <2>1, <2>3, HistoryStep DEF QueryFails, serverVars
  <2> QED
    BY <1>6, <2>2, <2>3 DEF QueryFails
<1>7. ASSUME PollStatus PROVE PollInv'
  BY <1>0, <1>5, <1>7 DEF PollStatus, serverVars
<1>8. ASSUME GrowOld PROVE PollInv'
  <2>1. Sound(history)' /\ FetchCovers' /\ Covered'
    BY <1>0, <1>8 DEF GrowOld, serverVars, Sizes, Sound, FetchCovers, Covered, PolledQuery
  <2> QED
    BY <1>0, <1>3, <1>8, <2>1 DEF GrowOld, serverVars
<1>9. ASSUME NEW p \in Places, OpenPage(p) PROVE PollInv'
  BY <1>0, <1>3, <1>9, HistoryStep DEF OpenPage, FetchIfStale, serverVars
<1>10. ASSUME Refocus PROVE PollInv'
  BY <1>0, <1>3, <1>10, HistoryStep DEF Refocus, FetchIfStale, serverVars
<1>11. ASSUME RunProceeds PROVE PollInv'
  <2>1. moment' = moment + 1 /\ moment' \in Moments /\ queued' \in BOOLEAN
    BY <1>0, <1>11, PollingAssumption DEF RunProceeds, Moments, Sizes
  <2>2. UNCHANGED <<place, status, history, starting, lost, noticed>>
    BY <1>11 DEF RunProceeds
  <2>3. /\ Sound(status)' /\ Sound(history)' /\ FetchCovers' /\ Covered'
        /\ StatusAdvances'
    BY <1>0, <2>1, <2>2 DEF Sizes, Sound, FetchCovers, Covered, StatusAdvances
  <2> QED
    BY <1>0, <1>1, <2>1, <2>2, <2>3 DEF Sizes
<1>12. ASSUME RunSyncAnswered PROVE PollInv'
  <2>1. CASE status' = Fetch(status)
    BY <1>0, <1>5, <1>12, <2>1 DEF RunSyncAnswered
  <2>2. CASE status' = status
    BY <1>0, <1>3, <1>12, <2>2, HistoryStep DEF RunSyncAnswered
  <2> QED
    BY <1>12, <2>1, <2>2 DEF RunSyncAnswered
<1>13. ASSUME SubmitElsewhere \/ RunSync \/ UNCHANGED pollVars PROVE PollInv'
  BY <1>0, <1>3, <1>13, HistoryStep DEF SubmitElsewhere, RunSync, pollVars, serverVars
<1> QED
  BY <1>2, <1>4, <1>6, <1>7, <1>8, <1>9, <1>10, <1>11, <1>12, <1>13 DEF PollNext

\* What the tab has noticed and what its list of runs can know: a fetch under
\* way is no older than the last change noticed, unless the invalidation could
\* not replace it, being the first load or that of a closed page.
THEOREM PollInductive == PollSpec => []PollInv
<1>1. PollInit => PollInv
  <2> SUFFICES ASSUME PollInit PROVE PollInv
    OBVIOUS
  <2> DEFINE q == [data |-> Never, stale |-> TRUE, fetch |-> Idle, early |-> FALSE]
  <2>1. status = [q EXCEPT !.fetch = 0] /\ history = q
    BY DEF PollInit
  <2>2. 0 \in Moments
    BY PollingAssumption DEF Moments
  <2>3. q \in PolledQuery /\ q.data = Never /\ q.fetch = Idle /\ q.stale = TRUE
    BY DEF PolledQuery
  <2> HIDE DEF q
  <2>4. [q EXCEPT !.fetch = 0] \in PolledQuery
    BY <2>2, <2>3 DEF PolledQuery
  <2>5. /\ status \in PolledQuery /\ history \in PolledQuery
        /\ status.data = Never /\ status.fetch = 0 /\ status.stale = TRUE
        /\ history.data = Never /\ history.fetch = Idle /\ history.stale = TRUE
    BY <2>1, <2>3, <2>4 DEF PolledQuery
  <2>6. /\ moment = 0 /\ queued = FALSE /\ place = "other" /\ starting = FALSE
        /\ lost = 0 /\ noticed = Never
    BY DEF PollInit
  <2>7. \A p \in {status, history} :
            p.data <= moment /\ p.fetch <= moment /\ (p.data = Never => p.stale)
    BY <2>5, <2>6
  <2>8. PollingTypeOK
    <3>1. moment \in Moments /\ noticed \in Moments \union {Never} /\ noticed <= status.data
      BY <2>2, <2>5, <2>6
    <3>2. queued \in BOOLEAN /\ starting \in BOOLEAN /\ place \in Places
      BY <2>6 DEF Places
    <3>3. lost \in 0 .. MaxLost
      BY <2>6, PollingAssumption
    <3> QED
      BY <2>5, <2>7, <3>1, <3>2, <3>3 DEF PollingTypeOK
  <2> QED
    BY <2>5, <2>6, <2>8 DEF PollInv, StatusAdvances, FetchCovers, Covered
<1>2. PollInv /\ [PollNext]_pollVars => PollInv'
  BY PollStep
<1> QED
  BY <1>1, <1>2, PTL DEF PollSpec

\* Types; nothing in the cache is from the future.
THEOREM PollTypes == PollSpec => []PollingTypeOK
  BY PollInductive, PTL DEF PollInv

\* No change of the runs that the tab has noticed is missing from its history
\* without the list being known to be old, unless its answer was under way when
\* the change came and the invalidation had to leave it (early).
THEOREM NoticesCovered == PollSpec => []HistoryCoversNotices
<1>1. PollInv => HistoryCoversNotices
  BY DEF PollInv, Covered, HistoryCoversNotices
<1> QED
  BY <1>1, PollInductive, PTL

-----------------------------------------------------------------------------
(* SyncConfigPanel.                                                        *)

\* Unless a click came too early or requests crossed: a configuration is
\* waited for with nothing else under way, one request PUT is under way at
\* most, and it carries the panel as it is or the timer will send the panel
\* again.
Asking(l)    == loads[l].is # "no"
SendingIs(s) == sends[s].is = "yes"
Orderly ==
    /\ local.is = "no" => \A l \in Loads :
           /\ Asking(l) => timer.is = "no" /\ \A s \in Sends : ~SendingIs(s)
           /\ loads[l].is = "yes" => loads[l].value = config
    /\ \A s, o \in Sends : SendingIs(s) /\ SendingIs(o) => s = o
    /\ (local.is = "yes" /\ timer.is = "yes") => timer.value = local.value
    /\ (local.is = "yes" /\ timer.is # "yes") =>
           /\ \A s \in Sends : SendingIs(s) => sends[s] = local
           /\ (\A s \in Sends : ~SendingIs(s)) => local.value = config
\* Types, and none of the three is ever half there.
NoneAsked == local.is # "asked" /\ timer.is # "asked" /\ \A s \in Sends : sends[s].is # "asked"
\* Off the types that were clicked on, every copy of the configuration that is
\* anywhere still has the default, however requests crossed.
Pristine(q) == q.is = "yes" => \A t \in Types \ clicked : q.value[t] = Default[t]
Unclicked ==
    /\ \A t \in Types \ clicked : config[t] = Default[t]
    /\ Pristine(local) /\ Pristine(timer)
    /\ \A l \in Loads : Pristine(loads[l])
    /\ \A s \in Sends : Pristine(sends[s])
PanelInv ==
    /\ PanelTypeOK /\ NoneAsked
    /\ blind \/ crossed \/ Orderly
    /\ blind \/ foreign \/ Unclicked

LEMMA MaybeFacts ==
    /\ NoConfig \in Maybe /\ NoConfig.is = "no" /\ Default \in Configs
    /\ Asked \in Maybe /\ Asked.is = "asked"
    /\ \A v \in Configs : Holding(v) \in Maybe /\ Holding(v).is = "yes" /\ Holding(v).value = v
    /\ \A v \in Configs, t \in Types : [v EXCEPT ![t] = ~@] \in Configs
    /\ \A q \in Maybe : q.value \in Configs
<1>1. Default \in Configs
  BY DEF Default, Configs
<1>2. \A v \in Configs, t \in Types : [v EXCEPT ![t] = ~@] \in Configs
  BY DEF Configs
<1> QED
  BY <1>1, <1>2 DEF NoConfig, Asked, Maybe, Holding

LEMMA ExistingIsAConfig ==
    ASSUME PanelTypeOK
    PROVE  Existing \in Configs
  BY DEF Existing, AllTrue, PanelTypeOK, Maybe, Configs

LEMMA PanelTypeStep ==
    ASSUME PanelTypeOK, NoneAsked, [PanelNext]_panelVars
    PROVE  PanelTypeOK' /\ NoneAsked'
<1> USE MaybeFacts DEF PanelTypeOK, NoneAsked
<1>1. ASSUME ToggleExpand PROVE PanelTypeOK' /\ NoneAsked'
  <2>1. CASE UNCHANGED <<loads, crossed>>
    BY <1>1, <2>1 DEF ToggleExpand
  <2>2. CASE Expand /\ local.is = "no"
    <3>1. PICK l \in Loads : loads' = [loads EXCEPT ![l] = Asked]
      BY <2>2 DEF Expand
    <3>2. crossed' \in BOOLEAN
      BY <2>2 DEF Expand
    <3> QED
      BY <1>1, <3>1, <3>2 DEF ToggleExpand
  <2> QED
    BY <1>1, <2>1, <2>2 DEF ToggleExpand, Expand
<1>2. ASSUME NEW t \in Types, HandleConfigToggle(t) PROVE PanelTypeOK' /\ NoneAsked'
  <2>1. [Existing EXCEPT ![t] = ~@] \in Configs
    BY ExistingIsAConfig
  <2>2. toggles' \in 0 .. MaxToggles /\ clicked' \subseteq Types
    BY <1>2, PanelAssumption DEF HandleConfigToggle
  <2> QED
    BY <1>2, <2>1, <2>2 DEF HandleConfigToggle, Armed
<1>3. ASSUME TimerFires PROVE PanelTypeOK' /\ NoneAsked'
  <2>1. PICK s \in Sends : sends' = [sends EXCEPT ![s] = timer]
    BY <1>3 DEF TimerFires
  <2>2. sends' \in [Sends -> Maybe] /\ \A o \in Sends : sends'[o].is # "asked"
    BY <2>1
  <2> QED
    BY <1>3, <2>2 DEF TimerFires
<1>4. ASSUME LeavePage PROVE PanelTypeOK' /\ NoneAsked'
  BY <1>4 DEF LeavePage
<1>10. ASSUME NEW l \in Loads, LoadArrives(l) \/ ReadConfig(l) PROVE PanelTypeOK' /\ NoneAsked'
  <2>1. CASE LoadArrives(l)
    BY <2>1 DEF LoadArrives
  <2>2. CASE ReadConfig(l)
    BY <2>2 DEF ReadConfig
  <2> QED
    BY <1>10, <2>1, <2>2
<1>5. ASSUME NEW s \in Sends, ServeSend(s) PROVE PanelTypeOK' /\ NoneAsked'
  BY <1>5 DEF ServeSend
<1>6. ASSUME Miss PROVE misses' \in 0 .. MaxMisses /\ crossed' \in BOOLEAN
  BY <1>6, PanelAssumption DEF Miss
<1>7. ASSUME NEW s \in Sends, SendLost(s) PROVE PanelTypeOK' /\ NoneAsked'
  BY <1>6, <1>7 DEF SendLost
<1>8. ASSUME OtherConfigures PROVE PanelTypeOK' /\ NoneAsked'
  BY <1>6, <1>8 DEF OtherConfigures
<1>11. ASSUME NEW l \in Loads, LoadLost(l) PROVE PanelTypeOK' /\ NoneAsked'
  BY <1>6, <1>11 DEF LoadLost
<1>9. CASE UNCHANGED panelVars
  BY <1>9 DEF panelVars
<1> QED
  BY <1>1, <1>2, <1>3, <1>4, <1>5, <1>7, <1>8, <1>9, <1>10, <1>11 DEF PanelNext

\* A step keeps the requests in order, or is one of the exceptions.
LEMMA OrderlyStep ==
    ASSUME PanelInv, [PanelNext]_panelVars
    PROVE  blind' \/ crossed' \/ Orderly'
<1>0. PanelTypeOK /\ NoneAsked
  BY DEF PanelInv
<1>1. CASE blind \/ crossed
  <2>0. ASSUME ToggleExpand PROVE (blind => blind') /\ (crossed => crossed')
    BY <2>0 DEF ToggleExpand, Expand
  <2>1. ASSUME TimerFires PROVE (blind => blind') /\ (crossed => crossed')
    <3>1. blind' = blind /\ crossed' = (crossed \/ Sending)
      BY <2>1 DEF TimerFires
    <3> QED
      BY <3>1
  <2>2. ASSUME LeavePage PROVE (blind => blind') /\ (crossed => crossed')
    BY <2>2 DEF LeavePage
  <2>7. ASSUME NEW l \in Loads, LoadArrives(l) \/ ReadConfig(l)
        PROVE  (blind => blind') /\ (crossed => crossed')
    <3>1. CASE LoadArrives(l)
      <4>1. /\ blind' = blind
            /\ crossed' = (crossed \/ (local.is = "yes" /\ local.value # loads[l].value))
        BY <3>1 DEF LoadArrives
      <4> QED
        BY <4>1
    <3>2. CASE ReadConfig(l)
      BY <3>2 DEF ReadConfig
    <3> QED
      BY <2>7, <3>1, <3>2
  <2>3. ASSUME NEW t \in Types, HandleConfigToggle(t) PROVE (blind => blind') /\ (crossed => crossed')
    BY <2>3 DEF HandleConfigToggle
  <2>4. ASSUME NEW s \in Sends, ServeSend(s) PROVE (blind => blind') /\ (crossed => crossed')
    BY <2>4 DEF ServeSend
  <2>5. ASSUME Miss PROVE crossed'
    BY <2>5 DEF Miss
  <2>6. CASE UNCHANGED panelVars
    BY <1>1, <2>6 DEF panelVars
  <2> QED
    BY <1>1, <2>0, <2>1, <2>2, <2>3, <2>4, <2>5, <2>6, <2>7
       DEF PanelNext, SendLost, LoadLost, OtherConfigures
<1>2. CASE Orderly
  <2> USE MaybeFacts DEF Orderly, PanelTypeOK, NoneAsked, Asking, SendingIs
  <2>1. ASSUME ToggleExpand PROVE crossed' \/ Orderly'
    <3>1. UNCHANGED <<config, local, timer, sends>>
      BY <2>1 DEF ToggleExpand
    <3>2. CASE Expand /\ local.is = "no"
      <4>1. PICK l \in Loads : loads' = [loads EXCEPT ![l] = Asked]
        BY <3>2 DEF Expand
      <4>2. \A o \in Loads : loads'[o] = IF o = l THEN Asked ELSE loads[o]
        BY <1>0, <4>1
      <4>3. CASE Sending
        BY <3>2, <4>3 DEF Expand
      <4>4. CASE ~Sending
        <5>1. (\A s \in Sends : sends[s].is = "no") /\ timer.is = "no"
          BY <1>0, <3>2, <4>4 DEF Sending, Maybe
        <5> QED
          BY <1>2, <3>1, <3>2, <4>2, <5>1
      <4> QED
        BY <4>3, <4>4
    <3>3. CASE loads' = loads
      BY <1>2, <3>1, <3>3
    <3> QED
      BY <2>1, <3>2, <3>3 DEF ToggleExpand, Expand
  <2>2. ASSUME NEW t \in Types, HandleConfigToggle(t) PROVE blind' \/ Orderly'
    <3>1. CASE local.is = "no"
      BY <2>2, <3>1 DEF HandleConfigToggle
    <3>2. CASE local.is = "yes"
      <4> DEFINE v == [local.value EXCEPT ![t] = ~@]
      <4>1. local' = Holding(v) /\ timer' = Holding(v)
        BY <2>2, <3>2 DEF HandleConfigToggle, Armed, Existing
      <4>2. UNCHANGED <<config, loads, sends>>
        BY <2>2 DEF HandleConfigToggle
      <4>3. local.value \in Configs
        BY <1>0
      <4>4. v \in Configs
        BY <4>3 DEF Configs
      <4> HIDE DEF v
      <4>5. local'.is = "yes" /\ timer'.is = "yes" /\ local'.value = v /\ timer'.value = v
        BY <4>1, <4>4
      <4> QED
        BY <1>2, <3>2, <4>1, <4>2, <4>4, <4>5
    <3>3. local.is = "no" \/ local.is = "yes"
      BY <1>0 DEF Maybe
    <3> QED
      BY <3>1, <3>2, <3>3
  <2>3. ASSUME TimerFires PROVE crossed' \/ Orderly'
    <3>1. CASE Sending
      BY <2>3, <3>1 DEF TimerFires
    <3>2. CASE ~Sending
      <4>1. PICK s \in Sends : sends' = [sends EXCEPT ![s] = timer]
        BY <2>3 DEF TimerFires
      <4>2. \A o \in Sends : sends[o].is = "no"
        BY <3>2 DEF Sending
      <4>3. timer.is = "yes" /\ local.is = "yes" /\ timer = local
        BY <1>0, <1>2, <2>3 DEF TimerFires, Maybe
      <4>4. \A o \in Sends : sends'[o] = IF o = s THEN local ELSE sends[o]
        BY <1>0, <4>1, <4>3
      <4>5. \A o \in Sends : sends'[o].is = "yes" => o = s /\ sends'[o] = local
        BY <4>2, <4>4
      <4>6. sends'[s].is = "yes"
        BY <4>3, <4>4
      <4>7. timer' = NoConfig /\ UNCHANGED <<config, loads, local>>
        BY <2>3 DEF TimerFires
      <4>8. timer'.is = "no"
        BY <1>0, <1>2, <4>3, <4>7
      <4> QED
        BY <1>2, <4>3, <4>5, <4>6, <4>7, <4>8
    <3> QED
      BY <3>1, <3>2
  <2>4. ASSUME NEW l \in Loads, LoadArrives(l) PROVE crossed' \/ Orderly'
    <3>1. /\ loads[l].is = "yes" /\ local' = loads[l] /\ local'.is = "yes"
          /\ UNCHANGED <<config, timer, sends>>
      BY <2>4 DEF LoadArrives
    <3>2. CASE local.is = "no"
      BY <1>0, <1>2, <3>1, <3>2
    <3>3. CASE local.is = "yes" /\ local.value = loads[l].value
      <4>1. local' = local
        BY <1>0, <3>1, <3>3 DEF Maybe
      <4> QED
        BY <1>2, <3>1, <3>3, <4>1
    <3> QED
      BY <1>0, <2>4, <3>2, <3>3 DEF LoadArrives, Maybe
  <2>5. ASSUME LeavePage PROVE Orderly'
    BY <1>0, <1>2, <2>5 DEF LeavePage
  <2>6. ASSUME NEW l \in Loads, ReadConfig(l) PROVE Orderly'
    BY <1>0, <1>2, <2>6 DEF ReadConfig
  <2>7. ASSUME NEW s \in Sends, ServeSend(s) PROVE Orderly'
    BY <1>0, <1>2, <2>7 DEF ServeSend
  <2>8. ASSUME Miss PROVE crossed'
    BY <2>8 DEF Miss
  <2>9. CASE UNCHANGED panelVars
    BY <1>2, <2>9 DEF panelVars
  <2> QED
    BY <2>1, <2>2, <2>3, <2>4, <2>5, <2>6, <2>7, <2>8, <2>9
       DEF PanelNext, SendLost, LoadLost, OtherConfigures
<1> QED
  BY <1>1, <1>2 DEF PanelInv

\* A step changes a copy of the configuration in the types that were clicked
\* on only.
LEMMA UnclickedStep ==
    ASSUME PanelInv, [PanelNext]_panelVars
    PROVE  blind' \/ foreign' \/ Unclicked'
<1>0. PanelTypeOK
  BY DEF PanelInv
<1>1. ASSUME ~blind', ~foreign' PROVE Unclicked'
  <2>1. ~blind /\ ~foreign
    <3>1. ASSUME NEW t \in Types, HandleConfigToggle(t) PROVE ~blind /\ ~foreign
      <4>1. blind' = (blind \/ local.is = "no") /\ foreign' = foreign
        BY <3>1 DEF HandleConfigToggle
      <4> QED
        BY <1>1, <4>1
    <3>2. CASE OtherConfigures
      BY <1>1, <3>2 DEF OtherConfigures
    <3>3. CASE UNCHANGED <<blind, foreign>>
      BY <1>1, <3>3
    <3> QED
      BY <3>1, <3>2, <3>3 DEF PanelNext, ToggleExpand, TimerFires, LoadArrives, LeavePage,
         ReadConfig, ServeSend, SendLost, LoadLost, panelVars
  <2>2. Unclicked
    BY <2>1 DEF PanelInv
  <2> USE MaybeFacts DEF Unclicked, Pristine, PanelTypeOK
  <2>3. ASSUME ToggleExpand PROVE Unclicked'
    <3>1. UNCHANGED <<config, local, timer, sends, clicked>>
      BY <2>3 DEF ToggleExpand
    <3>2. \A l \in Loads : loads'[l] = loads[l] \/ loads'[l] = Asked
      BY <1>0, <2>3 DEF ToggleExpand, Expand
    <3> QED
      BY <2>2, <3>1, <3>2
  <2>4. ASSUME NEW t \in Types, HandleConfigToggle(t) PROVE Unclicked'
    <3> DEFINE v == [Existing EXCEPT ![t] = ~@]
    <3>1. local.is = "yes" /\ Existing = local.value
      <4>1. local.is # "no" /\ local.is # "asked"
        BY <1>1, <2>4 DEF HandleConfigToggle, PanelInv, NoneAsked
      <4> QED
        BY <1>0, <4>1 DEF Existing, Maybe
    <3>2. v \in Configs /\ \A u \in Types \ {t} : v[u] = local.value[u]
      BY <1>0, <3>1 DEF Configs
    <3>3. /\ local' = Holding(v) /\ timer' = Holding(v) /\ clicked' = clicked \union {t}
          /\ UNCHANGED <<config, loads, sends>>
      BY <2>4 DEF HandleConfigToggle, Armed
    <3> HIDE DEF v
    <3> QED
      BY <2>2, <3>1, <3>2, <3>3
  <2>5. ASSUME TimerFires PROVE Unclicked'
    <3>1. PICK s \in Sends : sends' = [sends EXCEPT ![s] = timer]
      BY <2>5 DEF TimerFires
    <3>2. timer' = NoConfig /\ UNCHANGED <<config, loads, local, clicked>>
      BY <2>5 DEF TimerFires
    <3> QED
      BY <1>0, <2>2, <3>1, <3>2
  <2>6. ASSUME NEW l \in Loads, LoadArrives(l) PROVE Unclicked'
    BY <1>0, <2>2, <2>6 DEF LoadArrives
  <2>7. ASSUME NEW l \in Loads, ReadConfig(l) PROVE Unclicked'
    BY <1>0, <2>2, <2>7 DEF ReadConfig
  <2>8. ASSUME NEW l \in Loads, LoadLost(l) PROVE Unclicked'
    BY <1>0, <2>2, <2>8 DEF LoadLost
  <2>9. ASSUME LeavePage PROVE Unclicked'
    BY <1>0, <2>2, <2>9 DEF LeavePage
  <2>10. ASSUME NEW s \in Sends, ServeSend(s) PROVE Unclicked'
    BY <1>0, <2>2, <2>10 DEF ServeSend
  <2>11. ASSUME NEW s \in Sends, SendLost(s) PROVE Unclicked'
    BY <1>0, <2>2, <2>11 DEF SendLost
  <2>12. CASE OtherConfigures
    BY <1>1, <2>12 DEF OtherConfigures
  <2>13. CASE UNCHANGED panelVars
    BY <2>2, <2>13 DEF panelVars
  <2> QED
    BY <2>3, <2>4, <2>5, <2>6, <2>7, <2>8, <2>9, <2>10, <2>11, <2>12, <2>13 DEF PanelNext
<1> QED
  BY <1>1

\* What the panel shows and what is under way, for any number of loads and
\* saves at a time.
THEOREM PanelInductive == PanelSpec => []PanelInv
<1>1. PanelInit => PanelInv
  <2> SUFFICES ASSUME PanelInit PROVE PanelInv
    OBVIOUS
  <2>1. /\ config = Default /\ shown = FALSE /\ toggles = 0 /\ misses = 0 /\ clicked = {}
        /\ blind = FALSE /\ foreign = FALSE /\ crossed = FALSE
        /\ local = NoConfig /\ timer = NoConfig
        /\ loads = [l \in Loads |-> NoConfig] /\ sends = [s \in Sends |-> NoConfig]
    BY DEF PanelInit
  <2>2. toggles \in 0 .. MaxToggles /\ misses \in 0 .. MaxMisses
    BY <2>1, PanelAssumption
  <2>3. PanelTypeOK
    BY <2>1, <2>2, MaybeFacts DEF PanelTypeOK
  <2>4. Orderly /\ NoneAsked /\ Unclicked
    BY <2>1, MaybeFacts DEF Orderly, Asking, SendingIs, NoneAsked, Unclicked, Pristine
  <2> QED
    BY <2>3, <2>4 DEF PanelInv
<1>2. PanelInv /\ [PanelNext]_panelVars => PanelInv'
  <2> SUFFICES ASSUME PanelInv, [PanelNext]_panelVars PROVE PanelInv'
    OBVIOUS
  <2>1. PanelTypeOK' /\ NoneAsked'
    BY PanelTypeStep DEF PanelInv
  <2> QED
    BY <2>1, OrderlyStep, UnclickedStep DEF PanelInv
<1> QED
  BY <1>1, <1>2, PTL DEF PanelSpec

\* Types; the timer holds the edit of a panel that is loaded.
THEOREM PanelTypes == PanelSpec => []PanelTypeOK
  BY PanelInductive, PTL DEF PanelInv

\* The panel differs from the server only while an edit is on its way, unless
\* a request was lost, overlapped another or brought an older configuration
\* over an edit, as a second load does (crossed), or a checkbox was clicked
\* before the configuration had come (blind).
THEOREM PanelTruthful == PanelSpec => []PanelAgrees
<1>1. PanelInv => PanelAgrees
  BY DEF PanelInv, Orderly, SendingIs, PanelAgrees
<1> QED
  BY <1>1, PanelInductive, PTL

\* An edit changes no type that was not clicked on, though it sends them all,
\* whatever requests are lost or overtake each other.
THEOREM NothingElseChanges == PanelSpec => OnlyWhatWasClicked
<1>1. PanelInv /\ [PanelNext]_panelVars =>
          [\A t \in Types : config'[t] # config[t] => t \in clicked \/ blind \/ foreign']_panelVars
  <2> SUFFICES ASSUME PanelInv, PanelNext, NEW t \in Types, config'[t] # config[t],
                      ~blind, ~foreign', t \notin clicked
               PROVE  FALSE
    OBVIOUS
  <2>1. ASSUME NEW s \in Sends, ServeSend(s) PROVE FALSE
    <3>1. foreign' = foreign /\ config' = sends[s].value /\ sends[s].is = "yes"
      BY <2>1 DEF ServeSend
    <3>2. Unclicked
      BY <3>1 DEF PanelInv
    <3> QED
      BY <3>1, <3>2 DEF Unclicked, Pristine
  <2> QED
    BY <2>1 DEF PanelNext, ToggleExpand, HandleConfigToggle, TimerFires, LoadArrives, LeavePage,
                ReadConfig, Miss, SendLost, LoadLost, OtherConfigures
<1> QED
  BY <1>1, PanelInductive, PTL DEF PanelSpec, OnlyWhatWasClicked
=============================================================================
