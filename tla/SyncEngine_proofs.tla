------------------------- MODULE SyncEngine_proofs -------------------------
(***************************************************************************)
(* Theorems about InstanceRepo, for any set of ids, addresses and config   *)
(* types and any number of concurrent SetSyncConfig calls, and about       *)
(* SyncEngine, for any number of slots as well and any requests of         *)
(* /instances during the run.                                              *)
(***************************************************************************)
EXTENDS SyncEngine, FiniteSetTheorems, TLAPS

-----------------------------------------------------------------------------
(* InstanceRepo.                                                           *)

RepoInv == RepoTypeOK /\ AtMostOneMaster /\ MasterIsConfigured /\ DhcpOnlyOnRequest

\* Operators on configurations.
LEMMA ConfigTypesOfOperators ==
    /\ NoConfig \in Configs /\ DefaultConfig \in Configs
    /\ \A old, new \in Configs : Upserted(old, new) \in Configs
  BY DEF NoConfig, DefaultConfig, Upserted, Configs, Toggles

\* The defaults name every canonical type, with dhcp off.
LEMMA DefaultsAreComplete ==
    /\ \A t \in AllConfigTypes : DefaultConfig[t] # "none"
    /\ DefaultConfig[Dhcp] # "on"
  BY TypesAssumption DEF DefaultConfig

\* What Promote carries over: a complete configuration, the old master's if
\* there is one, with dhcp on only if it was asked for.
LEMMA CarriedFacts ==
    ASSUME RepoInv
    PROVE  /\ Carried \in Configs
           /\ \A t \in AllConfigTypes : Carried[t] # "none"
           /\ Carried[Dhcp] = "on" => dhcpAsked
           /\ \A j \in Ids : isMaster[j] => Carried = cfg[j]
<1>1. CASE Masters = {}
  <2>1. Carried = DefaultConfig
    BY <1>1 DEF Carried, MasterRows
  <2>2. \A j \in Ids : ~isMaster[j]
    BY <1>1 DEF Masters
  <2> QED
    BY <2>1, <2>2, ConfigTypesOfOperators, DefaultsAreComplete
<1>2. CASE Masters # {}
  <2>1. PICK m \in Ids : isMaster[m]
    BY <1>2 DEF Masters
  <2>2. (CHOOSE j \in Ids : isMaster[j]) = m
    BY <2>1 DEF RepoInv, AtMostOneMaster
  <2>3. MasterRows = cfg[m]
    BY <1>2, <2>2 DEF MasterRows
  <2>4. cfg[m] \in Configs /\ (\A t \in AllConfigTypes : cfg[m][t] # "none")
    BY <2>1 DEF RepoInv, RepoTypeOK, NoneLeftBehind, MasterIsConfigured
  <2>5. cfg[m] # NoConfig
    BY <2>4, TypesAssumption DEF NoConfig
  <2>6. Carried = cfg[m]
    BY <2>3, <2>5 DEF Carried
  <2>7. cfg[m][Dhcp] = "on" => dhcpAsked
    BY <2>1 DEF RepoInv, DhcpOnlyOnRequest
  <2> QED
    BY <2>1, <2>4, <2>6, <2>7 DEF RepoInv, AtMostOneMaster
<1> QED
  BY <1>1, <1>2

\* Every step keeps the four invariants.
LEMMA RepoStep ==
    ASSUME RepoInv, [RepoNext]_repoVars
    PROVE  RepoInv'
<1> USE DEF RepoInv, RepoTypeOK, NoneLeftBehind, AtMostOneMaster, MasterIsConfigured,
   DhcpOnlyOnRequest, Present
<1>1. ASSUME NEW i \in Ids, NEW a \in Addresses, NEW m \in BOOLEAN, Create(i, a, m)
      PROVE  RepoInv'
  <2>1. CASE Free(a, i)
    <3>1. /\ row[i] = "unborn" /\ ~isMaster[i]
          /\ row' = [row EXCEPT ![i] = "present"]
          /\ isMaster' = [j \in Ids |-> IF m THEN j = i ELSE isMaster[j] /\ j # i]
          /\ cfg' = IF m THEN [cfg EXCEPT ![i] = DefaultConfig] ELSE cfg
          /\ UNCHANGED <<edits, dhcpAsked>>
      BY <1>1, <2>1 DEF Create, Insert, MastersAfterInsert
    <3>2. RepoTypeOK'
      BY <1>1, <2>1, <3>1, ConfigTypesOfOperators DEF Create, Insert
    <3>3. AtMostOneMaster'
      BY <3>1
    <3>4. MasterIsConfigured' /\ DhcpOnlyOnRequest'
      BY <3>1, DefaultsAreComplete
    <3> QED
      BY <3>2, <3>3, <3>4
  <2>2. CASE ~Free(a, i)
    BY <1>1, <2>2 DEF Create, repoVars
  <2> QED
    BY <2>1, <2>2
<1>2. ASSUME NEW i \in Ids, NEW a \in Addresses, Update(i, a) PROVE RepoInv'
  BY <1>2 DEF Update
<1>3. ASSUME NEW i \in Ids, Delete(i) PROVE RepoInv'
  BY <1>3, ConfigTypesOfOperators DEF Delete, CascadeDelete
<1>4. ASSUME NEW i \in Ids, Promote(i) PROVE RepoInv'
  <2>1. RepoTypeOK'
    BY <1>4, CarriedFacts, ConfigTypesOfOperators DEF Promote, NewMasterRows
  <2>2. AtMostOneMaster'
    BY <1>4 DEF Promote
  <2>3. MasterIsConfigured' /\ DhcpOnlyOnRequest'
    BY <1>4, CarriedFacts DEF Promote, NewMasterRows
  <2> QED
    BY <2>1, <2>2, <2>3
<1>5. ASSUME NEW i \in Ids, NEW b \in BOOLEAN, SetSyncEnabled(i, b) PROVE RepoInv'
  BY <1>5 DEF SetSyncEnabled
<1>6. ASSUME NEW i \in Ids, NEW e \in Configs, BeginSetSyncConfig(i, e) PROVE RepoInv'
  BY <1>6 DEF BeginSetSyncConfig, instanceVars
<1>7. ASSUME NEW e \in edits, FinishSetSyncConfig(e) PROVE RepoInv'
  <2>1. e.id \in Ids /\ e.entries \in Configs
    OBVIOUS
  <2>2. CASE ~Present(e.id)
    BY <1>7, <2>1, <2>2 DEF FinishSetSyncConfig, instanceVars
  <2>3. CASE Present(e.id)
    <3> DEFINE new == Upserted(cfg[e.id], e.entries)
    <3>1. new \in Configs
      BY <2>1, ConfigTypesOfOperators
    <3>2. \A t \in ConfigTypes : new[t] = IF e.entries[t] = "none" THEN cfg[e.id][t]
                                         ELSE e.entries[t]
      BY DEF Upserted
    <3>3. /\ cfg' = [cfg EXCEPT ![e.id] = new] /\ edits' \subseteq edits
          /\ dhcpAsked' = (dhcpAsked \/ (isMaster[e.id] /\ e.entries[Dhcp] = "on"))
          /\ UNCHANGED instanceVars
      BY <1>7, <2>3 DEF FinishSetSyncConfig
    <3> HIDE DEF new
    <3>4. RepoTypeOK' /\ AtMostOneMaster'
      BY <2>1, <2>3, <3>1, <3>3 DEF instanceVars
    <3>5. MasterIsConfigured'
      BY <2>1, <3>2, <3>3, TypesAssumption DEF instanceVars
    <3>6. DhcpOnlyOnRequest'
      BY <2>1, <3>2, <3>3, TypesAssumption DEF instanceVars
    <3> QED
      BY <3>4, <3>5, <3>6
  <2> QED
    BY <2>2, <2>3
<1>8. CASE UNCHANGED repoVars
  BY <1>8 DEF repoVars
<1> QED
  BY <1>1, <1>2, <1>3, <1>4, <1>5, <1>6, <1>7, <1>8 DEF RepoNext, NotFound

\* The four invariants hold together; none of the last two is inductive alone.
THEOREM RepoInvariant == RepoSpec => []RepoInv
<1>1. RepoInit => RepoInv
  BY ConfigTypesOfOperators
     DEF RepoInit, RepoInv, RepoTypeOK, NoneLeftBehind, AtMostOneMaster, MasterIsConfigured,
         DhcpOnlyOnRequest, Present
<1>2. RepoInv /\ [RepoNext]_repoVars => RepoInv'
  BY RepoStep
<1> QED
  BY <1>1, <1>2, PTL DEF RepoSpec

\* Types: an instance that is not there has no rows and is no master.
THEOREM RepoTypes == RepoSpec => []RepoTypeOK
  BY RepoInvariant, PTL DEF RepoInv

\* At most one instance is the master.
THEOREM OneMaster == RepoSpec => []AtMostOneMaster
  BY RepoInvariant, PTL DEF RepoInv

\* The master has a row for every canonical config type.
THEOREM MasterConfigured == RepoSpec => []MasterIsConfigured
  BY RepoInvariant, PTL DEF RepoInv

\* One master at most, and a configured one; nothing of deleted instances.
THEOREM OneConfigured == RepoSpec => []OneConfiguredMaster
<1>1. RepoInv => OneConfiguredMaster
  BY DEF RepoInv, RepoTypeOK, OneConfiguredMaster
<1> QED
  BY <1>1, RepoInvariant, PTL

\* dhcp is in force only after somebody switched it on for a master.
THEOREM DhcpRequested == RepoSpec => []DhcpOnlyOnRequest
  BY RepoInvariant, PTL DEF RepoInv

\* Handing over the master role hands over the choice of what is synced.
THEOREM SelectionKept == RepoSpec => PromoteKeepsSelection
<1> DEFINE A == \A i, j \in Ids :
                  i # j /\ isMaster[i] /\ isMaster'[j] /\ Present(j) =>
                      cfg'[j] = cfg[i] /\ cfg'[i] = NoConfig
<1>1. RepoInv /\ [RepoNext]_repoVars => [A]_repoVars
  <2> SUFFICES ASSUME RepoInv, RepoNext, NEW i \in Ids, NEW j \in Ids,
                      i # j, isMaster[i], isMaster'[j], Present(j)
               PROVE  cfg'[j] = cfg[i] /\ cfg'[i] = NoConfig
    OBVIOUS
  <2> USE DEF RepoInv, RepoTypeOK, NoneLeftBehind, AtMostOneMaster, Present
  <2>0. ~isMaster[j]
    OBVIOUS
  <2>1. ASSUME NEW k \in Ids, Promote(k) PROVE cfg'[j] = cfg[i] /\ cfg'[i] = NoConfig
    BY <2>1, CarriedFacts DEF Promote, NewMasterRows
  <2>2. ASSUME NEW k \in Ids, NEW a \in Addresses, NEW m \in BOOLEAN, Create(k, a, m)
        PROVE  FALSE
    BY <2>0, <2>2 DEF Create, Insert, MastersAfterInsert, repoVars
  <2>3. ASSUME NEW k \in Ids, Delete(k) PROVE FALSE
    BY <2>0, <2>3 DEF Delete
  <2>4. CASE isMaster' = isMaster
    BY <2>0, <2>4
  <2> QED
    BY <2>1, <2>2, <2>3, <2>4
       DEF RepoNext, NotFound, Update, SetSyncEnabled, BeginSetSyncConfig,
           FinishSetSyncConfig, instanceVars, repoVars
<1> QED
  BY <1>1, RepoInvariant, PTL DEF RepoSpec, PromoteKeepsSelection

\* The fleet loses its master only with the instance itself.
THEOREM MasterKept == RepoSpec => MasterLostOnlyByDelete
<1>1. RepoInv /\ [RepoNext]_repoVars =>
          [Masters # {} /\ Masters' = {} => \E i \in Masters : ~Present(i)']_repoVars
  <2> SUFFICES ASSUME RepoInv, RepoNext, Masters # {}, Masters' = {}
               PROVE  \E i \in Masters : ~Present(i)'
    BY DEF repoVars, Masters, Present
  <2>1. PICK m \in Ids : isMaster[m]
    BY DEF Masters
  <2>2. ~isMaster'[m]
    BY DEF Masters
  <2>3. ASSUME NEW i \in Ids, NEW a \in Addresses, NEW b \in BOOLEAN, Create(i, a, b)
        PROVE  FALSE
    <3>1. CASE isMaster' = isMaster
      BY <2>1, <2>2, <3>1
    <3>2. CASE isMaster' = MastersAfterInsert(i, b)
      <4>1. ~isMaster'[i]
        BY DEF Masters
      <4>2. row[i] = "unborn" /\ m # i
        BY <2>1, <2>3 DEF Create, RepoInv, RepoTypeOK, NoneLeftBehind, Present
      <4> QED
        BY <2>1, <2>2, <3>2, <4>1, <4>2 DEF MastersAfterInsert
    <3> QED
      BY <2>3, <3>1, <3>2 DEF Create, Insert, repoVars
  <2>4. ASSUME NEW i \in Ids, Delete(i)
        PROVE  m \in Masters /\ ~Present(m)'
    BY <2>1, <2>2, <2>4 DEF Delete, Masters, Present, RepoInv, RepoTypeOK, NoneLeftBehind
  <2>5. ASSUME NEW i \in Ids, Promote(i)
        PROVE  FALSE
    BY <2>5 DEF Promote, Masters
  <2>6. CASE isMaster' = isMaster
    BY <2>1, <2>2, <2>6
  <2> QED
    BY <2>3, <2>4, <2>5, <2>6
       DEF RepoNext, Update, NotFound, SetSyncEnabled, BeginSetSyncConfig,
           FinishSetSyncConfig, instanceVars, repoVars
<1> QED
  BY <1>1, RepoInvariant, PTL DEF RepoSpec, MasterLostOnlyByDelete

-----------------------------------------------------------------------------
(* SyncEngine.                                                             *)

\* Goroutines exist for the slaves of the run, from the fan-out on, and all
\* have ended when doSync returns from there.
PhaseInv ==
    /\ outcome = "none" <=> phase # "returned"
    /\ phase # "fanout" => \A c \in Ids : g[c] \in {"none", "ended"}
    /\ phase \notin {"fanout", "returned"} =>
           /\ pushed = {} /\ failed = {} /\ results = {}
           /\ \A c \in Ids : g[c] = "none"
    /\ \A c \in Ids : g[c] # "none" => c \in children
    /\ phase = "fanout" => \A c \in children : g[c] # "none"
    /\ outcome \in {"success", "partial_failure"} => \A c \in children : g[c] = "ended"
    /\ outcome = "success" => failed = {}
    /\ row \in [Ids -> {"unborn", "present", "deleted"}]
    /\ \A c \in children : row[c] # "unborn"

\* What the goroutine of c has pushed: all it has been through, unless failed.
PushInv(c) ==
    /\ \A t \in AllConfigTypes : <<c, t>> \in pushed =>
           g[c] \in {"loop", "record", "ended"} /\ t \notin left[c]
    /\ g[c] \in {"loop", "record"} /\ c \notin failed =>
           \A t \in snaps \ left[c] : <<c, t>> \in pushed
    /\ g[c] = "ended" /\ c \notin failed => \A t \in snaps : <<c, t>> \in pushed

Recorded(c, t) == \E r \in results : r.instance = c /\ r.type = t

\* What it has recorded: the same, but for the type in its hands.
ResultInv(c) ==
    /\ g[c] = "record" =>
           /\ doing[c] \in snaps \X {"success", "error"}
           /\ doing[c][1] \notin left[c]
           /\ doing[c][2] = "success" <=> <<c, doing[c][1]>> \in pushed
    /\ \A r \in results : r.instance = c =>
           /\ g[c] \in {"loop", "record", "ended"}
           /\ r.type \notin left[c]
           /\ r.status = "success" <=> <<c, r.type>> \in pushed
    /\ ~cancelled /\ Present(c) /\ c \notin BadSecrets =>
           /\ g[c] = "loop" => \A t \in snaps \ left[c] : Recorded(c, t)
           /\ g[c] = "record" =>
                  \A t \in snaps \ left[c] : t = doing[c][1] \/ Recorded(c, t)
           /\ g[c] = "ended" => \A t \in snaps : Recorded(c, t)

EngineInv ==
    EngineTypeOK /\ PhaseInv /\ \A c \in Ids : PushInv(c) /\ ResultInv(c)

-----------------------------------------------------------------------------
(* EngineInv is inductive.                                                 *)

\* An instance that has been there and is gone never comes back.
LEMMA NoneComesBack ==
    ASSUME row \in [Ids -> {"unborn", "present", "deleted"}], RepoNext
    PROVE  /\ row' \in [Ids -> {"unborn", "present", "deleted"}]
           /\ \A i \in Ids : row[i] # "unborn" =>
                  row'[i] # "unborn" /\ (row'[i] = "present" => row[i] = "present")
<1>1. ASSUME NEW i \in Ids, NEW a \in Addresses, NEW m \in BOOLEAN, Create(i, a, m)
      PROVE  row' = row \/ (row[i] = "unborn" /\ row' = [row EXCEPT ![i] = "present"])
  BY <1>1 DEF Create, Insert, repoVars
<1>2. ASSUME NEW i \in Ids, Delete(i)
      PROVE  row' = [row EXCEPT ![i] = "deleted"]
  BY <1>2 DEF Delete
<1>3. \/ row' = row
      \/ \E i \in Ids : row[i] = "unborn" /\ row' = [row EXCEPT ![i] = "present"]
      \/ \E i \in Ids : row' = [row EXCEPT ![i] = "deleted"]
  BY <1>1, <1>2 DEF RepoNext, Update, NotFound, Promote, SetSyncEnabled,
     BeginSetSyncConfig, FinishSetSyncConfig, instanceVars, repoVars
<1> QED
  BY <1>3

\* What a request of /instances leaves alone.
LEMMA AdministerFrame ==
    ASSUME EngineInv, Administer
    PROVE  /\ UNCHANGED <<phase, master, children, todo, snaps, g, left, doing, failed, pushed,
                          outcome, cancelled>>
           /\ writes' \in 0 .. MaxWrites
           /\ results' \subseteq results
           /\ \A r \in results : row'[r.instance] = "present" => r \in results'
           /\ row' \in [Ids -> {"unborn", "present", "deleted"}]
           /\ \A i \in Ids : row[i] # "unborn" =>
                  row'[i] # "unborn" /\ (row'[i] = "present" => row[i] = "present")
  BY NoneComesBack, BoundsAssumption
     DEF Administer, EngineInv, PhaseInv, EngineTypeOK, Present, runVars, childVars

\* Every step keeps the types.
LEMMA EngineTypeStep ==
    ASSUME EngineInv, [EngineNext]_allVars
    PROVE  EngineTypeOK'
<1> USE DEF EngineTypeOK
<1>1. CASE ListInstances
  <2>1. CASE UNCHANGED runVars
    BY <1>1, <2>1 DEF ListInstances, EngineInv, Phases, Return, runVars, childVars
  <2>2. CASE ~UNCHANGED runVars
    <3>1. PICK m \in Ids : isMaster[m]
      BY <1>1, <2>2 DEF ListInstances, Masters
    <3>2. master' \in Ids /\ isMaster[master']
      BY <1>1, <2>2, <3>1 DEF ListInstances
    <3>3. children' \subseteq Ids \ {master'}
      BY <1>1, <2>2, <3>2 DEF ListInstances, Listed, Slaves
    <3>4. failed = {} /\ pushed = {} /\ results = {}
      BY <1>1 DEF ListInstances, EngineInv, PhaseInv
    <3> QED
      BY <1>1, <2>2, <3>2, <3>3, <3>4
         DEF ListInstances, EngineInv, Phases, runVars, childVars
  <2> QED
    BY <2>1, <2>2
<1>2. CASE MasterCredentials
  BY <1>2 DEF MasterCredentials, EngineInv, Phases, Return, runVars, childVars
<1>3. CASE LookUpMaster
  BY <1>3 DEF LookUpMaster, EngineInv, Phases, Return, runVars, childVars
<1>4. CASE ReadMasterConfig
  BY <1>4 DEF ReadMasterConfig, EngineInv, Phases, Return, EnabledTypes, childVars
<1>5. CASE TakeSnapshot
  <2>1. snaps \subseteq snaps' /\ snaps' \subseteq AllConfigTypes /\ todo' \subseteq AllConfigTypes
    BY <1>5 DEF TakeSnapshot, EngineInv
  <2>2. left \in [Ids -> SUBSET snaps']
    BY <2>1 DEF EngineInv
  <2>3. doing \in [Ids -> {NoResult} \union (snaps' \X {"success", "error"})]
    BY <2>1 DEF EngineInv
  <2>4. pushed = {} /\ results = {}
    BY <1>5 DEF TakeSnapshot, EngineInv, PhaseInv
  <2> QED
    BY <1>5, <2>1, <2>2, <2>3, <2>4 DEF TakeSnapshot, EngineInv, childVars
<1>6. CASE FanOut
  BY <1>6 DEF FanOut, EngineInv, Phases, Places, Return, runVars
<1>7. ASSUME NEW c \in Ids, Acquire(c)
      PROVE  EngineTypeOK'
  BY <1>7 DEF Acquire, EngineInv, Places, runVars
<1>8. ASSUME NEW c \in Ids, ChildCredentials(c)
      PROVE  EngineTypeOK'
  BY <1>8 DEF ChildCredentials, Unreachable, EngineInv, PhaseInv, Places, runVars
<1>9. ASSUME NEW c \in Ids, Apply(c)
      PROVE  EngineTypeOK'
  <2>1. c \in children
    BY <1>9 DEF Apply, EngineInv, PhaseInv
  <2>2. PICK t \in left[c] :
            /\ left' = [left EXCEPT ![c] = left[c] \ {t}]
            /\ pushed' = pushed \/ pushed' = pushed \union {<<c, t>>}
            /\ \E s \in {"success", "error"} : doing' = [doing EXCEPT ![c] = <<t, s>>]
    BY <1>9 DEF Apply
  <2>3. t \in snaps
    BY <2>2 DEF EngineInv
  <2>4. failed' \subseteq children
    BY <1>9, <2>1 DEF Apply, EngineInv
  <2>5. doing' \in [Ids -> {NoResult} \union (snaps \X {"success", "error"})]
    BY <2>2, <2>3 DEF EngineInv
  <2>6. pushed' \subseteq children \X snaps
    <3>1. pushed \subseteq children \X snaps /\ <<c, t>> \in children \X snaps
      BY <2>1, <2>3 DEF EngineInv
    <3> QED
      BY <2>2, <3>1
  <2>7. left' \in [Ids -> SUBSET snaps]
    <3>1. left \in [Ids -> SUBSET snaps] /\ left[c] \ {t} \in SUBSET snaps
      BY DEF EngineInv
    <3> QED
      BY <2>2, <3>1
  <2>8. g' \in [Ids -> Places]
    BY <1>9 DEF Apply, EngineInv, Places
  <2> QED
    BY <1>9, <2>4, <2>5, <2>6, <2>7, <2>8 DEF Apply, EngineInv, runVars
<1>10. ASSUME NEW c \in Ids, AddResult(c)
       PROVE  EngineTypeOK'
  <2>1. c \in children
    BY <1>10 DEF AddResult, EngineInv, PhaseInv
  <2>2. doing[c] \in snaps \X {"success", "error"}
    BY <1>10 DEF AddResult, EngineInv, ResultInv
  <2>3. ResultRow(c) \in [instance : children, type : snaps, status : {"success", "error"}]
    BY <2>1, <2>2 DEF ResultRow
  <2> QED
    BY <1>10, <2>3 DEF AddResult, EngineInv, Places, runVars
<1>11. ASSUME NEW c \in Ids, EndChild(c)
       PROVE  EngineTypeOK'
  BY <1>11 DEF EndChild, EngineInv, Places, runVars
<1>12. CASE Collect
  BY <1>12 DEF Collect, EngineInv, Phases, Return, runVars, childVars
<1>13. CASE CancelCtx
  BY <1>13 DEF CancelCtx, EngineInv, runVars, childVars
<1>14. CASE Administer
  BY <1>14, AdministerFrame DEF EngineInv
<1>15. CASE Returned \/ UNCHANGED allVars
  BY <1>15 DEF Returned, allVars, engineVars, runVars, childVars, EngineInv
<1> QED
  BY <1>1, <1>2, <1>3, <1>4, <1>5, <1>6, <1>7, <1>8, <1>9, <1>10, <1>11, <1>12,
     <1>13, <1>14, <1>15 DEF EngineNext, DoSyncStep, Child

\* Every step keeps goroutines and phases in line.
LEMMA PhaseStep ==
    ASSUME EngineInv, [EngineNext]_allVars
    PROVE  PhaseInv'
<1> USE DEF PhaseInv, EngineInv
<1>1. CASE ListInstances
  <2>1. children' = children \/ \A c \in children' : row[c] = "present"
    BY <1>1 DEF ListInstances, Listed, Slaves, Present, runVars
  <2> QED
    BY <1>1, <2>1 DEF ListInstances, Return, runVars, childVars, repoVars
<1>2. CASE MasterCredentials
  BY <1>2 DEF MasterCredentials, Return, runVars, childVars, repoVars
<1>3. CASE LookUpMaster
  BY <1>3 DEF LookUpMaster, Return, runVars, childVars, repoVars
<1>4. CASE ReadMasterConfig
  BY <1>4 DEF ReadMasterConfig, Return, childVars, repoVars
<1>5. CASE TakeSnapshot
  BY <1>5 DEF TakeSnapshot, childVars, repoVars
<1>6. CASE FanOut
  <2>1. CASE children = {}
    BY <1>6, <2>1 DEF FanOut, Return, runVars, repoVars
  <2>2. CASE children # {}
    <3>1. /\ phase' = "fanout" /\ outcome' = outcome /\ outcome = "none"
          /\ g' = [c \in Ids |-> IF c \in children THEN "queued" ELSE "none"]
          /\ UNCHANGED <<row, children, pushed, failed, results>>
      BY <1>6, <2>2 DEF FanOut, runVars, repoVars
    <3> QED
      BY <3>1 DEF EngineTypeOK
  <2> QED
    BY <2>1, <2>2
<1>7. ASSUME NEW c \in Ids, Acquire(c)
      PROVE  PhaseInv'
  BY <1>7 DEF Acquire, EngineTypeOK, runVars, repoVars
<1>8. ASSUME NEW c \in Ids, ChildCredentials(c)
      PROVE  PhaseInv'
  BY <1>8 DEF ChildCredentials, Unreachable, EngineTypeOK, runVars, repoVars
<1>9. ASSUME NEW c \in Ids, Apply(c)
      PROVE  PhaseInv'
  BY <1>9 DEF Apply, EngineTypeOK, runVars, repoVars
<1>10. ASSUME NEW c \in Ids, AddResult(c)
       PROVE  PhaseInv'
  BY <1>10 DEF AddResult, EngineTypeOK, runVars, repoVars
<1>11. ASSUME NEW c \in Ids, EndChild(c)
       PROVE  PhaseInv'
  BY <1>11 DEF EndChild, EngineTypeOK, runVars, repoVars
<1>12. CASE Collect
  BY <1>12 DEF Collect, AllEnded, Return, EngineTypeOK, runVars, childVars, repoVars
<1>13. CASE CancelCtx
  BY <1>13 DEF CancelCtx, runVars, childVars, repoVars
<1>14. CASE Administer
  BY <1>14, AdministerFrame DEF EngineTypeOK
<1>15. CASE Returned \/ UNCHANGED allVars
  BY <1>15 DEF Returned, allVars, engineVars, runVars, childVars, repoVars
<1> QED
  BY <1>1, <1>2, <1>3, <1>4, <1>5, <1>6, <1>7, <1>8, <1>9, <1>10, <1>11, <1>12,
     <1>13, <1>14, <1>15 DEF EngineNext, DoSyncStep, Child

\* A step of another goroutine, or of nobody's, leaves PushInv(c) as it is.
LEMMA PushFrame ==
    ASSUME NEW c \in Ids, PushInv(c), snaps' = snaps,
           g'[c] = g[c], left'[c] = left[c], (c \in failed) <=> (c \in failed'),
           \A t : (<<c, t>> \in pushed) <=> (<<c, t>> \in pushed')
    PROVE  PushInv(c)'
  BY DEF PushInv

\* Every step keeps what has been pushed in line with the way of each goroutine.
LEMMA PushStep ==
    ASSUME EngineInv, [EngineNext]_allVars, NEW c \in Ids
    PROVE  PushInv(c)'
<1> USE DEF EngineInv
<1>1. CASE phase \notin {"fanout", "returned"} /\ DoSyncStep
  <2>1. pushed' = {} /\ g'[c] \in {"none", "queued"}
    BY <1>1 DEF DoSyncStep, ListInstances, MasterCredentials, LookUpMaster,
       ReadMasterConfig,
       TakeSnapshot, FanOut, Collect, childVars, PhaseInv
  <2> QED
    BY <2>1 DEF PushInv
<1>2. CASE UNCHANGED <<snaps, g, left, failed, pushed>>
  BY <1>2 DEF PushInv
<1>3. CASE Collect
  BY <1>3, <1>2 DEF Collect, runVars, childVars
<1>4. ASSUME NEW d \in Ids, Child(d), d # c
      PROVE  PushInv(c)'
  <2>1. /\ snaps' = snaps /\ g'[c] = g[c] /\ left'[c] = left[c]
        /\ (c \in failed) <=> (c \in failed')
        /\ \A t : (<<c, t>> \in pushed) <=> (<<c, t>> \in pushed')
    BY <1>4 DEF Child, Acquire, ChildCredentials, Unreachable, Apply, AddResult, EndChild,
       runVars, EngineTypeOK
  <2> QED
    BY <2>1, PushFrame
<1>5. CASE Acquire(c)
  BY <1>5 DEF Acquire, PushInv, EngineTypeOK, runVars
<1>6. CASE ChildCredentials(c)
  BY <1>6 DEF ChildCredentials, Unreachable, PushInv, EngineTypeOK, runVars
<1>7. CASE Apply(c)
  <2>1. PICK t \in left[c] :
            /\ left' = [left EXCEPT ![c] = left[c] \ {t}]
            /\ \/ pushed' = pushed \union {<<c, t>>} /\ failed' = failed
               \/ pushed' = pushed /\ failed' = failed \union {c}
    BY <1>7 DEF Apply
  <2>2. left'[c] = left[c] \ {t} /\ g[c] = "loop" /\ g'[c] = "record" /\ snaps' = snaps
    BY <1>7, <2>1 DEF Apply, EngineTypeOK, runVars
  <2> QED
    BY <2>1, <2>2 DEF PushInv
<1>8. CASE AddResult(c)
  BY <1>8 DEF AddResult, PushInv, EngineTypeOK, runVars
<1>9. CASE EndChild(c)
  BY <1>9 DEF EndChild, PushInv, EngineTypeOK, runVars
<1>10. CASE CancelCtx \/ Returned \/ UNCHANGED allVars
  BY <1>10, <1>2 DEF CancelCtx, Returned, allVars, engineVars, runVars, childVars
<1>11. CASE Administer
  BY <1>11, <1>2, AdministerFrame
<1>12. CASE DoSyncStep
  BY <1>12, <1>1, <1>3 DEF DoSyncStep, ListInstances, MasterCredentials, LookUpMaster,
     ReadMasterConfig, TakeSnapshot, FanOut
<1> QED
  BY <1>4, <1>5, <1>6, <1>7, <1>8, <1>9, <1>10, <1>11, <1>12 DEF EngineNext, Child

\* Every step keeps the results in line with what has been pushed.
LEMMA ResultStep ==
    ASSUME EngineInv, [EngineNext]_allVars, NEW c \in Ids
    PROVE  ResultInv(c)'
<1> USE DEF EngineInv
<1>1. CASE phase \notin {"fanout", "returned"} /\ DoSyncStep
  <2>1. results' = {} /\ g'[c] \in {"none", "queued"}
    BY <1>1 DEF DoSyncStep, ListInstances, MasterCredentials, LookUpMaster,
       ReadMasterConfig,
       TakeSnapshot, FanOut, Collect, childVars, PhaseInv
  <2> QED
    BY <2>1 DEF ResultInv
<1>2. CASE UNCHANGED <<row, cancelled, snaps, g, left, doing, pushed, results>>
  BY <1>2 DEF ResultInv, Recorded, Present
<1>3. CASE Collect
  BY <1>3, <1>2 DEF Collect, runVars, childVars, repoVars
<1>4. ASSUME NEW d \in Ids, Child(d), d # c
      PROVE  ResultInv(c)'
  <2>1. /\ row' = row /\ cancelled' = cancelled /\ snaps' = snaps /\ g'[c] = g[c]
        /\ left'[c] = left[c] /\ doing'[c] = doing[c]
        /\ \A t : (<<c, t>> \in pushed) <=> (<<c, t>> \in pushed')
    BY <1>4 DEF Child, Acquire, ChildCredentials, Apply, AddResult, EndChild,
       runVars, repoVars, EngineTypeOK
  <2>2. \A r : r.instance = c => (r \in results <=> r \in results')
    BY <1>4 DEF Child, Acquire, ChildCredentials, Apply, AddResult, EndChild, ResultRow
  <2> QED
    BY <2>1, <2>2 DEF ResultInv, Recorded, Present
<1>5. CASE Acquire(c)
  BY <1>5 DEF Acquire, ResultInv, EngineTypeOK, runVars, repoVars, Present
<1>6. CASE ChildCredentials(c)
  BY <1>6 DEF ChildCredentials, CredentialsOf, ResultInv, EngineTypeOK, runVars, repoVars,
     Present
<1>7. CASE Apply(c)
  <2>1. PICK t \in left[c] :
            /\ left' = [left EXCEPT ![c] = left[c] \ {t}]
            /\ \/ /\ pushed' = pushed \union {<<c, t>>}
                  /\ doing' = [doing EXCEPT ![c] = <<t, "success">>]
               \/ /\ pushed' = pushed
                  /\ doing' = [doing EXCEPT ![c] = <<t, "error">>]
    BY <1>7 DEF Apply
  <2>2. /\ left'[c] = left[c] \ {t} /\ g[c] = "loop" /\ g'[c] = "record" /\ snaps' = snaps
        /\ results' = results /\ row' = row /\ cancelled' = cancelled
        /\ t \in snaps /\ t \in AllConfigTypes
    BY <1>7, <2>1 DEF Apply, EngineTypeOK, runVars, repoVars
  <2>3. <<c, t>> \notin pushed
    BY <2>2 DEF PushInv
  <2>4. \/ doing'[c] = <<t, "success">> /\ pushed' = pushed \union {<<c, t>>}
        \/ doing'[c] = <<t, "error">> /\ pushed' = pushed
    BY <2>1 DEF EngineTypeOK
  <2>5. /\ doing'[c] \in snaps \X {"success", "error"}
        /\ doing'[c][1] = t
        /\ doing'[c][2] = "success" <=> <<c, t>> \in pushed'
    BY <2>2, <2>3, <2>4
  <2>6. \A r \in results : r.instance = c =>
            /\ r.type \notin left'[c] /\ r.type # t
            /\ r.status = "success" <=> <<c, r.type>> \in pushed'
    <3> SUFFICES ASSUME NEW r \in results, r.instance = c
                 PROVE  /\ r.type \notin left'[c] /\ r.type # t
                        /\ r.status = "success" <=> <<c, r.type>> \in pushed'
      OBVIOUS
    <3>1. /\ r.type \notin left[c]
          /\ r.status = "success" <=> <<c, r.type>> \in pushed
      BY DEF ResultInv
    <3>2. r.type # t
      BY <3>1
    <3>3. <<c, r.type>> \in pushed' <=> <<c, r.type>> \in pushed
      BY <2>4, <3>2
    <3> QED
      BY <2>2, <3>1, <3>2, <3>3
  <2> QED
    <3>1. /\ g'[c] = "record" =>
                 /\ doing'[c] \in snaps' \X {"success", "error"}
                 /\ doing'[c][1] \notin left'[c]
                 /\ doing'[c][2] = "success" <=> <<c, doing'[c][1]>> \in pushed'
      BY <2>2, <2>5
    <3>2. ~cancelled /\ Present(c) /\ c \notin BadSecrets =>
              \A u \in snaps \ left[c] : Recorded(c, u)
      BY <2>2 DEF ResultInv
    <3>3. ~cancelled' /\ Present(c)' /\ c \notin BadSecrets =>
              \A u \in snaps' \ left'[c] : u = doing'[c][1] \/ Recorded(c, u)'
      BY <2>2, <2>5, <3>2 DEF Recorded, Present
    <3> QED
      BY <2>2, <2>6, <3>1, <3>3 DEF ResultInv
<1>8. CASE AddResult(c)
  <2>1. /\ g[c] = "record" /\ g'[c] = "loop" /\ left' = left /\ snaps' = snaps
        /\ pushed' = pushed /\ row' = row /\ cancelled' = cancelled
    BY <1>8 DEF AddResult, EngineTypeOK, runVars, repoVars
  <2>2. /\ doing[c][1] \notin left[c]
        /\ doing[c][2] = "success" <=> <<c, doing[c][1]>> \in pushed
    BY <2>1 DEF ResultInv
  <2>3. results' = results \/ results' = results \union {ResultRow(c)}
    BY <1>8 DEF AddResult
  <2>4. ~cancelled /\ Present(c) => results' = results \union {ResultRow(c)}
    BY <1>8 DEF AddResult
  <2>5. ResultRow(c).instance = c /\ ResultRow(c).type = doing[c][1]
        /\ ResultRow(c).status = doing[c][2]
    BY DEF ResultRow
  <2> QED
    BY <2>1, <2>2, <2>3, <2>4, <2>5 DEF ResultInv, Recorded, Present
<1>9. CASE EndChild(c)
  <2>1. /\ g[c] = "loop" /\ g'[c] = "ended" /\ left[c] = {} /\ left' = left
        /\ UNCHANGED <<snaps, pushed, results, row, cancelled>>
    BY <1>9 DEF EndChild, EngineTypeOK, runVars, repoVars
  <2>2. ~cancelled /\ Present(c) /\ c \notin BadSecrets => \A t \in snaps : Recorded(c, t)
    BY <2>1 DEF ResultInv
  <2>3. ~cancelled' /\ Present(c)' /\ c \notin BadSecrets => \A t \in snaps' : Recorded(c, t)'
    BY <2>1, <2>2 DEF Recorded, Present
  <2> QED
    BY <2>1, <2>3 DEF ResultInv
<1>10. CASE CancelCtx
  BY <1>10 DEF CancelCtx, ResultInv, runVars, childVars, repoVars
<1>11. CASE Returned \/ UNCHANGED allVars
  BY <1>11, <1>2 DEF Returned, allVars, engineVars, runVars, childVars, repoVars
<1>12. CASE Administer
  <2>1. Present(c)' /\ g[c] # "none" => Present(c)
    BY <1>12, AdministerFrame DEF PhaseInv, Present
  <2>2. Present(c)' => \A t : Recorded(c, t) => Recorded(c, t)'
    BY <1>12, AdministerFrame DEF Recorded, Present
  <2> QED
    BY <1>12, <2>1, <2>2, AdministerFrame DEF ResultInv
<1>13. CASE DoSyncStep
  BY <1>13, <1>1, <1>3 DEF DoSyncStep, ListInstances, MasterCredentials, LookUpMaster,
     ReadMasterConfig, TakeSnapshot, FanOut
<1> QED
  BY <1>4, <1>5, <1>6, <1>7, <1>8, <1>9, <1>10, <1>11, <1>12, <1>13 DEF EngineNext, Child

\* EngineInv is an invariant.
THEOREM EngineInductive == EngineSpec => []EngineInv
<1>1. EngineInit => EngineInv
  <2> SUFFICES ASSUME EngineInit
               PROVE  EngineInv
    OBVIOUS
  <2>1. EngineTypeOK
    <3>1. /\ g \in [Ids -> Places] /\ left \in [Ids -> SUBSET snaps]
          /\ doing \in [Ids -> {NoResult} \union (snaps \X {"success", "error"})]
      BY DEF EngineInit, Places
    <3>2. /\ phase \in Phases /\ master \in Ids \union {NoInstance}
          /\ writes \in 0 .. MaxWrites
      BY BoundsAssumption DEF EngineInit, Phases
    <3> QED
      BY <3>1, <3>2 DEF EngineInit, EngineTypeOK
  <2>2. PhaseInv
    BY DEF EngineInit, PhaseInv
  <2>3. \A c \in Ids : PushInv(c) /\ ResultInv(c)
    BY DEF EngineInit, PushInv, ResultInv
  <2> QED
    BY <2>1, <2>2, <2>3 DEF EngineInv
<1>2. EngineInv /\ [EngineNext]_allVars => EngineInv'
  BY EngineTypeStep, PhaseStep, PushStep, ResultStep DEF EngineInv
<1> QED
  BY <1>1, <1>2, PTL DEF EngineSpec

-----------------------------------------------------------------------------
(* What follows from EngineInv.                                            *)

\* Every variable of a run keeps its type.
THEOREM EngineTypes == EngineSpec => []EngineTypeOK
  BY EngineInductive, PTL DEF EngineInv

\* A run that reports success has pushed every type it could read from the
\* master to every slave on its list.
THEOREM SuccessIsTrue == EngineSpec => []SuccessMeansPushed
<1>1. EngineInv => SuccessMeansPushed
  <2> SUFFICES ASSUME EngineInv, outcome = "success", NEW c \in children, NEW t \in snaps
               PROVE  <<c, t>> \in pushed
    BY DEF SuccessMeansPushed
  <2>1. c \in Ids /\ g[c] = "ended" /\ c \notin failed
    BY DEF EngineInv, EngineTypeOK, PhaseInv
  <2> QED
    BY <2>1 DEF EngineInv, PushInv
<1> QED
  BY <1>1, EngineInductive, PTL

\* The result rows tell what Apply did, and are complete but for the cases
\* the property names.
THEOREM ResultsAreTrue == EngineSpec => []ResultsTellWhatHappened
<1>1. EngineInv => ResultsTellWhatHappened
  <2> SUFFICES ASSUME EngineInv
               PROVE  ResultsTellWhatHappened
    OBVIOUS
  <2>1. \A r \in results : r.status = "success" <=> <<r.instance, r.type>> \in pushed
    BY DEF EngineInv, EngineTypeOK, ResultInv
  <2>2. ASSUME outcome \in {"success", "partial_failure"}, ~cancelled,
               NEW c \in children \ BadSecrets, NEW t \in snaps, Present(c)
        PROVE  \E r \in results : r.instance = c /\ r.type = t
    <3>1. c \in Ids /\ g[c] = "ended"
      BY <2>2 DEF EngineInv, EngineTypeOK, PhaseInv
    <3> QED
      <4>1. ~cancelled /\ Present(c) /\ c \notin BadSecrets =>
                \A u \in snaps : Recorded(c, u)
        BY <3>1 DEF EngineInv, ResultInv
      <4> QED
        BY <2>2, <4>1 DEF Recorded
  <2> QED
    BY <2>1, <2>2 DEF ResultsTellWhatHappened
<1> QED
  BY <1>1, EngineInductive, PTL

\* When doSync has returned, all goroutines of the run have ended.
THEOREM NoneWorksOn == EngineSpec => []NoneWorksAfterReturn
<1>1. EngineInv => NoneWorksAfterReturn
  BY DEF EngineInv, PhaseInv, NoneWorksAfterReturn
<1> QED
  BY <1>1, EngineInductive, PTL

-----------------------------------------------------------------------------
(* The run among its neighbours.                                           *)

\* What the requests of /instances make of the fleet while a run is under way is
\* what they make of it at any other time: one master at most, and a configured one.
THEOREM FleetDuringRun == EngineSpec => []RepoInv
<1>1. EngineInit => RepoInv
  <2> SUFFICES ASSUME EngineInit PROVE RepoInv
    OBVIOUS
  <2>1. PICK m \in Ids, c \in Configs :
            /\ \A t \in ConfigTypes : c[t] = "none" <=> t \notin AllConfigTypes
            /\ \/ /\ Present(m)
                  /\ isMaster = [i \in Ids |-> i = m]
                  /\ cfg = [i \in Ids |-> IF i = m THEN c ELSE NoConfig]
               \/ /\ isMaster = [i \in Ids |-> FALSE]
                  /\ cfg = [i \in Ids |-> NoConfig]
    BY DEF EngineInit
  <2>2. address \in [Ids -> Addresses \union {NoAddress}]
    <3> DEFINE own == CHOOSE a \in OwnAddresses : TRUE
    <3>1. own \in [Ids -> Addresses]
      BY AddressesAssumption DEF OwnAddresses
    <3>2. address = [i \in Ids |-> IF Present(i) THEN own[i] ELSE NoAddress]
      BY DEF EngineInit
    <3> HIDE DEF own
    <3> QED
      BY <3>1, <3>2
  <2>3. RepoTypeOK
    <3>1. NoneLeftBehind
      BY <2>1 DEF NoneLeftBehind
    <3>2. row \in [Ids -> {"unborn", "present", "deleted"}]
      BY DEF EngineInit
    <3>3. isMaster \in [Ids -> BOOLEAN] /\ cfg \in [Ids -> Configs]
      BY <2>1, ConfigTypesOfOperators
    <3>4. syncEnabled \in [Ids -> BOOLEAN] /\ edits = {} /\ dhcpAsked = TRUE
      BY DEF EngineInit
    <3> QED
      BY <2>2, <3>1, <3>2, <3>3, <3>4 DEF RepoTypeOK
  <2>4. AtMostOneMaster
    BY <2>1 DEF AtMostOneMaster
  <2>5. MasterIsConfigured
    BY <2>1, TypesAssumption DEF MasterIsConfigured
  <2>6. DhcpOnlyOnRequest
    BY DEF EngineInit, DhcpOnlyOnRequest
  <2> QED
    BY <2>3, <2>4, <2>5, <2>6 DEF RepoInv
<1>2. ASSUME [EngineNext]_allVars PROVE [RepoNext]_repoVars
  BY <1>2 DEF EngineNext, DoSyncStep, Child, ListInstances, MasterCredentials, LookUpMaster,
     ReadMasterConfig, TakeSnapshot, FanOut, Acquire, ChildCredentials, Apply, AddResult,
     EndChild, Collect, CancelCtx, Administer, Returned, allVars
<1>3. RepoInv /\ [EngineNext]_allVars => RepoInv'
  BY <1>2, RepoStep
<1> QED
  BY <1>1, <1>3, PTL DEF EngineSpec

\* What the dispatcher can see of a step.
LEMMA EngineMoves ==
    ASSUME EngineInv, [EngineNext]_allVars
    PROVE  \/ /\ UNCHANGED <<repoVars, cancelled, outcome>>
              /\ phase' = "returned" <=> phase = "returned"
           \/ /\ UNCHANGED <<repoVars, cancelled>>
              /\ phase # "returned" /\ phase' = "returned"
              /\ outcome' \in {"success", "partial_failure", "error"}
           \/ ~cancelled /\ cancelled' /\ UNCHANGED <<repoVars, phase, outcome>>
           \/ UNCHANGED <<phase, cancelled, outcome>>
<1>1. CASE \/ ListInstances \/ MasterCredentials \/ LookUpMaster \/ ReadMasterConfig
           \/ FanOut \/ Collect
  BY <1>1 DEF ListInstances, MasterCredentials, LookUpMaster, ReadMasterConfig, FanOut,
     Collect, Return, runVars
<1>2. CASE TakeSnapshot \/ CancelCtx \/ Administer \/ Returned \/ UNCHANGED allVars
  BY <1>2 DEF TakeSnapshot, CancelCtx, Administer, Returned, allVars, engineVars
<1>3. ASSUME NEW c \in Ids, Child(c) PROVE UNCHANGED <<repoVars, phase, cancelled, outcome>>
  BY <1>3 DEF Child, Acquire, ChildCredentials, Apply, AddResult, EndChild
<1> QED
  BY <1>1, <1>2, <1>3 DEF EngineNext, DoSyncStep

\* Beside the requests of /instances, a run is the one step that the dispatcher
\* takes it for: it returns once, with a status that FinishRun can store.
THEOREM RunRefinesDoSync == EngineSpec => RunIsDoSync
<1>1. ASSUME EngineInv, [EngineNext]_allVars
      PROVE  [Dispatcher!Next]_(Dispatcher!vars)
  <2> USE DEF Dispatcher!vars, Dispatcher!submitVars, Dispatcher!loopVars, Dispatcher!storeVars
  <2>1. repoVars' = repoVars => Listed' = Listed
    BY DEF repoVars, Listed, Slaves, Present
  <2>2. CASE /\ UNCHANGED <<repoVars, cancelled, outcome>>
             /\ phase' = "returned" <=> phase = "returned"
    BY <2>1, <2>2
  <2>3. CASE /\ UNCHANGED <<repoVars, cancelled>>
             /\ phase # "returned" /\ phase' = "returned"
             /\ outcome' \in {"success", "partial_failure", "error"}
    <3>1. Dispatcher!DoSync
      BY <2>1, <2>3 DEF Dispatcher!DoSync, Dispatcher!Alive, Dispatcher!FinalStates
    <3> QED
      BY <3>1 DEF Dispatcher!Next
  <2>4. CASE ~cancelled /\ cancelled' /\ UNCHANGED <<repoVars, phase, outcome>>
    <3>1. Dispatcher!Cancel
      BY <2>1, <2>4 DEF Dispatcher!Cancel
    <3> QED
      BY <3>1 DEF Dispatcher!Next
  <2>5. CASE UNCHANGED <<phase, cancelled, outcome>>
    <3>1. CASE (Listed' # {}) = (Listed # {})
      BY <2>5, <3>1
    <3>2. CASE (Listed' # {}) # (Listed # {})
      <4>1. Dispatcher!FleetChanges
        BY <2>5, <3>2 DEF Dispatcher!FleetChanges, Dispatcher!Alive
      <4> QED
        BY <4>1 DEF Dispatcher!Next
    <3> QED
      BY <3>1, <3>2
  <2> QED
    BY <1>1, <2>2, <2>3, <2>4, <2>5, EngineMoves
<1> QED
  BY <1>1, EngineInductive, PTL DEF EngineSpec, RunIsDoSync

-----------------------------------------------------------------------------
(* A run comes to its end.                                                 *)

ToRecord(c, t) == ToApply(c, t) \/ (InHand(c, {"record"}) /\ doing[c][1] = t)
Unread(t) == Rank[phase] < 4 \/ (Rank[phase] = 4 /\ t \in todo)

\* No more to do: nothing to do after the step that was not before it.
LEMMA NoMoreWork ==
    ASSUME EngineTypeOK, EngineTypeOK', Rank[phase] <= Rank[phase'],
           \A t \in AllConfigTypes : Unread(t)' => Unread(t),
           \A c \in Ids : /\ InHand(c, {"none", "queued"})' => InHand(c, {"none", "queued"})
                          /\ InHand(c, {"none", "queued", "creds"})'
                                 => InHand(c, {"none", "queued", "creds"})
                          /\ InHand(c, Places \ {"ended"})' => InHand(c, Places \ {"ended"}),
           \A c \in Ids, t \in AllConfigTypes : /\ ToApply(c, t)' => ToApply(c, t)
                                                /\ ToRecord(c, t)' => ToRecord(c, t)
    PROVE  \A k \in DOMAIN WorkLeft : WorkLeft'[k] \subseteq WorkLeft[k]
<1>1. Rank[phase] \in 0 .. 6 /\ Rank'[phase'] = Rank[phase'] /\ Rank[phase'] \in 0 .. 6
  BY DEF EngineTypeOK, Phases, Rank
<1>2. WorkLeft'.phases \subseteq WorkLeft.phases
  BY <1>1 DEF WorkLeft
<1>3. WorkLeft'.snapshots \subseteq WorkLeft.snapshots
  BY <1>1 DEF WorkLeft, Unread
<1>4. /\ WorkLeft'.slots \subseteq WorkLeft.slots
      /\ WorkLeft'.passwords \subseteq WorkLeft.passwords
      /\ WorkLeft'.ends \subseteq WorkLeft.ends
  BY DEF WorkLeft
<1>5. WorkLeft'.applies \subseteq WorkLeft.applies /\ WorkLeft'.records \subseteq WorkLeft.records
  BY DEF WorkLeft, ToRecord
<1>6. DOMAIN WorkLeft = {"phases", "snapshots", "slots", "passwords", "ends", "applies",
                         "records"}
  BY DEF WorkLeft
<1> QED
  BY <1>2, <1>3, <1>4, <1>5, <1>6

LEMMA SameWork ==
    ASSUME UNCHANGED <<phase, todo, g, left, doing>>
    PROVE  WorkLeft' = WorkLeft
  BY DEF WorkLeft, Rank, InHand, ToApply

\* doSync moves on to a later phase, or reads one more type.
LEMMA PhaseIsProgress ==
    ASSUME EngineInv, EngineTypeOK', UNCHANGED <<left, doing>>,
           g' = g \/ (FanOut /\ phase' = "fanout"),
           \/ Rank[phase] < Rank[phase']
           \/ phase = "snapshot" /\ phase' = "snapshot" /\ todo' \subseteq todo /\ todo' # todo,
           Rank[phase'] = 4 => todo' \subseteq AllConfigTypes /\ Rank[phase] <= 4
    PROVE  /\ \A k \in DOMAIN WorkLeft : WorkLeft'[k] \subseteq WorkLeft[k]
           /\ WorkLeft' # WorkLeft
<1>1. Rank[phase] \in 0 .. 6 /\ Rank'[phase'] = Rank[phase'] /\ Rank[phase'] \in 0 .. 6
  BY DEF EngineInv, EngineTypeOK, Phases, Rank
<1>2. phase # "returned" /\ (Rank[phase] = 4 <=> phase = "snapshot")
      /\ (Rank[phase'] = 4 <=> phase' = "snapshot")
  BY DEF EngineInv, EngineTypeOK, Phases, Rank
<1>3. \A c \in Ids : g'[c] = g[c] \/ (g[c] = "none" /\ g'[c] \in {"none", "queued"})
  BY DEF FanOut, EngineInv, PhaseInv, EngineTypeOK
<1>4. \A t \in AllConfigTypes : Unread(t)' => Unread(t)
  BY <1>1, <1>2 DEF Unread
<1>5. \A c \in Ids : /\ InHand(c, {"none", "queued"})' => InHand(c, {"none", "queued"})
                     /\ InHand(c, {"none", "queued", "creds"})'
                            => InHand(c, {"none", "queued", "creds"})
                     /\ InHand(c, Places \ {"ended"})' => InHand(c, Places \ {"ended"})
  BY <1>2, <1>3 DEF InHand, Places
<1>6. \A c \in Ids, t \in AllConfigTypes : ToApply(c, t)' => ToApply(c, t)
  BY <1>2, <1>3, <1>5 DEF InHand, ToApply, Places
<1>7. \A c \in Ids, t \in AllConfigTypes : ToRecord(c, t)' => ToRecord(c, t)
  BY <1>2, <1>3, <1>6 DEF InHand, ToRecord
<1>8. Rank[phase] <= Rank[phase']
  BY <1>1
<1>9. \A k \in DOMAIN WorkLeft : WorkLeft'[k] \subseteq WorkLeft[k]
  BY <1>4, <1>5, <1>6, <1>7, <1>8, NoMoreWork DEF EngineInv
<1>10. CASE Rank[phase] < Rank[phase']
  <2>1. Rank[phase] \in WorkLeft.phases /\ Rank[phase] \notin WorkLeft'.phases
    BY <1>1, <1>2, <1>10 DEF WorkLeft
  <2> QED
    BY <1>9, <2>1
<1>11. CASE phase = "snapshot" /\ phase' = "snapshot" /\ todo' \subseteq todo /\ todo' # todo
  <2>1. PICK t \in todo : t \notin todo'
    BY <1>11
  <2>2. t \in AllConfigTypes
    BY <2>1 DEF EngineInv, EngineTypeOK
  <2>3. t \in WorkLeft.snapshots /\ t \notin WorkLeft'.snapshots
    BY <1>1, <1>2, <1>11, <2>1, <2>2 DEF WorkLeft
  <2> QED
    BY <1>9, <2>3
<1> QED
  BY <1>9, <1>10, <1>11

\* The goroutine of a slave has one thing less before it.
LEMMA ChildIsProgress ==
    ASSUME EngineInv, EngineTypeOK', NEW c \in Ids, Child(c)
    PROVE  /\ \A k \in DOMAIN WorkLeft : WorkLeft'[k] \subseteq WorkLeft[k]
           /\ WorkLeft' # WorkLeft
<1>1. g[c] \in {"queued", "creds", "loop", "record"}
  BY DEF Child, Acquire, ChildCredentials, Apply, AddResult, EndChild
<1>2. phase = "fanout" /\ phase' = phase /\ todo' = todo
  BY <1>1 DEF EngineInv, PhaseInv, Child, Acquire, ChildCredentials, Apply, AddResult,
     EndChild, runVars
<1>3. \A d \in Ids : d # c => g'[d] = g[d] /\ left'[d] = left[d] /\ doing'[d] = doing[d]
  BY DEF EngineInv, EngineTypeOK, Child, Acquire, ChildCredentials, Apply, AddResult, EndChild
<1>4. \/ g[c] = "queued" /\ g'[c] = "creds" /\ left' = left /\ doing' = doing
      \/ g[c] = "creds" /\ g'[c] \in {"loop", "ended"} /\ doing' = doing
      \/ /\ g[c] = "loop" /\ g'[c] = "record"
         /\ \E t \in left[c] : left'[c] = left[c] \ {t} /\ doing'[c][1] = t
      \/ g[c] = "record" /\ g'[c] = "loop" /\ left' = left
      \/ g[c] = "loop" /\ g'[c] = "ended" /\ left' = left /\ doing' = doing
  BY DEF EngineInv, EngineTypeOK, Child, Acquire, ChildCredentials, Apply, AddResult, EndChild
<1>5. \A t \in left[c] : t \in AllConfigTypes
  BY DEF EngineInv, EngineTypeOK
<1>6. g[c] = "record" => doing[c][1] \in AllConfigTypes /\ doing[c][1] \notin left[c]
  BY DEF EngineInv, EngineTypeOK, ResultInv
<1>7. \A d \in Ids : d # c =>
          /\ \A places : InHand(d, places)' <=> InHand(d, places)
          /\ \A t : (ToApply(d, t)' <=> ToApply(d, t)) /\ (ToRecord(d, t)' <=> ToRecord(d, t))
  <2>1. \A d \in Ids : \A places : d # c => (InHand(d, places)' <=> InHand(d, places))
    BY <1>2, <1>3 DEF InHand
  <2>2. \A d \in Ids : \A t : d # c => (ToApply(d, t)' <=> ToApply(d, t))
    BY <1>3, <2>1 DEF ToApply, Places
  <2> QED
    BY <1>3, <2>1, <2>2 DEF ToRecord
<1>8. /\ InHand(c, {"none", "queued"})' => InHand(c, {"none", "queued"})
      /\ InHand(c, {"none", "queued", "creds"})' => InHand(c, {"none", "queued", "creds"})
      /\ InHand(c, Places \ {"ended"})' => InHand(c, Places \ {"ended"})
  BY <1>2, <1>4 DEF InHand, Places
<1>9. \A t \in AllConfigTypes : ToApply(c, t)' => ToApply(c, t)
  BY <1>2, <1>4 DEF InHand, ToApply, Places
<1>10. \A t \in AllConfigTypes : ToRecord(c, t)' => ToRecord(c, t)
  BY <1>2, <1>4, <1>9 DEF InHand, ToRecord, ToApply, Places
<1>11. \A k \in DOMAIN WorkLeft : WorkLeft'[k] \subseteq WorkLeft[k]
  <2>1. Rank[phase] <= Rank[phase'] /\ \A t \in AllConfigTypes : Unread(t)' => Unread(t)
    BY <1>2 DEF Unread, Rank
  <2> QED
    BY <1>7, <1>8, <1>9, <1>10, <2>1, NoMoreWork DEF EngineInv
<1>12. CASE g[c] = "queued" /\ g'[c] = "creds"
  <2>1. c \in WorkLeft.slots /\ c \notin WorkLeft'.slots
    BY <1>2, <1>12 DEF WorkLeft, InHand
  <2> QED
    BY <1>11, <2>1
<1>13. CASE g[c] = "creds" /\ g'[c] \in {"loop", "ended"}
  <2>1. c \in WorkLeft.passwords /\ c \notin WorkLeft'.passwords
    BY <1>2, <1>13 DEF WorkLeft, InHand
  <2> QED
    BY <1>11, <2>1
<1>14. CASE /\ g[c] = "loop" /\ g'[c] = "record"
            /\ \E t \in left[c] : left'[c] = left[c] \ {t} /\ doing'[c][1] = t
  <2>1. PICK t \in left[c] : left'[c] = left[c] \ {t}
    BY <1>14
  <2>2. t \in AllConfigTypes /\ ToApply(c, t) /\ ~ToApply(c, t)'
    BY <1>2, <1>5, <1>14, <2>1 DEF ToApply, InHand, Places
  <2>3. <<c, t>> \in WorkLeft.applies /\ <<c, t>> \notin WorkLeft'.applies
    BY <2>2 DEF WorkLeft
  <2> QED
    BY <1>11, <2>3
<1>15. CASE g[c] = "record" /\ g'[c] = "loop" /\ left' = left
  <2>1. PICK t \in AllConfigTypes : doing[c][1] = t
    BY <1>6, <1>15
  <2>2. ~ToApply(c, t)' /\ ~InHand(c, {"record"})'
    BY <1>2, <1>6, <1>15, <2>1 DEF ToApply, InHand, Places
  <2>3. ToRecord(c, t)
    BY <1>2, <1>15, <2>1 DEF ToRecord, InHand
  <2>4. <<c, t>> \in WorkLeft.records
    BY <1>2, <2>1, <2>3 DEF WorkLeft, ToRecord
  <2>5. <<c, t>> \notin WorkLeft'.records
    BY <2>2 DEF WorkLeft
  <2> QED
    BY <1>11, <2>4, <2>5
<1>16. CASE g[c] = "loop" /\ g'[c] = "ended"
  <2>1. c \in WorkLeft.ends /\ c \notin WorkLeft'.ends
    BY <1>2, <1>16 DEF WorkLeft, InHand, Places
  <2> QED
    BY <1>11, <2>1
<1> QED
  BY <1>4, <1>12, <1>13, <1>14, <1>15, <1>16

LEMMA DoSyncIsProgress ==
    ASSUME EngineInv, EngineTypeOK', DoSyncStep
    PROVE  /\ \A k \in DOMAIN WorkLeft : WorkLeft'[k] \subseteq WorkLeft[k]
           /\ WorkLeft' # WorkLeft
<1>1. CASE ListInstances \/ MasterCredentials \/ LookUpMaster \/ ReadMasterConfig \/ Collect
  <2>1. UNCHANGED <<left, doing, g>>
    BY <1>1 DEF ListInstances, MasterCredentials, LookUpMaster, ReadMasterConfig, Collect,
       childVars
  <2>2. Rank[phase] < Rank[phase'] /\ (Rank[phase'] = 4 => Rank[phase] <= 4)
    BY <1>1 DEF ListInstances, MasterCredentials, LookUpMaster, ReadMasterConfig, Collect,
       Return, Rank
  <2> QED
    BY <2>1, <2>2, PhaseIsProgress DEF EngineTypeOK
<1>2. CASE TakeSnapshot
  <2>1. /\ UNCHANGED <<left, doing, g>> /\ phase = "snapshot" /\ phase' = "snapshot"
        /\ todo' \subseteq todo /\ todo' # todo
    BY <1>2 DEF TakeSnapshot, childVars
  <2>2. Rank[phase] <= 4
    BY <2>1 DEF Rank
  <2> QED
    BY <2>1, <2>2, PhaseIsProgress DEF EngineTypeOK
<1>3. CASE FanOut
  <2>1. UNCHANGED <<left, doing>> /\ (g' = g \/ phase' = "fanout")
    BY <1>3 DEF FanOut, Return
  <2>2. Rank[phase] < Rank[phase'] /\ Rank[phase'] # 4
    BY <1>3 DEF FanOut, Return, Rank
  <2> QED
    BY <1>3, <2>1, <2>2, PhaseIsProgress DEF EngineTypeOK
<1> QED
  BY <1>1, <1>2, <1>3 DEF DoSyncStep

\* Among the slaves that have not ended one is at work, or all wait for slots
\* of which none is taken.
LEMMA SlotForOne == EngineInv => SlotsAreFreed
<1> SUFFICES ASSUME EngineInv, phase = "fanout", NEW c \in children, g[c] # "ended",
                    \A d \in children : g[d] \notin {"creds", "loop", "record"}
             PROVE  g[c] = "queued" /\ Room
  BY DEF SlotsAreFreed, AllEnded
<1>1. c \in Ids /\ g[c] = "queued"
  BY DEF EngineInv, EngineTypeOK, PhaseInv, Places
<1>2. Holding = {}
  BY DEF Holding, EngineInv, PhaseInv
<1>3. Cardinality(Holding) = 0
  BY <1>2, FS_EmptySet
<1> QED
  BY <1>1, <1>3, BoundsAssumption DEF Room

\* A run takes a finite number of steps in a finite fleet, and is stuck nowhere:
\* what is left for RunReturns is that each step is taken in the end.
THEOREM RunProgress == EngineSpec => RunMovesOn
<1>1. ASSUME EngineInv, EngineInv', [EngineNext]_allVars
      PROVE  /\ \A k \in DOMAIN WorkLeft : WorkLeft'[k] \subseteq WorkLeft[k]
             /\ (DoSyncStep \/ \E c \in Ids : Child(c)) => WorkLeft' # WorkLeft
  <2>1. CASE DoSyncStep
    BY <1>1, <2>1, DoSyncIsProgress DEF EngineInv
  <2>2. CASE \E c \in Ids : Child(c)
    BY <1>1, <2>2, ChildIsProgress DEF EngineInv
  <2>3. CASE ~DoSyncStep /\ ~(\E c \in Ids : Child(c))
    <3>1. UNCHANGED <<phase, todo, g, left, doing>>
      BY <1>1, <2>3 DEF EngineNext, CancelCtx, Administer, Returned, allVars, engineVars,
         runVars, childVars
    <3> QED
      BY <2>3, <3>1, SameWork
  <2> QED
    BY <2>1, <2>2, <2>3
<1> DEFINE Onward == /\ \A k \in DOMAIN WorkLeft : WorkLeft'[k] \subseteq WorkLeft[k]
                     /\ (DoSyncStep \/ \E c \in Ids : Child(c)) => WorkLeft' # WorkLeft
<1>2. EngineInv /\ EngineInv' /\ [EngineNext]_allVars => [Onward]_allVars
  BY <1>1
<1> HIDE DEF Onward
<1>3. EngineSpec => [][Onward]_allVars
  BY <1>2, EngineInductive, PTL DEF EngineSpec
<1>4. EngineSpec => []SlotsAreFreed
  BY SlotForOne, EngineInductive, PTL
<1> QED
  BY <1>3, <1>4 DEF RunMovesOn, Onward
=============================================================================
