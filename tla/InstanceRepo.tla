---------------------------- MODULE InstanceRepo ----------------------------
(***************************************************************************)
(* The tables instances and sync_config, as internal/instance/             *)
(* repository.go writes them.  One connection serves the database          *)
(* (MaxOpenConns(1)) and every write but SetSyncConfig is one statement or *)
(* one transaction: an action each.  SetSyncConfig looks the instance up   *)
(* before it opens its transaction, so it is two actions, with any other   *)
(* write between them.  A transaction that fails is rolled back and        *)
(* changes nothing.  Left out: backup.Restore, which replaces both tables  *)
(* by those of a file, checking neither the master nor its rows.           *)
(***************************************************************************)
EXTENDS Integers, FiniteSets

CONSTANTS
    Ids,             \* instance ids; uuids are never used twice
    Addresses,       \* the values of the column address, which is UNIQUE
    ConfigTypes,     \* names of config types an API client may send
    AllConfigTypes,  \* the canonical list of model.go
    Dhcp,            \* the one type that is off by default
    MaxEdits         \* bound: SetSyncConfig calls under way at a time

ASSUME TypesAssumption == AllConfigTypes \subseteq ConfigTypes /\ Dhcp \in AllConfigTypes

VARIABLES
    row,          \* row[i]: has the instance been created, deleted
    isMaster,
    syncEnabled,
    address,
    cfg,          \* cfg[i][t]: column enabled of its sync_config row, or "none"
    edits,        \* the SetSyncConfig calls under way: the rows they will write
    dhcpAsked     \* history variable: dhcp was switched on for a master

instanceVars == <<row, isMaster, syncEnabled, address>>
repoVars == <<row, isMaster, syncEnabled, address, cfg, edits, dhcpAsked>>

NoAddress == "no address"
Toggles   == {"on", "off", "none"}
Configs   == [ConfigTypes -> Toggles]
NoConfig  == [t \in ConfigTypes |-> "none"]

\* defaultEnabled, for each of AllConfigTypes.
DefaultConfig ==
    [t \in ConfigTypes |-> IF t \notin AllConfigTypes THEN "none"
                           ELSE IF t = Dhcp THEN "off" ELSE "on"]

Present(i)     == row[i] = "present"
Masters        == {i \in Ids : isMaster[i]}
Slaves         == {i \in Ids : Present(i) /\ ~isMaster[i]}
Free(a, i)     == \A j \in Ids : j # i => address[j] # a

RepoInit ==
    /\ row = [i \in Ids |-> "unborn"]
    /\ isMaster = [i \in Ids |-> FALSE]
    /\ syncEnabled = [i \in Ids |-> FALSE]
    /\ address = [i \in Ids |-> NoAddress]
    /\ cfg = [i \in Ids |-> NoConfig]
    /\ edits = {}
    /\ dhcpAsked = FALSE

-----------------------------------------------------------------------------
\* Fault: the old master is not demoted.
MastersAfterInsert_Kept(i, m) == [isMaster EXCEPT ![i] = m]
\* A new master takes the place of the old one, which keeps its sync_config.
MastersAfterInsert(i, m) == [j \in Ids |-> IF m THEN j = i ELSE isMaster[j] /\ j # i]

Insert(i, a, m) ==
    /\ row' = [row EXCEPT ![i] = "present"]
    /\ isMaster' = MastersAfterInsert(i, m)
    /\ syncEnabled' = [syncEnabled EXCEPT ![i] = TRUE]
    /\ address' = [address EXCEPT ![i] = a]
    /\ cfg' = IF m THEN [cfg EXCEPT ![i] = DefaultConfig] ELSE cfg
    /\ UNCHANGED <<edits, dhcpAsked>>

\* Fault: no transaction, so that ErrDuplicateAddress comes after the demotion.
Create_WithoutTx(i, a, m) ==
    /\ row[i] = "unborn"
    /\ \/ Free(a, i) /\ Insert(i, a, m)
       \/ /\ ~Free(a, i) /\ m
          /\ isMaster' = [j \in Ids |-> FALSE]
          /\ UNCHANGED <<row, syncEnabled, address, cfg, edits, dhcpAsked>>
Create(i, a, m) ==
    /\ row[i] = "unborn"
    /\ IF Free(a, i) THEN Insert(i, a, m) ELSE UNCHANGED repoVars

\* Name, user name, password and TLS flag are not told apart here.
Update(i, a) ==
    /\ Present(i)
    /\ address' = IF Free(a, i) THEN [address EXCEPT ![i] = a] ELSE address
    /\ UNCHANGED <<row, isMaster, syncEnabled, cfg, edits, dhcpAsked>>

\* Fault: foreign keys are not enforced.
CascadeDelete_Off(i) == cfg
CascadeDelete(i) == [cfg EXCEPT ![i] = NoConfig]

Delete(i) ==
    /\ Present(i)
    /\ row' = [row EXCEPT ![i] = "deleted"]
    /\ isMaster' = [isMaster EXCEPT ![i] = FALSE]
    /\ address' = [address EXCEPT ![i] = NoAddress]
    /\ cfg' = CascadeDelete(i)
    /\ UNCHANGED <<syncEnabled, edits, dhcpAsked>>

\* The rows Promote reads before it demotes: those of the master.
MasterRows == IF Masters = {} THEN NoConfig ELSE cfg[CHOOSE j \in Ids : isMaster[j]]

\* Fault: a master without rows is not provided for.
Carried_Unseeded == MasterRows
\* Fault: the new master starts with the defaults.
Carried_Reset == DefaultConfig
Carried == IF MasterRows = NoConfig THEN DefaultConfig ELSE MasterRows

\* Fault: rows the target already has win over the ones carried over.
NewMasterRows_Stale(i) ==
    [t \in ConfigTypes |-> IF cfg[i][t] # "none" THEN cfg[i][t] ELSE Carried[t]]
NewMasterRows(i) == Carried

Promote(i) ==
    /\ Present(i)
    /\ isMaster' = [j \in Ids |-> j = i]
    /\ cfg' = [j \in Ids |-> IF j = i THEN NewMasterRows(i)
                             ELSE IF isMaster[j] THEN NoConfig ELSE cfg[j]]
    /\ UNCHANGED <<row, syncEnabled, address, edits, dhcpAsked>>

SetSyncEnabled(i, enabled) ==
    /\ Present(i)
    /\ syncEnabled' = [syncEnabled EXCEPT ![i] = enabled]
    /\ UNCHANGED <<row, isMaster, address, cfg, edits, dhcpAsked>>

\* SetSyncConfig, first half: the instance is looked up.  Nobody asks whether
\* it is the master.  entries[t] = "none": the request does not name type t.
BeginSetSyncConfig(i, entries) ==
    /\ Present(i) /\ Cardinality(edits) < MaxEdits
    /\ edits' = edits \union {[id |-> i, entries |-> entries]}
    /\ UNCHANGED <<instanceVars, cfg, dhcpAsked>>

Upserted(old, entries) ==
    [t \in ConfigTypes |-> IF entries[t] = "none" THEN old[t] ELSE entries[t]]

\* Second half: an upsert, or a foreign-key error when the instance has gone.
FinishSetSyncConfig(e) ==
    /\ IF Present(e.id)
       THEN /\ cfg' = [cfg EXCEPT ![e.id] = Upserted(@, e.entries)]
            /\ dhcpAsked' = (dhcpAsked \/ (isMaster[e.id] /\ e.entries[Dhcp] = "on"))
       ELSE UNCHANGED <<cfg, dhcpAsked>>
    /\ edits' = edits \ {e}
    /\ UNCHANGED instanceVars

\* Update, Delete, Promote, SetSyncEnabled and SetSyncConfig of an id that is
\* not there: ErrNotFound.
NotFound(i) == ~Present(i) /\ UNCHANGED repoVars

RepoNext ==
    \/ \E i \in Ids, a \in Addresses :
           Update(i, a) \/ \E m \in BOOLEAN : Create(i, a, m)
    \/ \E i \in Ids : \/ NotFound(i)
                      \/ Delete(i)
                      \/ Promote(i)
                      \/ \E b \in BOOLEAN : SetSyncEnabled(i, b)
                      \/ \E e \in Configs : BeginSetSyncConfig(i, e)
    \/ \E e \in edits : FinishSetSyncConfig(e)

RepoSpec == RepoInit /\ [][RepoNext]_repoVars

-----------------------------------------------------------------------------
(* Properties.                                                             *)

\* An instance that is not there has no rows and is no master: what the
\* foreign keys and their cascades are for.
NoneLeftBehind == \A i \in Ids : ~Present(i) => ~isMaster[i] /\ cfg[i] = NoConfig

\* Types.
RepoTypeOK ==
    /\ row \in [Ids -> {"unborn", "present", "deleted"}]
    /\ isMaster \in [Ids -> BOOLEAN]
    /\ syncEnabled \in [Ids -> BOOLEAN]
    /\ address \in [Ids -> Addresses \union {NoAddress}]
    /\ cfg \in [Ids -> Configs]
    /\ edits \subseteq [id : Ids, entries : Configs]
    /\ dhcpAsked \in BOOLEAN
    /\ NoneLeftBehind

\* doSync takes the master it meets last in the list: there had better be one
\* at most, though no constraint of the schema says so.
AtMostOneMaster == \A i, j \in Ids : isMaster[i] /\ isMaster[j] => i = j

\* The master has a row for every canonical type, so that no type is left out
\* of a sync without somebody having switched it off.
MasterIsConfigured ==
    \A i \in Ids : isMaster[i] => \A t \in AllConfigTypes : cfg[i][t] # "none"

\* Whatever requests come in between the two halves of others, there is one
\* master at most, it is configured, and nothing is left of an instance that
\* was deleted meanwhile (Create, Promote, SetSyncConfig, Delete).
OneConfiguredMaster == AtMostOneMaster /\ MasterIsConfigured /\ NoneLeftBehind

\* dhcp is synced only if somebody asked for that on the instance that was the
\* master then: rows written to a slave never come into force.
DhcpOnlyOnRequest == \A i \in Ids : isMaster[i] /\ cfg[i][Dhcp] = "on" => dhcpAsked

\* A request that fails half-way does not cost the fleet its master: it loses
\* it only with the instance itself.
MasterLostOnlyByDelete ==
    [][Masters # {} /\ Masters' = {} => \E i \in Masters : ~Present(i)']_repoVars

\* When one master hands over to another one that was there before, the choice
\* of what is synced goes with the role, whatever rows the target had, and the
\* old master keeps none.
PromoteKeepsSelection ==
    [][\A i, j \in Ids :
          i # j /\ isMaster[i] /\ isMaster'[j] /\ Present(j) =>
              cfg'[j] = cfg[i] /\ cfg'[i] = NoConfig]_repoVars
=============================================================================
