-------------------------- MODULE Transfers_proofs --------------------------
(***************************************************************************)
(* Theorems about what is copied piece by piece: the rewrites of a slave   *)
(* and a backup, for any sets of domains and answers, lists of any length, *)
(* and any number of writes and failures.                                  *)
(***************************************************************************)
EXTENDS Rewrites, Backup, TLAPS

-----------------------------------------------------------------------------
(* Rewrites.                                                               *)

\* How far the requests have brought the slave's list, of which RewritesAreSafe
\* tells what the two loops have in common.
Progress ==
    /\ stage \in {"settings", "list"} => sent = {}
    /\ stage = "list" => slave.settings = snap.settings
    /\ stage = "add" => /\ sent \subseteq ToAdd
                        /\ slave = [list |-> seen \union sent, settings |-> snap.settings]
    /\ stage = "delete" => /\ sent \subseteq ToDelete
                           /\ slave = [list |-> (seen \union snap.list) \ sent,
                                       settings |-> snap.settings]
RewriteInv == RewriteTypeOK /\ (~meddled => Progress) /\ RewritesAreSafe

\* A list between two lists, that has all of the first or all of the second,
\* leaves no domain of both without an answer.
LEMMA NoGap ==
    ASSUME NEW a, NEW b, NEW l, NEW d \in Domains,
           a \subseteq l \/ b \subseteq l, Answered(a, d), Answered(b, d)
    PROVE  Answered(l, d)
  BY DEF Answered

LEMMA RewriteStart == RewriteInit => RewriteTypeOK
<1> SUFFICES ASSUME RewriteInit PROVE RewriteTypeOK
  OBVIOUS
<1>1. snap \in Rewrite
  BY DEF RewriteInit, Rewrite
<1> QED
  BY <1>1 DEF RewriteInit, RewriteTypeOK, Stages, Ends

LEMMA RewriteTypes == RewriteTypeOK /\ [RewriteNext]_rewriteVars => RewriteTypeOK'
<1> SUFFICES ASSUME RewriteTypeOK, [RewriteNext]_rewriteVars PROVE RewriteTypeOK'
  OBVIOUS
<1> USE DEF RewriteTypeOK, Stages, Ends
<1>1. CASE RewriteSnapshot
  BY <1>1 DEF RewriteSnapshot
<1>2. CASE PutSettings
  BY <1>2 DEF PutSettings, Rewrite
<1>3. CASE GetList
  BY <1>3 DEF GetList, Rewrite
<1>4. ASSUME NEW e \in Entries, AddEntry(e) PROVE RewriteTypeOK'
  BY <1>4 DEF AddEntry, Rewrite
<1>5. ASSUME NEW e \in Entries, DeleteEntry(e) PROVE RewriteTypeOK'
  BY <1>5 DEF DeleteEntry, Rewrite
<1>6. CASE AllAdded \/ AllDeleted \/ RequestFails
  BY <1>6 DEF AllAdded, AllDeleted, RequestFails
<1>7. CASE Meddle
  BY <1>7 DEF Meddle
<1>8. CASE UNCHANGED rewriteVars
  BY <1>8 DEF rewriteVars
<1> QED
  BY <1>1, <1>2, <1>3, <1>4, <1>5, <1>6, <1>7, <1>8 DEF RewriteNext

\* An entry that is added, whether its answer comes or not.
LEMMA AddStep ==
    ASSUME RewriteInv, ~meddled, NEW e \in Entries, AddEntry(e)
    PROVE  Progress' /\ RewritesAreSafe'
<1> USE DEF RewriteInv, RewriteTypeOK, AddEntry
<1>1. /\ slave.list = seen \union sent
      /\ slave.settings = snap.settings
  BY DEF Progress
<1>2. /\ slave' = [list |-> seen \union sent \union {e}, settings |-> snap.settings]
      /\ sent \union {e} \subseteq snap.list
  BY <1>1 DEF Progress, Rewrite, ToAdd
<1>3. Progress'
  BY <1>2 DEF Progress, ToAdd
<1>4. RewritesAreSafe'
  <2>1. seen' \subseteq slave'.list /\ slave'.list \subseteq (seen \union snap.list)'
    BY <1>2
  <2>2. stage' # "success"
    OBVIOUS
  <2> QED
    BY <2>1, <2>2, NoGap DEF RewritesAreSafe
<1> QED
  BY <1>3, <1>4

\* An entry that is deleted: by then all of the master's are there.
LEMMA DeleteStep ==
    ASSUME RewriteInv, ~meddled, NEW e \in Entries, DeleteEntry(e)
    PROVE  Progress' /\ RewritesAreSafe'
<1> USE DEF RewriteInv, RewriteTypeOK, DeleteEntry
<1>1. /\ slave.list = (seen \union snap.list) \ sent
      /\ slave.settings = snap.settings
      /\ sent \subseteq ToDelete
  BY DEF Progress
<1>2. /\ slave' = [list |-> (seen \union snap.list) \ (sent \union {e}),
                   settings |-> snap.settings]
      /\ sent \union {e} \subseteq seen \ snap.list
  BY <1>1 DEF Rewrite, ToDelete
<1>3. Progress'
  BY <1>2 DEF Progress, ToDelete
<1>4. RewritesAreSafe'
  <2>1. /\ snap'.list \subseteq slave'.list
        /\ slave'.list \subseteq (seen \union snap.list)'
    BY <1>2
  <2>2. stage' # "success"
    OBVIOUS
  <2> QED
    BY <2>1, <2>2, NoGap DEF RewritesAreSafe
<1> QED
  BY <1>3, <1>4

LEMMA RewriteStep == RewriteInv /\ [RewriteNext]_rewriteVars => RewriteInv'
<1> SUFFICES ASSUME RewriteInv, [RewriteNext]_rewriteVars PROVE RewriteInv'
  OBVIOUS
<1>1. RewriteTypeOK /\ RewriteTypeOK'
  BY RewriteTypes DEF RewriteInv
<1>2. ASSUME ~meddled' PROVE Progress' /\ RewritesAreSafe'
  <2>1. CASE RewriteSnapshot
    BY <2>1 DEF RewriteSnapshot, Progress, RewritesAreSafe
  <2>2. CASE PutSettings
    BY <1>1, <1>2, <2>2
       DEF PutSettings, Progress, RewriteInv, RewritesAreSafe, RewriteTypeOK, Rewrite
  <2>3. CASE GetList
    <3>1. slave = [list |-> slave.list, settings |-> snap.settings] /\ slave.settings = snap.settings
      BY <1>1, <1>2, <2>3 DEF GetList, Progress, RewriteInv, RewriteTypeOK, Rewrite
    <3>2. sent = {}
      BY <1>2, <2>3 DEF GetList, RewriteInv, Progress
    <3> QED
      BY <1>2, <2>3, <3>1, <3>2, NoGap DEF GetList, Progress, RewritesAreSafe
  <2>4. ASSUME NEW e \in Entries, AddEntry(e) \/ DeleteEntry(e)
        PROVE  Progress' /\ RewritesAreSafe'
    BY <1>2, <2>4, AddStep, DeleteStep DEF AddEntry, DeleteEntry
  <2>5. CASE AllAdded
    <3>1. slave = [list |-> seen \union snap.list, settings |-> snap.settings]
      BY <1>1, <1>2, <2>5 DEF AllAdded, Progress, RewriteInv, RewriteTypeOK, ToAdd
    <3> QED
      BY <1>2, <2>5, <3>1 DEF AllAdded, Progress, RewriteInv, RewritesAreSafe
  <2>6. CASE AllDeleted
    <3>1. sent = seen \ snap.list
      BY <1>1, <1>2, <2>6 DEF AllDeleted, Progress, RewriteInv, RewriteTypeOK, ToDelete
    <3>2. slave.list = snap.list /\ slave.settings = snap.settings
      BY <1>2, <2>6, <3>1 DEF AllDeleted, Progress, RewriteInv
    <3>3. slave = snap
      BY <1>1, <3>2 DEF RewriteTypeOK, Rewrite
    <3> QED
      BY <1>2, <2>6, <3>3 DEF AllDeleted, Progress, RewriteInv, RewritesAreSafe
  <2>7. CASE RequestFails
    BY <1>2, <2>7 DEF RequestFails, Ends, Progress, RewriteInv, RewritesAreSafe, RewriteTypeOK, Stages
  <2>8. CASE UNCHANGED rewriteVars
    BY <1>2, <2>8 DEF rewriteVars, Progress, RewriteInv, RewritesAreSafe, ToAdd, ToDelete
  <2>9. ~Meddle
    BY <1>2 DEF Meddle
  <2> QED
    BY <2>1, <2>2, <2>3, <2>4, <2>5, <2>6, <2>7, <2>8, <2>9 DEF RewriteNext
<1>3. meddled' => RewritesAreSafe'
  BY DEF RewritesAreSafe
<1> QED
  BY <1>1, <1>2, <1>3 DEF RewriteInv

\* What the requests have done so far is known at each of them (applyRewrite).
THEOREM RewriteInductive == RewriteSpec => []RewriteInv
<1>1. RewriteInit => RewriteInv
  BY RewriteStart DEF RewriteInit, RewriteInv, Progress, RewritesAreSafe
<1> QED
  BY <1>1, RewriteStep, PTL DEF RewriteSpec

\* Whatever request fails, the slave keeps what both servers have and answers
\* for every domain of both, and a nil of applyRewrite means equal lists.
THEOREM SafeRewrites == RewriteSpec => []RewritesAreSafe
<1>1. RewriteInv => RewritesAreSafe
  BY DEF RewriteInv
<1> QED
  BY <1>1, RewriteInductive, PTL

-----------------------------------------------------------------------------
(* Backup.                                                                 *)

Contents == [AllTables -> [rows : Int, keys : SUBSET Int]]
Files    == [settings : [AllKeys -> Int], tables : Contents]
BackupTypes ==
    /\ settings \in [AllKeys -> Int] /\ tables \in Contents /\ secret \in Int
    /\ exporting \in [at : 0 .. LastRead, file : Files] /\ exported \in Files
    /\ restoring \in [at : 0 .. LastWrite, file : Files]
    /\ torn \in BOOLEAN /\ disturbed \in BOOLEAN /\ stranded \in BOOLEAN

\* The secret that will be stored once the Restore under way, if its tables
\* are committed, is through.
KeyToCome ==
    IF restoring.at > 1 /\ restoring.file.settings["install_secret"] # 0
    THEN restoring.file.settings["install_secret"] ELSE settings["install_secret"]
Readable == stranded \/ \A t \in AllTables : tables[t].keys \subseteq {KeyToCome}

\* What has been read so far is what is stored now.
ReadSoFar ==
    torn \/
        /\ \A i \in 1 .. 4 : i < exporting.at =>
               exporting.file.settings[KeyOrder[i]] = settings[KeyOrder[i]]
        /\ \A i \in 1 .. 3 : i + 4 < exporting.at =>
               exporting.file.tables[TableOrder[i]] = tables[TableOrder[i]]

\* What has been restored so far is what the file says.
Follows(k, v) == settings[k] = v \/ (k \in Optional /\ v = 0)
RestoredSoFar ==
    (disturbed \/ restoring.at < 2) \/
        /\ tables = restoring.file.tables
        /\ \A i \in 1 .. 4 : i + 1 < restoring.at =>
               Follows(KeyOrder[i], restoring.file.settings[KeyOrder[i]])

BackupInv == BackupTypes /\ Readable /\ ReadSoFar /\ RestoredSoFar

\* The orders, spelt out.
LEMMA OrderFacts ==
    /\ KeyOrder[1] = "ui_username" /\ KeyOrder[2] = "ui_password_hash"
    /\ KeyOrder[3] = "ui_theme" /\ KeyOrder[4] = "install_secret"
    /\ TableOrder[1] = "instances" /\ TableOrder[2] = "sync_config"
    /\ TableOrder[3] = "notification_channels"
    /\ Len(KeyOrder) = 4 /\ Len(TableOrder) = 3 /\ LastRead = 7 /\ LastWrite = 5
    /\ AllKeys = {"ui_username", "ui_password_hash", "ui_theme", "install_secret"}
    /\ AllTables = {"instances", "sync_config", "notification_channels"}
<1>1. /\ Len(KeyOrder) = 4 /\ Len(TableOrder) = 3
      /\ DOMAIN KeyOrder = 1 .. 4 /\ DOMAIN TableOrder = 1 .. 3
  BY DEF KeyOrder, TableOrder
<1>2. /\ KeyOrder[1] = "ui_username" /\ KeyOrder[2] = "ui_password_hash"
      /\ KeyOrder[3] = "ui_theme" /\ KeyOrder[4] = "install_secret"
      /\ TableOrder[1] = "instances" /\ TableOrder[2] = "sync_config"
      /\ TableOrder[3] = "notification_channels"
  BY DEF KeyOrder, TableOrder
<1>3. AllKeys = {KeyOrder[1], KeyOrder[2], KeyOrder[3], KeyOrder[4]}
  BY <1>1 DEF AllKeys, ToSet
<1>4. AllTables = {TableOrder[1], TableOrder[2], TableOrder[3]}
  BY <1>1 DEF AllTables, ToSet
<1> QED
  BY <1>1, <1>2, <1>3, <1>4 DEF LastRead, LastWrite

LEMMA FileFacts ==
    /\ \A n, s \in Int : File(n, s) \in Files
    /\ ForeignFile \in Files /\ NoFile \in Files
    /\ Resting.at = 0 /\ Resting.file \in Files
    /\ Resting \in [at : 0 .. LastRead, file : Files]
    /\ Resting \in [at : 0 .. LastWrite, file : Files]
<1>1. ASSUME NEW n \in Int, NEW s \in Int PROVE File(n, s) \in Files
  BY DEF File, Files, Contents
<1>2. ForeignFile \in Files /\ NoFile \in Files
  BY <1>1, BackupAssumption DEF ForeignFile, NoFile, Foreign, There
<1> QED
  BY <1>1, <1>2, OrderFacts DEF Resting

LEMMA BackupStart == BackupInit => BackupInv
<1> SUFFICES ASSUME BackupInit PROVE BackupInv
  OBVIOUS
<1>1. File(1, Here) \in Files
  BY FileFacts DEF Here
<1>2. File(1, Here).settings \in [AllKeys -> Int] /\ File(1, Here).tables \in Contents
  BY <1>1 DEF Files
<1>3. BackupTypes
  <2>1. restoring \in [at : 0 .. LastWrite, file : Files] /\ exported \in Files
        /\ exporting \in [at : 0 .. LastRead, file : Files]
    BY FileFacts DEF BackupInit
  <2>2. settings \in [AllKeys -> Int] /\ tables \in Contents /\ secret \in Int
    BY <1>2 DEF BackupInit, Here
  <2>3. torn \in BOOLEAN /\ disturbed \in BOOLEAN /\ stranded \in BOOLEAN
    BY DEF BackupInit
  <2> QED
    BY <2>1, <2>2, <2>3 DEF BackupTypes
<1>4. Readable
  BY FileFacts, OrderFacts DEF BackupInit, Readable, KeyToCome, File
<1>5. ReadSoFar /\ RestoredSoFar
  BY FileFacts DEF BackupInit, ReadSoFar, RestoredSoFar
<1> QED
  BY <1>3, <1>4, <1>5 DEF BackupInv

\* Beginning an export or a restore.
LEMMA BeginSteps ==
    ASSUME BackupInv, HandleExport \/ HandleRestore
    PROVE  BackupInv'
<1> USE DEF BackupInv, BackupTypes
<1>1. CASE HandleExport
  <2>1. /\ exporting' \in [at : 0 .. LastRead, file : Files] /\ exporting'.at = 1
    BY <1>1, FileFacts, OrderFacts DEF HandleExport
  <2>2. /\ torn' = FALSE
        /\ UNCHANGED <<settings, tables, secret, exported, restoring, disturbed, stranded>>
    BY <1>1 DEF HandleExport
  <2>3. BackupTypes'
    BY <2>1, <2>2
  <2>4. Readable' /\ RestoredSoFar'
    BY <2>2 DEF Readable, KeyToCome, RestoredSoFar, Follows
  <2>5. ReadSoFar'
    BY <2>1 DEF ReadSoFar
  <2> QED
    BY <2>3, <2>4, <2>5
<1>2. CASE HandleRestore
  <2>1. PICK f \in {ForeignFile, exported} : restoring' = [at |-> 1, file |-> f]
    BY <1>2 DEF HandleRestore
  <2>2. restoring' \in [at : 0 .. LastWrite, file : Files] /\ restoring'.at = 1
    BY <2>1, FileFacts, OrderFacts
  <2>3. /\ restoring.at = 0 /\ disturbed' = FALSE
        /\ UNCHANGED <<settings, tables, secret, exporting, exported, torn, stranded>>
    BY <1>2 DEF HandleRestore, Restoring
  <2>4. BackupTypes'
    BY <2>2, <2>3
  <2>5. Readable' /\ RestoredSoFar'
    BY <2>2, <2>3 DEF Readable, KeyToCome, RestoredSoFar
  <2>6. ReadSoFar'
    BY <2>3 DEF ReadSoFar
  <2> QED
    BY <2>4, <2>5, <2>6
<1> QED
  BY <1>1, <1>2

\* One more query of the export.
LEMMA ReadDoneFacts ==
    ASSUME BackupTypes, NEW file \in Files, ReadDone(file), exporting.at # 0
    PROVE  /\ exporting' \in [at : 0 .. LastRead, file : Files] /\ exported' \in Files
           /\ \/ exporting.at = LastRead /\ exporting'.at = 0 /\ exported' = file
              \/ /\ exporting.at # LastRead /\ exporting'.at = exporting.at + 1
                 /\ exporting'.file = file /\ exported' = exported
<1>1. CASE exporting.at = LastRead
  BY <1>1, FileFacts DEF ReadDone, BackupTypes
<1>2. CASE exporting.at # LastRead
  <2>1. exporting.at + 1 \in 0 .. LastRead
    BY <1>2, OrderFacts DEF BackupTypes
  <2> QED
    BY <1>2, <2>1 DEF ReadDone, BackupTypes
<1> QED
  BY <1>1, <1>2

\* What ReadSoFar says of a file of which the first n entries have been read.
HoldsUpTo(file, n) ==
    /\ \A i \in 1 .. 4 : i =< n => file.settings[KeyOrder[i]] = settings[KeyOrder[i]]
    /\ \A i \in 1 .. 3 : i + 4 =< n => file.tables[TableOrder[i]] = tables[TableOrder[i]]

\* What one query of the export adds to the file.
LEMMA ExportFile ==
    ASSUME BackupInv, ExportSetting \/ SettingUnread \/ ExportTable
    PROVE  \E file \in Files :
               /\ ReadDone(file) /\ exporting.at # 0
               /\ UNCHANGED <<settings, tables, secret, restoring, disturbed, stranded>>
               /\ torn' \in {torn, TRUE} /\ (~torn' => HoldsUpTo(file, exporting.at))
<1> USE DEF BackupInv, BackupTypes
<1>1. exporting.file \in Files /\ exporting.at \in 0 .. 7
  BY OrderFacts
<1>2. CASE ExportSetting
  <2> DEFINE k == KeyOrder[exporting.at]
             file == [exporting.file EXCEPT !.settings[k] = Read(k)]
  <2>1. exporting.at \in 1 .. 4 /\ k \in AllKeys
    BY <1>2, OrderFacts DEF ExportSetting
  <2>2. file \in Files /\ file.tables = exporting.file.tables
        /\ file.settings = [exporting.file.settings EXCEPT ![k] = settings[k]]
    BY <1>1, <2>1 DEF Files, Read
  <2>3. ~torn => HoldsUpTo(file, exporting.at)
    <3> SUFFICES ASSUME ~torn PROVE HoldsUpTo(file, exporting.at)
      OBVIOUS
    <3>1. ASSUME NEW i \in 1 .. 4, i =< exporting.at
          PROVE  file.settings[KeyOrder[i]] = settings[KeyOrder[i]]
      <4>1. CASE i = exporting.at
        BY <1>1, <2>1, <2>2, <4>1 DEF Files
      <4>2. CASE i < exporting.at
        BY <1>1, <2>1, <2>2, <4>2, OrderFacts DEF ReadSoFar, Files
      <4> QED
        BY <2>1, <3>1, <4>1, <4>2
    <3> QED
      BY <2>1, <3>1 DEF HoldsUpTo
  <2>4. /\ ReadDone(file)
        /\ UNCHANGED <<settings, tables, secret, restoring, disturbed, stranded, torn>>
    BY <1>2 DEF ExportSetting
  <2> QED
    BY <2>1, <2>2, <2>3, <2>4
<1>3. CASE SettingUnread
  BY <1>1, <1>3, OrderFacts DEF SettingUnread
<1>4. CASE ExportTable
  <2> DEFINE n == exporting.at - Len(KeyOrder)
             t == TableOrder[n]
             file == [exporting.file EXCEPT !.tables[t] = tables[t]]
  <2>1. exporting.at \in 5 .. 7 /\ n = exporting.at - 4 /\ n \in 1 .. 3 /\ t \in AllTables
    BY <1>1, <1>4, OrderFacts DEF ExportTable
  <2>2. file \in Files /\ file.settings = exporting.file.settings
        /\ file.tables = [exporting.file.tables EXCEPT ![t] = tables[t]]
    BY <1>1, <2>1 DEF Files, Contents
  <2>3. ~torn => HoldsUpTo(file, exporting.at)
    <3> SUFFICES ASSUME ~torn PROVE HoldsUpTo(file, exporting.at)
      OBVIOUS
    <3>1. ASSUME NEW i \in 1 .. 3, i + 4 =< exporting.at
          PROVE  file.tables[TableOrder[i]] = tables[TableOrder[i]]
      <4>1. CASE i = n
        BY <1>1, <2>1, <2>2, <4>1 DEF Files, Contents
      <4>2. CASE i < n
        BY <1>1, <2>1, <2>2, <4>2, OrderFacts DEF ReadSoFar, Files, Contents
      <4> QED
        BY <2>1, <3>1, <4>1, <4>2
    <3> QED
      BY <2>1, <2>2, <3>1 DEF HoldsUpTo, ReadSoFar
  <2>4. /\ ReadDone(file)
        /\ UNCHANGED <<settings, tables, secret, restoring, disturbed, stranded, torn>>
    BY <1>4 DEF ExportTable
  <2> QED
    BY <2>1, <2>2, <2>3, <2>4
<1> QED
  BY <1>2, <1>3, <1>4

LEMMA ExportSteps ==
    ASSUME BackupInv, ExportSetting \/ SettingUnread \/ ExportTable
    PROVE  BackupInv'
<1> USE DEF BackupInv, BackupTypes
<1>1. PICK file \in Files :
          /\ ReadDone(file) /\ exporting.at # 0
          /\ UNCHANGED <<settings, tables, secret, restoring, disturbed, stranded>>
          /\ torn' \in {torn, TRUE} /\ (~torn' => HoldsUpTo(file, exporting.at))
  BY ExportFile
<1>2. /\ exporting' \in [at : 0 .. LastRead, file : Files] /\ exported' \in Files
      /\ \/ exporting'.at = 0
         \/ exporting'.at = exporting.at + 1 /\ exporting'.file = file
  BY <1>1, ReadDoneFacts
<1>3. ReadSoFar'
  <2>1. exporting.at \in Int
    OBVIOUS
  <2> QED
    BY <1>1, <1>2, <2>1 DEF ReadSoFar, HoldsUpTo
<1> QED
  BY <1>1, <1>2, <1>3 DEF Readable, KeyToCome, RestoredSoFar, Follows

\* The transaction of Restore.
LEMMA RestoreTablesStep ==
    ASSUME BackupInv, RestoreTables
    PROVE  BackupInv'
<1> USE DEF BackupInv, BackupTypes
<1> DEFINE f == restoring.file
<1>1. /\ restoring.at = 1 /\ f \in Files
      /\ tables' = f.tables /\ stranded' = Locked(f)
      /\ torn' = (torn \/ Reading)
      /\ restoring' = [restoring EXCEPT !.at = 2]
      /\ UNCHANGED <<settings, secret, exporting, exported, disturbed>>
  BY DEF RestoreTables, Replaced
<1>2. /\ restoring' \in [at : 0 .. LastWrite, file : Files]
      /\ restoring'.at = 2 /\ restoring'.file = f
  BY <1>1, OrderFacts
<1>3. f.tables \in Contents /\ f.settings["install_secret"] \in Int
  BY <1>1, OrderFacts DEF Files
<1>4. stranded' \in BOOLEAN /\ torn' \in BOOLEAN
  BY <1>1 DEF Locked, Reading
<1>5. BackupTypes'
  BY <1>1, <1>2, <1>3, <1>4
<1>6. Readable'
  BY <1>1, <1>2 DEF Readable, KeyToCome, Locked
<1>7. ReadSoFar'
  <2>1. torn' \/ exporting'.at = 0
    BY <1>1 DEF Reading
  <2> QED
    BY <2>1 DEF ReadSoFar
<1>8. RestoredSoFar'
  BY <1>1, <1>2 DEF RestoredSoFar
<1> QED
  BY <1>5, <1>6, <1>7, <1>8

\* One more setting is restored.
LEMMA RestoreSettingStep ==
    ASSUME BackupInv, RestoreSetting
    PROVE  BackupInv'
<1> USE DEF BackupInv, BackupTypes
<1> DEFINE f == restoring.file
           n == restoring.at - 1
           k == KeyOrder[n]
           v == f.settings[k]
<1>1. /\ restoring.at > 1 /\ f \in Files
      /\ settings' = IF Overwrites(k, v) THEN [settings EXCEPT ![k] = v] ELSE settings
      /\ torn' = (torn \/ Reading)
      /\ UNCHANGED <<tables, secret, exporting, exported, disturbed, stranded>>
  BY DEF RestoreSetting
<1>2. n \in 1 .. 4 /\ k \in AllKeys /\ restoring.at = n + 1
  BY <1>1, OrderFacts
<1>3. v \in Int /\ f.settings["install_secret"] \in Int
  BY <1>1, <1>2, OrderFacts DEF Files
<1>4. /\ settings' \in [AllKeys -> Int]
      /\ \A x \in AllKeys : x # k => settings'[x] = settings[x]
      /\ settings'[k] = IF k \in Optional /\ v = 0 THEN settings[k] ELSE v
  BY <1>1, <1>2, <1>3 DEF Overwrites
<1>5. /\ restoring' \in [at : 0 .. LastWrite, file : Files]
      /\ \/ n = 4 /\ restoring'.at = 0
         \/ n < 4 /\ restoring'.at = n + 2 /\ restoring'.file = f
  <2>1. CASE restoring.at = LastWrite
    BY <1>2, <2>1, FileFacts, OrderFacts DEF RestoreSetting
  <2>2. CASE restoring.at # LastWrite
    <3>1. restoring' = [restoring EXCEPT !.at = @ + 1]
      BY <2>2 DEF RestoreSetting
    <3>2. n < 4 /\ restoring.at + 1 \in 0 .. LastWrite
      BY <1>2, <2>2, OrderFacts
    <3> QED
      BY <1>2, <3>1, <3>2
  <2> QED
    BY <2>1, <2>2
<1>6. torn' \in BOOLEAN
  BY <1>1 DEF Reading
<1>7. BackupTypes'
  BY <1>1, <1>4, <1>5, <1>6
<1>8. KeyToCome' = KeyToCome
  <2>1. CASE n = 4
    BY <1>1, <1>2, <1>4, <1>5, <2>1, OrderFacts DEF KeyToCome, Optional
  <2>2. CASE n < 4
    <3>1. k # "install_secret" /\ "install_secret" \in AllKeys
      BY <1>2, <2>2, OrderFacts
    <3> QED
      BY <1>1, <1>2, <1>4, <1>5, <2>2, <3>1 DEF KeyToCome
  <2> QED
    BY <1>2, <2>1, <2>2
<1>9. Readable'
  BY <1>1, <1>8 DEF Readable
<1>10. ReadSoFar'
  <2>1. torn' \/ exporting'.at = 0
    BY <1>1 DEF Reading
  <2> QED
    BY <2>1 DEF ReadSoFar
<1>11. RestoredSoFar'
  <2>1. CASE n = 4 \/ disturbed
    BY <1>1, <1>5, <2>1 DEF RestoredSoFar
  <2>2. CASE n < 4 /\ ~disturbed
    <3>1. restoring'.at = n + 2 /\ restoring'.file = f /\ tables' = f.tables
      BY <1>1, <1>2, <1>5, <2>2 DEF RestoredSoFar
    <3>2. ASSUME NEW i \in 1 .. 4, i + 1 < n + 2
          PROVE  Follows(KeyOrder[i], f.settings[KeyOrder[i]])'
      <4>1. CASE i = n
        BY <1>4, <3>1, <4>1 DEF Follows
      <4>2. CASE i < n
        <5>1. Follows(KeyOrder[i], f.settings[KeyOrder[i]])
          BY <1>1, <1>2, <2>2, <4>2 DEF RestoredSoFar
        <5>2. KeyOrder[i] # k /\ KeyOrder[i] \in AllKeys
          BY <1>2, <4>2, OrderFacts
        <5> QED
          BY <1>4, <3>1, <5>1, <5>2 DEF Follows
      <4> QED
        BY <1>2, <3>2, <4>1, <4>2
    <3> QED
      BY <3>1, <3>2 DEF RestoredSoFar
  <2> QED
    BY <1>2, <2>1, <2>2
<1> QED
  BY <1>7, <1>9, <1>10, <1>11

\* What ends before its time.
LEMMA BreakSteps ==
    ASSUME BackupInv, ExportFails \/ RestoreFails \/ RestartAll
    PROVE  BackupInv'
<1> USE DEF BackupInv, BackupTypes
<1>1. /\ UNCHANGED <<settings, tables, exported, torn, disturbed>>
      /\ secret' \in Int
  <2>1. settings["install_secret"] \in Int
    BY OrderFacts
  <2> QED
    BY <2>1 DEF ExportFails, RestoreFails, RestartAll
<1>2. exporting' = exporting \/ exporting' = Resting
  BY DEF ExportFails, RestoreFails, RestartAll
<1>3. UNCHANGED <<restoring, stranded>> \/ BrokenOff
  BY DEF ExportFails, RestoreFails, RestartAll
<1>4. /\ exporting' \in [at : 0 .. LastRead, file : Files]
      /\ exporting' = exporting \/ exporting'.at = 0
  BY <1>2, FileFacts
<1>5. /\ restoring' \in [at : 0 .. LastWrite, file : Files] /\ stranded' \in BOOLEAN
      /\ UNCHANGED <<restoring, stranded>> \/ (BrokenOff /\ restoring'.at = 0)
  BY <1>3, FileFacts DEF BrokenOff
<1>6. BackupTypes'
  BY <1>1, <1>4, <1>5
<1>7. Readable'
  BY <1>1, <1>5 DEF Readable, KeyToCome, BrokenOff
<1>8. ReadSoFar'
  BY <1>1, <1>4 DEF ReadSoFar
<1>9. RestoredSoFar'
  BY <1>1, <1>5 DEF RestoredSoFar, Follows
<1> QED
  BY <1>6, <1>7, <1>8, <1>9

\* The writes of other requests.
LEMMA WriteSteps ==
    ASSUME BackupInv,
           \/ \E t \in AllTables : WriteRow(t)
           \/ \E k \in AllKeys \ {"install_secret"} : WriteSetting(k),
           writes \in Int
    PROVE  BackupInv'
<1> USE DEF BackupInv, BackupTypes
<1>1. /\ UNCHANGED <<secret, exporting, exported, restoring>>
      /\ torn' = (torn \/ Reading) /\ disturbed' = (disturbed \/ Restoring)
  BY DEF WriteRow, WriteSetting, Write
<1>2. torn' \in BOOLEAN /\ disturbed' \in BOOLEAN
  BY <1>1 DEF Reading, Restoring
<1>3. ReadSoFar' /\ RestoredSoFar'
  <2>1. (torn' \/ exporting'.at = 0) /\ (disturbed' \/ restoring'.at = 0)
    BY <1>1 DEF Reading, Restoring
  <2> QED
    BY <2>1 DEF ReadSoFar, RestoredSoFar
<1>4. ThisWrite \in Int
  BY DEF ThisWrite
<1>5. ASSUME NEW t \in AllTables, WriteRow(t) PROVE BackupInv'
  <2> DEFINE new == tables[t].keys \union IF t = "sync_config" THEN {} ELSE {secret}
  <2>1. /\ tables' = [tables EXCEPT ![t] = [rows |-> ThisWrite, keys |-> new]]
        /\ stranded' = (stranded \/ (t # "sync_config" /\ Stranding))
        /\ settings' = settings
    BY <1>5 DEF WriteRow
  <2>2. new \in SUBSET Int
    BY DEF Contents
  <2>3. tables' \in Contents
    BY <1>4, <2>1, <2>2 DEF Contents
  <2>4. stranded' \in BOOLEAN
    BY <2>1 DEF Stranding
  <2>5. Readable'
    <3> SUFFICES ASSUME ~stranded', NEW x \in AllTables
                 PROVE  tables'[x].keys \subseteq {KeyToCome'}
      BY DEF Readable
    <3>1. KeyToCome' = KeyToCome /\ \A y \in AllTables : tables[y].keys \subseteq {KeyToCome}
      BY <1>1, <2>1 DEF Readable, KeyToCome
    <3>2. t # "sync_config" => secret = KeyToCome
      BY <2>1 DEF Stranding, KeyToCome
    <3>3. new \subseteq {KeyToCome}
      BY <3>1, <3>2
    <3>4. tables'[x].keys = IF x = t THEN new ELSE tables[x].keys
      BY <2>1 DEF Contents
    <3> QED
      BY <3>1, <3>3, <3>4
  <2> QED
    BY <1>1, <1>2, <1>3, <2>1, <2>3, <2>4, <2>5
<1>6. ASSUME NEW k \in AllKeys \ {"install_secret"}, WriteSetting(k) PROVE BackupInv'
  <2>1. /\ settings' = [settings EXCEPT ![k] = ThisWrite]
        /\ UNCHANGED <<tables, stranded>>
    BY <1>6 DEF WriteSetting
  <2>2. settings' \in [AllKeys -> Int] /\ settings'["install_secret"] = settings["install_secret"]
    BY <1>4, <2>1, OrderFacts
  <2>3. Readable'
    BY <1>1, <2>1, <2>2 DEF Readable, KeyToCome
  <2> QED
    BY <1>1, <1>2, <1>3, <2>1, <2>2, <2>3
<1> QED
  BY <1>5, <1>6

\* BackupInv holds at every moment.
THEOREM BackupInductive == BackupSpec => []BackupInv
<1> DEFINE Inv == BackupInv /\ writes \in Int
<1>1. BackupInit => Inv
  BY BackupStart DEF BackupInit
<1>2. Inv /\ [BackupNext]_backupVars => Inv'
  <2> SUFFICES ASSUME BackupInv, writes \in Int, [BackupNext]_backupVars
               PROVE  BackupInv' /\ writes' \in Int
    OBVIOUS
  <2>1. CASE UNCHANGED backupVars
    <3>1. BackupTypes' /\ Readable'
      BY <2>1 DEF backupVars, BackupInv, BackupTypes, Readable, KeyToCome
    <3>2. ReadSoFar' /\ RestoredSoFar' /\ writes' \in Int
      BY <2>1 DEF backupVars, BackupInv, ReadSoFar, RestoredSoFar, Follows
    <3> QED
      BY <3>1, <3>2 DEF BackupInv
  <2>2. CASE BackupNext
    <3>1. writes' = writes \/ writes' = writes + 1
      BY <2>2 DEF BackupNext, HandleExport, HandleRestore, ExportSetting, SettingUnread,
         ExportTable, ExportFails, RestoreTables, RestoreSetting, RestoreFails, RestartAll,
         WriteRow, WriteSetting, Write
    <3>2. BackupInv'
      BY <2>2, BeginSteps, ExportSteps, RestoreTablesStep, RestoreSettingStep, BreakSteps,
         WriteSteps DEF BackupNext
    <3> QED
      BY <3>1, <3>2
  <2> QED
    BY <2>1, <2>2
<1> QED
  BY <1>1, <1>2, PTL DEF BackupSpec

\* After the next restart the rows can be decrypted, but for the named cases.
THEOREM SecretsReadable == BackupSpec => []RestartReadsAll
<1>1. BackupInv => RestartReadsAll
  BY DEF BackupInv, Readable, KeyToCome, RestartReadsAll, Restoring
<1> QED
  BY <1>1, BackupInductive, PTL

\* Two files with the same entries are the same file.
LEMMA SameFile ==
    ASSUME BackupTypes, NEW file \in Files, HoldsUpTo(file, 7)
    PROVE  file = Current
<1>1. file.settings = settings
  <2>1. \A k \in AllKeys : file.settings[k] = settings[k]
    BY OrderFacts DEF HoldsUpTo
  <2> QED
    BY <2>1 DEF Files, BackupTypes
<1>2. file.tables = tables
  <2>1. \A t \in AllTables : file.tables[t] = tables[t]
    BY OrderFacts DEF HoldsUpTo
  <2> QED
    BY <2>1 DEF Files, Contents, BackupTypes
<1> QED
  BY <1>1, <1>2 DEF Files, Current

\* A file is what was stored at one moment.
LEMMA SnapshotStep ==
    ASSUME BackupInv, BackupNext, exported' # exported, ~torn'
    PROVE  exported' = Current
<1>1. ExportSetting \/ SettingUnread \/ ExportTable
  BY DEF BackupNext, HandleExport, HandleRestore, ExportFails, RestoreTables, RestoreSetting,
     RestoreFails, RestartAll, WriteRow, WriteSetting
<1>2. PICK file \in Files :
          ReadDone(file) /\ exporting.at # 0 /\ HoldsUpTo(file, exporting.at)
  BY <1>1, ExportFile
<1>3. exporting.at = 7 /\ exported' = file
  BY <1>2, ReadDoneFacts, OrderFacts DEF BackupInv
<1> QED
  BY <1>2, <1>3, SameFile DEF BackupInv

\* A Restore that went through has left all of its file.
LEMMA WholeStep ==
    ASSUME BackupInv, BackupNext, restoring.at = LastWrite, restoring'.at = 0,
           failures' = failures, ~disturbed, failures \in Int
    PROVE  /\ tables' = restoring.file.tables
           /\ \A k \in AllKeys :
                  settings'[k] = restoring.file.settings[k]
                      \/ (k \in Optional /\ restoring.file.settings[k] = 0)
<1> USE DEF BackupInv, BackupTypes
<1> DEFINE f == restoring.file
<1>1. restoring.at = 5 /\ f \in Files
  BY OrderFacts
<1>2. RestoreSetting
  BY <1>1 DEF BackupNext, HandleExport, HandleRestore, Restoring, ExportSetting, SettingUnread,
     ExportTable, ExportFails, Failure, RestoreTables, RestoreFails, RestartAll, WriteRow,
     WriteSetting
<1>3. tables' = f.tables
  BY <1>1, <1>2 DEF RestoreSetting, RestoredSoFar
<1>4. ASSUME NEW i \in 1 .. 4
      PROVE  settings'[KeyOrder[i]] = f.settings[KeyOrder[i]]
                 \/ (KeyOrder[i] \in Optional /\ f.settings[KeyOrder[i]] = 0)
  <2>1. settings' = IF Overwrites(KeyOrder[4], f.settings[KeyOrder[4]])
                    THEN [settings EXCEPT ![KeyOrder[4]] = f.settings[KeyOrder[4]]]
                    ELSE settings
    BY <1>1, <1>2 DEF RestoreSetting
  <2>2. CASE i = 4
    BY <2>1, <2>2, OrderFacts DEF Overwrites
  <2>3. CASE i < 4
    <3>1. Follows(KeyOrder[i], f.settings[KeyOrder[i]])
      BY <1>1, <2>3 DEF RestoredSoFar
    <3>2. KeyOrder[i] # KeyOrder[4] /\ KeyOrder[i] \in AllKeys
      BY <2>3, OrderFacts
    <3> QED
      BY <2>1, <3>1, <3>2 DEF Follows
  <2> QED
    BY <2>2, <2>3
<1>5. \A k \in AllKeys : \E i \in 1 .. 4 : k = KeyOrder[i]
  BY OrderFacts
<1> QED
  BY <1>3, <1>4, <1>5

\* Export and Restore, each in full.
THEOREM WholeBackup == BackupSpec => BackupIsWhole
<1> DEFINE A == exported' # exported /\ ~torn' => exported' = Current
           B == (restoring.at = LastWrite /\ restoring'.at = 0 /\ failures' = failures /\ ~disturbed) =>
                    /\ tables' = restoring.file.tables
                    /\ \A k \in AllKeys :
                           settings'[k] = restoring.file.settings[k]
                               \/ (k \in Optional /\ restoring.file.settings[k] = 0)
<1>1. BackupInit => failures \in Int
  BY DEF BackupInit
<1>2. failures \in Int /\ [BackupNext]_backupVars => (failures \in Int)'
  BY DEF BackupNext, HandleExport, HandleRestore, ExportSetting, SettingUnread, ExportTable,
     ExportFails, Failure, RestoreTables, RestoreSetting, RestoreFails, RestartAll, WriteRow,
     WriteSetting, backupVars
<1>3. BackupInv /\ failures \in Int /\ [BackupNext]_backupVars => [A]_backupVars /\ [B]_backupVars
  BY SnapshotStep, WholeStep
<1> QED
  BY <1>1, <1>2, <1>3, BackupInductive, PTL
     DEF BackupSpec, BackupIsWhole, ExportIsASnapshot, RestoreIsWhole
=============================================================================
