------------------------------- MODULE Backup -------------------------------
(***************************************************************************)
(* Export and restore, and the secret that encrypts what they carry.       *)
(*   internal/backup/backup.go       Export, Restore                       *)
(*   internal/api/handlers/backup.go their handlers                        *)
(*   internal/config/config.go       InstallSecret, read at start          *)
(*   web/src/pages/Settings.tsx      the card Backup & Restore             *)
(*   web/src/lib/api.ts              exportBackup, importBackup            *)
(* What a setting or a table holds is a number: 0 is blank, the file of    *)
(* another machine has one of its own, and so has every write.  A table    *)
(* also has the secrets its rows are encrypted with.  Of the settings that *)
(* Restore writes in any case, two stand for all seven.                    *)
(***************************************************************************)
EXTENDS Integers, SequencesExt

CONSTANTS
    MaxWrites,   \* bound: writes of requests other than Restore
    MaxFailures  \* bound: failing statements, clients that give up, crashes

ASSUME BackupAssumption == MaxWrites \in Nat /\ MaxFailures \in Nat

VARIABLES
    settings,    \* app_config
    tables,      \* instances, sync_config, notification_channels
    secret,      \* the secret that the repositories were given at start
    exporting,   \* Export: which read is next, and what was read
    exported,    \* the file of the last export
    restoring,   \* Restore: which write is next, and the file
    writes, failures,
    torn,        \* history: something was written, or not read, during Export
    disturbed,   \* history: something else was written during Restore
    stranded     \* history: rows are left that the stored secret cannot open

backupVars == <<settings, tables, secret, exporting, exported, restoring, writes, failures, torn, disturbed, stranded>>

\* In the order of Export, which for the settings is that of Restore.
KeyOrder   == <<"ui_username", "ui_password_hash", "ui_theme", "install_secret">>
TableOrder == <<"instances", "sync_config", "notification_channels">>
AllKeys    == ToSet(KeyOrder)
AllTables  == ToSet(TableOrder)
Optional   == {"ui_theme", "install_secret"}     \* not restored if blank
LastRead   == Len(KeyOrder) + Len(TableOrder)
LastWrite  == Len(KeyOrder) + 1                  \* the first is all tables

Here    == 1
There   == 2
Foreign == MaxWrites + 2
File(n, s) ==
    [settings |-> [k \in AllKeys |-> IF k = "install_secret" THEN s ELSE n],
     tables   |-> [t \in AllTables |->
                      [rows |-> n, keys |-> IF t = "sync_config" THEN {} ELSE {s}]]]
ForeignFile == File(Foreign, There)
NoFile      == File(0, 0)
Resting     == [at |-> 0, file |-> NoFile]
Current     == [settings |-> settings, tables |-> tables]

BackupInit ==
    /\ settings = File(1, Here).settings /\ tables = File(1, Here).tables
    /\ secret = Here
    /\ exporting = Resting /\ restoring = Resting
    /\ exported = NoFile
    /\ writes = 0 /\ failures = 0
    /\ torn = FALSE /\ disturbed = FALSE /\ stranded = FALSE

Restoring == restoring.at # 0
Reading == exporting.at # 0
Failure == failures < MaxFailures /\ failures' = failures + 1

-----------------------------------------------------------------------------
(* The page: the two buttons are busy while their request is under way; a  *)
(* file that was chosen is restored once the dialog has confirmed it.      *)

HandleExport ==
    /\ ~Reading /\ exported = NoFile    \* bound: one export
    /\ exporting' = [Resting EXCEPT !.at = 1]
    /\ torn' = FALSE
    /\ UNCHANGED <<settings, tables, secret, exported, restoring, writes, failures,
                   disturbed, stranded>>

\* Bound: one Restore at a time at the server.
HandleRestore ==
    /\ ~Restoring
    /\ \E f \in {ForeignFile, exported} \ {NoFile} : restoring' = [at |-> 1, file |-> f]
    /\ disturbed' = FALSE
    /\ UNCHANGED <<settings, tables, secret, exporting, exported, writes, failures,
                   torn, stranded>>

-----------------------------------------------------------------------------
(* Export: one query after the other, without a transaction.               *)

ReadDone(file) ==
    IF exporting.at = LastRead
    THEN exporting' = Resting /\ exported' = file
    ELSE exporting' = [at |-> exporting.at + 1, file |-> file] /\ UNCHANGED exported

Read_NoTheme(k) == IF k = "ui_theme" THEN 0 ELSE settings[k]  \* a fault, for mutation
Read(k) == settings[k]

ExportSetting ==
    /\ exporting.at \in 1 .. Len(KeyOrder)
    /\ LET k == KeyOrder[exporting.at] IN
       ReadDone([exporting.file EXCEPT !.settings[k] = Read(k)])
    /\ UNCHANGED <<settings, tables, secret, restoring, writes, failures, torn,
                   disturbed, stranded>>
\* The error of a setting is dropped: the file has a blank for it.
SettingUnread ==
    /\ Failure
    /\ exporting.at \in 1 .. Len(KeyOrder)
    /\ ReadDone(exporting.file)
    /\ torn' = TRUE
    /\ UNCHANGED <<settings, tables, secret, restoring, writes, disturbed, stranded>>
ExportTable ==
    /\ exporting.at > Len(KeyOrder)
    /\ LET t == TableOrder[exporting.at - Len(KeyOrder)] IN
       ReadDone([exporting.file EXCEPT !.tables[t] = tables[t]])
    /\ UNCHANGED <<settings, tables, secret, restoring, writes, failures, torn,
                   disturbed, stranded>>
ExportFails ==
    /\ Failure
    /\ Reading
    /\ exporting' = Resting
    /\ UNCHANGED <<settings, tables, secret, exported, restoring, writes, torn,
                   disturbed, stranded>>

-----------------------------------------------------------------------------
(* Restore: one transaction for the tables, then setting after setting.    *)

\* Rows that the secret of the file, or else the stored one, cannot open.
Locked(f) ==
    LET key == IF f.settings["install_secret"] # 0 THEN f.settings["install_secret"]
               ELSE settings["install_secret"]
    IN \E t \in AllTables : ~(f.tables[t].keys \subseteq {key})

Replaced_Added(f) ==                                \* a fault, for mutation
    [t \in AllTables |-> [f.tables[t] EXCEPT !.keys = @ \union tables[t].keys]]
Replaced(f) == f.tables

RestoreTables ==
    /\ restoring.at = 1
    /\ tables' = Replaced(restoring.file)
    /\ stranded' = Locked(restoring.file)
    /\ torn' = (torn \/ Reading)
    /\ restoring' = [restoring EXCEPT !.at = 2]
    /\ UNCHANGED <<settings, secret, exporting, exported, writes, failures, disturbed>>

Overwrites_NonBlank(k, v) == v # 0                  \* a fault, for mutation
Overwrites(k, v) == k \in Optional => v # 0

\* After the last one the page is loaded anew.
RestoreSetting ==
    /\ restoring.at > 1
    /\ LET k == KeyOrder[restoring.at - 1]
           v == restoring.file.settings[k]
       IN settings' = IF Overwrites(k, v) THEN [settings EXCEPT ![k] = v] ELSE settings
    /\ torn' = (torn \/ Reading)
    /\ IF restoring.at = LastWrite
       THEN restoring' = Resting
       ELSE restoring' = [restoring EXCEPT !.at = @ + 1]
    /\ UNCHANGED <<tables, secret, exporting, exported, writes, failures, disturbed,
                   stranded>>

\* Until its commit a Restore leaves nothing behind, and then what it has done.
BrokenOff ==
    /\ restoring' = Resting
    /\ stranded' = (stranded \/ (restoring.at > 1
                        /\ restoring.file.settings["install_secret"] # 0
                        /\ restoring.file.settings["install_secret"] # settings["install_secret"]))
RestoreFails ==
    /\ Failure
    /\ Restoring
    /\ BrokenOff
    /\ UNCHANGED <<settings, tables, secret, exporting, exported, writes, torn,
                   disturbed>>

-----------------------------------------------------------------------------
(* Everything else.                                                        *)

ThisWrite == writes + 2
Write ==
    /\ writes < MaxWrites /\ writes' = writes + 1
    /\ torn' = (torn \/ Reading) /\ disturbed' = (disturbed \/ Restoring)

\* The repositories encrypt with the secret they were given at start.
Stranding ==
    \/ secret # settings["install_secret"]
    \/ (restoring.at > 1 /\ restoring.file.settings["install_secret"] \notin {0, secret})
WriteRow(t) ==
    /\ Write
    /\ tables' = [tables EXCEPT
           ![t] = [rows |-> ThisWrite, keys |-> @.keys \union IF t = "sync_config" THEN {} ELSE {secret}]]
    /\ stranded' = (stranded \/ (t # "sync_config" /\ Stranding))
    /\ UNCHANGED <<settings, secret, exporting, exported, restoring, failures>>
WriteSetting(k) ==
    /\ Write
    /\ settings' = [settings EXCEPT ![k] = ThisWrite]
    /\ UNCHANGED <<tables, secret, exporting, exported, restoring, failures, stranded>>

\* A crash or a restart: main reads the secret that is stored.
RestartAll ==
    /\ Failure
    /\ secret' = settings["install_secret"]
    /\ exporting' = Resting
    /\ IF Restoring THEN BrokenOff ELSE UNCHANGED <<restoring, stranded>>
    /\ UNCHANGED <<settings, tables, exported, writes, torn, disturbed>>

-----------------------------------------------------------------------------
BackupNext ==
    \/ HandleExport \/ HandleRestore
    \/ ExportSetting \/ SettingUnread \/ ExportTable \/ ExportFails
    \/ RestoreTables \/ RestoreSetting \/ RestoreFails \/ RestartAll
    \/ \E t \in AllTables : WriteRow(t)
    \/ \E k \in AllKeys \ {"install_secret"} : WriteSetting(k)
BackupSpec == BackupInit /\ [][BackupNext]_backupVars
-----------------------------------------------------------------------------
(* Properties.                                                             *)

\* A file holds what was stored at one moment, though it is read query by
\* query: not so if something was written meanwhile, or a setting was not
\* read, of which the file says nothing (Export).
ExportIsASnapshot ==
    [][(exported' # exported /\ ~torn') => exported' = Current]_backupVars

\* A Restore that was answered with success left all of the file, apart from
\* a blank theme and a blank secret, which keep what was there (Restore);
\* other requests may have written meanwhile.
RestoreIsWhole ==
    [][(restoring.at = LastWrite /\ restoring'.at = 0 /\ failures' = failures /\ ~disturbed) =>
           /\ tables' = restoring.file.tables
           /\ \A k \in AllKeys :
                  settings'[k] = restoring.file.settings[k]
                      \/ (k \in Optional /\ restoring.file.settings[k] = 0)]_backupVars

\* A backup brings everything back: export and restore, each in full.
BackupIsWhole == ExportIsASnapshot /\ RestoreIsWhole

\* What is stored can be decrypted after the next restart: with no Restore
\* under way every row is encrypted with the stored secret; exceptions are a
\* Restore that broke off between tables and secret, rows written after a
\* Restore and before the restart, and a file that was torn.
RestartReadsAll ==
    (~Restoring /\ ~stranded) =>
        \A t \in AllTables : tables[t].keys \subseteq {settings["install_secret"]}
=============================================================================
