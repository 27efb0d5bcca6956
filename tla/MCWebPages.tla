----------------------------- MODULE MCWebPages -----------------------------
(***************************************************************************)
(* The pages and dialogs that change settings, instances and channels, for *)
(* TLC, and with them one operation of the server, Rewrites.  They share   *)
(* nothing but their shape, so one run checks them all: Init chooses the   *)
(* part that is at work, and only that one takes steps.                    *)
(***************************************************************************)
EXTENDS SchedulePage, WatchdogForm, InstanceForm, InstanceList, ChannelForm,
        Backup, ThemeSync, RunDiff, Rewrites

VARIABLE page

pagesVars == <<cronVars, dogVars, instanceFormVars, instanceListVars, channelFormVars,
               backupVars, themeVars, diffVars, rewriteVars>>

MasterAndSlaves ==
    CHOOSE r \in Rosters : /\ \E i \in Rows : r[i].role = "master"
                           /\ \A i \in Rows : r[i].on

\* The parts that are not at work rest in one of their initial states.
PagesInit ==
    /\ page \in {"schedule", "watchdog", "form", "list", "channel", "backup", "theme", "diff",
                "rewrite"}
    /\ page = "schedule" \/ cronStored = Blank
    /\ page = "watchdog" \/ dogStored = Off
    /\ page = "form" \/ accounts = [i \in Ids |-> Absent]
    /\ page = "list" \/ roster = MasterAndSlaves
    /\ page = "channel" \/ channels = [i \in Channels |-> NoChannel]
    /\ page = "theme" \/ (serverTheme = Unset /\ localTheme = Unset /\ osTheme = "light")
    /\ page = "diff" \/ before = NoDiff
    /\ page = "rewrite" \/ slave = [list |-> {}, settings |-> FALSE]
    /\ ScheduleInit /\ DogInit /\ InstanceFormInit /\ InstanceListInit /\ ChannelFormInit
    /\ BackupInit /\ ThemeInit /\ DiffInit /\ RewriteInit

PagesNext ==
    /\ UNCHANGED page
    /\ \/ /\ page = "schedule"
          /\ UNCHANGED <<dogVars, instanceFormVars, instanceListVars, channelFormVars,
                         backupVars, themeVars, diffVars, rewriteVars>>
          /\ ScheduleNext
       \/ /\ page = "watchdog"
          /\ UNCHANGED <<cronVars, instanceFormVars, instanceListVars, channelFormVars,
                         backupVars, themeVars, diffVars, rewriteVars>>
          /\ DogNext
       \/ /\ page = "form"
          /\ UNCHANGED <<cronVars, dogVars, instanceListVars, channelFormVars,
                         backupVars, themeVars, diffVars, rewriteVars>>
          /\ InstanceFormNext
       \/ /\ page = "list"
          /\ UNCHANGED <<cronVars, dogVars, instanceFormVars, channelFormVars,
                         backupVars, themeVars, diffVars, rewriteVars>>
          /\ InstanceListNext
       \/ /\ page = "channel"
          /\ UNCHANGED <<cronVars, dogVars, instanceFormVars, instanceListVars,
                         backupVars, themeVars, diffVars, rewriteVars>>
          /\ ChannelFormNext
       \/ /\ page = "backup"
          /\ UNCHANGED <<cronVars, dogVars, instanceFormVars, instanceListVars,
                         channelFormVars, themeVars, diffVars, rewriteVars>>
          /\ BackupNext
       \/ /\ page = "theme"
          /\ UNCHANGED <<cronVars, dogVars, instanceFormVars, instanceListVars,
                         channelFormVars, backupVars, diffVars, rewriteVars>>
          /\ ThemeNext
       \/ /\ page = "diff"
          /\ UNCHANGED <<cronVars, dogVars, instanceFormVars, instanceListVars,
                         channelFormVars, backupVars, themeVars, rewriteVars>>
          /\ ToggleDiff
       \/ /\ page = "rewrite"
          /\ UNCHANGED <<cronVars, dogVars, instanceFormVars, instanceListVars,
                         channelFormVars, backupVars, themeVars, diffVars>>
          /\ RewriteNext
PagesSpec == PagesInit /\ [][PagesNext]_<<page, pagesVars>>
-----------------------------------------------------------------------------
(* Properties of all pages.                                                *)

\* Values of their kind on every page; among them no job and no request that
\* stores a schedule that cannot be parsed (a restored backup may leave one
\* stored), no two instances at one address, no second master, no channel with
\* the configuration of another type, no theme but the one that is kept, unless
\* another tab writes to the storage.
PagesTypeOK ==
    /\ ScheduleTypeOK /\ WatchdogFormTypeOK /\ InstanceFormTypeOK
    /\ InstanceListTypeOK /\ ChannelFormTypeOK /\ ThemeTypeOK
    /\ RewriteTypeOK

\* When nothing is under way, a page shows what the server stores or knows
\* that its data are stale: the cached schedule, the form of the watchdog, the
\* list of instances and the theme, through fetches that were sent before a
\* write and answered after it, joined, dropped or failed; the exceptions are
\* those of each part.
PagesCatchUp ==
    /\ CronCacheCatchesUp /\ WatchdogFormAgrees /\ ListCatchesUp
    /\ ServerFollowsTheme

\* A good verdict on a connection stands only while each value of the form was
\* in the test, is stored, or is a blank password; a verdict on a channel only
\* while the form holds what was tested.  Late verdicts are excepted.
VerdictsAreOfTheForm == SavedWasTested /\ VerdictIsOfTheForm

\* Saving a form loses nothing that the user has not changed: not a password
\* left blank, not the configuration of a channel opened and saved again.
NothingIsLostOnSave == BlankKeepsPassword /\ ReopeningKeepsConfig
=============================================================================
