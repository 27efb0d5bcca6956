---------------------------- MODULE ChannelForm ----------------------------
(***************************************************************************)
(* The dialog Add / Edit Channel of the page Notifications.                *)
(*   web/src/pages/Notifications.tsx   the dialog, buildConfig,            *)
(*                   parseIntoForm, handleTest, handleSubmit               *)
(*   web/src/hooks/useNotifications.ts the mutations                       *)
(*   internal/api/handlers/notifications.go, internal/notification/        *)
(*   repository.go                     create, update, delete              *)
(* The configuration of a channel is a text.  The form keeps the fields of *)
(* every type at once and writes those of the type that is selected.       *)
(* Names and the three switches are left out; the list is taken as fresh   *)
(* (InstanceList has how such a list is refreshed).                        *)
(***************************************************************************)
CONSTANTS
    Channels,     \* rows of notification_channels
    ChannelTypes, \* shoutrrr, greenapi, whatsapp
    FirstType,    \* the type of an empty form
    Texts,        \* what can be typed into the fields of a type
    NoText        \* all fields of a type empty

ASSUME ChannelFormAssumption ==
    /\ FirstType \in ChannelTypes /\ NoText \notin Texts
    /\ Channels \intersect {"no dialog", "new channel"} = {}   \* NoDialog, NewChannel

VARIABLES
    channels,     \* the server: type and config of each row
    editing,      \* modalOpen and editTarget
    fields,       \* form: its type, and the fields of every type
    testState,
    tests,        \* testChannel, the configuration that is being tested
    saving,       \* createChannel and updateChannel
    tested        \* history: what the last verdict is about, Unreadable if it
                  \* came when the form held something else

channelFormVars == <<channels, editing, fields, testState, tests, saving, tested>>

Written   == Texts \union {NoText}
\* A text that the form can write, and one that is not JSON.
Config    == [shape : ChannelTypes, text : Written]
Unreadable == [shape |-> FirstType, text |-> "not JSON"]
Channel   == [type : ChannelTypes, config : Config \union {Unreadable}]
NoChannel == [type |-> FirstType, config |-> [shape |-> FirstType, text |-> "no row"]]
Form      == [type : ChannelTypes, of : [ChannelTypes -> Written]]
EmptyFields == [type |-> FirstType, of |-> [t \in ChannelTypes |-> NoText]]
NoDialog  == "no dialog"
NewChannel == "new channel"
NotSaving == [target |-> NoDialog, type |-> FirstType, config |-> Unreadable]

BuildConfig_First(f) == [shape |-> FirstType, text |-> f.of[FirstType]]  \* a fault, for mutation
BuildConfig(f) == [shape |-> f.type, text |-> f.of[f.type]]
\* Whatever the text does not hold is an empty field; a text of another type
\* holds none of them.
ParseIntoForm_Dropped(c) == [EmptyFields EXCEPT !.type = c.type]  \* a fault, for mutation
ParseIntoForm(c) ==
    [EmptyFields EXCEPT !.type = c.type,
                        !.of[c.type] = IF c.config \in Config /\ c.config.shape = c.type
                                       THEN c.config.text ELSE NoText]

ChannelFormInit ==
    /\ channels \in [Channels -> Channel \union {NoChannel}]
    /\ editing = NoDialog
    /\ fields = EmptyFields
    /\ testState = "idle"
    /\ tests = {}
    /\ saving = NotSaving
    /\ tested = Unreadable

-----------------------------------------------------------------------------
(* The dialog.                                                             *)

OpenAddChannel ==
    /\ editing = NoDialog
    /\ editing' = NewChannel /\ fields' = EmptyFields /\ testState' = "idle"
    /\ UNCHANGED <<channels, tests, saving, tested>>
OpenEditChannel(i) ==
    /\ editing = NoDialog /\ channels[i] # NoChannel
    /\ editing' = i /\ fields' = ParseIntoForm(channels[i]) /\ testState' = "idle"
    /\ UNCHANGED <<channels, tests, saving, tested>>
CloseChannel ==
    /\ editing # NoDialog
    /\ editing' = NoDialog
    /\ UNCHANGED <<channels, fields, testState, tests, saving, tested>>

ResetTestState_No == UNCHANGED testState            \* a fault, for mutation
ResetTestState == testState' = "idle"

SelectType(t) ==
    /\ editing # NoDialog
    /\ fields' = [fields EXCEPT !.type = t]
    /\ ResetTestState
    /\ UNCHANGED <<channels, editing, tests, saving, tested>>
TypeFields(v) ==
    /\ editing # NoDialog
    /\ fields' = [fields EXCEPT !.of[fields.type] = v]
    /\ ResetTestState
    /\ UNCHANGED <<channels, editing, tests, saving, tested>>

-----------------------------------------------------------------------------
(* handleTest: nothing cancels a test.  Bound: one test at a time, as an   *)
(* edit during a test would let a second one start.                        *)

SendTest ==
    /\ editing # NoDialog /\ testState # "testing" /\ tests = {}
    /\ tests' = {BuildConfig(fields)}
    /\ testState' = "testing"
    /\ UNCHANGED <<channels, editing, fields, saving, tested>>
ChannelTested(c, verdict) ==
    /\ c \in tests
    /\ tests' = tests \ {c}
    /\ testState' = verdict
    /\ tested' = IF c = BuildConfig(fields) THEN c ELSE Unreadable
    /\ UNCHANGED <<channels, editing, fields, saving>>

-----------------------------------------------------------------------------
(* handleSubmit.  The configuration is always sent, never left out.        *)

SubmitChannel_First ==                              \* a fault, for mutation
    /\ editing # NoDialog /\ saving = NotSaving
    /\ saving' = [target |-> editing, type |-> fields.type,
                  config |-> BuildConfig_First(fields)]
    /\ UNCHANGED <<channels, editing, fields, testState, tests, tested>>
SubmitChannel ==
    /\ editing # NoDialog /\ saving = NotSaving
    /\ saving' = [target |-> editing, type |-> fields.type,
                  config |-> BuildConfig(fields)]
    /\ UNCHANGED <<channels, editing, fields, testState, tests, tested>>

\* The answer, which is taken together with the write, closes whichever
\* dialog is open by then.
StoredAs(i) ==
    /\ IF saving.target = NewChannel THEN channels[i] = NoChannel
       ELSE i = saving.target /\ channels[i] # NoChannel
    /\ channels' = [channels EXCEPT ![i] = [type |-> saving.type, config |-> saving.config]]
StoreChannel ==
    /\ saving # NotSaving
    /\ \E i \in Channels : StoredAs(i)
    /\ editing' = NoDialog
    /\ saving' = NotSaving
    /\ UNCHANGED <<fields, testState, tests, tested>>
StoreUnanswered ==
    /\ saving # NotSaving
    /\ \E i \in Channels : StoredAs(i)
    /\ saving' = NotSaving
    /\ UNCHANGED <<editing, fields, testState, tests, tested>>
\* No name, a name that is taken, a row that is gone, a failure.
ChannelRefused ==
    /\ saving # NotSaving
    /\ saving' = NotSaving
    /\ UNCHANGED <<channels, editing, fields, testState, tests, tested>>

\* From the list, or from elsewhere.
DeleteChannel(i) ==
    /\ channels[i] # NoChannel
    /\ channels' = [channels EXCEPT ![i] = NoChannel]
    /\ UNCHANGED <<editing, fields, testState, tests, saving, tested>>

-----------------------------------------------------------------------------
ChannelFormNext ==
    \/ OpenAddChannel \/ CloseChannel \/ SendTest \/ SubmitChannel
    \/ StoreChannel \/ StoreUnanswered \/ ChannelRefused
    \/ \E i \in Channels : OpenEditChannel(i) \/ DeleteChannel(i)
    \/ \E t \in ChannelTypes : SelectType(t)
    \/ \E v \in Written : TypeFields(v)
    \/ \E c \in tests, v \in {"ok", "failed"} : ChannelTested(c, v)
ChannelFormSpec == ChannelFormInit /\ [][ChannelFormNext]_channelFormVars
-----------------------------------------------------------------------------
(* Properties.                                                             *)

\* The variables hold values of their kind.  A configuration that the page
\* sends is of the type it is sent with, though the form keeps the fields of
\* every type (buildConfig).
ChannelFormTypeOK ==
    /\ channels \in [Channels -> Channel \union {NoChannel}]
    /\ editing \in Channels \union {NewChannel, NoDialog}
    /\ fields \in Form
    /\ testState \in {"idle", "testing", "ok", "failed"}
    /\ tests \subseteq Config
    /\ saving \in [target : Channels \union {NewChannel, NoDialog}, type : ChannelTypes,
                   config : Config \union {Unreadable}]
    /\ saving # NotSaving => saving.config.shape = saving.type
    /\ tested \in Config \union {Unreadable}

\* A verdict that is shown is about the configuration that would be saved;
\* the exception is an answer that comes when the form has moved on, as
\* nothing tells the answers apart (handleTest, resetTestState).
VerdictIsOfTheForm ==
    (editing # NoDialog /\ testState \in {"ok", "failed"})
        => tested \in {BuildConfig(fields), Unreadable}

\* Opening the dialog of a channel and saving it as it is keeps its
\* configuration: what parseIntoForm reads, buildConfig writes; the exception
\* is a text that is not of the channel's type, which is replaced by blanks.
ReopeningKeepsConfig ==
    [][\A i \in Channels :
          editing' = i /\ editing # i =>
              LET c == channels[i] IN
              (c.config \in Config /\ c.config.shape = c.type)
                  => BuildConfig(fields') = c.config]_channelFormVars
=============================================================================
