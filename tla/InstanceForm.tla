---------------------------- MODULE InstanceForm ----------------------------
(***************************************************************************)
(* The dialog Add / Edit Instance and its gate, the connection test.       *)
(*   web/src/pages/Instances.tsx   openCreate, openEdit, the inputs,       *)
(*                                 handleTestConnection, handleSubmit      *)
(*   web/src/hooks/useInstances.ts createInstance, updateInstance          *)
(*   web/src/lib/api.ts            testConnection                          *)
(* The user name and the switch TLS Skip Verify are gated like the address *)
(* and are left out.  Names are not checked.                               *)
(***************************************************************************)
CONSTANTS
    Ids,        \* instances
    Addresses,
    Passwords,
    Empty       \* the empty string

ASSUME InstanceFormAssumption == Empty \notin Addresses \union Passwords

VARIABLES
    accounts,   \* the server: address and password of each instance
    dialog,     \* modalOpen and editTarget
    form,       \* form: address and password
    origAddress,\* origConn
    testStatus,
    testing,    \* the test under way, with the values it tests
    submitting, \* the mutation under way
    vouched     \* history: the values the verdict is about, NoTest while there
                \* is none or if it came when the form held others

instanceFormVars ==
    <<accounts, dialog, form, origAddress, testStatus, testing, submitting, vouched>>

Fields == [address : Addresses \union {Empty}, password : Passwords \union {Empty}]
Account == [address : Addresses, password : Passwords \union {Empty}]
EmptyForm == [address |-> Empty, password |-> Empty]
Absent    == EmptyForm       \* an instance has an address
NoTest    == EmptyForm       \* and so has a test
New       == "new"
Closed    == "closed"
NoSubmit  == [target |-> Closed, values |-> EmptyForm]

InstanceFormInit ==
    /\ accounts \in [Ids -> {[address |-> a, password |-> p] : a \in Addresses, p \in Passwords}
                            \union {Absent}]
    /\ \A i, j \in Ids : i # j /\ accounts[i] # Absent /\ accounts[j] # Absent
                             => accounts[i].address # accounts[j].address
    /\ dialog = Closed
    /\ form = EmptyForm /\ origAddress = Empty
    /\ testStatus = "idle" /\ testing = NoTest
    /\ submitting = NoSubmit
    /\ vouched = NoTest

-----------------------------------------------------------------------------
(* The dialog.                                                             *)

OpenCreate ==
    /\ dialog = Closed
    /\ dialog' = New
    /\ form' = EmptyForm /\ origAddress' = Empty
    /\ testStatus' = "idle"
    /\ UNCHANGED <<accounts, testing, submitting, vouched>>

\* An unchanged connection counts as tested; the password is left blank.
OpenEdit(i) ==
    /\ dialog = Closed /\ accounts[i] # Absent
    /\ dialog' = i
    /\ form' = [address |-> accounts[i].address, password |-> Empty]
    /\ origAddress' = accounts[i].address
    /\ testStatus' = "ok" /\ vouched' = form'
    /\ UNCHANGED <<accounts, testing, submitting>>

CloseDialog ==
    /\ dialog # Closed
    /\ dialog' = Closed
    /\ vouched' = NoTest
    /\ UNCHANGED <<accounts, form, origAddress, testStatus, testing, submitting>>

\* The inputs reset the verdict unless they return to what was there.
AfterAddress_Kept(v) == testStatus                  \* a fault, for mutation
AfterAddress(v) == IF v # origAddress THEN "idle" ELSE testStatus
AfterPassword(v) == IF v # Empty THEN "idle" ELSE testStatus

TypeAddress(v) ==
    /\ dialog # Closed
    /\ form' = [form EXCEPT !.address = v]
    /\ testStatus' = AfterAddress(v)
    /\ UNCHANGED <<accounts, dialog, origAddress, testing, submitting, vouched>>
TypePassword(v) ==
    /\ dialog # Closed
    /\ form' = [form EXCEPT !.password = v]
    /\ testStatus' = AfterPassword(v)
    /\ UNCHANGED <<accounts, dialog, origAddress, testing, submitting, vouched>>

-----------------------------------------------------------------------------
(* handleTestConnection.  Bound: one test at a time, as an edit during a   *)
(* test would let a second one start.                                      *)

TestConnection ==
    /\ dialog # Closed /\ testStatus # "testing" /\ form.address # Empty
    /\ testing = NoTest
    /\ testing' = form
    /\ testStatus' = "testing" /\ vouched' = NoTest
    /\ UNCHANGED <<accounts, dialog, form, origAddress, submitting>>

TestAnswered(verdict) ==
    /\ testing # NoTest
    /\ testStatus' = verdict
    /\ vouched' = IF testing = form /\ dialog # Closed THEN testing ELSE NoTest
    /\ testing' = NoTest
    /\ UNCHANGED <<accounts, dialog, form, origAddress, submitting>>

-----------------------------------------------------------------------------
(* handleSubmit.                                                           *)

\* A blank password of an instance that exists is sent as null.
Submit ==
    /\ dialog # Closed /\ testStatus = "ok" /\ submitting = NoSubmit
    /\ submitting' = [target |-> dialog, values |-> form]
    /\ UNCHANGED <<accounts, dialog, form, origAddress, testStatus, testing, vouched>>

Taken_Unchecked(a, but) == FALSE                    \* a fault, for mutation
Taken(a, but) == \E i \in Ids \ but : accounts[i] # Absent /\ accounts[i].address = a
Updated_Blanked(old, new) == new                    \* a fault, for mutation
Updated(old, new) == [new EXCEPT !.password = IF @ = Empty THEN old.password ELSE @]

SaveAs(i) ==
    LET new == submitting.values IN
    /\ IF submitting.target = New THEN accounts[i] = Absent
       ELSE i = submitting.target /\ accounts[i] # Absent
    /\ new.address # Empty /\ ~Taken(new.address, {i})
    /\ accounts' = [accounts EXCEPT ![i] =
                       IF submitting.target = New THEN new ELSE Updated(@, new)]

\* The answer, which is taken together with the write, closes whichever
\* dialog is open by then.
SaveInstance ==
    /\ submitting # NoSubmit
    /\ \E i \in Ids : SaveAs(i)
    /\ dialog' = Closed
    /\ submitting' = NoSubmit
    /\ vouched' = NoTest
    /\ UNCHANGED <<form, origAddress, testStatus, testing>>
SaveUnanswered ==
    /\ submitting # NoSubmit
    /\ \E i \in Ids : SaveAs(i)
    /\ submitting' = NoSubmit
    /\ UNCHANGED <<dialog, form, origAddress, testStatus, testing, vouched>>
\* An address that is taken or empty, an instance that is gone, a failure.
SaveRefused ==
    /\ submitting # NoSubmit
    /\ submitting' = NoSubmit
    /\ UNCHANGED <<accounts, dialog, form, origAddress, testStatus, testing, vouched>>

\* From the list, or from elsewhere.
InstanceDeleted(i) ==
    /\ accounts[i] # Absent
    /\ accounts' = [accounts EXCEPT ![i] = Absent]
    /\ UNCHANGED <<dialog, form, origAddress, testStatus, testing, submitting, vouched>>

-----------------------------------------------------------------------------
InstanceFormNext ==
    \/ OpenCreate \/ CloseDialog \/ TestConnection \/ Submit
    \/ SaveInstance \/ SaveUnanswered \/ SaveRefused
    \/ \E i \in Ids : OpenEdit(i) \/ InstanceDeleted(i)
    \/ \E a \in Addresses \union {Empty} : TypeAddress(a)
    \/ \E p \in Passwords \union {Empty} : TypePassword(p)
    \/ \E v \in {"ok", "failed"} : TestAnswered(v)
InstanceFormSpec == InstanceFormInit /\ [][InstanceFormNext]_instanceFormVars
-----------------------------------------------------------------------------
(* Properties.                                                             *)

\* The variables hold values of their kind; no two instances have one address.
InstanceFormTypeOK ==
    /\ accounts \in [Ids -> Account \union {Absent}]
    /\ \A i, j \in Ids : i # j /\ accounts[i] # Absent /\ accounts[j] # Absent
                             => accounts[i].address # accounts[j].address
    /\ dialog \in Ids \union {New, Closed}
    /\ form \in Fields /\ vouched \in Fields
    /\ origAddress \in Addresses \union {Empty}
    /\ testStatus \in {"idle", "testing", "ok", "failed"}
    /\ testing \in Fields
    /\ submitting \in [target : Ids \union {New, Closed}, values : Fields]

\* A value that differs from the stored one is saved only after a test that
\* held it: each value is the tested one, the one the instance had, or a
\* password left blank.  Each by itself: the address typed back to the stored
\* one keeps the verdict that a new password got at another address.  The
\* exception is a verdict on older values that comes late.
SavedWasTested ==
    (dialog # Closed /\ testStatus = "ok") =>
        \/ vouched = NoTest
        \/ /\ form.address \in {vouched.address, origAddress}
           /\ form.password \in {vouched.password, Empty}

\* "leave blank to keep existing": the stored password of an instance changes
\* only to one that was typed into the dialog.
BlankKeepsPassword ==
    [][\A i \in Ids :
          (accounts[i] # Absent /\ accounts'[i] # Absent) =>
              \/ accounts'[i].password = accounts[i].password
              \/ accounts'[i].password = submitting.values.password
                   /\ submitting.values.password # Empty]_instanceFormVars
=============================================================================
