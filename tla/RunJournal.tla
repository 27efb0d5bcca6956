----------------------------- MODULE RunJournal -----------------------------
(***************************************************************************)
(* What the table sync_runs promises its readers (the history page, the    *)
(* notification text, LastSyncByInstance): it is a journal.  Runs are      *)
(* opened in the order in which they were accepted, only the newest entry  *)
(* is ever written again, and an entry, once closed, is closed for good.   *)
(* An entry may stay open: a crash, or a failed FinishRun, abandons it.    *)
(***************************************************************************)
EXTENDS Integers

CONSTANT MaxRuns      \* ids are numbered 1 .. MaxRuns in the order of acceptance

VARIABLE rows         \* rows[r] is the status column of run r, or "absent"

FinalStates == {"success", "partial_failure", "error"}

RunIds == 1 .. MaxRuns

JournalInit == rows = [r \in RunIds |-> "absent"]

\* r is the newest entry, or is newer than every entry.
NothingAfter(r) == \A q \in RunIds : q > r => rows[q] = "absent"

Open(r) == /\ NothingAfter(r)
           /\ rows[r] = "absent"
           /\ rows' = [rows EXCEPT ![r] = "running"]

Close(r, s) == /\ NothingAfter(r)
               /\ rows[r] = "running"
               /\ rows' = [rows EXCEPT ![r] = s]

JournalNext == \E r \in RunIds : Open(r) \/ \E s \in FinalStates : Close(r, s)

JournalSpec == JournalInit /\ [][JournalNext]_rows
=============================================================================
