------------------------------ MODULE Rewrites ------------------------------
(***************************************************************************)
(* The step Apply of SyncEngine for the type rewrite, taken apart: a run   *)
(* makes the list of DNS rewrites of a slave that of the master, by one    *)
(* request for each entry.                                                 *)
(*   internal/adguard/client.go    rewriteSnapshot, applyRewrite           *)
(* A list is the set of its entries, as applyRewrite treats it.  What the  *)
(* slave's server does with a request is external.                         *)
(***************************************************************************)
CONSTANTS
    Domains,
    Answers

VARIABLES
    snap,     \* what rewriteSnapshot has got from the master
    slave,    \* what the slave's server has
    seen,     \* childSet, {} before it is read
    sent,     \* entries of the loop at hand that have been sent
    stage,    \* the request that is next, or how the last Apply has ended
    meddled   \* history: the slave was changed by others since Apply began

rewriteVars == <<snap, slave, seen, sent, stage, meddled>>

Entries  == [domain : Domains, answer : Answers]
Rewrite  == [list : SUBSET Entries, settings : BOOLEAN]
\* An Apply may fail before it has read the slave's list, or after.
Ends     == {"none", "success", "failed", "mixed"}
Stages   == {"settings", "list", "add", "delete"} \union Ends

RewriteInit ==
    /\ slave \in Rewrite
    /\ snap = [list |-> {}, settings |-> FALSE]
    /\ seen = {} /\ sent = {}
    /\ stage = "none"
    /\ meddled = FALSE

\* A run takes a snapshot: any, as the master may change at any time, also
\* between the two requests; its first error would leave the type out.
RewriteSnapshot ==
    /\ stage \in Ends
    /\ snap' \in Rewrite
    /\ stage' = "settings"
    /\ seen' = {} /\ sent' = {}
    /\ meddled' = FALSE
    /\ UNCHANGED slave

-----------------------------------------------------------------------------
(* applyRewrite.  A request that is done may end in an error nevertheless, *)
(* when its answer is lost.                                                *)

PutSettings ==
    /\ stage = "settings"
    /\ slave' = [slave EXCEPT !.settings = snap.settings]
    /\ stage' \in {"list", "failed"}
    /\ UNCHANGED <<snap, seen, sent, meddled>>

GetList ==
    /\ stage = "list"
    /\ seen' = slave.list
    /\ stage' = "add"
    /\ UNCHANGED <<snap, slave, sent, meddled>>

ToAdd_NewDomains ==                                 \* a fault, for mutation
    {e \in snap.list : \A f \in seen : f.domain # e.domain}
ToAdd == snap.list \ seen
ToDelete == seen \ snap.list

AddEntry(e) ==
    /\ stage = "add" /\ e \in ToAdd \ sent
    /\ slave' = [slave EXCEPT !.list = @ \union {e}]
    /\ \/ sent' = sent \union {e} /\ UNCHANGED stage
       \/ stage' = "mixed" /\ UNCHANGED sent
    /\ UNCHANGED <<snap, seen, meddled>>
AllAdded ==
    /\ stage = "add" /\ ToAdd \subseteq sent
    /\ stage' = "delete" /\ sent' = {}
    /\ UNCHANGED <<snap, slave, seen, meddled>>

DeleteEntry_AtOnce(e) ==                            \* a fault, for mutation
    /\ stage \in {"add", "delete"} /\ e \in ToDelete \ sent
    /\ slave' = [slave EXCEPT !.list = @ \ {e}]
    /\ \/ sent' = sent \union {e} /\ UNCHANGED stage
       \/ stage' = "mixed" /\ UNCHANGED sent
    /\ UNCHANGED <<snap, seen, meddled>>
DeleteEntry(e) ==
    /\ stage = "delete" /\ e \in ToDelete \ sent
    /\ slave' = [slave EXCEPT !.list = @ \ {e}]
    /\ \/ sent' = sent \union {e} /\ UNCHANGED stage
       \/ stage' = "mixed" /\ UNCHANGED sent
    /\ UNCHANGED <<snap, seen, meddled>>
AllDeleted ==
    /\ stage = "delete" /\ ToDelete \subseteq sent
    /\ stage' = "success"
    /\ UNCHANGED <<snap, slave, seen, sent, meddled>>

\* A request that is refused, or not sent as ctx is cancelled; also the end of
\* the process.
RequestFails ==
    /\ stage \notin Ends
    /\ stage' = IF stage \in {"settings", "list"} THEN "failed" ELSE "mixed"
    /\ UNCHANGED <<snap, slave, seen, sent, meddled>>

\* The slave's own administrator.
Meddle ==
    /\ slave' \in Rewrite \ {slave}
    /\ meddled' = TRUE
    /\ UNCHANGED <<snap, seen, sent, stage>>

RewriteNext ==
    \/ RewriteSnapshot \/ PutSettings \/ GetList \/ AllAdded \/ AllDeleted
    \/ RequestFails \/ Meddle
    \/ \E e \in Entries : AddEntry(e) \/ DeleteEntry(e)
RewriteSpec == RewriteInit /\ [][RewriteNext]_rewriteVars
-----------------------------------------------------------------------------
(* Properties.                                                             *)

\* Types.
RewriteTypeOK ==
    /\ snap \in Rewrite /\ slave \in Rewrite
    /\ seen \subseteq Entries /\ sent \subseteq Entries
    /\ stage \in Stages
    /\ meddled \in BOOLEAN

Answered(list, d) == \E e \in list : e.domain = d

\* While the entries are replaced one by one, and after a failure anywhere in
\* between, the slave has what it had and is to keep, and nothing that neither
\* server had; no domain that has an answer before and after is without one in
\* between; and an Apply that returns nil has made the lists equal, whatever
\* mixture an earlier one left behind.  Others who change the slave's list
\* meanwhile are not taken into account.
RewritesAreSafe ==
    (stage \in {"add", "delete", "success", "mixed"} /\ ~meddled) =>
        /\ seen \intersect snap.list \subseteq slave.list
        /\ slave.list \subseteq seen \union snap.list
        /\ \A d \in Domains : Answered(seen, d) /\ Answered(snap.list, d)
                                  => Answered(slave.list, d)
        /\ stage = "success" => slave = snap
=============================================================================
