------------------------------ MODULE RunDiff ------------------------------
(***************************************************************************)
(* The differences that the page of a run shows for each result.           *)
(*   web/src/pages/HistoryRun.tsx   computeDiff, parseDiff, diffStats,     *)
(*                                  DiffViewer                             *)
(* A text is a sequence of lines; the loops of computeDiff are functions   *)
(* of the cell of the table they compute.                                  *)
(***************************************************************************)
EXTENDS Integers, Sequences

CONSTANTS
    Lines,      \* lines of text
    MaxLines    \* bound: lines of a text

ASSUME RunDiffAssumption == MaxLines \in Nat

VARIABLES
    before,     \* diff_json of the result: before and after, or no diff_json
    after,
    unfolded    \* DiffViewer: expanded

diffVars == <<before, after, unfolded>>

AllTexts == UNION {[1 .. n -> Lines] : n \in 0 .. MaxLines}
NoDiff == <<"no diff">>

-----------------------------------------------------------------------------
(* computeDiff.                                                            *)

Cells(a, b) == (0 .. Len(a)) \X (0 .. Len(b))

\* The table: how many lines the first i and the first j have in common.
Table(a, b) ==
    LET dp[c \in Cells(a, b)] ==
            IF c[1] = 0 \/ c[2] = 0 THEN 0
            ELSE IF a[c[1]] = b[c[2]] THEN dp[<<c[1] - 1, c[2] - 1>>] + 1
            ELSE LET up == dp[<<c[1] - 1, c[2]>>]  left == dp[<<c[1], c[2] - 1>>]
                 IN IF up >= left THEN up ELSE left
    IN dp

\* The way back through the table.  On a tie the added line comes last.
Step_Backwards(a, b, dp, c) ==                      \* a fault, for mutation
    IF c[1] > 0 /\ c[2] > 0 /\ a[c[1]] = b[c[2]] THEN "equal"
    ELSE IF c[2] > 0 THEN "added" ELSE "removed"
Step_Twice(a, b, dp, c) ==                          \* a fault, for mutation
    IF c[1] > 0 /\ c[2] > 0 /\ (a[c[1]] = b[c[2]] \/ dp[c] = dp[<<c[1] - 1, c[2] - 1>>] + 1)
    THEN "equal"
    ELSE IF c[2] > 0 /\ (c[1] = 0 \/ dp[<<c[1], c[2] - 1>>] >= dp[<<c[1] - 1, c[2]>>])
    THEN "added" ELSE "removed"
Step(a, b, dp, c) ==
    IF c[1] > 0 /\ c[2] > 0 /\ a[c[1]] = b[c[2]] THEN "equal"
    ELSE IF c[2] > 0 /\ (c[1] = 0 \/ dp[<<c[1], c[2] - 1>>] >= dp[<<c[1] - 1, c[2]>>])
    THEN "added" ELSE "removed"
\* What a step leaves to be done, and the line it puts in front of the rest.
Rest(c, kind) ==
    <<IF kind = "added" THEN c[1] ELSE c[1] - 1, IF kind = "removed" THEN c[2] ELSE c[2] - 1>>
Line(a, b, c, kind) == [text |-> IF kind = "added" THEN b[c[2]] ELSE a[c[1]], type |-> kind]
Back(a, b) ==
    LET dp == Table(a, b)
        back[c \in Cells(a, b)] ==
            IF c = <<0, 0>> THEN << >>
            ELSE LET kind == Step(a, b, dp, c)
                 IN Append(back[Rest(c, kind)], Line(a, b, c, kind))
    IN back
ComputeDiff(a, b) == Back(a, b)[<<Len(a), Len(b)>>]

\* The lines of some types (filter).
Filtered(diff, types) ==
    LET of[k \in 0 .. Len(diff)] ==
            IF k = 0 THEN << >>
            ELSE IF diff[k].type \in types THEN Append(of[k - 1], diff[k]) ELSE of[k - 1]
    IN of
OfType(diff, types) == Filtered(diff, types)[Len(diff)]
TextOf(diff) == [k \in DOMAIN diff |-> diff[k].text]

HasChanges == OfType(ComputeDiff(before, after), {"added", "removed"}) # << >>

-----------------------------------------------------------------------------
DiffInit ==
    /\ \/ before \in AllTexts /\ after \in AllTexts
       \/ before = NoDiff /\ after = NoDiff
    /\ unfolded = FALSE
\* Without diff_json there is no viewer.
ToggleDiff ==
    /\ before # NoDiff
    /\ unfolded' = ~unfolded
    /\ UNCHANGED <<before, after>>
DiffSpec == DiffInit /\ [][ToggleDiff]_diffVars
-----------------------------------------------------------------------------
(* Properties.                                                             *)

\* The reference: a text is part of another if its lines occur there, in order.
PartOf(t, s) ==
    \E at \in [1 .. Len(t) -> 1 .. Len(s)] :
        /\ \A i, j \in 1 .. Len(t) : i < j => at[i] < at[j]
        /\ \A i \in 1 .. Len(t) : t[i] = s[at[i]]

\* The lines that are not added are the text before, those that are not
\* removed the text after, and the page marks a change exactly if the two
\* differ (computeDiff, diffStats).
DiffIsFaithful ==
    before # NoDiff =>
        LET diff == ComputeDiff(before, after) IN
        /\ TextOf(OfType(diff, {"equal", "removed"})) = before
        /\ TextOf(OfType(diff, {"equal", "added"})) = after
        /\ HasChanges <=> before # after

\* No smaller difference exists: the equal lines are a longest common
\* subsequence (the table of computeDiff).
DiffIsSmallest ==
    before # NoDiff =>
        LET same == TextOf(OfType(ComputeDiff(before, after), {"equal"})) IN
        /\ PartOf(same, before) /\ PartOf(same, after)
        /\ \A t \in AllTexts :
              PartOf(t, before) /\ PartOf(t, after) => Len(t) <= Len(same)

\* The diff of a result is right: nothing lost, and nothing marked in vain.
DiffIsRight == DiffIsFaithful /\ DiffIsSmallest
=============================================================================
