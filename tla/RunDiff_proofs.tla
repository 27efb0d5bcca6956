--------------------------- MODULE RunDiff_proofs ---------------------------
(***************************************************************************)
(* Theorems about RunDiff: computeDiff is right for any two texts.  The    *)
(* functions of RunDiff are defined by recursion, so each is shown to      *)
(* exist first; what holds of their values is shown cell by cell, away     *)
(* from the origin of the table.                                           *)
(***************************************************************************)
EXTENDS RunDiff, FiniteSetTheorems, SequenceTheorems, TLAPS

-----------------------------------------------------------------------------
(* Induction, over sets in the place of predicates.                        *)

\* A set that has 0 and with each number the next one has all of them: a
\* number it lacked would let the numbers below it that it has be mapped to
\* each other without 0, one hole too few for the pigeons.
LEMMA SetInduction ==
    ASSUME NEW T, 0 \in T, \A n \in Nat : n \in T => n + 1 \in T
    PROVE  Nat \subseteq T
<1> SUFFICES ASSUME NEW n \in Nat, n \notin T PROVE FALSE
  OBVIOUS
<1> DEFINE S == {k \in 0 .. n : k \in T}
<1> DEFINE f == [k \in S |-> k + 1]
<1>1. IsFiniteSet(S) /\ S \in SUBSET Nat
  <2>1. S \in SUBSET Nat /\ \A s \in S : s <= n
    OBVIOUS
  <2> QED
    BY <2>1, FS_BoundedSetOfNaturals
<1>2. f \in [S -> S \ {0}]
  <2>1. ASSUME NEW k \in S PROVE k + 1 \in S \ {0}
    BY <2>1
  <2> QED
    BY <2>1
<1>3. 0 \in S
  OBVIOUS
<1> HIDE DEF S
<1>4. /\ IsFiniteSet(S \ {0}) /\ Cardinality(S) \in Nat
      /\ Cardinality(S \ {0}) = Cardinality(S) - 1
  BY <1>1, <1>3, FS_RemoveElement, FS_CardinalityType
<1>5. PICK x, y \in S : x # y /\ f[x] = f[y]
  <2> HIDE DEF f
  <2>1. Cardinality(S \ {0}) < Cardinality(S)
    BY <1>4
  <2> QED
    BY <1>1, <1>2, <1>4, <2>1, FS_PigeonHole
<1>6. x \in Nat /\ y \in Nat
  BY <1>1
<1>7. f[x] = x + 1 /\ f[y] = y + 1
  OBVIOUS
<1> QED
  BY <1>5, <1>6, <1>7

LEMMA CellFacts ==
    ASSUME NEW a, NEW b, Len(a) \in Nat, Len(b) \in Nat, NEW c \in Cells(a, b)
    PROVE  /\ c = <<c[1], c[2]>> /\ c[1] \in 0 .. Len(a) /\ c[2] \in 0 .. Len(b)
           /\ c[1] \in Nat /\ c[2] \in Nat
  BY DEF Cells

\* A property, as a set, that a cell of the table has if all cells closer to
\* the origin have it.
LEMMA CellInduction ==
    ASSUME NEW a, NEW b, Len(a) \in Nat, Len(b) \in Nat, NEW P,
           \A c \in Cells(a, b) :
               (\A d \in Cells(a, b) : d[1] + d[2] < c[1] + c[2] => d \in P) => c \in P
    PROVE  Cells(a, b) \subseteq P
<1> DEFINE T == {n \in Nat : \A c \in Cells(a, b) : c[1] + c[2] < n => c \in P}
<1>1. 0 \in T
  BY CellFacts
<1>2. ASSUME NEW n \in Nat, n \in T PROVE n + 1 \in T
  <2>1. ASSUME NEW c \in Cells(a, b), c[1] + c[2] < n + 1 PROVE c \in P
    <3>1. \A d \in Cells(a, b) : d[1] + d[2] < c[1] + c[2] => d[1] + d[2] < n
      BY <2>1, CellFacts
    <3> QED
      BY <1>2, <3>1
  <2> QED
    BY <2>1
<1>3. Nat \subseteq T
  <2> HIDE DEF T
  <2> QED
    BY <1>1, <1>2, SetInduction
<1>4. ASSUME NEW c \in Cells(a, b) PROVE c \in P
  <2>1. c[1] + c[2] + 1 \in Nat /\ c[1] + c[2] < c[1] + c[2] + 1
    BY CellFacts
  <2> QED
    BY <1>3, <2>1
<1> QED
  BY <1>4

-----------------------------------------------------------------------------
(* The functions that are defined by recursion exist.                      *)

TableRule(dp, a, b, c) ==
    IF c[1] = 0 \/ c[2] = 0 THEN 0
    ELSE IF a[c[1]] = b[c[2]] THEN dp[<<c[1] - 1, c[2] - 1>>] + 1
    ELSE LET up == dp[<<c[1] - 1, c[2]>>]  left == dp[<<c[1], c[2] - 1>>]
         IN IF up >= left THEN up ELSE left

\* The cells a cell looks at.
LEMMA Neighbours ==
    ASSUME NEW a, NEW b, Len(a) \in Nat, Len(b) \in Nat, NEW c \in Cells(a, b)
    PROVE  /\ c[1] > 0 => /\ <<c[1] - 1, c[2]>> \in Cells(a, b)
                          /\ (c[1] - 1) + c[2] < c[1] + c[2]
           /\ c[2] > 0 => /\ <<c[1], c[2] - 1>> \in Cells(a, b)
                          /\ c[1] + (c[2] - 1) < c[1] + c[2]
           /\ c[1] > 0 /\ c[2] > 0 => /\ <<c[1] - 1, c[2] - 1>> \in Cells(a, b)
                                      /\ (c[1] - 1) + (c[2] - 1) < c[1] + c[2]
<1>1. c[1] \in 0 .. Len(a) /\ c[2] \in 0 .. Len(b)
  BY CellFacts
<1> QED
  BY <1>1 DEF Cells

LEMMA SameBelow ==
    ASSUME NEW a, NEW b, Len(a) \in Nat, Len(b) \in Nat, NEW c \in Cells(a, b),
           NEW g, NEW h, \A d \in Cells(a, b) : d[1] + d[2] < c[1] + c[2] => g[d] = h[d]
    PROVE  TableRule(g, a, b, c) = TableRule(h, a, b, c)
<1>1. c[1] \in Nat /\ c[2] \in Nat
  BY CellFacts
<1>2. \A i, j : <<i, j>>[1] = i /\ <<i, j>>[2] = j
  OBVIOUS
<1>3. /\ c[1] > 0 => g[<<c[1] - 1, c[2]>>] = h[<<c[1] - 1, c[2]>>]
      /\ c[2] > 0 => g[<<c[1], c[2] - 1>>] = h[<<c[1], c[2] - 1>>]
      /\ c[1] > 0 /\ c[2] > 0 => g[<<c[1] - 1, c[2] - 1>>] = h[<<c[1] - 1, c[2] - 1>>]
  BY <1>2, Neighbours
<1> QED
  BY <1>1, <1>3 DEF TableRule

LEMMA TableExists ==
    ASSUME NEW a, NEW b, Len(a) \in Nat, Len(b) \in Nat
    PROVE  \E dp : dp = [c \in Cells(a, b) |-> TableRule(dp, a, b, c)]
<1> DEFINE Upto(g, n) == \A c \in Cells(a, b) : c[1] + c[2] < n => g[c] = TableRule(g, a, b, c)
           IsFcn(g) == g = [c \in Cells(a, b) |-> g[c]]
           T == {n \in Nat : \E g : IsFcn(g) /\ Upto(g, n)}
<1>1. 0 \in T
  <2>1. Upto([c \in Cells(a, b) |-> 0], 0)
    BY CellFacts
  <2>2. IsFcn([c \in Cells(a, b) |-> 0])
    OBVIOUS
  <2> QED
    BY <2>1, <2>2
<1>2. ASSUME NEW n \in Nat, n \in T PROVE n + 1 \in T
  <2>1. PICK g : IsFcn(g) /\ Upto(g, n)
    BY <1>2
  <2> DEFINE h == [c \in Cells(a, b) |->
                     IF c[1] + c[2] = n THEN TableRule(g, a, b, c) ELSE g[c]]
  <2>2. ASSUME NEW c \in Cells(a, b), c[1] + c[2] < n + 1
        PROVE  h[c] = TableRule(h, a, b, c)
    <3>1. \A d \in Cells(a, b) : d[1] + d[2] < c[1] + c[2] => h[d] = g[d]
      BY <2>2, CellFacts
    <3>2. TableRule(h, a, b, c) = TableRule(g, a, b, c)
      <4> HIDE DEF h
      <4> QED
        BY <3>1, SameBelow
    <3>3. CASE c[1] + c[2] = n
      BY <3>2, <3>3
    <3>4. CASE c[1] + c[2] # n
      <4>1. c[1] + c[2] < n
        BY <2>2, <3>4, CellFacts
      <4> QED
        BY <2>1, <3>2, <3>4, <4>1
    <3> QED
      BY <3>3, <3>4
  <2>3. IsFcn(h)
    OBVIOUS
  <2> HIDE DEF h
  <2> QED
    BY <2>2, <2>3
<1>3. Nat \subseteq T
  <2> HIDE DEF T
  <2> QED
    BY <1>1, <1>2, SetInduction
<1>4. PICK g : IsFcn(g) /\ Upto(g, Len(a) + Len(b) + 1)
  BY <1>3
<1>5. \A c \in Cells(a, b) : c[1] + c[2] < Len(a) + Len(b) + 1
  BY CellFacts
<1>6. g = [c \in Cells(a, b) |-> TableRule(g, a, b, c)]
  BY <1>4, <1>5
<1> QED
  BY <1>6

LEMMA TableFact ==
    ASSUME NEW a, NEW b, Len(a) \in Nat, Len(b) \in Nat
    PROVE  Table(a, b) = [c \in Cells(a, b) |-> TableRule(Table(a, b), a, b, c)]
<1> DEFINE Rule(dp) == dp = [c \in Cells(a, b) |-> TableRule(dp, a, b, c)]
<1>1. Table(a, b) = CHOOSE dp : Rule(dp)
  BY DEF Table, TableRule
<1>2. \E dp : Rule(dp)
  BY TableExists
<1> HIDE DEF Rule
<1>3. Rule(CHOOSE dp : Rule(dp))
  BY <1>2, Zenon
<1> QED
  BY <1>1, <1>3 DEF Rule

-----------------------------------------------------------------------------
(* The way back.                                                           *)

BackRule(back, a, b, c) ==
    IF c = <<0, 0>> THEN << >>
    ELSE LET kind == Step(a, b, Table(a, b), c)
         IN Append(back[Rest(c, kind)], Line(a, b, c, kind))

\* What a step takes, and where it leads.
LEMMA Steps ==
    ASSUME NEW a, NEW b, Len(a) \in Nat, Len(b) \in Nat, NEW c \in Cells(a, b), c # <<0, 0>>,
           NEW kind, kind = Step(a, b, Table(a, b), c)
    PROVE  \/ /\ kind = "equal" /\ c[1] > 0 /\ c[2] > 0 /\ a[c[1]] = b[c[2]]
              /\ Rest(c, kind) = <<c[1] - 1, c[2] - 1>>
           \/ /\ kind = "added" /\ c[2] > 0
              /\ c[1] > 0 =>
                     /\ a[c[1]] # b[c[2]]
                     /\ Table(a, b)[<<c[1], c[2] - 1>>] >= Table(a, b)[<<c[1] - 1, c[2]>>]
              /\ Rest(c, kind) = <<c[1], c[2] - 1>>
           \/ /\ kind = "removed" /\ c[1] > 0
              /\ c[2] > 0 =>
                     /\ a[c[1]] # b[c[2]]
                     /\ ~(Table(a, b)[<<c[1], c[2] - 1>>] >= Table(a, b)[<<c[1] - 1, c[2]>>])
              /\ Rest(c, kind) = <<c[1] - 1, c[2]>>
<1>1. c = <<c[1], c[2]>> /\ c[1] \in Nat /\ c[2] \in Nat
  BY CellFacts
<1>2. c[1] > 0 \/ c[2] > 0
  <2>1. ~(c[1] = 0 /\ c[2] = 0)
    BY <1>1
  <2> QED
    BY <1>1, <2>1
<1> QED
  BY <1>1, <1>2 DEF Step, Rest

LEMMA RestIsBelow ==
    ASSUME NEW a, NEW b, Len(a) \in Nat, Len(b) \in Nat, NEW c \in Cells(a, b), c # <<0, 0>>
    PROVE  LET r == Rest(c, Step(a, b, Table(a, b), c))
           IN r \in Cells(a, b) /\ r[1] + r[2] < c[1] + c[2]
<1> DEFINE kind == Step(a, b, Table(a, b), c)
<1>1. \A i, j : <<i, j>>[1] = i /\ <<i, j>>[2] = j
  OBVIOUS
<1>2. \/ c[1] > 0 /\ c[2] > 0 /\ Rest(c, kind) = <<c[1] - 1, c[2] - 1>>
      \/ c[2] > 0 /\ Rest(c, kind) = <<c[1], c[2] - 1>>
      \/ c[1] > 0 /\ Rest(c, kind) = <<c[1] - 1, c[2]>>
  BY Steps
<1> HIDE DEF kind
<1>3. PICK r : r = Rest(c, kind)
  OBVIOUS
<1>4. r \in Cells(a, b) /\ r[1] + r[2] < c[1] + c[2]
  <2>1. CASE c[1] > 0 /\ c[2] > 0 /\ r = <<c[1] - 1, c[2] - 1>>
    BY <1>1, <2>1, Neighbours
  <2>2. CASE c[2] > 0 /\ r = <<c[1], c[2] - 1>>
    BY <1>1, <2>2, Neighbours
  <2>3. CASE c[1] > 0 /\ r = <<c[1] - 1, c[2]>>
    BY <1>1, <2>3, Neighbours
  <2> QED
    BY <1>2, <1>3, <2>1, <2>2, <2>3
<1> QED
  BY <1>3, <1>4 DEF kind

LEMMA BackSameBelow ==
    ASSUME NEW a, NEW b, Len(a) \in Nat, Len(b) \in Nat, NEW c \in Cells(a, b),
           NEW g, NEW h, \A d \in Cells(a, b) : d[1] + d[2] < c[1] + c[2] => g[d] = h[d]
    PROVE  BackRule(g, a, b, c) = BackRule(h, a, b, c)
<1> DEFINE r == Rest(c, Step(a, b, Table(a, b), c))
<1>1. c # <<0, 0>> => g[r] = h[r]
  BY RestIsBelow
<1> QED
  BY <1>1 DEF BackRule

LEMMA BackExists ==
    ASSUME NEW a, NEW b, Len(a) \in Nat, Len(b) \in Nat
    PROVE  \E back : back = [c \in Cells(a, b) |-> BackRule(back, a, b, c)]
<1> DEFINE Upto(g, n) == \A c \in Cells(a, b) : c[1] + c[2] < n => g[c] = BackRule(g, a, b, c)
           IsFcn(g) == g = [c \in Cells(a, b) |-> g[c]]
           T == {n \in Nat : \E g : IsFcn(g) /\ Upto(g, n)}
<1>1. 0 \in T
  <2>1. Upto([c \in Cells(a, b) |-> 0], 0)
    BY CellFacts
  <2>2. IsFcn([c \in Cells(a, b) |-> 0])
    OBVIOUS
  <2> QED
    BY <2>1, <2>2
<1>2. ASSUME NEW n \in Nat, n \in T PROVE n + 1 \in T
  <2>1. PICK g : IsFcn(g) /\ Upto(g, n)
    BY <1>2
  <2> DEFINE h == [c \in Cells(a, b) |->
                     IF c[1] + c[2] = n THEN BackRule(g, a, b, c) ELSE g[c]]
  <2>2. ASSUME NEW c \in Cells(a, b), c[1] + c[2] < n + 1
        PROVE  h[c] = BackRule(h, a, b, c)
    <3>1. \A d \in Cells(a, b) : d[1] + d[2] < c[1] + c[2] => h[d] = g[d]
      BY <2>2, CellFacts
    <3>2. BackRule(h, a, b, c) = BackRule(g, a, b, c)
      <4> HIDE DEF h
      <4> QED
        BY <3>1, BackSameBelow
    <3>3. CASE c[1] + c[2] = n
      BY <3>2, <3>3
    <3>4. CASE c[1] + c[2] # n
      <4>1. c[1] + c[2] < n
        BY <2>2, <3>4, CellFacts
      <4> QED
        BY <2>1, <3>2, <3>4, <4>1
    <3> QED
      BY <3>3, <3>4
  <2>3. IsFcn(h)
    OBVIOUS
  <2> HIDE DEF h
  <2> QED
    BY <2>2, <2>3
<1>3. Nat \subseteq T
  <2> HIDE DEF T
  <2> QED
    BY <1>1, <1>2, SetInduction
<1>4. PICK g : IsFcn(g) /\ Upto(g, Len(a) + Len(b) + 1)
  BY <1>3
<1>5. \A c \in Cells(a, b) : c[1] + c[2] < Len(a) + Len(b) + 1
  BY CellFacts
<1>6. g = [c \in Cells(a, b) |-> BackRule(g, a, b, c)]
  BY <1>4, <1>5
<1> QED
  BY <1>6

LEMMA BackFact ==
    ASSUME NEW a, NEW b, Len(a) \in Nat, Len(b) \in Nat
    PROVE  Back(a, b) = [c \in Cells(a, b) |-> BackRule(Back(a, b), a, b, c)]
<1> DEFINE Rule(back) == back = [c \in Cells(a, b) |-> BackRule(back, a, b, c)]
<1>1. Back(a, b) = CHOOSE back : Rule(back)
  BY DEF Back, BackRule
<1>2. \E back : Rule(back)
  BY BackExists
<1> HIDE DEF Rule
<1>3. Rule(CHOOSE back : Rule(back))
  BY <1>2, Zenon
<1> QED
  BY <1>1, <1>3 DEF Rule

-----------------------------------------------------------------------------
(* The lines of some types.                                                *)

FilterRule(of, diff, types, k) ==
    IF k = 0 THEN << >>
    ELSE IF diff[k].type \in types THEN Append(of[k - 1], diff[k]) ELSE of[k - 1]

IsFilter(of, diff, types, n) == of = [k \in 0 .. n |-> FilterRule(of, diff, types, k)]

LEMMA FilterExists ==
    ASSUME NEW diff, NEW types, NEW m \in Nat
    PROVE  \E of : IsFilter(of, diff, types, m)
<1> DEFINE T == {n \in Nat : \E of : IsFilter(of, diff, types, n)}
<1>1. 0 \in T
  <2> DEFINE of == [k \in 0 .. 0 |-> << >>]
  <2>1. IsFilter(of, diff, types, 0)
    BY DEF IsFilter, FilterRule
  <2> HIDE DEF of
  <2> QED
    BY <2>1
<1>2. ASSUME NEW n \in Nat, n \in T PROVE n + 1 \in T
  <2>1. PICK g : IsFilter(g, diff, types, n)
    BY <1>2
  <2> DEFINE h == [k \in 0 .. n + 1 |->
                     IF k = n + 1 THEN FilterRule(g, diff, types, k) ELSE g[k]]
  <2>2. ASSUME NEW k \in 0 .. n + 1 PROVE h[k] = FilterRule(h, diff, types, k)
    <3>1. k # 0 => h[k - 1] = g[k - 1]
      OBVIOUS
    <3>2. FilterRule(h, diff, types, k) = FilterRule(g, diff, types, k)
      <4> HIDE DEF h
      <4> QED
        BY <3>1 DEF FilterRule
    <3>3. k # n + 1 => g[k] = FilterRule(g, diff, types, k)
      <4>1. k # n + 1 => k \in 0 .. n
        OBVIOUS
      <4> QED
        BY <2>1, <4>1 DEF IsFilter
    <3> QED
      BY <3>2, <3>3
  <2>3. h = [k \in 0 .. n + 1 |-> h[k]]
    OBVIOUS
  <2> HIDE DEF h
  <2>4. IsFilter(h, diff, types, n + 1)
    BY <2>2, <2>3 DEF IsFilter
  <2> QED
    BY <2>4
<1>3. Nat \subseteq T
  <2> HIDE DEF T
  <2> QED
    BY <1>1, <1>2, SetInduction
<1> QED
  BY <1>3

LEMMA FilterFact ==
    ASSUME NEW diff, NEW types, Len(diff) \in Nat, NEW k \in 0 .. Len(diff)
    PROVE  Filtered(diff, types)[k] = FilterRule(Filtered(diff, types), diff, types, k)
<1>1. Filtered(diff, types) = CHOOSE of : IsFilter(of, diff, types, Len(diff))
  BY DEF Filtered, FilterRule, IsFilter
<1>2. \E of : IsFilter(of, diff, types, Len(diff))
  BY FilterExists
<1>3. IsFilter(CHOOSE of : IsFilter(of, diff, types, Len(diff)), diff, types, Len(diff))
  BY <1>2, Zenon
<1> QED
  BY <1>1, <1>3 DEF IsFilter

\* How far two sequences of lines are the same, their lines of some types are.
LEMMA FilterAgrees ==
    ASSUME NEW d, NEW e, NEW types, Len(d) \in Nat, Len(e) \in Nat, Len(d) <= Len(e),
           \A i \in 1 .. Len(d) : d[i] = e[i]
    PROVE  Filtered(e, types)[Len(d)] = OfType(d, types)
<1> DEFINE T == {n \in Nat : n <= Len(d) => Filtered(e, types)[n] = Filtered(d, types)[n]}
<1>1. 0 \in T
  BY FilterFact DEF FilterRule
<1>2. ASSUME NEW n \in Nat, n \in T PROVE n + 1 \in T
  <2>1. SUFFICES ASSUME n + 1 <= Len(d)
                 PROVE  Filtered(e, types)[n + 1] = Filtered(d, types)[n + 1]
    OBVIOUS
  <2>2. /\ n + 1 \in 0 .. Len(d) /\ n + 1 \in 0 .. Len(e) /\ n + 1 # 0 /\ (n + 1) - 1 = n
        /\ d[n + 1] = e[n + 1] /\ Filtered(e, types)[n] = Filtered(d, types)[n]
    BY <1>2, <2>1
  <2>3. /\ Filtered(e, types)[n + 1] = FilterRule(Filtered(e, types), e, types, n + 1)
        /\ Filtered(d, types)[n + 1] = FilterRule(Filtered(d, types), d, types, n + 1)
    BY <2>2, FilterFact
  <2> QED
    BY <2>2, <2>3 DEF FilterRule
<1>3. Nat \subseteq T
  <2> HIDE DEF T
  <2> QED
    BY <1>1, <1>2, SetInduction
<1> QED
  BY <1>3 DEF OfType

DiffLine == [text : Lines, type : {"equal", "added", "removed"}]

LEMMA OfTypeEmpty == \A types : OfType(<< >>, types) = << >>
<1>1. Len(<< >>) = 0 /\ Len(<< >>) \in Nat
  OBVIOUS
<1> QED
  BY <1>1, FilterFact DEF OfType, FilterRule

LEMMA OfTypeAppend ==
    ASSUME NEW d \in Seq(DiffLine), NEW l \in DiffLine, NEW types
    PROVE  OfType(Append(d, l), types) =
               IF l.type \in types THEN Append(OfType(d, types), l) ELSE OfType(d, types)
<1> DEFINE e == Append(d, l)
<1>1. /\ Len(d) \in Nat /\ Len(e) = Len(d) + 1 /\ e[Len(e)] = l
      /\ \A i \in 1 .. Len(d) : e[i] = d[i]
  OBVIOUS
<1> HIDE DEF e
<1>2. Filtered(e, types)[Len(d)] = OfType(d, types)
  BY <1>1, FilterAgrees
<1>3. Filtered(e, types)[Len(e)] = FilterRule(Filtered(e, types), e, types, Len(e))
  BY <1>1, FilterFact
<1>4. OfType(e, types) =
          IF l.type \in types THEN Append(OfType(d, types), l) ELSE OfType(d, types)
  BY <1>1, <1>2, <1>3 DEF OfType, FilterRule
<1> QED
  BY <1>4 DEF e

LEMMA OfTypeSeq ==
    ASSUME NEW d \in Seq(DiffLine), NEW types
    PROVE  OfType(d, types) \in Seq(DiffLine)
<1> DEFINE T == {n \in Nat : n <= Len(d) => Filtered(d, types)[n] \in Seq(DiffLine)}
<1>1. Len(d) \in Nat /\ \A i \in 1 .. Len(d) : d[i] \in DiffLine
  OBVIOUS
<1>2. 0 \in T
  <2>1. Filtered(d, types)[0] = << >>
    BY <1>1, FilterFact DEF FilterRule
  <2>2. << >> \in Seq(DiffLine)
    BY EmptySeq
  <2> QED
    BY <2>1, <2>2
<1>3. ASSUME NEW n \in Nat, n \in T PROVE n + 1 \in T
  <2>1. SUFFICES ASSUME n + 1 <= Len(d) PROVE Filtered(d, types)[n + 1] \in Seq(DiffLine)
    OBVIOUS
  <2>2. /\ n + 1 \in 0 .. Len(d) /\ n + 1 # 0 /\ (n + 1) - 1 = n
        /\ d[n + 1] \in DiffLine /\ Filtered(d, types)[n] \in Seq(DiffLine)
    BY <1>1, <1>3, <2>1
  <2>3. Filtered(d, types)[n + 1] = FilterRule(Filtered(d, types), d, types, n + 1)
    BY <1>1, <2>2, FilterFact
  <2> HIDE DEF T
  <2> QED
    BY <2>2, <2>3 DEF FilterRule
<1>4. Nat \subseteq T
  <2> HIDE DEF T
  <2> QED
    BY <1>2, <1>3, SetInduction
<1> QED
  BY <1>1, <1>4 DEF OfType

LEMMA TextOfEmpty == TextOf(<< >>) = << >>
  BY DEF TextOf

LEMMA TextOfAppend ==
    ASSUME NEW d \in Seq(DiffLine), NEW l \in DiffLine
    PROVE  /\ TextOf(d) \in Seq(Lines) /\ Len(TextOf(d)) = Len(d)
           /\ TextOf(Append(d, l)) = Append(TextOf(d), l.text)
<1>1. ASSUME NEW e \in Seq(DiffLine) PROVE TextOf(e) \in Seq(Lines) /\ Len(TextOf(e)) = Len(e)
  <2>1. DOMAIN e = 1 .. Len(e) /\ Len(e) \in Nat /\ \A i \in 1 .. Len(e) : e[i] \in DiffLine
    OBVIOUS
  <2>2. TextOf(e) \in [1 .. Len(e) -> Lines]
    BY <2>1 DEF TextOf, DiffLine
  <2> QED
    BY <2>1, <2>2, LenProperties, SeqDef
<1>2. Append(d, l) \in Seq(DiffLine) /\ Len(Append(d, l)) = Len(d) + 1
  OBVIOUS
<1>3. l.text \in Lines
  BY DEF DiffLine
<1>4. Append(TextOf(d), l.text) \in Seq(Lines) /\ Len(Append(TextOf(d), l.text)) = Len(d) + 1
  BY <1>1, <1>3
<1>5. ASSUME NEW i \in 1 .. Len(d) + 1
      PROVE  TextOf(Append(d, l))[i] = Append(TextOf(d), l.text)[i]
  <2>1. TextOf(Append(d, l))[i] = Append(d, l)[i].text
    BY <1>2 DEF TextOf
  <2>2. i \in 1 .. Len(d) => TextOf(d)[i] = d[i].text
    BY DEF TextOf
  <2> QED
    BY <1>1, <1>3, <2>1, <2>2
<1>6. TextOf(Append(d, l)) = Append(TextOf(d), l.text)
  <2> DEFINE u == TextOf(Append(d, l))  v == Append(TextOf(d), l.text)
  <2>1. u \in Seq(Lines) /\ v \in Seq(Lines) /\ Len(u) = Len(d) + 1 /\ Len(v) = Len(d) + 1
    BY <1>1, <1>2, <1>4
  <2>2. \A i \in 1 .. Len(d) + 1 : u[i] = v[i]
    BY <1>5
  <2> HIDE DEF u, v
  <2>3. u = v
    BY <2>1, <2>2, SeqEqual
  <2> QED
    BY <2>3 DEF u, v
<1> QED
  BY <1>1, <1>6

-----------------------------------------------------------------------------
(* What two texts have in common.                                          *)

First(s, n) == [i \in 1 .. n |-> s[i]]

\* t is part of the first n lines of s, which the function at tells apart.
Places(at, t, s, n) ==
    /\ at \in [1 .. Len(t) -> 1 .. n]
    /\ \A i, j \in 1 .. Len(t) : i < j => at[i] < at[j]
    /\ \A i \in 1 .. Len(t) : t[i] = s[at[i]]
Within(t, s, n) == \E at : Places(at, t, s, n)

LEMMA WithinMore ==
    ASSUME NEW t, NEW s, NEW m \in Nat, NEW n \in Nat, m <= n, Within(t, s, m)
    PROVE  Within(t, s, n)
  BY DEF Within, Places

LEMMA WithinAppend ==
    ASSUME NEW t \in Seq(Lines), NEW s, NEW n \in Nat, Within(t, s, n), s[n + 1] \in Lines
    PROVE  Within(Append(t, s[n + 1]), s, n + 1)
<1> DEFINE u == Append(t, s[n + 1])
<1>1. PICK at : Places(at, t, s, n)
  BY DEF Within
<1> DEFINE to == [i \in 1 .. Len(t) + 1 |-> IF i = Len(t) + 1 THEN n + 1 ELSE at[i]]
<1>2. /\ Len(t) \in Nat /\ Len(u) = Len(t) + 1 /\ u[Len(t) + 1] = s[n + 1]
      /\ \A i \in 1 .. Len(t) : u[i] = t[i]
  OBVIOUS
<1> HIDE DEF u
<1>3. \A i \in 1 .. Len(t) : at[i] \in 1 .. n
  BY <1>1 DEF Places
<1>4. to \in [1 .. Len(u) -> 1 .. n + 1]
  BY <1>2, <1>3
<1>5. ASSUME NEW i \in 1 .. Len(u), NEW j \in 1 .. Len(u), i < j PROVE to[i] < to[j]
  <2>1. i \in 1 .. Len(t) /\ to[i] = at[i]
    BY <1>2, <1>5
  <2>2. CASE j = Len(t) + 1
    BY <1>2, <1>3, <2>1, <2>2
  <2>3. CASE j # Len(t) + 1
    <3>1. j \in 1 .. Len(t) /\ to[j] = at[j]
      BY <1>2, <2>3
    <3> QED
      BY <1>1, <1>5, <2>1, <3>1 DEF Places
  <2> QED
    BY <2>2, <2>3
<1>6. \A i \in 1 .. Len(u) : u[i] = s[to[i]]
  BY <1>1, <1>2, <1>3 DEF Places
<1> HIDE DEF to
<1>7. Places(to, u, s, n + 1)
  BY <1>4, <1>5, <1>6 DEF Places
<1> QED
  BY <1>7 DEF Within, u

\* Without the last line of t, or without a last line of s that t does not
\* end with, t is part of less.
AllButLast(t) == First(t, Len(t) - 1)

LEMMA FrontFacts ==
    ASSUME NEW t \in Seq(Lines), t # << >>
    PROVE  /\ Len(t) \in Nat \ {0}
           /\ AllButLast(t) \in Seq(Lines) /\ Len(AllButLast(t)) = Len(t) - 1
           /\ \A i \in 1 .. Len(t) - 1 : AllButLast(t)[i] = t[i]
<1>1. Len(t) \in Nat \ {0} /\ \A i \in 1 .. Len(t) : t[i] \in Lines
  BY EmptySeq
<1> DEFINE m == Len(t) - 1
<1>2. m \in Nat /\ m <= Len(t)
  BY <1>1
<1>3. AllButLast(t) = [i \in 1 .. m |-> t[i]] /\ AllButLast(t) \in [1 .. m -> Lines]
  BY <1>1, <1>2 DEF AllButLast, First
<1> HIDE DEF m
<1>4. AllButLast(t) \in Seq(Lines) /\ Len(AllButLast(t)) = m
  BY <1>2, <1>3
<1> QED
  BY <1>1, <1>3, <1>4 DEF m

LEMMA WithinFront ==
    ASSUME NEW t \in Seq(Lines), t # << >>, NEW s, NEW n \in Nat, Within(t, s, n)
    PROVE  n > 0 /\ Within(AllButLast(t), s, n - 1)
<1>1. PICK at : Places(at, t, s, n)
  BY DEF Within
<1>2. Len(t) \in Nat \ {0} /\ Len(AllButLast(t)) = Len(t) - 1
  BY FrontFacts
<1>3. /\ at[Len(t)] \in 1 .. n
      /\ \A i \in 1 .. Len(t) - 1 : at[i] \in 1 .. n /\ at[i] < at[Len(t)]
  BY <1>1, <1>2 DEF Places
<1> DEFINE to == [i \in 1 .. Len(t) - 1 |-> at[i]]
<1>4. Places(to, AllButLast(t), s, n - 1)
  <2>1. to \in [1 .. Len(AllButLast(t)) -> 1 .. n - 1]
    BY <1>2, <1>3
  <2>2. \A i, j \in 1 .. Len(AllButLast(t)) : i < j => to[i] < to[j]
    BY <1>1, <1>2 DEF Places
  <2>3. \A i \in 1 .. Len(AllButLast(t)) : AllButLast(t)[i] = s[to[i]]
    BY <1>1, <1>2, FrontFacts DEF Places
  <2> HIDE DEF to
  <2> QED
    BY <2>1, <2>2, <2>3 DEF Places
<1> HIDE DEF to
<1> QED
  BY <1>3, <1>4 DEF Within

LEMMA WithinLess ==
    ASSUME NEW t \in Seq(Lines), t # << >>, NEW s, NEW n \in Nat, Within(t, s, n),
           t[Len(t)] # s[n]
    PROVE  Within(t, s, n - 1)
<1>1. PICK at : Places(at, t, s, n)
  BY DEF Within
<1>2. Len(t) \in Nat \ {0}
  BY FrontFacts
<1>3. at[Len(t)] \in 1 .. n /\ at[Len(t)] # n
  BY <1>1, <1>2 DEF Places
<1>4. \A i \in 1 .. Len(t) : at[i] \in 1 .. n - 1
  BY <1>1, <1>2, <1>3 DEF Places
<1>5. at \in [1 .. Len(t) -> 1 .. n - 1]
  BY <1>1, <1>4 DEF Places
<1> QED
  BY <1>1, <1>5 DEF Within, Places

LEMMA TableType ==
    ASSUME NEW a \in Seq(Lines), NEW b \in Seq(Lines)
    PROVE  \A c \in Cells(a, b) : Table(a, b)[c] \in Nat
<1> DEFINE P == {c \in Cells(a, b) : Table(a, b)[c] \in Nat}
<1>1. Len(a) \in Nat /\ Len(b) \in Nat
  OBVIOUS
<1>2. ASSUME NEW c \in Cells(a, b),
             \A d \in Cells(a, b) : d[1] + d[2] < c[1] + c[2] => d \in P
      PROVE  c \in P
  <2>1. Table(a, b)[c] = TableRule(Table(a, b), a, b, c)
    BY <1>1, TableFact
  <2>2. c[1] \in Nat /\ c[2] \in Nat
    BY <1>1, CellFacts
  <2>3. \A i, j : <<i, j>>[1] = i /\ <<i, j>>[2] = j
    OBVIOUS
  <2>4. /\ c[1] > 0 => Table(a, b)[<<c[1] - 1, c[2]>>] \in Nat
        /\ c[2] > 0 => Table(a, b)[<<c[1], c[2] - 1>>] \in Nat
        /\ c[1] > 0 /\ c[2] > 0 => Table(a, b)[<<c[1] - 1, c[2] - 1>>] \in Nat
    BY <1>1, <1>2, <2>3, Neighbours
  <2> QED
    BY <2>1, <2>2, <2>4 DEF TableRule
<1>3. Cells(a, b) \subseteq P
  <2> HIDE DEF P
  <2> QED
    BY <1>1, <1>2, CellInduction
<1> QED
  BY <1>3

\* The table is right: no text that is part of both is longer than it says.
LEMMA TableBound ==
    ASSUME NEW a \in Seq(Lines), NEW b \in Seq(Lines)
    PROVE  \A c \in Cells(a, b), t \in Seq(Lines) :
               Within(t, a, c[1]) /\ Within(t, b, c[2]) => Len(t) <= Table(a, b)[c]
<1> DEFINE dp == Table(a, b)
           P == {c \in Cells(a, b) : \A t \in Seq(Lines) :
                     Within(t, a, c[1]) /\ Within(t, b, c[2]) => Len(t) <= dp[c]}
<1>1. Len(a) \in Nat /\ Len(b) \in Nat
  OBVIOUS
<1>2. ASSUME NEW c \in Cells(a, b),
             \A d \in Cells(a, b) : d[1] + d[2] < c[1] + c[2] => d \in P
      PROVE  c \in P
  <2> SUFFICES ASSUME NEW t \in Seq(Lines), Within(t, a, c[1]), Within(t, b, c[2])
               PROVE  Len(t) <= dp[c]
    OBVIOUS
  <2>1. dp[c] = TableRule(dp, a, b, c) /\ dp[c] \in Nat
    BY <1>1, TableFact, TableType
  <2>2. c[1] \in Nat /\ c[2] \in Nat
    BY <1>1, CellFacts
  <2>3. \A i, j : <<i, j>>[1] = i /\ <<i, j>>[2] = j
    OBVIOUS
  <2>4. CASE t = << >>
    BY <2>1, <2>4
  <2>5. CASE t # << >>
    <3>1. c[1] > 0 /\ c[2] > 0
      BY <2>2, <2>5, WithinFront
    <3>2. /\ Within(AllButLast(t), a, c[1] - 1) /\ Within(AllButLast(t), b, c[2] - 1)
          /\ AllButLast(t) \in Seq(Lines) /\ Len(AllButLast(t)) = Len(t) - 1
          /\ Len(t) \in Nat \ {0}
      BY <2>2, <2>5, WithinFront, FrontFacts
    <3>3. /\ dp[<<c[1] - 1, c[2]>>] \in Nat /\ dp[<<c[1], c[2] - 1>>] \in Nat
          /\ dp[<<c[1] - 1, c[2] - 1>>] \in Nat
      BY <1>1, <3>1, Neighbours, TableType
    <3>4. CASE a[c[1]] = b[c[2]]
      <4>1. Len(AllButLast(t)) <= dp[<<c[1] - 1, c[2] - 1>>]
        BY <1>1, <1>2, <2>3, <3>1, <3>2, Neighbours
      <4>2. dp[c] = dp[<<c[1] - 1, c[2] - 1>>] + 1
        BY <2>1, <2>2, <3>1, <3>4 DEF TableRule
      <4> QED
        BY <3>2, <3>3, <4>1, <4>2
    <3>5. CASE a[c[1]] # b[c[2]]
      <4>1. dp[c] >= dp[<<c[1] - 1, c[2]>>] /\ dp[c] >= dp[<<c[1], c[2] - 1>>]
        BY <2>1, <2>2, <3>1, <3>3, <3>5 DEF TableRule
      <4>2. CASE t[Len(t)] # a[c[1]]
        <5>1. Within(t, a, c[1] - 1)
          BY <2>2, <2>5, <4>2, WithinLess
        <5>2. Len(t) <= dp[<<c[1] - 1, c[2]>>]
          BY <1>1, <1>2, <2>3, <3>1, <5>1, Neighbours
        <5> QED
          BY <2>1, <3>2, <3>3, <4>1, <5>2
      <4>3. CASE t[Len(t)] # b[c[2]]
        <5>1. Within(t, b, c[2] - 1)
          BY <2>2, <2>5, <4>3, WithinLess
        <5>2. Len(t) <= dp[<<c[1], c[2] - 1>>]
          BY <1>1, <1>2, <2>3, <3>1, <5>1, Neighbours
        <5> QED
          BY <2>1, <3>2, <3>3, <4>1, <5>2
      <4> QED
        BY <3>5, <4>2, <4>3
    <3> QED
      BY <3>4, <3>5
  <2> QED
    BY <2>4, <2>5
<1>3. Cells(a, b) \subseteq P
  <2> HIDE DEF P
  <2> QED
    BY <1>1, <1>2, CellInduction
<1> QED
  BY <1>3

-----------------------------------------------------------------------------
(* The difference is right.                                                *)

LEMMA FirstAppend ==
    ASSUME NEW s \in Seq(Lines), NEW n \in Nat, n < Len(s)
    PROVE  /\ First(s, n) \in Seq(Lines) /\ Len(First(s, n)) = n
           /\ First(s, n + 1) = Append(First(s, n), s[n + 1]) /\ s[n + 1] \in Lines
<1>1. \A i \in 1 .. Len(s) : s[i] \in Lines
  OBVIOUS
<1>2. ASSUME NEW m \in Nat, m <= Len(s) PROVE First(s, m) \in Seq(Lines) /\ Len(First(s, m)) = m
  <2>1. First(s, m) \in [1 .. m -> Lines]
    BY <1>1, <1>2 DEF First
  <2> QED
    BY <2>1
<1>3. s[n + 1] \in Lines
  BY <1>1
<1> DEFINE u == First(s, n + 1)  v == Append(First(s, n), s[n + 1])
<1>4. u \in Seq(Lines) /\ v \in Seq(Lines) /\ Len(u) = n + 1 /\ Len(v) = n + 1
  BY <1>2, <1>3
<1>5. \A i \in 1 .. n + 1 : u[i] = v[i]
  BY <1>2, <1>3 DEF First
<1>6. u = v
  <2> HIDE DEF u, v
  <2> QED
    BY <1>4, <1>5, SeqEqual
<1> QED
  BY <1>2, <1>3, <1>6

\* What holds of the difference d of the first c[1] lines of a and the first
\* c[2] lines of b.
Same(d) == TextOf(OfType(d, {"equal"}))
Marked(d) == OfType(d, {"added", "removed"}) # << >>
Right(d, a, b, c) ==
    /\ d \in Seq(DiffLine)
    /\ TextOf(OfType(d, {"equal", "removed"})) = First(a, c[1])
    /\ TextOf(OfType(d, {"equal", "added"})) = First(b, c[2])
    /\ Len(Same(d)) = Table(a, b)[c]
    /\ Within(Same(d), a, c[1]) /\ Within(Same(d), b, c[2])
    /\ ~Marked(d) => First(a, c[1]) = First(b, c[2])
    /\ a = b /\ c[1] = c[2] => ~Marked(d)

LEMMA NothingIsRight ==
    ASSUME NEW a \in Seq(Lines), NEW b \in Seq(Lines)
    PROVE  Right(<< >>, a, b, <<0, 0>>)
<1>1. <<0, 0>> \in Cells(a, b) /\ <<0, 0>>[1] = 0 /\ <<0, 0>>[2] = 0
  BY DEF Cells
<1>2. Table(a, b)[<<0, 0>>] = 0
  <2>1. Len(a) \in Nat /\ Len(b) \in Nat
    OBVIOUS
  <2>2. Table(a, b)[<<0, 0>>] = TableRule(Table(a, b), a, b, <<0, 0>>)
    BY <1>1, <2>1, TableFact
  <2> QED
    BY <1>1, <2>2 DEF TableRule
<1>3. \A s : First(s, 0) = << >>
  BY DEF First
<1>4. Same(<< >>) = << >> /\ ~Marked(<< >>)
  BY OfTypeEmpty, TextOfEmpty DEF Same, Marked
<1>5. \A s : Within(<< >>, s, 0)
  <2> SUFFICES ASSUME NEW s PROVE Places(<< >>, << >>, s, 0)
    BY DEF Within
  <2> QED
    BY DEF Places
<1>6. << >> \in Seq(DiffLine)
  BY EmptySeq
<1> QED
  BY <1>1, <1>2, <1>3, <1>4, <1>5, <1>6, OfTypeEmpty, TextOfEmpty DEF Right

\* The texts of a difference with one more line.
LEMMA MoreText ==
    ASSUME NEW d \in Seq(DiffLine), NEW l \in DiffLine, NEW types
    PROVE  /\ TextOf(OfType(d, types)) \in Seq(Lines)
           /\ TextOf(OfType(Append(d, l), types)) =
                  IF l.type \in types THEN Append(TextOf(OfType(d, types)), l.text)
                                      ELSE TextOf(OfType(d, types))
  BY OfTypeAppend, OfTypeSeq, TextOfAppend

LEMMA MoreMarks ==
    ASSUME NEW d \in Seq(DiffLine), NEW l \in DiffLine
    PROVE  Marked(Append(d, l)) <=> Marked(d) \/ l.type \in {"added", "removed"}
<1>1. OfType(d, {"added", "removed"}) \in Seq(DiffLine)
  BY OfTypeSeq
<1>2. Append(OfType(d, {"added", "removed"}), l) # << >>
  BY <1>1, AppendProperties
<1> QED
  BY <1>2, OfTypeAppend DEF Marked

\* A cell is right if the cell that its step leads to is right.
LEMMA StepIsRight ==
    ASSUME NEW a \in Seq(Lines), NEW b \in Seq(Lines), NEW c \in Cells(a, b), c # <<0, 0>>,
           NEW kind, kind = Step(a, b, Table(a, b), c),
           NEW d, Right(d, a, b, Rest(c, kind))
    PROVE  Right(Append(d, Line(a, b, c, kind)), a, b, c)
<1> DEFINE l == Line(a, b, c, kind)  e == Append(d, l)  i == c[1] - 1  j == c[2] - 1
           dp == Table(a, b)
<1>1. Len(a) \in Nat /\ Len(b) \in Nat
  OBVIOUS
<1>2. c = <<c[1], c[2]>> /\ c[1] \in 0 .. Len(a) /\ c[2] \in 0 .. Len(b)
  BY <1>1, CellFacts
<1>3. \A p, q : <<p, q>>[1] = p /\ <<p, q>>[2] = q
  OBVIOUS
<1>4. c[1] > 0 => /\ i \in Nat /\ i < Len(a) /\ i + 1 = c[1] /\ a[c[1]] \in Lines
                  /\ First(a, c[1]) = Append(First(a, i), a[c[1]])
  <2> SUFFICES ASSUME c[1] > 0
               PROVE  /\ i \in Nat /\ i < Len(a) /\ i + 1 = c[1] /\ a[c[1]] \in Lines
                      /\ First(a, c[1]) = Append(First(a, i), a[c[1]])
    OBVIOUS
  <2>1. i \in Nat /\ i < Len(a) /\ i + 1 = c[1]
    BY <1>2
  <2> QED
    BY <2>1, FirstAppend
<1>5. c[2] > 0 => /\ j \in Nat /\ j < Len(b) /\ j + 1 = c[2] /\ b[c[2]] \in Lines
                  /\ First(b, c[2]) = Append(First(b, j), b[c[2]])
  <2> SUFFICES ASSUME c[2] > 0
               PROVE  /\ j \in Nat /\ j < Len(b) /\ j + 1 = c[2] /\ b[c[2]] \in Lines
                      /\ First(b, c[2]) = Append(First(b, j), b[c[2]])
    OBVIOUS
  <2>1. j \in Nat /\ j < Len(b) /\ j + 1 = c[2]
    BY <1>2
  <2> QED
    BY <2>1, FirstAppend
<1>6. d \in Seq(DiffLine)
  BY DEF Right
<1>7. dp[c] = TableRule(dp, a, b, c)
  BY <1>1, TableFact
<1>8. CASE /\ kind = "equal" /\ c[1] > 0 /\ c[2] > 0 /\ a[c[1]] = b[c[2]]
           /\ Rest(c, kind) = <<i, j>>
  <2>1. l \in DiffLine /\ l.type = "equal" /\ l.text = a[c[1]]
    BY <1>4, <1>8 DEF Line, DiffLine
  <2>2. Right(d, a, b, <<i, j>>)
    BY <1>8
  <2> HIDE DEF l, i, j
  <2>3. e \in Seq(DiffLine)
    BY <1>6, <2>1
  <2>4. TextOf(OfType(e, {"equal", "removed"})) = First(a, c[1])
    <3>1. TextOf(OfType(d, {"equal", "removed"})) = First(a, i)
      BY <1>3, <2>2 DEF Right
    <3>2. TextOf(OfType(e, {"equal", "removed"})) =
              Append(TextOf(OfType(d, {"equal", "removed"})), l.text)
      BY <1>6, <2>1, MoreText
    <3> QED
      BY <1>4, <1>8, <2>1, <3>1, <3>2
  <2>5. TextOf(OfType(e, {"equal", "added"})) = First(b, c[2])
    <3>1. TextOf(OfType(d, {"equal", "added"})) = First(b, j)
      BY <1>3, <2>2 DEF Right
    <3>2. TextOf(OfType(e, {"equal", "added"})) =
              Append(TextOf(OfType(d, {"equal", "added"})), l.text)
      BY <1>6, <2>1, MoreText
    <3> QED
      BY <1>5, <1>8, <2>1, <3>1, <3>2
  <2>6. Same(d) \in Seq(Lines) /\ Same(e) = Append(Same(d), a[c[1]])
    BY <1>6, <2>1, MoreText DEF Same
  <2>7. Len(Same(e)) = dp[c]
    <3>1. Len(Same(e)) = Len(Same(d)) + 1
      BY <1>4, <1>8, <2>6
    <3>2. dp[c] = dp[<<i, j>>] + 1
      BY <1>2, <1>7, <1>8 DEF TableRule, i, j
    <3> QED
      BY <2>2, <3>1, <3>2 DEF Right
  <2>8. Within(Same(e), a, c[1]) /\ Within(Same(e), b, c[2])
    <3>1. Within(Same(d), a, i) /\ Within(Same(d), b, j)
      BY <1>3, <2>2 DEF Right
    <3>2. /\ Within(Append(Same(d), a[i + 1]), a, i + 1)
          /\ Within(Append(Same(d), b[j + 1]), b, j + 1)
      BY <1>4, <1>5, <1>8, <2>6, <3>1, WithinAppend
    <3> QED
      BY <1>4, <1>5, <1>8, <2>6, <3>2
  <2>9. Marked(e) <=> Marked(d)
    BY <1>6, <2>1, MoreMarks
  <2>10. ~Marked(e) => First(a, c[1]) = First(b, c[2])
    BY <1>3, <1>4, <1>5, <1>8, <2>2, <2>9 DEF Right
  <2>11. a = b /\ c[1] = c[2] => ~Marked(e)
    BY <1>3, <1>8, <2>2, <2>9 DEF Right, i, j
  <2> HIDE DEF e
  <2>12. Right(e, a, b, c)
    BY <2>3, <2>4, <2>5, <2>7, <2>8, <2>10, <2>11 DEF Right
  <2> QED
    BY <2>12 DEF e, l
<1>9. CASE /\ kind = "added" /\ c[2] > 0
           /\ c[1] > 0 => a[c[1]] # b[c[2]] /\ dp[<<c[1], j>>] >= dp[<<i, c[2]>>]
           /\ Rest(c, kind) = <<c[1], j>>
  <2>1. l \in DiffLine /\ l.type = "added" /\ l.text = b[c[2]]
    BY <1>5, <1>9 DEF Line, DiffLine
  <2>2. Right(d, a, b, <<c[1], j>>)
    BY <1>9
  <2> HIDE DEF l, j
  <2>3. e \in Seq(DiffLine)
    BY <1>6, <2>1
  <2>4. TextOf(OfType(e, {"equal", "removed"})) = First(a, c[1])
    BY <1>3, <1>6, <2>1, <2>2, MoreText DEF Right
  <2>5. TextOf(OfType(e, {"equal", "added"})) = First(b, c[2])
    <3>1. TextOf(OfType(d, {"equal", "added"})) = First(b, j)
      BY <1>3, <2>2 DEF Right
    <3>2. TextOf(OfType(e, {"equal", "added"})) =
              Append(TextOf(OfType(d, {"equal", "added"})), l.text)
      BY <1>6, <2>1, MoreText
    <3> QED
      BY <1>5, <1>9, <2>1, <3>1, <3>2
  <2>6. Same(e) = Same(d)
    BY <1>6, <2>1, MoreText DEF Same
  <2>7. Len(Same(e)) = dp[c]
    <3>1. <<c[1], j>> \in Cells(a, b) /\ dp[<<c[1], j>>] \in Nat
      BY <1>1, <1>9, Neighbours, TableType DEF j
    <3>2. c[1] > 0 => dp[<<i, c[2]>>] \in Nat
      BY <1>1, Neighbours, TableType
    <3>3. dp[c] = dp[<<c[1], j>>]
      <4>1. CASE c[1] = 0
        <5>1. dp[<<c[1], j>>] = TableRule(dp, a, b, <<c[1], j>>)
          BY <1>1, <3>1, TableFact
        <5> QED
          BY <1>3, <1>7, <4>1, <5>1 DEF TableRule
      <4>2. CASE c[1] # 0
        <5>1. c[1] > 0 /\ c[2] # 0
          BY <1>2, <1>9, <4>2
        <5> QED
          BY <1>7, <1>9, <3>1, <3>2, <4>2, <5>1 DEF TableRule, j
      <4> QED
        BY <4>1, <4>2
    <3> QED
      BY <2>2, <2>6, <3>3 DEF Right
  <2>8. Within(Same(e), a, c[1]) /\ Within(Same(e), b, c[2])
    <3>1. Within(Same(d), a, c[1]) /\ Within(Same(d), b, j)
      BY <1>3, <2>2 DEF Right
    <3>2. j \in Nat /\ c[2] \in Nat /\ j <= c[2]
      BY <1>2, <1>5, <1>9
    <3> QED
      BY <2>6, <3>1, <3>2, WithinMore
  <2>9. Marked(e)
    BY <1>6, <2>1, MoreMarks
  <2>10. a = b /\ c[1] = c[2] => FALSE
    BY <1>9
  <2> HIDE DEF e
  <2>11. Right(e, a, b, c)
    BY <2>3, <2>4, <2>5, <2>7, <2>8, <2>9, <2>10 DEF Right
  <2> QED
    BY <2>11 DEF e, l
<1>10. CASE /\ kind = "removed" /\ c[1] > 0
            /\ c[2] > 0 => a[c[1]] # b[c[2]] /\ ~(dp[<<c[1], j>>] >= dp[<<i, c[2]>>])
            /\ Rest(c, kind) = <<i, c[2]>>
  <2>1. l \in DiffLine /\ l.type = "removed" /\ l.text = a[c[1]]
    BY <1>4, <1>10 DEF Line, DiffLine
  <2>2. Right(d, a, b, <<i, c[2]>>)
    BY <1>10
  <2> HIDE DEF l, i
  <2>3. e \in Seq(DiffLine)
    BY <1>6, <2>1
  <2>4. TextOf(OfType(e, {"equal", "removed"})) = First(a, c[1])
    <3>1. TextOf(OfType(d, {"equal", "removed"})) = First(a, i)
      BY <1>3, <2>2 DEF Right
    <3>2. TextOf(OfType(e, {"equal", "removed"})) =
              Append(TextOf(OfType(d, {"equal", "removed"})), l.text)
      BY <1>6, <2>1, MoreText
    <3> QED
      BY <1>4, <1>10, <2>1, <3>1, <3>2
  <2>5. TextOf(OfType(e, {"equal", "added"})) = First(b, c[2])
    BY <1>3, <1>6, <2>1, <2>2, MoreText DEF Right
  <2>6. Same(e) = Same(d)
    BY <1>6, <2>1, MoreText DEF Same
  <2>7. Len(Same(e)) = dp[c]
    <3>1. <<i, c[2]>> \in Cells(a, b) /\ dp[<<i, c[2]>>] \in Nat
      BY <1>1, <1>10, Neighbours, TableType DEF i
    <3>2. c[2] > 0 => dp[<<c[1], j>>] \in Nat
      BY <1>1, Neighbours, TableType
    <3>3. dp[c] = dp[<<i, c[2]>>]
      <4>1. CASE c[2] = 0
        <5>1. dp[<<i, c[2]>>] = TableRule(dp, a, b, <<i, c[2]>>)
          BY <1>1, <3>1, TableFact
        <5> QED
          BY <1>3, <1>7, <4>1, <5>1 DEF TableRule
      <4>2. CASE c[2] # 0
        <5>1. c[2] > 0 /\ c[1] # 0
          BY <1>2, <1>10, <4>2
        <5> QED
          BY <1>7, <1>10, <3>1, <3>2, <4>2, <5>1 DEF TableRule, i
      <4> QED
        BY <4>1, <4>2
    <3> QED
      BY <2>2, <2>6, <3>3 DEF Right
  <2>8. Within(Same(e), a, c[1]) /\ Within(Same(e), b, c[2])
    <3>1. Within(Same(d), a, i) /\ Within(Same(d), b, c[2])
      BY <1>3, <2>2 DEF Right
    <3>2. i \in Nat /\ c[1] \in Nat /\ i <= c[1]
      BY <1>2, <1>4, <1>10
    <3> QED
      BY <2>6, <3>1, <3>2, WithinMore
  <2>9. Marked(e)
    BY <1>6, <2>1, MoreMarks
  <2>10. a = b /\ c[1] = c[2] => FALSE
    BY <1>10
  <2> HIDE DEF e
  <2>11. Right(e, a, b, c)
    BY <2>3, <2>4, <2>5, <2>7, <2>8, <2>9, <2>10 DEF Right
  <2> QED
    BY <2>11 DEF e, l
<1> QED
  BY <1>1, <1>8, <1>9, <1>10, Steps

LEMMA BackIsRight ==
    ASSUME NEW a \in Seq(Lines), NEW b \in Seq(Lines)
    PROVE  \A c \in Cells(a, b) : Right(Back(a, b)[c], a, b, c)
<1> DEFINE P == {c \in Cells(a, b) : Right(Back(a, b)[c], a, b, c)}
<1>1. Len(a) \in Nat /\ Len(b) \in Nat
  OBVIOUS
<1>2. ASSUME NEW c \in Cells(a, b),
             \A d \in Cells(a, b) : d[1] + d[2] < c[1] + c[2] => d \in P
      PROVE  c \in P
  <2>1. Back(a, b)[c] = BackRule(Back(a, b), a, b, c)
    BY <1>1, BackFact
  <2>2. CASE c = <<0, 0>>
    BY <2>1, <2>2, NothingIsRight DEF BackRule
  <2>3. CASE c # <<0, 0>>
    <3> DEFINE kind == Step(a, b, Table(a, b), c)
    <3>1. Right(Back(a, b)[Rest(c, kind)], a, b, Rest(c, kind))
      BY <1>1, <1>2, <2>3, RestIsBelow
    <3>2. Back(a, b)[c] = Append(Back(a, b)[Rest(c, kind)], Line(a, b, c, kind))
      BY <2>1, <2>3 DEF BackRule
    <3> QED
      BY <2>3, <3>1, <3>2, StepIsRight
  <2> QED
    BY <2>2, <2>3
<1>3. Cells(a, b) \subseteq P
  <2> HIDE DEF P
  <2> QED
    BY <1>1, <1>2, CellInduction
<1> QED
  BY <1>3

\* What the page of a run shows of two texts: nothing lost, nothing marked
\* in vain, and no smaller difference.
THEOREM DiffOfTexts ==
    ASSUME NEW a \in Seq(Lines), NEW b \in Seq(Lines)
    PROVE  LET diff == ComputeDiff(a, b)
               same == TextOf(OfType(diff, {"equal"}))
           IN  /\ TextOf(OfType(diff, {"equal", "removed"})) = a
               /\ TextOf(OfType(diff, {"equal", "added"})) = b
               /\ OfType(diff, {"added", "removed"}) # << >> <=> a # b
               /\ PartOf(same, a) /\ PartOf(same, b)
               /\ \A t \in Seq(Lines) : PartOf(t, a) /\ PartOf(t, b) => Len(t) <= Len(same)
<1> DEFINE diff == ComputeDiff(a, b)  c == <<Len(a), Len(b)>>
<1>1. c \in Cells(a, b) /\ c[1] = Len(a) /\ c[2] = Len(b)
  BY DEF Cells
<1>2. Right(diff, a, b, c)
  BY <1>1, BackIsRight DEF ComputeDiff
<1>3. First(a, Len(a)) = a /\ First(b, Len(b)) = b
  BY DEF First
<1>4. \A t, s : PartOf(t, s) <=> Within(t, s, Len(s))
  BY DEF PartOf, Within, Places
<1>5. \A t \in Seq(Lines) : Within(t, a, c[1]) /\ Within(t, b, c[2]) => Len(t) <= Table(a, b)[c]
  BY <1>1, TableBound
<1>6. a = b => c[1] = c[2]
  BY <1>1
<1> HIDE DEF diff, c
<1>7. /\ TextOf(OfType(diff, {"equal", "removed"})) = a
      /\ TextOf(OfType(diff, {"equal", "added"})) = b
      /\ OfType(diff, {"added", "removed"}) # << >> <=> a # b
  BY <1>1, <1>2, <1>3, <1>6 DEF Right, Marked
<1>8. /\ PartOf(Same(diff), a) /\ PartOf(Same(diff), b)
      /\ \A t \in Seq(Lines) : PartOf(t, a) /\ PartOf(t, b) => Len(t) <= Len(Same(diff))
  BY <1>1, <1>2, <1>4, <1>5 DEF Right
<1> QED
  BY <1>7, <1>8 DEF diff, Same

ShownTexts == before # NoDiff => before \in AllTexts /\ after \in AllTexts

\* The diff of every result is right, for texts of any length over any lines.
THEOREM DiffRight == DiffSpec => []DiffIsRight
<1>1. DiffInit => ShownTexts
  BY DEF DiffInit, ShownTexts
<1>2. ShownTexts /\ [ToggleDiff]_diffVars => ShownTexts'
  BY DEF ShownTexts, ToggleDiff, diffVars
<1>3. ShownTexts => DiffIsRight
  <2>1. AllTexts \subseteq Seq(Lines)
    BY RunDiffAssumption DEF AllTexts
  <2> SUFFICES ASSUME before # NoDiff, before \in Seq(Lines), after \in Seq(Lines)
               PROVE  DiffIsRight
    BY <2>1 DEF ShownTexts, DiffIsRight, DiffIsFaithful, DiffIsSmallest
  <2> QED
    BY <2>1, DiffOfTexts DEF DiffIsRight, DiffIsFaithful, DiffIsSmallest, HasChanges
<1> QED
  BY <1>1, <1>2, <1>3, PTL DEF DiffSpec
=============================================================================
