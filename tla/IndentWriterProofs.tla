--------------------------- MODULE IndentWriterProofs ---------------------------
(***************************************************************************)
(* Proofs about write_ln and indent_diff for every stream of lines, every *)
(* ind and every length of blnk: the type invariant, and that every line  *)
(* is indented by ind spaces per level of the nesting reached on it.      *)
(***************************************************************************)
EXTENDS IndentWriter, FiniteSetTheorems, WellFoundedInduction, TLAPS

(***************************************************************************)
(* The inductive invariant: cind is the nesting depth of everything       *)
(* written so far, and every written line got the slice of blnk for its   *)
(* own nesting depth.                                                     *)
(***************************************************************************)
CindInv == cind = Depth(Before(pos, 0))

WrittenInv == \A i \in DOMAIN written : written[i] = SliceLen(LineDepth(i) * Ind)

IInv == TypeOK /\ CindInv /\ WrittenInv
------------------------------------------------------------------------------
\* A non-empty set of naturals has a least element.
LEMMA LeastNat ==
    ASSUME NEW T \in SUBSET Nat, T # {}
    PROVE  \E x \in T : \A y \in T : ~(y < x)
<1>1. \E x \in T : \A y \in T : ~(<<y, x>> \in OpToRel(<, Nat))
    BY NatLessThanWellFounded, WFMin
<1>. QED  BY <1>1 DEF OpToRel

\* The loop body of indent_diff keeps d a pair of integers.
LEMMA DiffStepType ==
    ASSUME NEW d \in Int \X Int, NEW c
    PROVE  DiffStep(d, c) \in Int \X Int
BY DEF DiffStep

(***************************************************************************)
(* The for loop of indent_diff run over the first m characters: a         *)
(* function on 0..m that starts at [0, 0] and takes one DiffStep per      *)
(* character.                                                              *)
(***************************************************************************)
PartialDiff(l, m, g) ==
    /\ g \in [0..m -> Int \X Int]
    /\ g[0] = <<0, 0>>
    /\ \A k \in 1..m : g[k] = DiffStep(g[k - 1], l[k])

\* The loop can be run over every first part of the line.
LEMMA PartialDiffExists ==
    ASSUME NEW l \in Seq(Char), NEW m \in 0..Len(l)
    PROVE  \E g : PartialDiff(l, m, g)
<1>. DEFINE T == {n \in 0..Len(l) : ~\E g : PartialDiff(l, n, g)}
<1>. SUFFICES T = {}
    OBVIOUS
<1>. SUFFICES ASSUME T # {} PROVE FALSE
    OBVIOUS
<1>0. T \in SUBSET Nat
    OBVIOUS
<1>1. PICK x \in T : \A y \in T : ~(y < x)
    BY <1>0, LeastNat
<1>2. x # 0
    <2>1. PartialDiff(l, 0, [k \in 0..0 |-> <<0, 0>>])
        BY DEF PartialDiff
    <2>2. \E g : PartialDiff(l, 0, g)
        BY <2>1
    <2>. QED  BY <1>1, <2>2
<1>3. PICK g : PartialDiff(l, x - 1, g)
    BY <1>1, <1>2
<1>. DEFINE h == [k \in 0..x |-> IF k < x THEN g[k] ELSE DiffStep(g[x - 1], l[x])]
<1>4. PartialDiff(l, x, h)
    <2>1. DiffStep(g[x - 1], l[x]) \in Int \X Int
        BY <1>1, <1>2, <1>3, DiffStepType DEF PartialDiff
    <2>2. h \in [0..x -> Int \X Int]
        BY <1>1, <1>2, <1>3, <2>1 DEF PartialDiff
    <2>3. \A k \in 1..x : h[k] = DiffStep(h[k - 1], l[k])
        BY <1>1, <1>2, <1>3 DEF PartialDiff
    <2>. QED  BY <1>1, <1>2, <1>3, <2>2, <2>3 DEF PartialDiff
<1>. QED  BY <1>1, <1>4

(***************************************************************************)
(* The fixpoint equation of DiffUpTo: the recursive function exists, so   *)
(* it is the loop of indent_diff run over the whole line.                 *)
(***************************************************************************)
LEMMA DiffUpToDef ==
    ASSUME NEW l \in Seq(Char)
    PROVE  DiffUpTo(l) = [k \in 0..Len(l) |->
                             IF k = 0 THEN <<0, 0>> ELSE DiffStep(DiffUpTo(l)[k - 1], l[k])]
<1>1. PICK g : PartialDiff(l, Len(l), g)
    BY PartialDiffExists
<1>2. g = [k \in 0..Len(l) |-> IF k = 0 THEN <<0, 0>> ELSE DiffStep(g[k - 1], l[k])]
    BY <1>1 DEF PartialDiff
<1>. QED  BY <1>2 DEF DiffUpTo
------------------------------------------------------------------------------
(***************************************************************************)
(* The brackets among the first k characters of line i, and the depth     *)
(* they add.                                                               *)
(***************************************************************************)
LineCount(i, k, b) == Count({i} \X (1..k), b)

LS(i, k) == LineCount(i, k, "(") - LineCount(i, k, ")")

LEMMA PairsFinite ==
    ASSUME NEW i, NEW k \in Nat
    PROVE  IsFiniteSet({i} \X (1..k))
<1>1. IsFiniteSet({i})
    BY FS_Singleton, Zenon
<1>2. IsFiniteSet(1..k)
    BY FS_Interval
<1>. QED  BY <1>1, <1>2, FS_Product

LEMMA LineCountZero ==
    ASSUME NEW i, NEW b
    PROVE  LineCount(i, 0, b) = 0
<1>1. {p \in {i} \X (1..0) : lines[p[1]][p[2]] = b} = {}
    OBVIOUS
<1>. QED  BY <1>1, FS_EmptySet DEF LineCount, Count

LEMMA LineCountNat ==
    ASSUME NEW i, NEW k \in Nat, NEW b
    PROVE  LineCount(i, k, b) \in Nat
<1>1. IsFiniteSet({p \in {i} \X (1..k) : lines[p[1]][p[2]] = b})
    BY PairsFinite, FS_Subset
<1>. QED  BY <1>1, FS_CardinalityType DEF LineCount, Count

\* One more character counts one more bracket of its own kind.
LEMMA LineCountStep ==
    ASSUME NEW i, NEW k \in Nat \ {0}, NEW b
    PROVE  LineCount(i, k, b) = LineCount(i, k - 1, b) + (IF lines[i][k] = b THEN 1 ELSE 0)
<1>. DEFINE A == {p \in {i} \X (1..(k - 1)) : lines[p[1]][p[2]] = b}
            B == {p \in {i} \X (1..k) : lines[p[1]][p[2]] = b}
<1>0. k - 1 \in Nat
    OBVIOUS
<1>1. IsFiniteSet(A)
    <2>1. IsFiniteSet({i} \X (1..(k - 1)))
        BY <1>0, PairsFinite
    <2>. QED  BY <2>1, FS_Subset
<1>4. LineCount(i, k, b) = Cardinality(B) /\ LineCount(i, k - 1, b) = Cardinality(A)
    BY DEF LineCount, Count
<1>2. CASE lines[i][k] = b
    <2>1. B = A \cup {<<i, k>>}
        <3>1. {i} \X (1..k) = ({i} \X (1..(k - 1))) \cup {<<i, k>>}
            BY <1>0
        <3>. QED  BY <1>2, <3>1
    <2>2. <<i, k>> \notin A
        OBVIOUS
    <2>3. Cardinality(B) = Cardinality(A) + 1
        BY <1>1, <2>1, <2>2, FS_AddElement
    <2>. QED  BY <1>2, <1>4, <2>3
<1>3. CASE lines[i][k] # b
    <2>1. B = A
        <3>1. {i} \X (1..k) = ({i} \X (1..(k - 1))) \cup {<<i, k>>}
            BY <1>0
        <3>. QED  BY <1>3, <3>1
    <2>2. Cardinality(A) \in Nat
        BY <1>1, FS_CardinalityType
    <2>3. Cardinality(B) = Cardinality(A)
        BY <2>1
    <2>. HIDE DEF A, B
    <2>. QED  BY <1>3, <1>4, <2>2, <2>3
<1>. QED  BY <1>2, <1>3

\* The depth added by a line grows by one at '(', drops by one at ')'.
LEMMA LSStep ==
    ASSUME NEW i, NEW k \in Nat \ {0}
    PROVE  /\ LS(i, k - 1) \in Int
           /\ LS(i, k) = LS(i, k - 1) + (IF lines[i][k] = "(" THEN 1 ELSE 0)
                                        - (IF lines[i][k] = ")" THEN 1 ELSE 0)
BY LineCountStep, LineCountNat DEF LS

\* A least value over 0..x-1 that is lowered to, or kept at, the x-th
\* value, or kept, is the least value over 0..x.
LEMMA MinExtend ==
    ASSUME NEW x \in Nat \ {0}, NEW ls \in [0..x -> Int], NEW a \in Int, NEW e \in Int,
           \A j \in 0..x - 1 : a <= ls[j], \E j \in 0..x - 1 : a = ls[j],
           e <= a, e <= ls[x], e = a \/ e = ls[x]
    PROVE  /\ \A j \in 0..x : e <= ls[j]
           /\ \E j \in 0..x : e = ls[j]
<1>1. \A j \in 0..x : e <= ls[j]
    <2>. SUFFICES ASSUME NEW j \in 0..x PROVE e <= ls[j]
        OBVIOUS
    <2>1. CASE j = x
        BY <2>1
    <2>2. CASE j # x
        BY <2>2
    <2>. QED  BY <2>1, <2>2
<1>2. \E j \in 0..x : e = ls[j]
    <2>1. CASE e = a
        BY <2>1
    <2>2. CASE e = ls[x]
        BY <2>2
    <2>. QED  BY <2>1, <2>2
<1>. QED  BY <1>1, <1>2

------------------------------------------------------------------------------
\* The positions of the lines before line n.
Prev(n) == UNION {{j} \X (1..Len(lines[j])) : j \in 1..(n - 1)}

LEMMA PrevStep ==
    ASSUME NEW n \in Nat \ {0}
    PROVE  Prev(n + 1) = Prev(n) \cup ({n} \X (1..Len(lines[n])))
<1>1. 1..(n + 1 - 1) = (1..(n - 1)) \cup {n}
    OBVIOUS
<1>. SUFFICES ASSUME NEW p
              PROVE  p \in Prev(n + 1) <=> p \in Prev(n) \/ p \in {n} \X (1..Len(lines[n]))
    OBVIOUS
<1>2. p \in Prev(n + 1) <=> \E j \in 1..(n + 1 - 1) : p \in {j} \X (1..Len(lines[j]))
    BY DEF Prev
<1>3. p \in Prev(n) <=> \E j \in 1..(n - 1) : p \in {j} \X (1..Len(lines[j]))
    BY DEF Prev
<1>. QED  BY <1>1, <1>2, <1>3, Zenon

LEMMA PrevDisjoint ==
    ASSUME NEW n \in Int, NEW k
    PROVE  Prev(n) \cap ({n} \X (1..k)) = {}
<1>. SUFFICES ASSUME NEW p \in Prev(n), p \in {n} \X (1..k) PROVE FALSE
    OBVIOUS
<1>1. PICK j \in 1..(n - 1) : p \in {j} \X (1..Len(lines[j]))
    BY DEF Prev
<1>2. p[1] = j /\ p[1] = n
    BY <1>1
<1>. QED  BY <1>1, <1>2

LEMMA PrevFinite ==
    ASSUME lines \in Seq(Seq(Char))
    PROVE  \A n \in 1..(Len(lines) + 1) : IsFiniteSet(Prev(n))
<1>. DEFINE T == {n \in 1..(Len(lines) + 1) : ~IsFiniteSet(Prev(n))}
<1>. SUFFICES ASSUME T # {} PROVE FALSE
    OBVIOUS
<1>1. PICK x \in T : \A y \in T : ~(y < x)
    <2>1. T \in SUBSET Nat
        OBVIOUS
    <2>. QED  BY <2>1, LeastNat
<1>2. x # 1
    <2>1. Prev(1) = {}
        BY DEF Prev
    <2>. QED  BY <1>1, <2>1, FS_EmptySet
<1>3. /\ x - 1 \in Nat \ {0}
      /\ x - 1 \in 1..Len(lines)
      /\ IsFiniteSet(Prev(x - 1))
    BY <1>1, <1>2
<1>4. IsFiniteSet({x - 1} \X (1..Len(lines[x - 1])))
    <2>1. Len(lines[x - 1]) \in Nat
        BY <1>3
    <2>. QED  BY <2>1, PairsFinite
<1>5. Prev(x) = Prev(x - 1) \cup ({x - 1} \X (1..Len(lines[x - 1])))
    <2>1. x - 1 + 1 = x
        BY <1>3
    <2>. QED  BY <1>3, <2>1, PrevStep
<1>6. IsFiniteSet(Prev(x))
    <2>1. IsFiniteSet(Prev(x - 1) \cup ({x - 1} \X (1..Len(lines[x - 1]))))
        BY <1>3, <1>4, FS_Union
    <2>. QED  BY <1>5, <2>1
<1>. QED  BY <1>1, <1>6
(***************************************************************************)
(* What the loop of indent_diff has computed after k characters of line   *)
(* i: d[0] + d[1] (here d[1] + d[2]) is the depth the k characters add,   *)
(* d[1] is never above the depth added by any first part of them and     *)
(* equals one of those, and d[2] is never negative.                       *)
(***************************************************************************)
DiffInv(i, k) ==
    LET d == DiffUpTo(lines[i])[k]
    IN  /\ d \in Int \X Nat
        /\ d[1] + d[2] = LS(i, k)
        /\ \A j \in 0..k : d[1] <= LS(i, j)
        /\ \E j \in 0..k : d[1] = LS(i, j)

LEMMA DiffPrefix ==
    ASSUME NEW i, lines[i] \in Seq(Char)
    PROVE  \A k \in 0..Len(lines[i]) : DiffInv(i, k)
<1>. DEFINE l == lines[i]
            f == DiffUpTo(l)
            T == {k \in 0..Len(l) : ~DiffInv(i, k)}
<1>0. f = [k \in 0..Len(l) |-> IF k = 0 THEN <<0, 0>> ELSE DiffStep(f[k - 1], l[k])]
    BY DiffUpToDef
<1>. SUFFICES ASSUME T # {} PROVE FALSE
    OBVIOUS
<1>1. PICK x \in T : \A y \in T : ~(y < x)
    <2>1. T \in SUBSET Nat
        OBVIOUS
    <2>. QED  BY <2>1, LeastNat
<1>2. x # 0
    <2>1. f[0] = <<0, 0>>
        BY <1>0
    <2>2. LS(i, 0) = 0
        BY LineCountZero DEF LS
    <2>3. DiffInv(i, 0)
        BY <2>1, <2>2 DEF DiffInv
    <2>. QED  BY <1>1, <2>3
<1>3. DiffInv(i, x - 1)
    BY <1>1, <1>2
<1>. DEFINE d == f[x - 1]
            c == l[x]
<1>4. /\ x \in 1..Len(l)
      /\ f[x] = DiffStep(d, c)
      /\ d \in Int \X Nat
      /\ d[1] + d[2] = LS(i, x - 1)
      /\ \A j \in 0..x - 1 : d[1] <= LS(i, j)
      /\ \E j \in 0..x - 1 : d[1] = LS(i, j)
    <2>1. x \in 1..Len(l)
        BY <1>1, <1>2
    <2>2. f[x] = DiffStep(d, c)
        <3>. HIDE DEF f
        <3>1. f[x] = IF x = 0 THEN <<0, 0>> ELSE DiffStep(f[x - 1], l[x])
            BY <1>0, <2>1
        <3>. QED  BY <2>1, <3>1
    <2>3. /\ d \in Int \X Nat
          /\ d[1] + d[2] = LS(i, x - 1)
          /\ \A j \in 0..x - 1 : d[1] <= LS(i, j)
          /\ \E j \in 0..x - 1 : d[1] = LS(i, j)
        BY <1>3 DEF DiffInv
    <2>. QED  BY <2>1, <2>2, <2>3
<1>5. /\ LS(i, x - 1) \in Int
      /\ LS(i, x) = LS(i, x - 1) + (IF c = "(" THEN 1 ELSE 0) - (IF c = ")" THEN 1 ELSE 0)
    <2>1. x \in Nat \ {0}
        BY <1>4
    <2>2. /\ LS(i, x - 1) \in Int
          /\ LS(i, x) = LS(i, x - 1) + (IF lines[i][x] = "(" THEN 1 ELSE 0)
                                       - (IF lines[i][x] = ")" THEN 1 ELSE 0)
        BY <2>1, LSStep, Zenon
    <2>. QED  BY <2>2
<1>. HIDE DEF f
<1>6. DiffInv(i, x)
    <2>. SUFFICES /\ f[x] \in Int \X Nat
                  /\ f[x][1] + f[x][2] = LS(i, x)
                  /\ \A j \in 0..x : f[x][1] <= LS(i, j)
                  /\ \E j \in 0..x : f[x][1] = LS(i, j)
        BY DEF DiffInv, f
    <2>0. ASSUME NEW e \in Int, e <= d[1], e <= LS(i, x), e = d[1] \/ e = LS(i, x)
          PROVE  /\ \A j \in 0..x : e <= LS(i, j)
                 /\ \E j \in 0..x : e = LS(i, j)
        <3>1. \A j \in 0..x : LS(i, j) \in Int
            BY LineCountNat DEF LS
        <3>. DEFINE ls == [j \in 0..x |-> LS(i, j)]
        <3>2. /\ x \in Nat \ {0} /\ ls \in [0..x -> Int] /\ d[1] \in Int
              /\ \A j \in 0..x - 1 : d[1] <= ls[j]
              /\ \E j \in 0..x - 1 : d[1] = ls[j]
              /\ e <= ls[x] /\ (e = d[1] \/ e = ls[x])
            BY <1>4, <2>0, <3>1
        <3>3. /\ \A j \in 0..x : e <= ls[j]
              /\ \E j \in 0..x : e = ls[j]
            <4>. HIDE DEF ls, d
            <4>. QED  BY <2>0, <3>2, MinExtend
        <3>. QED  BY <3>3
    <2>. HIDE DEF d, c
    <2>1. CASE c = "("
        <3>1. f[x] = <<d[1], d[2] + 1>>
            BY <1>4, <2>1 DEF DiffStep
        <3>2. d[1] + d[2] + 1 = LS(i, x)
            BY <1>4, <1>5, <2>1
        <3>3. d[1] <= LS(i, x) /\ d[2] + 1 \in Nat
            BY <1>4, <3>2
        <3>. QED  BY <1>4, <2>0, <3>1, <3>2, <3>3
    <2>2. CASE c = ")" /\ d[2] > 0
        <3>1. f[x] = <<d[1], d[2] - 1>>
            BY <1>4, <2>2 DEF DiffStep
        <3>2. d[1] + d[2] - 1 = LS(i, x)
            BY <1>4, <1>5, <2>2
        <3>3. d[1] <= LS(i, x) /\ d[2] - 1 \in Nat
            BY <1>4, <2>2, <3>2
        <3>. QED  BY <1>4, <2>0, <3>1, <3>2, <3>3
    <2>3. CASE c = ")" /\ ~(d[2] > 0)
        <3>1. f[x] = <<d[1] - 1, d[2]>>
            BY <1>4, <2>3 DEF DiffStep
        <3>2. d[2] = 0 /\ d[1] - 1 = LS(i, x)
            BY <1>4, <1>5, <2>3
        <3>. QED  BY <1>4, <2>0, <3>1, <3>2
    <2>4. CASE c # "(" /\ c # ")"
        <3>1. f[x] = d
            BY <1>4, <2>4 DEF DiffStep
        <3>2. d[1] + d[2] = LS(i, x)
            BY <1>4, <1>5, <2>4
        <3>3. d[1] <= LS(i, x)
            BY <1>4, <3>2
        <3>. QED  BY <1>4, <2>0, <3>1, <3>2, <3>3
    <2>. QED  BY <2>1, <2>2, <2>3, <2>4
<1>. QED  BY <1>1, <1>6
------------------------------------------------------------------------------
(***************************************************************************)
(* The brackets before a point of line n are those of the earlier lines   *)
(* and those among its first k characters.                                *)
(***************************************************************************)
LEMMA BeforeCount ==
    ASSUME lines \in Seq(Seq(Char)), NEW n \in 1..Len(lines), NEW k \in 0..Len(lines[n]),
           NEW b
    PROVE  /\ Count(Before(n, 0), b) \in Nat
           /\ Count(Before(n, k), b) = Count(Before(n, 0), b) + LineCount(n, k, b)
<1>. DEFINE S == {p \in Prev(n) : lines[p[1]][p[2]] = b}
            L == {p \in {n} \X (1..k) : lines[p[1]][p[2]] = b}
<1>1. Before(n, k) = Prev(n) \cup ({n} \X (1..k)) /\ Before(n, 0) = Prev(n)
    <2>1. Before(n, k) = Prev(n) \cup ({n} \X (1..k))
        BY Zenon DEF Before, Prev
    <2>2. Before(n, 0) = Prev(n) \cup ({n} \X (1..0))
        BY Zenon DEF Before, Prev
    <2>3. {n} \X (1..0) = {}
        OBVIOUS
    <2>. QED  BY <2>1, <2>2, <2>3
<1>2. /\ Count(Before(n, k), b) = Cardinality(S \cup L)
      /\ Count(Before(n, 0), b) = Cardinality(S)
      /\ LineCount(n, k, b) = Cardinality(L)
    <2>1. {p \in Before(n, k) : lines[p[1]][p[2]] = b} = S \cup L
        BY <1>1
    <2>2. {p \in Before(n, 0) : lines[p[1]][p[2]] = b} = S
        BY <1>1
    <2>. QED  BY <2>1, <2>2 DEF Count, LineCount
<1>3. IsFiniteSet(S) /\ IsFiniteSet(L)
    <2>1. IsFiniteSet(Prev(n))
        BY PrevFinite
    <2>2. IsFiniteSet({n} \X (1..k))
        <3>1. k \in Nat
            OBVIOUS
        <3>. QED  BY <3>1, PairsFinite
    <2>. QED  BY <2>1, <2>2, FS_Subset
<1>4. S \cap L = {}
    BY PrevDisjoint
<1>5. Cardinality(S \cup L) = Cardinality(S) + Cardinality(L)
    <2>1. Cardinality(S \cup L) = Cardinality(S) + Cardinality(L) - Cardinality(S \cap L)
        BY <1>3, FS_Union
    <2>2. Cardinality(S \cap L) = 0
        BY <1>4, FS_EmptySet
    <2>3. Cardinality(S) \in Nat /\ Cardinality(L) \in Nat
        BY <1>3, FS_CardinalityType
    <2>. HIDE DEF S, L
    <2>. QED  BY <2>1, <2>2, <2>3
<1>6. Cardinality(S) \in Nat
    BY <1>3, FS_CardinalityType
<1>. HIDE DEF S, L
<1>. QED  BY <1>2, <1>5, <1>6

\* The depth at a point of line n is the depth before the line plus the
\* depth its first k characters add.
LEMMA BeforeDepth ==
    ASSUME lines \in Seq(Seq(Char)), NEW n \in 1..Len(lines), NEW k \in 0..Len(lines[n])
    PROVE  /\ Depth(Before(n, 0)) \in Int
           /\ Depth(Before(n, k)) = Depth(Before(n, 0)) + LS(n, k)
<1>1. /\ Count(Before(n, 0), "(") \in Nat
      /\ Count(Before(n, k), "(") = Count(Before(n, 0), "(") + LineCount(n, k, "(")
    BY BeforeCount
<1>2. /\ Count(Before(n, 0), ")") \in Nat
      /\ Count(Before(n, k), ")") = Count(Before(n, 0), ")") + LineCount(n, k, ")")
    BY BeforeCount
<1>3. LineCount(n, k, "(") \in Nat /\ LineCount(n, k, ")") \in Nat
    BY LineCountNat
<1>. QED  BY <1>1, <1>2, <1>3 DEF Depth, LS

\* The point after the last character of line n is the point before line n + 1.
LEMMA BeforeNext ==
    ASSUME NEW n \in Nat \ {0}
    PROVE  Before(n + 1, 0) = Before(n, Len(lines[n]))
<1>1. Before(n + 1, 0) = Prev(n + 1)
    <2>1. Before(n + 1, 0) = Prev(n + 1) \cup ({n + 1} \X (1..0))
        BY Zenon DEF Before, Prev
    <2>2. {n + 1} \X (1..0) = {}
        OBVIOUS
    <2>. QED  BY <2>1, <2>2
<1>2. Before(n, Len(lines[n])) = Prev(n) \cup ({n} \X (1..Len(lines[n])))
    BY Zenon DEF Before, Prev
<1>. QED  BY <1>1, <1>2, PrevStep

(***************************************************************************)
(* The smallest depth reached while reading line n is the depth before    *)
(* it lowered by the closing brackets of the line that close nothing      *)
(* opened on it: d[0] of indent_diff, the dedent write_ln applies before  *)
(* writing the line.                                                      *)
(***************************************************************************)
LEMMA LineDepthValue ==
    ASSUME lines \in Seq(Seq(Char)), NEW n \in 1..Len(lines)
    PROVE  /\ Depth(Before(n, 0)) \in Int
           /\ IndentDiff(lines[n]) \in Int \X Nat
           /\ IndentDiff(lines[n])[1] + IndentDiff(lines[n])[2] = LS(n, Len(lines[n]))
           /\ LineDepth(n) = Depth(Before(n, 0)) + IndentDiff(lines[n])[1]
<1>. DEFINE L == Len(lines[n])
            d == IndentDiff(lines[n])
            c0 == Depth(Before(n, 0))
            ds == {Depth(Before(n, k)) : k \in 0..L}
            m == c0 + d[1]
<1>1. L \in Nat
    OBVIOUS
<1>2. /\ d \in Int \X Nat
      /\ d[1] + d[2] = LS(n, L)
      /\ \A j \in 0..L : d[1] <= LS(n, j)
      /\ \E j \in 0..L : d[1] = LS(n, j)
    <2>1. DiffInv(n, L)
        BY <1>1, DiffPrefix
    <2>. QED  BY <2>1 DEF DiffInv, IndentDiff
<1>3. /\ c0 \in Int
      /\ \A k \in 0..L : Depth(Before(n, k)) = c0 + LS(n, k)
    BY BeforeDepth
<1>4. \A k \in 0..L : LS(n, k) \in Int
    BY LineCountNat DEF LS
<1>5. m \in ds
    <2>1. PICK j \in 0..L : d[1] = LS(n, j)
        BY <1>2
    <2>2. Depth(Before(n, j)) = m
        BY <1>3, <2>1
    <2>. QED  BY <2>2
<1>6. \A x \in ds : m <= x
    BY <1>2, <1>3, <1>4
<1>7. \A y \in ds : (\A x \in ds : y <= x) => y = m
    <2>. SUFFICES ASSUME NEW y \in ds, \A x \in ds : y <= x PROVE y = m
        OBVIOUS
    <2>1. y <= m /\ m <= y
        BY <1>5, <1>6
    <2>2. y \in Int /\ m \in Int
        BY <1>2, <1>3, <1>4
    <2>. QED  BY <2>1, <2>2
<1>8. LineDepth(n) = m
    <2>1. LineDepth(n) = CHOOSE y \in ds : \A x \in ds : y <= x
        BY DEF LineDepth
    <2>. HIDE DEF ds, m
    <2>. QED  BY <1>5, <1>6, <1>7, <2>1
<1>. QED  BY <1>2, <1>3, <1>8

\* blnk[:n] is never longer than blnk, and never shorter than nothing.
LEMMA SliceLenType ==
    ASSUME NEW n \in Int
    PROVE  SliceLen(n) \in 0..Blank
BY IndentAssumption DEF SliceLen

\* A depth whose indent fits in blnk gets exactly ind spaces per level.
LEMMA SliceLenFits ==
    ASSUME NEW m \in 0..(Blank \div Ind)
    PROVE  SliceLen(m * Ind) = Ind * m
<1>1. (Blank \div Ind) * Ind <= Blank
    BY IndentAssumption
<1>2. m * Ind <= (Blank \div Ind) * Ind /\ m * Ind >= 0
    BY IndentAssumption
<1>3. m * Ind = Ind * m /\ m * Ind <= Blank
    BY <1>1, <1>2, IndentAssumption
<1>. QED  BY <1>2, <1>3 DEF SliceLen

------------------------------------------------------------------------------
\* Nothing is written and no bracket read before the first line.
LEMMA IInvInit ==
    Init => IInv
<1>. SUFFICES ASSUME Init PROVE IInv
    OBVIOUS
<1>1. TypeOK
    BY IndentAssumption DEF Init, TypeOK
<1>2. CindInv
    <2>1. Before(1, 0) = {}
        BY DEF Before
    <2>2. \A b : Count(Before(1, 0), b) = 0
        BY <2>1, FS_EmptySet DEF Count
    <2>. QED  BY <2>2 DEF Init, CindInv, Depth
<1>3. WrittenInv
    BY DEF Init, WrittenInv
<1>. QED  BY <1>1, <1>2, <1>3 DEF IInv

\* write_ln keeps cind the depth so far and indents the line by its own depth.
LEMMA IInvStep ==
    IInv /\ [Next]_vars => IInv'
<1>. SUFFICES ASSUME IInv, [Next]_vars PROVE IInv'
    OBVIOUS
<1>1. CASE WriteLn
    <2>. DEFINE l == lines[pos]
                d == IndentDiff(l)
    <2>1. /\ lines \in Seq(Seq(Char))
          /\ pos \in 1..Len(lines)
          /\ lines' = lines /\ pos' = pos + 1
          /\ written' = Append(written, SliceLen((cind + d[1]) * Ind))
          /\ cind' = cind + d[1] + d[2]
        BY <1>1 DEF WriteLn, IInv, TypeOK
    <2>2. /\ Depth(Before(pos, 0)) \in Int
          /\ d \in Int \X Nat
          /\ d[1] + d[2] = LS(pos, Len(l))
          /\ LineDepth(pos) = Depth(Before(pos, 0)) + d[1]
        BY <2>1, LineDepthValue
    <2>3. /\ cind \in Int
          /\ cind = Depth(Before(pos, 0))
        BY DEF IInv, TypeOK, CindInv
    <2>4. SliceLen((cind + d[1]) * Ind) \in 0..Blank
        <3>1. (cind + d[1]) * Ind \in Int
            BY <2>2, <2>3, IndentAssumption
        <3>. QED  BY <3>1, SliceLenType
    <2>5. TypeOK'
        BY <2>1, <2>2, <2>3, <2>4 DEF IInv, TypeOK
    <2>6. CindInv'
        <3>1. Depth(Before(pos, Len(l))) = Depth(Before(pos, 0)) + LS(pos, Len(l))
            BY <2>1, BeforeDepth
        <3>2. Before(pos + 1, 0) = Before(pos, Len(l))
            <4>1. pos \in Nat \ {0}
                BY <2>1
            <4>. QED  BY <4>1, BeforeNext
        <3>3. Depth(Before(pos + 1, 0)) = cind + d[1] + d[2]
            BY <2>2, <2>3, <3>1, <3>2
        <3>. QED  BY <2>1, <3>3 DEF CindInv, Before, Depth, Count
    <2>7. WrittenInv'
        <3>. SUFFICES ASSUME NEW i \in DOMAIN written'
                      PROVE  written'[i] = SliceLen(LineDepth(i)' * Ind)
            BY DEF WrittenInv
        <3>1. LineDepth(i)' = LineDepth(i)
            BY <2>1 DEF LineDepth, Before, Depth, Count
        <3>2. CASE i \in DOMAIN written
            BY <2>1, <3>1, <3>2 DEF IInv, WrittenInv, TypeOK
        <3>3. CASE i = pos
            <4>1. written'[i] = SliceLen((cind + d[1]) * Ind)
                BY <2>1, <3>3 DEF IInv, TypeOK
            <4>2. LineDepth(i) = cind + d[1]
                BY <2>2, <2>3, <3>3
            <4>. QED  BY <3>1, <4>1, <4>2
        <3>. QED  BY <2>1, <3>2, <3>3 DEF IInv, TypeOK
    <2>. QED  BY <2>5, <2>6, <2>7 DEF IInv
<1>2. CASE UNCHANGED vars
    <2>1. lines' = lines /\ pos' = pos /\ cind' = cind /\ written' = written
        BY <1>2 DEF vars
    <2>2. TypeOK'
        BY <2>1 DEF IInv, TypeOK
    <2>3. CindInv'
        BY <2>1 DEF IInv, CindInv, Before, Depth, Count
    <2>4. WrittenInv'
        <3>. SUFFICES ASSUME NEW i \in DOMAIN written'
                      PROVE  written'[i] = SliceLen(LineDepth(i)' * Ind)
            BY DEF WrittenInv
        <3>1. LineDepth(i)' = LineDepth(i)
            BY <2>1 DEF LineDepth, Before, Depth, Count
        <3>. QED  BY <2>1, <3>1 DEF IInv, WrittenInv
    <2>. QED  BY <2>2, <2>3, <2>4 DEF IInv
<1>. QED  BY <1>1, <1>2 DEF Next

(***************************************************************************)
(* The type invariant: write_ln keeps pos within the lines and writes     *)
(* exactly one slice of blnk, never longer than blnk, per line read.      *)
(***************************************************************************)
THEOREM TypeCorrect ==
    Spec => []TypeOK
<1>1. IInv => TypeOK
    BY DEF IInv
<1>. QED  BY <1>1, IInvInit, IInvStep, PTL DEF Spec

(***************************************************************************)
(* For every stream, every ind and every length of blnk, write_ln indents *)
(* each line by ind spaces per level of the nesting reached on it, when   *)
(* that nesting is not negative and fits in blnk: the dedent by d[0]      *)
(* before the line and the indent by d[1] after it keep cind the depth    *)
(* of everything written so far.                                          *)
(***************************************************************************)
THEOREM IndentIsNestingInvariant ==
    Spec => []IndentIsNesting
<1>1. IInv => IndentIsNesting
    <2>. SUFFICES ASSUME IInv, NEW i \in DOMAIN written,
                         LineDepth(i) \in 0..(Blank \div Ind)
                  PROVE  written[i] = Ind * LineDepth(i)
        BY DEF IndentIsNesting
    <2>1. written[i] = SliceLen(LineDepth(i) * Ind)
        BY DEF IInv, WrittenInv
    <2>. QED  BY <2>1, SliceLenFits
<1>. QED  BY <1>1, IInvInit, IInvStep, PTL DEF Spec

==============================================================================
