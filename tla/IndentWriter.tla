----------------------------- MODULE IndentWriter -----------------------------
(***************************************************************************)
(* The re-indentation of the output of src/scripts/wcall2ts.py (lines     *)
(* 7-41): every line that reaches the destination file, a template line   *)
(* or a line of a generated block, goes through write_ln, which strips    *)
(* it, counts its brackets with indent_diff and prefixes it with          *)
(* blnk[:cind * ind], where cind is the module-global depth counter.      *)
(*                                                                         *)
(* A line is a sequence of characters: "(" stands for any of ( { [, ")"   *)
(* for any of ) } ] (indent_diff treats the three kinds alike) and "a"    *)
(* for every other character.  The width of the written prefix is what    *)
(* the properties are about; the text of the line is not.                 *)
(***************************************************************************)
EXTENDS Integers, Sequences, FiniteSets

CONSTANTS
    Streams,    \* the sequences of lines a run may write
    Ind,        \* ind, the spaces per depth level (2 at line 7)
    Blank       \* len(blnk), the spaces write_ln can give (47 at line 30)

Char == {"(", ")", "a"}

ASSUME IndentAssumption ==
    /\ Streams \subseteq Seq(Seq(Char))
    /\ Streams # {}
    /\ Ind \in Nat \ {0}
    /\ Blank \in Nat

VARIABLES
    lines,      \* the lines to write, in order
    pos,        \* index of the next line to write
    cind,       \* the global depth counter of line 8
    written     \* written[i]: the number of spaces before line i

vars == <<lines, pos, cind, written>>

\* The body of the for loop of indent_diff (lines 14-23) on character c.
DiffStep(d, c) ==
    IF c = "(" THEN <<d[1], d[2] + 1>>
    ELSE IF c = ")" THEN IF d[2] > 0 THEN <<d[1], d[2] - 1>> ELSE <<d[1] - 1, d[2]>>
    ELSE d

(***************************************************************************)
(* indent_diff (lines 10-24): d[1] is minus the closing brackets that close *)
(* nothing opened earlier on the line, d[2] the openings left unclosed.   *)
(* DiffUpTo(l)[k] is d after the first k characters.                      *)
(***************************************************************************)
DiffUpTo(l) ==
    LET f[k \in 0..Len(l)] == IF k = 0 THEN <<0, 0>> ELSE DiffStep(f[k - 1], l[k])
    IN  f

IndentDiff(l) == DiffUpTo(l)[Len(l)]

\* Mutant of SliceLen: the slice taken as a length, negative bounds included.
SliceLenNaive(n) == IF n <= Blank THEN n ELSE Blank

(***************************************************************************)
(* len(blnk[:n]) in Python: a negative bound counts from the end of the   *)
(* string, and the result is cut to the string's length.                  *)
(***************************************************************************)
SliceLen(n) ==
    IF n >= 0 THEN IF n <= Blank THEN n ELSE Blank
    ELSE IF Blank + n >= 0 THEN Blank + n ELSE 0

Init ==
    /\ lines \in Streams
    /\ pos = 1
    /\ cind = 0
    /\ written = <<>>

\* Mutant of WriteLn: both halves of the difference applied before writing.
WriteLnLate ==
    LET d == IndentDiff(lines[pos])
    IN  /\ pos <= Len(lines)
        /\ written' = Append(written, SliceLen((cind + d[1] + d[2]) * Ind))
        /\ cind' = cind + d[1] + d[2]
        /\ pos' = pos + 1
        /\ UNCHANGED lines

(***************************************************************************)
(* write_ln (lines 26-35): the depth is lowered by d[0] before the line is *)
(* written and raised by d[1] after it.                                   *)
(***************************************************************************)
WriteLn ==
    LET d == IndentDiff(lines[pos])
    IN  /\ pos <= Len(lines)
        /\ written' = Append(written, SliceLen((cind + d[1]) * Ind))
        /\ cind' = cind + d[1] + d[2]
        /\ pos' = pos + 1
        /\ UNCHANGED lines

Next == WriteLn

\* The loop over the lines never stops before the last one.
Spec == Init /\ [][Next]_vars /\ WF_vars(Next)
------------------------------------------------------------------------------
\* The type invariant.
TypeOK ==
    /\ lines \in Seq(Seq(Char))
    /\ pos \in 1..Len(lines) + 1
    /\ cind \in Int
    /\ written \in Seq(0..Blank)
    /\ Len(written) = pos - 1

(***************************************************************************)
(* The reference: the nesting depth at a point of the stream is the       *)
(* number of opening brackets before it minus the number of closing ones; *)
(* a line belongs at the smallest depth reached while reading it.  A      *)
(* point is named by the positions <<line, column>> before it: all of the *)
(* lines before line i and the first k characters of line i.              *)
(***************************************************************************)
Before(i, k) == (UNION {{j} \X (1..Len(lines[j])) : j \in 1..(i - 1)}) \cup ({i} \X (1..k))

Count(P, b) == Cardinality({p \in P : lines[p[1]][p[2]] = b})

Depth(P) == Count(P, "(") - Count(P, ")")

LineDepth(i) ==
    LET ds == {Depth(Before(i, k)) : k \in 0..Len(lines[i])}
    IN  CHOOSE m \in ds : \A x \in ds : m <= x

(***************************************************************************)
(* Spec 4.7: each written line is indented by ind spaces per level of the *)
(* nesting reached on it, whatever brackets the earlier lines, template   *)
(* text and generated blocks alike, left open; this is what the split of  *)
(* indent_diff into a dedent before and an indent after the line gives.   *)
(* Stated for lines whose depth is not negative and fits in blnk.         *)
(***************************************************************************)
IndentIsNesting ==
    \A i \in DOMAIN written :
        LineDepth(i) \in 0..(Blank \div Ind) => written[i] = Ind * LineDepth(i)

(***************************************************************************)
(* A line is never indented deeper than its nesting: a line read after a  *)
(* stray closing bracket belongs at the left margin.  With cind below 0,  *)
(* blnk[:cind * ind] counts from the end of blnk and gives it 45 spaces.  *)
(***************************************************************************)
NeverDeeperThanNesting ==
    \A i \in DOMAIN written :
        written[i] <= Ind * (IF LineDepth(i) > 0 THEN LineDepth(i) ELSE 0)
==============================================================================
