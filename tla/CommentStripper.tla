---------------------------- MODULE CommentStripper ----------------------------
(***************************************************************************)
(* The comment pass of the main program of src/scripts/wcall2ts.py (lines *)
(* 413-441): the header text is searched for '/*' from its start again    *)
(* after every removal; the first comment found is kept as the legal      *)
(* notice; an annotation comment (/*optional*/, /*bool*/) is replaced by  *)
(* its flag; every comment is cut out together with the character before  *)
(* it (data[:start - 1]).                                                 *)
(*                                                                         *)
(* The text is a sequence of characters.  Positions are 1-based: Python's *)
(* index i is position i + 1 here.                                        *)
(***************************************************************************)
EXTENDS Naturals, Sequences

CONSTANTS
    Texts,          \* the header texts a run may read
    Annotations     \* comment text -> the flag that replaces it (lines 422-426)

Open == <<"/", "*">>
Close == <<"*", "/">>

ASSUME StripperAssumption ==
    /\ Texts \subseteq Seq(STRING) /\ Texts # {}
    /\ Annotations \in [DOMAIN Annotations -> Seq(STRING)]
    /\ DOMAIN Annotations \subseteq Seq(STRING)
    \* " __optional" and " __bool" are one character shorter than the comments
    /\ \A c \in DOMAIN Annotations : Len(Annotations[c]) < Len(c)

VARIABLES
    orig,       \* the text as read (line 408), never changed
    data,       \* data, rebuilt by every iteration
    cpnotice,   \* cpnotice; <<>> stands for None (both are false in Python)
    done        \* the while loop of line 415 has been left

vars == <<orig, data, cpnotice, done>>

\* str.find(pat, from) with 1-based positions: 0 when there is no match.
Find(s, pat, from) ==
    LET at == {i \in from..(Len(s) - Len(pat) + 1) : SubSeq(s, i, i + Len(pat) - 1) = pat}
    IN  IF at = {} THEN 0 ELSE CHOOSE i \in at : \A j \in at : i <= j

\* data.find('/*') and data.find('*/', start + 1) (lines 414, 417, 441).
Start(s) == Find(s, Open, 1)
End(s) == Find(s, Close, Start(s) + 1)

Init ==
    /\ orig \in Texts
    /\ data = orig
    /\ cpnotice = <<>>
    /\ done = FALSE

\* Mutants of Strip: the rebuilt text never assigned back (line 440
\* dropped), and the notice cut one character short (data[start:end+1]).
StripNoAssign ==
    /\ ~done
    /\ Start(data) > 0 /\ End(data) > 0
    /\ cpnotice' = IF cpnotice = <<>> THEN SubSeq(data, Start(data), End(data) + 1) ELSE cpnotice
    /\ UNCHANGED <<orig, data, done>>

StripNoticeShort ==
    LET s == Start(data)
        e == End(data)
        comment == SubSeq(data, s, e + 1)
        extra == IF comment \in DOMAIN Annotations THEN Annotations[comment] ELSE <<>>
    IN  /\ ~done
        /\ s > 0 /\ e > 0
        /\ cpnotice' = IF cpnotice = <<>> THEN SubSeq(data, s, e) ELSE cpnotice
        /\ data' = (IF s > 1 THEN SubSeq(data, 1, s - 2) ELSE <<>>)
                      \o extra \o SubSeq(data, e + 2, Len(data))
        /\ UNCHANGED <<orig, done>>

(***************************************************************************)
(* One iteration of the loop (lines 416-441): the comment from start to   *)
(* end + 2 is kept as the notice when there is none yet, and the text is  *)
(* rebuilt from data[:start - 1] (or '' at start 0), the flag and         *)
(* data[end + 2:].                                                        *)
(***************************************************************************)
Strip ==
    LET s == Start(data)
        e == End(data)
        comment == SubSeq(data, s, e + 1)
        extra == IF comment \in DOMAIN Annotations THEN Annotations[comment] ELSE <<>>
    IN  /\ ~done
        /\ s > 0 /\ e > 0
        /\ cpnotice' = IF cpnotice = <<>> THEN comment ELSE cpnotice
        /\ data' = (IF s > 1 THEN SubSeq(data, 1, s - 2) ELSE <<>>)
                      \o extra \o SubSeq(data, e + 2, Len(data))
        /\ UNCHANGED <<orig, done>>

\* The loop ends: no '/*' is left (line 415), or none of them is closed (419).
Stop ==
    /\ ~done
    /\ Start(data) = 0 \/ End(data) = 0
    /\ done' = TRUE
    /\ UNCHANGED <<orig, data, cpnotice>>

Next == Strip \/ Stop

\* The loop runs to its end before the template is read.
Spec == Init /\ [][Next]_vars /\ WF_vars(Next)
------------------------------------------------------------------------------
\* The type invariant.
TypeOK ==
    /\ orig \in Texts
    /\ data \in Seq(STRING)
    /\ cpnotice \in {<<>>} \cup
                     {c \in Seq(STRING) : /\ Len(c) >= 3
                                           /\ SubSeq(c, 1, 2) = Open
                                           /\ SubSeq(c, Len(c) - 1, Len(c)) = Close}
    /\ done \in BOOLEAN

(***************************************************************************)
(* The reference: a C compiler's reading of the text, where a comment     *)
(* opened by '/*' ends at the first '*/' after those two characters and   *)
(* is replaced by its flag; an unclosed '/*' and all after it is text.    *)
(***************************************************************************)
RECURSIVE StripRef(_)
StripRef(s) ==
    LET b == Find(s, Open, 1)
        e == IF b = 0 THEN 0 ELSE Find(s, Close, b + 2)
        comment == SubSeq(s, b, e + 1)
    IN  IF b = 0 \/ e = 0 THEN s
        ELSE SubSeq(s, 1, b - 1)
               \o (IF comment \in DOMAIN Annotations THEN Annotations[comment] ELSE <<>>)
               \o StripRef(SubSeq(s, e + 2, Len(s)))

(***************************************************************************)
(* The loop of line 415 ends for every header: every iteration removes a  *)
(* comment of at least three characters and puts back a shorter flag.     *)
(***************************************************************************)
Termination == <>done

(***************************************************************************)
(* Spec 2 and 4.7: comments are removed and annotations become flags; the *)
(* rest of the header reaches the scanners as written.  data[:start - 1]  *)
(* also removes the character before each comment, which joins a comment's*)
(* neighbours ("int/*x*/a" reads "ina"), or the line before it when the  *)
(* comment starts a line.                                                 *)
(***************************************************************************)
CodeKept == done => data = StripRef(orig)
==============================================================================
