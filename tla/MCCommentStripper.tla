--------------------------- MODULE MCCommentStripper ---------------------------
(***************************************************************************)
(* Small instance of CommentStripper: every text of up to six characters  *)
(* over a, o and the two comment characters.  "/*o*/" stands for          *)
(* /*optional*/ and its flag " O" for " __optional".                      *)
(***************************************************************************)
EXTENDS CommentStripper

SeqsUpTo(S, n) == UNION {[1..m -> S] : m \in 0..n}

MCTexts == SeqsUpTo({"a", "o", "/", "*"}, 6)
\* The texts in which no '/*' is directly followed by '/', so that Python's
\* find('*/', start + 1) and a C compiler end every comment at the same place.
MCPlainTexts == {t \in MCTexts : \A i \in 1..(Len(t) - 2) : SubSeq(t, i, i + 2) # <<"/", "*", "/">>}
MCAnnotations == [c \in {<<"/", "*", "o", "*", "/">>} |-> <<" ", "O">>]
==============================================================================
