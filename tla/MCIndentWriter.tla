---------------------------- MODULE MCIndentWriter ----------------------------
(***************************************************************************)
(* Small instance of IndentWriter: every stream of up to three lines of   *)
(* up to three characters, with the script's own ind and blnk.            *)
(***************************************************************************)
EXTENDS IndentWriter

\* Every line of at most three characters.
MCLines ==
    {<<>>} \cup {<<x>> : x \in Char} \cup {<<x, y>> : x, y \in Char}
           \cup {<<x, y, z>> : x, y, z \in Char}

\* Every stream of at most three such lines.
MCStreams ==
    {<<>>} \cup {<<l>> : l \in MCLines} \cup {<<l, m>> : l, m \in MCLines}
           \cup {<<l, m, n>> : l, m, n \in MCLines}
==============================================================================
