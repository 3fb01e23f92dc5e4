------------------------------ MODULE MCAudioDump ------------------------------
(***************************************************************************)
(* Small instance of AudioDump: dumps of up to three records, two payload *)
(* types (96 and 111), delays 0..2, and a last record that may be cut at  *)
(* the boundaries that matter: inside length, after time, inside and      *)
(* after the RTP header.                                                  *)
(***************************************************************************)
EXTENDS AudioDump

\* The bytes of a whole record: an eight-byte prefix, twelve of RTP header
\* and a payload.
WholeBytes == 40

MCWhole ==
    [kind : {"rtp"}, pt : {96, 111}, D : 0..2, bytes : {WholeBytes}]
        \cup [kind : {"info"}, pt : {0}, D : {0}, bytes : {WholeBytes}]

MCLast ==
    MCWhole \cup
        {[r EXCEPT !.bytes = b] : r \in MCWhole, b \in {1, 8, 12, 20}}

MCDumps ==
    {<<r>> : r \in MCLast}
        \cup {<<r, s>> : r \in MCWhole, s \in MCLast}
        \cup {<<r, s, t>> : r \in MCWhole, s \in MCWhole, t \in MCLast}
==============================================================================
