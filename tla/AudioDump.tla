------------------------------ MODULE AudioDump ------------------------------
(***************************************************************************)
(* src/tools/packetdump/extract_audio_dump.py: two passes over a packet   *)
(* dump.  The first (lines 39-83) counts the RTP packets of each payload   *)
(* type and keeps the smallest delay of each; the most frequent type is   *)
(* taken as Opus and its smallest delay as the base.  The second (85-130) *)
(* appends the delay of every Opus packet less the base to dBuf, an       *)
(* array('L') of unsigned integers; line 137 plots max(dBuf).             *)
(*                                                                         *)
(* A record is a length (u16), plen (u16) and time (u32), then for plen   *)
(* >= 1 an RTP header (u8, pt u8, seq u16, timestamp u32, ssrc u32) and   *)
(* the payload.  The model keeps of a record its kind, its payload type,  *)
(* its delay D = time - timestamp/48 (lines 63, 116) and the number of    *)
(* its bytes the file holds (at least one): only the last may be cut.      *)
(* Records are well formed: length covers the record.                     *)
(***************************************************************************)
EXTENDS Integers, Sequences, FiniteSets

CONSTANTS
    Dumps       \* the dumps a run may read

(***************************************************************************)
(* A record as the model keeps it: pt is read by read_uint8 (line 57), D  *)
(* is an integer (Python 2 division at line 63), and the file holds at    *)
(* least one byte of every record it has.                                 *)
(***************************************************************************)
Record == [kind : {"rtp", "info"}, pt : 0..255, D : Int, bytes : Nat \ {0}]

ASSUME DumpAssumption == Dumps # {} /\ Dumps \subseteq Seq(Record)

\* The reads of a record's fields before its payload, in order (lines 43-60).
Header(kind) ==
    IF kind = "info" THEN <<"u16", "u16", "u32">>
    ELSE <<"u16", "u16", "u32", "u8", "u8", "u16", "u32", "u32">>

Width == [u8 |-> 1, u16 |-> 2, u32 |-> 4]

\* Bytes of the record before its i-th field.
Offset(kind, i) ==
    LET f[k \in 0..i - 1] == IF k = 0 THEN 0 ELSE f[k - 1] + Width[Header(kind)[k]]
    IN  f[i - 1]

(***************************************************************************)
(* read_uint8 and read_uint16 (lines 6-21) return -1 when f.read gives '', *)
(* read_uint16 indexes tmp[1] of a one-byte read; read_uint32 (23-31) has  *)
(* no check and indexes tmp[0..3] of whatever was read.  An IndexError is  *)
(* raised when the file holds fewer bytes than the read needs.            *)
(***************************************************************************)
ReadRaises(reader, avail) ==
    \/ reader = "u16" /\ avail = 1
    \/ reader = "u32" /\ avail < 4

\* The record is read to its payload without an exception.
ReadsWhole(r) ==
    \A i \in DOMAIN Header(r.kind) :
        LET avail == r.bytes - Offset(r.kind, i)
        IN  ~ReadRaises(Header(r.kind)[i], IF avail < 0 THEN 0 ELSE avail)

VARIABLES
    file,       \* the dump being read, a sequence of records
    phase,      \* "first", "second", "plotted" or "crashed"
    pos,        \* index in file of the next record the current pass reads
    ptCount,    \* pt_count
    dMin,       \* d_min
    lastPt,     \* pt, the payload type of the last RTP packet read
    ptOpus,     \* pt_opus
    DMin,       \* D_min, the base delay
    dBuf,       \* dBuf
    error       \* the exception that ended the run, or "none"

vars == <<file, phase, pos, ptCount, dMin, lastPt, ptOpus, DMin, dBuf, error>>

\* The file has no record at pos: read_uint16 gives -1 and the loop ends.
AtEnd == pos > Len(file)

Init ==
    /\ file \in Dumps
    /\ phase = "first"
    /\ pos = 1
    /\ ptCount = <<>>
    /\ dMin = <<>>
    /\ lastPt = -1
    /\ ptOpus = -1
    /\ DMin = 0
    /\ dBuf = <<>>
    /\ error = "none"

\* A key added to a dict: d[k] = v for a k that d does not hold yet.
Put(d, k, v) == [q \in DOMAIN d \cup {k} |-> IF q = k THEN v ELSE d[q]]

Crash(e) == phase' = "crashed" /\ error' = e

\* A record whose header is cut short raises in either pass.
CutRecord ==
    /\ phase \in {"first", "second"}
    /\ ~AtEnd /\ ~ReadsWhole(file[pos])
    /\ Crash("IndexError")
    /\ UNCHANGED <<file, pos, ptCount, dMin, lastPt, ptOpus, DMin, dBuf>>

\* Mutant of FirstRecord: the smallest delay never lowered after the first.
FirstRecordNoMin ==
    LET r == file[pos]
    IN  /\ phase = "first"
        /\ ~AtEnd /\ ReadsWhole(r)
        /\ IF r.kind = "rtp"
           THEN /\ ptCount' = IF r.pt \in DOMAIN ptCount
                              THEN [ptCount EXCEPT ![r.pt] = @ + 1]
                              ELSE Put(ptCount, r.pt, 1)
                /\ dMin' = IF r.pt \in DOMAIN dMin THEN dMin ELSE Put(dMin, r.pt, r.D)
                /\ lastPt' = r.pt
           ELSE UNCHANGED <<ptCount, dMin, lastPt>>
        /\ pos' = pos + 1
        /\ UNCHANGED <<file, phase, ptOpus, DMin, dBuf, error>>

(***************************************************************************)
(* Lines 48-71, one record of the first pass: an RTP packet is counted    *)
(* under its type and lowers that type's smallest delay; an info record   *)
(* (plen < 1) is skipped.                                                 *)
(***************************************************************************)
FirstRecord ==
    LET r == file[pos]
    IN  /\ phase = "first"
        /\ ~AtEnd /\ ReadsWhole(r)
        /\ IF r.kind = "rtp"
           THEN /\ ptCount' = IF r.pt \in DOMAIN ptCount
                              THEN [ptCount EXCEPT ![r.pt] = @ + 1]
                              ELSE Put(ptCount, r.pt, 1)
                /\ dMin' = IF r.pt \in DOMAIN dMin
                           THEN [dMin EXCEPT ![r.pt] = IF r.D < @ THEN r.D ELSE @]
                           ELSE Put(dMin, r.pt, r.D)
                /\ lastPt' = r.pt
           ELSE UNCHANGED <<ptCount, dMin, lastPt>>
        /\ pos' = pos + 1
        /\ UNCHANGED <<file, phase, ptOpus, DMin, dBuf, error>>

(***************************************************************************)
(* Lines 73-85: pt_opus is a type of the largest count (the first of them *)
(* in the dict's iteration order, which the model leaves open), D_min is  *)
(* d_min[pt] for the pt of the last packet read, and the file is opened  *)
(* again.  Without any RTP packet pt is unbound: NameError.               *)
(***************************************************************************)
ChooseOpus ==
    /\ phase = "first"
    /\ AtEnd
    /\ IF lastPt = -1
       THEN /\ Crash("NameError")
            /\ UNCHANGED <<pos, ptOpus, DMin>>
       ELSE /\ \E p \in DOMAIN ptCount :
                 /\ \A q \in DOMAIN ptCount : ptCount[q] <= ptCount[p]
                 /\ ptOpus' = p
            /\ DMin' = dMin[lastPt]
            /\ phase' = "second"
            /\ pos' = 1
            /\ UNCHANGED error
    /\ UNCHANGED <<file, ptCount, dMin, lastPt, dBuf>>

\* Mutant of SecondRecord: a signed array, negative delays stored.
SecondRecordSigned ==
    LET r == file[pos]
    IN  /\ phase = "second"
        /\ ~AtEnd /\ ReadsWhole(r)
        /\ dBuf' = IF r.kind = "rtp" /\ r.pt = ptOpus THEN Append(dBuf, r.D - DMin) ELSE dBuf
        /\ pos' = pos + 1
        /\ UNCHANGED <<file, phase, ptCount, dMin, lastPt, ptOpus, DMin, error>>

(***************************************************************************)
(* Lines 99-128, one record of the second pass: the delay of an Opus      *)
(* packet less D_min goes to dBuf, and array('L').append raises           *)
(* OverflowError on a negative value.                                     *)
(***************************************************************************)
SecondRecord ==
    LET r == file[pos]
        d == r.D - DMin
    IN  /\ phase = "second"
        /\ ~AtEnd /\ ReadsWhole(r)
        /\ IF r.kind = "rtp" /\ r.pt = ptOpus
           THEN IF d < 0 THEN Crash("OverflowError") /\ UNCHANGED dBuf
                ELSE dBuf' = Append(dBuf, d) /\ UNCHANGED <<phase, error>>
           ELSE UNCHANGED <<phase, error, dBuf>>
        /\ pos' = pos + 1
        /\ UNCHANGED <<file, ptCount, dMin, lastPt, ptOpus, DMin>>

\* Lines 137-152: the plot is drawn and saved once the second pass ends.
Plot ==
    /\ phase = "second"
    /\ AtEnd
    /\ phase' = "plotted"
    /\ UNCHANGED <<file, pos, ptCount, dMin, lastPt, ptOpus, DMin, dBuf, error>>

Next == CutRecord \/ FirstRecord \/ ChooseOpus \/ SecondRecord \/ Plot

Spec == Init /\ [][Next]_vars /\ WF_vars(Next)
------------------------------------------------------------------------------
\* The type invariant.
TypeOK ==
    /\ phase \in {"first", "second", "plotted", "crashed"}
    /\ pos \in 1..Len(file) + 1
    /\ DOMAIN ptCount = DOMAIN dMin
    /\ \A p \in DOMAIN ptCount : ptCount[p] \in Nat \ {0}
    /\ lastPt \in DOMAIN ptCount \cup {-1}
    /\ ptOpus \in DOMAIN ptCount \cup {-1}
    /\ dBuf \in Seq(Nat)
    /\ error \in {"none", "IndexError", "NameError", "OverflowError"}

\* The RTP packets of type p among the first n records.
Packets(n, p) == {i \in 1..n : file[i].kind = "rtp" /\ file[i].pt = p}

(***************************************************************************)
(* The first pass keeps, for every payload type it has seen, the number   *)
(* of its packets and their smallest delay, over every record read so    *)
(* far: the running minimum of line 66 is started by the first packet of  *)
(* a type at line 69 and lowered by each later one.                       *)
(***************************************************************************)
FirstPassStats ==
    phase = "first" =>
        /\ DOMAIN ptCount = {p \in {file[i].pt : i \in 1..pos - 1} : Packets(pos - 1, p) # {}}
        /\ \A p \in DOMAIN ptCount :
               /\ ptCount[p] = Cardinality(Packets(pos - 1, p))
               /\ \A i \in Packets(pos - 1, p) : dMin[p] <= file[i].D
               /\ \E i \in Packets(pos - 1, p) : dMin[p] = file[i].D

\* Every record of the file is read whole.
Whole == \A i \in DOMAIN file : ReadsWhole(file[i])

(***************************************************************************)
(* A dump with an RTP packet and no cut record is plotted: the base delay *)
(* is meant to be the smallest delay of the Opus packets (line 118        *)
(* subtracts it from each of them), so every value put into dBuf is      *)
(* non-negative.  Line 80 reads d_min[pt] with the pt of the last packet  *)
(* of the file, which need not be Opus.                                   *)
(***************************************************************************)
PlotsWholeDump ==
    Whole /\ (\E i \in DOMAIN file : file[i].kind = "rtp") => error = "none"

(***************************************************************************)
(* A dump cut anywhere, as when the recorder is stopped, is read up to    *)
(* its last whole record: read_uint8 and read_uint16 return -1 at the end *)
(* of the file and the loops stop on it.  read_uint32 has no such check, *)
(* and a record cut inside its first eight bytes raises.                  *)
(***************************************************************************)
CutDumpRead == error # "IndexError"
==============================================================================
