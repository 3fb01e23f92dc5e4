---------------------------- MODULE AudioDumpProofs ----------------------------
(***************************************************************************)
(* Proofs about extract_audio_dump.py for every dump of well-formed       *)
(* records: the type invariant, and that the first pass keeps the exact   *)
(* count and smallest delay of every payload type it has read.            *)
(***************************************************************************)
EXTENDS AudioDump, FiniteSetTheorems, TLAPS

\* The payload types with a packet among the first n records.
Seen(n) == {p \in {file[i].pt : i \in 1..n} : Packets(n, p) # {}}

(***************************************************************************)
(* pt_count and d_min are dicts over the same keys, with positive counts  *)
(* and integer delays, and the base delay is an integer.                  *)
(***************************************************************************)
DictsOK ==
    /\ file \in Seq(Record)
    /\ ptCount \in [DOMAIN ptCount -> Nat \ {0}]
    /\ dMin \in [DOMAIN ptCount -> Int]
    /\ DMin \in Int

------------------------------------------------------------------------------
\* The packets among the first n records are finite and behind n.
LEMMA PacketsFinite ==
    ASSUME NEW n \in Nat, NEW p
    PROVE  IsFiniteSet(Packets(n, p)) /\ Packets(n, p) \subseteq 1..n
<1>1. Packets(n, p) \subseteq 1..n
    BY DEF Packets
<1>2. IsFiniteSet(1..n)
    BY FS_Interval
<1>. QED  BY <1>1, <1>2, FS_Subset

\* Reading record n+1 adds it to the packets of its type and no other.
LEMMA PacketsStep ==
    ASSUME file \in Seq(Record), NEW n \in 0..Len(file) - 1, NEW p
    PROVE  Packets(n + 1, p) =
               IF file[n + 1].kind = "rtp" /\ file[n + 1].pt = p
               THEN Packets(n, p) \cup {n + 1} ELSE Packets(n, p)
BY DEF Packets

\* Reading record n+1 adds its type to those seen if it is an RTP packet.
LEMMA SeenStep ==
    ASSUME file \in Seq(Record), NEW n \in 0..Len(file) - 1
    PROVE  Seen(n + 1) =
               IF file[n + 1].kind = "rtp" THEN Seen(n) \cup {file[n + 1].pt}
               ELSE Seen(n)
<1>1. \A q : q \in Seen(n) <=> \E i \in Packets(n, q) : TRUE
    BY DEF Seen, Packets
<1>2. \A q : q \in Seen(n + 1) <=> \E i \in Packets(n + 1, q) : TRUE
    BY DEF Seen, Packets
<1>. QED  BY <1>1, <1>2, PacketsStep

(***************************************************************************)
(* The first pass's dicts describe the first n records: the keys are the  *)
(* types seen, each count is the number of packets of its type, and each  *)
(* minimum is the smallest of their delays.                               *)
(***************************************************************************)
Stats(C, M, n) ==
    /\ C \in [Seen(n) -> Nat \ {0}]
    /\ M \in [Seen(n) -> Int]
    /\ \A q \in Seen(n) :
           /\ C[q] = Cardinality(Packets(n, q))
           /\ \A i \in Packets(n, q) : M[q] <= file[i].D
           /\ \E i \in Packets(n, q) : M[q] = file[i].D

\* A type is seen exactly when it has a packet.
LEMMA SeenPackets ==
    ASSUME NEW n \in Nat, NEW q
    PROVE  q \in Seen(n) <=> Packets(n, q) # {}
BY DEF Seen, Packets

(***************************************************************************)
(* Lines 64-69 on RTP packet n+1 of type p: the count of p goes up by one  *)
(* or starts at one, and its minimum is lowered to the packet's delay or  *)
(* starts at it.                                                          *)
(***************************************************************************)
LEMMA RtpStep ==
    ASSUME file \in Seq(Record), NEW n \in 0..Len(file) - 1,
           file[n + 1].kind = "rtp",
           NEW C, NEW M, Stats(C, M, n)
    PROVE  LET p == file[n + 1].pt
               D == file[n + 1].D
           IN  Stats(IF p \in Seen(n) THEN [C EXCEPT ![p] = @ + 1] ELSE Put(C, p, 1),
                     IF p \in Seen(n)
                     THEN [M EXCEPT ![p] = IF D < @ THEN D ELSE @]
                     ELSE Put(M, p, D),
                     n + 1)
<1>. DEFINE p == file[n + 1].pt
            D == file[n + 1].D
            P(q) == Packets(n, q)
            P1(q) == Packets(n + 1, q)
<1>0. D \in Int /\ n \in Nat /\ n + 1 \in 1..Len(file)
    <2>1. n \in Nat /\ n + 1 \in 1..Len(file)
        OBVIOUS
    <2>2. file[n + 1] \in Record
        BY <2>1
    <2>. QED  BY <2>1, <2>2 DEF Record
<1>1. Seen(n + 1) = Seen(n) \cup {p}
    BY SeenStep
<1>2. /\ P1(p) = P(p) \cup {n + 1}
      /\ \A q \in Seen(n) \ {p} : P1(q) = P(q)
    BY PacketsStep
<1>3. IsFiniteSet(P(p)) /\ n + 1 \notin P(p)
    BY <1>0, PacketsFinite
<1>4. Cardinality(P1(p)) = Cardinality(P(p)) + 1
    BY <1>2, <1>3, FS_AddElement
<1>5. \A i \in P1(p) : file[i].D \in Int
    <2>1. \A i \in P1(p) : file[i] \in Record
        BY <1>0 DEF Packets
    <2>. QED  BY <2>1 DEF Record
<1>6. CASE p \in Seen(n)
    <2>. DEFINE C2 == [C EXCEPT ![p] = @ + 1]
                M2 == [M EXCEPT ![p] = IF D < @ THEN D ELSE @]
    <2>1. C2 \in [Seen(n + 1) -> Nat \ {0}] /\ M2 \in [Seen(n + 1) -> Int]
        <3>1. Seen(n + 1) = Seen(n)
            BY <1>1, <1>6
        <3>2. C \in [Seen(n) -> Nat \ {0}] /\ M \in [Seen(n) -> Int]
            BY DEF Stats
        <3>3. C2 \in [Seen(n) -> Nat \ {0}]
            BY <3>2, <1>6
        <3>4. M2 \in [Seen(n) -> Int]
            BY <1>0, <3>2, <1>6
        <3>. QED  BY <3>1, <3>3, <3>4
    <2>2. /\ C2[p] = Cardinality(P1(p))
          /\ \A i \in P1(p) : M2[p] <= file[i].D
          /\ \E i \in P1(p) : M2[p] = file[i].D
        <3>1. /\ C[p] = Cardinality(P(p)) /\ M[p] \in Int
              /\ \A i \in P(p) : M[p] <= file[i].D
              /\ \E i \in P(p) : M[p] = file[i].D
            BY <1>6 DEF Stats
        <3>2. C2[p] = C[p] + 1 /\ M2[p] = IF D < M[p] THEN D ELSE M[p]
            BY <1>6 DEF Stats
        <3>. QED  BY <1>0, <1>2, <1>4, <1>5, <3>1, <3>2
    <2>3. \A q \in Seen(n) \ {p} :
              /\ C2[q] = Cardinality(P1(q))
              /\ \A i \in P1(q) : M2[q] <= file[i].D
              /\ \E i \in P1(q) : M2[q] = file[i].D
        BY <1>2 DEF Stats
    <2>. QED  BY <1>1, <1>6, <2>1, <2>2, <2>3 DEF Stats
<1>7. CASE p \notin Seen(n)
    <2>. DEFINE C2 == Put(C, p, 1)
                M2 == Put(M, p, D)
    <2>0. P(p) = {}
        BY <1>0, <1>7, SeenPackets
    <2>1. C2 \in [Seen(n + 1) -> Nat \ {0}] /\ M2 \in [Seen(n + 1) -> Int]
        <3>1. C \in [Seen(n) -> Nat \ {0}] /\ M \in [Seen(n) -> Int]
            BY DEF Stats
        <3>2. C2 \in [Seen(n) \cup {p} -> Nat \ {0}]
            BY <3>1 DEF Put
        <3>3. M2 \in [Seen(n) \cup {p} -> Int]
            BY <1>0, <3>1 DEF Put
        <3>. QED  BY <1>1, <3>2, <3>3
    <2>2. /\ C2[p] = Cardinality(P1(p))
          /\ \A i \in P1(p) : M2[p] <= file[i].D
          /\ \E i \in P1(p) : M2[p] = file[i].D
        <3>1. P1(p) = {n + 1}
            BY <1>2, <2>0
        <3>2. Cardinality(P1(p)) = 1
            BY <3>1, FS_Singleton
        <3>3. C2[p] = 1 /\ M2[p] = D
            BY DEF Put
        <3>. QED  BY <1>0, <3>1, <3>2, <3>3
    <2>3. \A q \in Seen(n) :
              /\ C2[q] = Cardinality(P1(q))
              /\ \A i \in P1(q) : M2[q] <= file[i].D
              /\ \E i \in P1(q) : M2[q] = file[i].D
        <3>1. \A q \in Seen(n) : C2[q] = C[q] /\ M2[q] = M[q]
            BY <1>7 DEF Put, Stats
        <3>. QED  BY <1>2, <1>7, <3>1 DEF Stats
    <2>. QED  BY <1>1, <1>7, <2>1, <2>2, <2>3 DEF Stats
<1>. QED  BY <1>6, <1>7

\* An info record (plen < 1, line 50) changes neither dict nor what they describe.
LEMMA InfoStep ==
    ASSUME file \in Seq(Record), NEW n \in 0..Len(file) - 1,
           file[n + 1].kind # "rtp",
           NEW C, NEW M, Stats(C, M, n)
    PROVE  Stats(C, M, n + 1)
<1>1. Seen(n + 1) = Seen(n)
    BY SeenStep
<1>2. \A q : Packets(n + 1, q) = Packets(n, q)
    BY PacketsStep
<1>. QED  BY <1>1, <1>2 DEF Stats

\* While the first pass runs, its dicts describe the records read so far.
FirstInv == phase = "first" => Stats(ptCount, dMin, pos - 1)

IInv == TypeOK /\ DictsOK /\ FirstInv
------------------------------------------------------------------------------
LEMMA InitIInv == Init => IInv
<1>. SUFFICES ASSUME Init PROVE IInv
    OBVIOUS
<1>1. file \in Seq(Record)
    BY DumpAssumption DEF Init
<1>2. Seen(0) = {} /\ DOMAIN ptCount = {} /\ DOMAIN dMin = {}
    BY DEF Init, Seen, Packets
<1>3. TypeOK
    BY <1>1, <1>2 DEF Init, TypeOK
<1>4. DictsOK
    BY <1>1, <1>2 DEF Init, DictsOK
<1>5. FirstInv
    BY <1>2 DEF Init, FirstInv, Stats
<1>. QED  BY <1>3, <1>4, <1>5 DEF IInv

(***************************************************************************)
(* Every step keeps IInv: one step per action; FirstRecord rests on       *)
(* RtpStep and InfoStep, the others leave the first pass.                 *)
(***************************************************************************)
LEMMA IInvStep == IInv /\ [Next]_vars => IInv'
<1>. SUFFICES ASSUME IInv, [Next]_vars PROVE IInv'
    OBVIOUS
<1>0. /\ TypeOK /\ DictsOK /\ FirstInv
      /\ file \in Seq(Record) /\ pos \in 1..Len(file) + 1
    BY DEF IInv, DictsOK, TypeOK
<1>1. CASE UNCHANGED vars
    <2>1. TypeOK' /\ DictsOK'
        BY <1>0, <1>1 DEF vars, TypeOK, DictsOK
    <2>2. Seen(pos - 1)' = Seen(pos - 1) /\ \A q : Packets(pos - 1, q)' = Packets(pos - 1, q)
        BY <1>1 DEF vars, Seen, Packets
    <2>3. FirstInv'
        BY <1>0, <1>1, <2>2 DEF vars, FirstInv, Stats
    <2>. QED  BY <2>1, <2>3 DEF IInv
<1>2. CASE CutRecord
    BY <1>0, <1>2 DEF CutRecord, Crash, IInv, TypeOK, DictsOK, FirstInv
<1>3. CASE ChooseOpus
    <2>1. CASE lastPt = -1
        BY <1>0, <1>3, <2>1 DEF ChooseOpus, Crash, IInv, TypeOK, DictsOK, FirstInv
    <2>2. CASE lastPt # -1
        <3>3. lastPt \in DOMAIN ptCount /\ DMin' = dMin[lastPt]
            BY <1>0, <1>3, <2>2 DEF ChooseOpus, TypeOK
        <3>4. DMin' \in Int
            BY <1>0, <3>3 DEF DictsOK
        <3>5. ptOpus' \in DOMAIN ptCount /\ pos' = 1 /\ phase' = "second"
            BY <1>3, <2>2 DEF ChooseOpus
        <3>. QED  BY <1>0, <1>3, <2>2, <3>4, <3>5 DEF ChooseOpus, IInv, TypeOK,
                                                     DictsOK, FirstInv
    <2>. QED  BY <2>1, <2>2
<1>4. CASE SecondRecord
    <2>. DEFINE r == file[pos]
                d == r.D - DMin
    <2>1. pos \in 1..Len(file) /\ phase = "second"
        BY <1>0, <1>4 DEF SecondRecord, AtEnd
    <2>0. r \in Record
        BY <1>0, <2>1
    <2>2. d \in Int
        BY <1>0, <2>0 DEF Record, DictsOK
    <2>3. dBuf' \in Seq(Nat)
        <3>1. CASE r.kind = "rtp" /\ r.pt = ptOpus /\ ~(d < 0)
            <4>1. dBuf' = Append(dBuf, d) /\ d \in Nat
                BY <1>4, <2>2, <3>1 DEF SecondRecord
            <4>. QED  BY <1>0, <4>1 DEF TypeOK
        <3>2. CASE ~(r.kind = "rtp" /\ r.pt = ptOpus /\ ~(d < 0))
            <4>1. dBuf' = dBuf
                BY <1>4, <3>2 DEF SecondRecord, Crash
            <4>. QED  BY <1>0, <4>1 DEF TypeOK
        <3>. QED  BY <3>1, <3>2
    <2>4. phase' \in {"second", "crashed"} /\ error' \in {error, "OverflowError"}
        BY <1>0, <1>4, <2>1 DEF SecondRecord, Crash, TypeOK
    <2>. QED  BY <1>0, <1>4, <2>1, <2>3, <2>4 DEF SecondRecord, IInv, TypeOK,
                                                  DictsOK, FirstInv
<1>5. CASE Plot
    BY <1>0, <1>5 DEF Plot, IInv, TypeOK, DictsOK, FirstInv
<1>6. CASE FirstRecord
    <2>. DEFINE r == file[pos]
                n == pos - 1
    <2>1. /\ phase = "first" /\ pos \in 1..Len(file) /\ n \in 0..Len(file) - 1
          /\ pos' = n + 2 /\ UNCHANGED <<file, phase, ptOpus, DMin, dBuf, error>>
        BY <1>0, <1>6 DEF FirstRecord, AtEnd
    <2>2. Stats(ptCount, dMin, n) /\ DOMAIN ptCount = Seen(n) /\ DOMAIN dMin = Seen(n)
        BY <1>0, <2>1 DEF FirstInv, Stats
    <2>0. n + 1 = pos /\ r = file[n + 1] /\ r \in Record
        BY <1>0, <2>1
    <2>3. Stats(ptCount', dMin', n + 1)
        <3>1. CASE r.kind = "rtp"
            <4>1. /\ ptCount' = IF r.pt \in Seen(n) THEN [ptCount EXCEPT ![r.pt] = @ + 1]
                                ELSE Put(ptCount, r.pt, 1)
                  /\ dMin' = IF r.pt \in Seen(n)
                             THEN [dMin EXCEPT ![r.pt] = IF r.D < @ THEN r.D ELSE @]
                             ELSE Put(dMin, r.pt, r.D)
                BY <1>6, <2>2, <3>1 DEF FirstRecord
            <4>2. LET p == file[n + 1].pt
                      D == file[n + 1].D
                  IN  Stats(IF p \in Seen(n) THEN [ptCount EXCEPT ![p] = @ + 1]
                            ELSE Put(ptCount, p, 1),
                            IF p \in Seen(n)
                            THEN [dMin EXCEPT ![p] = IF D < @ THEN D ELSE @]
                            ELSE Put(dMin, p, D),
                            n + 1)
                BY <1>0, <2>0, <2>1, <2>2, <3>1, RtpStep
            <4>. QED  BY <2>0, <4>1, <4>2
        <3>2. CASE r.kind # "rtp"
            <4>0. r.kind = "info"
                BY <2>0, <3>2 DEF Record
            <4>1. UNCHANGED <<ptCount, dMin>>
                BY <1>6, <3>2 DEF FirstRecord
            <4>. QED  BY <1>0, <2>0, <2>1, <2>2, <3>2, <4>1, InfoStep
        <3>. QED  BY <3>1, <3>2
    <2>4. /\ DOMAIN ptCount' = Seen(n + 1) /\ DOMAIN dMin' = Seen(n + 1)
          /\ ptCount' \in [DOMAIN ptCount' -> Nat \ {0}]
          /\ dMin' \in [DOMAIN ptCount' -> Int]
        BY <2>3 DEF Stats
    <2>5. Seen(n) \subseteq Seen(n + 1)
        BY <1>0, <2>1, SeenStep
    <2>6. lastPt' \in DOMAIN ptCount' \cup {-1}
        <3>1. CASE r.kind = "rtp"
            <4>0. lastPt' = r.pt
                BY <1>6, <3>1 DEF FirstRecord
            <4>1. lastPt' = r.pt /\ r.pt \in Seen(n + 1)
                BY <1>0, <2>0, <2>1, <3>1, <4>0, SeenStep
            <4>. QED  BY <2>4, <4>1
        <3>2. CASE r.kind # "rtp"
            BY <1>0, <1>6, <2>2, <2>4, <2>5, <3>2 DEF FirstRecord, TypeOK
        <3>. QED  BY <3>1, <3>2
    <2>7. TypeOK'
        BY <1>0, <2>1, <2>2, <2>4, <2>5, <2>6 DEF TypeOK
    <2>8. DictsOK'
        BY <1>0, <2>1, <2>4 DEF DictsOK
    <2>9. FirstInv'
        <3>1. PICK c, m : c = ptCount' /\ m = dMin'
            OBVIOUS
        <3>2. Stats(c, m, n + 1)
            BY <2>3, <3>1
        <3>3. Seen(pos - 1)' = Seen(n + 1)
            BY <2>1 DEF Seen, Packets
        <3>4. \A q : Packets(pos - 1, q)' = Packets(n + 1, q)
            BY <2>1 DEF Packets
        <3>. QED  BY <2>1, <3>1, <3>2, <3>3, <3>4 DEF FirstInv, Stats
    <2>. QED  BY <2>7, <2>8, <2>9 DEF IInv
<1>. QED  BY <1>1, <1>2, <1>3, <1>4, <1>5, <1>6 DEF Next

\* The script only ever holds counts, delays and a dBuf of the types the
\* code gives them, for every dump of well-formed records.
THEOREM TypeCorrect == Spec => []TypeOK
<1>1. IInv => TypeOK
    BY DEF IInv
<1>. QED  BY InitIInv, IInvStep, <1>1, PTL DEF Spec

(***************************************************************************)
(* For every dump, while the first pass runs, pt_count holds the exact     *)
(* number of packets of every payload type read so far and d_min the      *)
(* smallest of their delays (lines 64-69).                                 *)
(***************************************************************************)
THEOREM FirstPassStatsInvariant == Spec => []FirstPassStats
<1>1. IInv => FirstPassStats
    <2>. SUFFICES ASSUME IInv, phase = "first" PROVE FirstPassStats
        BY DEF FirstPassStats
    <2>1. Stats(ptCount, dMin, pos - 1)
        BY DEF IInv, FirstInv
    <2>. QED  BY <2>1 DEF FirstPassStats, Stats, Seen
<1>. QED  BY InitIInv, IInvStep, <1>1, PTL DEF Spec
==============================================================================
