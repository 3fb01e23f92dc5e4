-------------------------- MODULE EnumFactoringProofs --------------------------
(***************************************************************************)
(* Proofs about the prefix factoring of convert_constants for every       *)
(* alphabet, group segment and list of member names: the type invariant   *)
(* and that the first member's enum name always spells its macro name.    *)
(***************************************************************************)
EXTENDS EnumFactoring, SequenceTheorems, WellFoundedInduction, TLAPS

\* A non-empty set of naturals has a least element.
LEMMA LeastNat ==
    ASSUME NEW T \in SUBSET Nat, T # {}
    PROVE  \E x \in T : \A y \in T : ~(y < x)
<1>1. \E x \in T : \A y \in T : ~(<<y, x>> \in OpToRel(<, Nat))
    BY NatLessThanWellFounded, WFMin
<1>. QED  BY <1>1 DEF OpToRel

(***************************************************************************)
(* The '_' that str.split('_') cuts at exists when the name has one: the  *)
(* least index holding '_'.                                               *)
(***************************************************************************)
LEMMA FirstUSExists ==
    ASSUME NEW s \in Seq(Char), HasUS(s)
    PROVE  /\ FirstUS(s) \in 1..Len(s)
           /\ s[FirstUS(s)] = US
           /\ \A j \in 1..(FirstUS(s) - 1) : s[j] # US
<1>1. \E i \in DOMAIN s : s[i] = US /\ \A j \in 1..(i - 1) : s[j] # US
    <2>. DEFINE T == {i \in DOMAIN s : s[i] = US}
    <2>1. T \in SUBSET Nat /\ T # {}
        BY DEF HasUS
    <2>2. PICK x \in T : \A y \in T : ~(y < x)
        BY <2>1, LeastNat
    <2>. QED  BY <2>2
<1>. QED  BY <1>1 DEF FirstUS

(***************************************************************************)
(* A name with a '_' is its first segment, the '_' and what line 343 keeps *)
(* of it (name[len(segment) + 1:]).                                       *)
(***************************************************************************)
LEMMA SplitAtUS ==
    ASSUME NEW s \in Seq(Char), HasUS(s)
    PROVE  /\ FirstSeg(s) \in Seq(Char)
           /\ DropChars(s, Len(FirstSeg(s)) + 1) \in Seq(Char)
           /\ s = FirstSeg(s) \o <<US>> \o DropChars(s, Len(FirstSeg(s)) + 1)
<1>. DEFINE k == FirstUS(s)
            A == SubSeq(s, 1, k - 1)
            B == DropChars(s, k)
<1>1. k \in 1..Len(s) /\ s[k] = US
    BY FirstUSExists
<1>2. /\ FirstSeg(s) = A /\ A \in Seq(Char) /\ Len(A) = k - 1
      /\ \A i \in 1..k - 1 : A[i] = s[i]
    <2>1. \A i \in 1..k - 1 : s[i] \in Char
        BY <1>1
    <2>2. /\ A \in Seq(Char) /\ Len(A) = k - 1
          /\ \A i \in 1..k - 1 : A[i] = s[1 + i - 1]
        BY <1>1, <2>1, SubSeqProperties
    <2>3. FirstSeg(s) = A
        BY <1>1 DEF FirstSeg
    <2>. QED  BY <2>2, <2>3
<1>3. B \in Seq(Char) /\ Len(B) = Len(s) - k /\ \A i \in 1..Len(B) : B[i] = s[k + i]
    BY <1>1 DEF DropChars
<1>4. A \o <<US>> \o B = s
    <2>. DEFINE AU == A \o <<US>>
    <2>0. <<US>> \in Seq(Char) /\ Len(<<US>>) = 1 /\ s \in Seq(Char)
        BY DEF Char
    <2>1. /\ AU \in Seq(Char) /\ Len(AU) = k
          /\ \A i \in 1..k : AU[i] = IF i <= k - 1 THEN s[i] ELSE US
        <3>1. /\ AU \in Seq(Char) /\ Len(AU) = Len(A) + 1
              /\ \A i \in 1..Len(A) + 1 : AU[i] = IF i <= Len(A) THEN A[i] ELSE <<US>>[i - Len(A)]
            BY <1>2, <2>0, ConcatProperties
        <3>2. <<US>>[1] = US /\ Len(A) + 1 = k
            BY <1>1, <1>2
        <3>. SUFFICES ASSUME NEW i \in 1..k PROVE AU[i] = IF i <= k - 1 THEN s[i] ELSE US
            BY <3>1, <3>2
        <3>3. CASE i <= k - 1
            BY <1>2, <3>1, <3>2, <3>3
        <3>4. CASE i = k
            BY <1>2, <3>1, <3>2, <3>4
        <3>. QED  BY <1>1, <3>3, <3>4
    <2>2. /\ AU \o B \in Seq(Char) /\ Len(AU \o B) = Len(s)
          /\ \A i \in 1..Len(s) : (AU \o B)[i] = IF i <= k THEN AU[i] ELSE B[i - k]
        <3>1. /\ AU \o B \in Seq(Char) /\ Len(AU \o B) = Len(AU) + Len(B)
              /\ \A i \in 1..Len(AU) + Len(B) :
                     (AU \o B)[i] = IF i <= Len(AU) THEN AU[i] ELSE B[i - Len(AU)]
            BY <1>3, <2>1, ConcatProperties
        <3>2. Len(AU) + Len(B) = Len(s) /\ Len(AU) = k
            BY <1>1, <1>3, <2>1
        <3>. QED  BY <3>1, <3>2
    <2>3. \A i \in 1..Len(s) : (AU \o B)[i] = s[i]
        <3>. SUFFICES ASSUME NEW i \in 1..Len(s) PROVE (AU \o B)[i] = s[i]
            OBVIOUS
        <3>0. k \in Nat /\ i \in Nat
            BY <1>1
        <3>. HIDE DEF AU, A, B, k
        <3>1. CASE i <= k - 1
            <4>1. (AU \o B)[i] = AU[i]
                BY <2>2, <3>0, <3>1
            <4>2. AU[i] = s[i]
                BY <2>1, <3>0, <3>1
            <4>. QED  BY <4>1, <4>2
        <3>2. CASE i = k
            <4>1. (AU \o B)[i] = AU[i]
                BY <2>2, <3>0, <3>2
            <4>2. AU[i] = US
                BY <2>1, <3>0, <3>2
            <4>. QED  BY <1>1, <3>2, <4>1, <4>2
        <3>3. CASE i > k
            <4>1. i - k \in 1..Len(B) /\ k + (i - k) = i
                BY <1>1, <1>3, <3>0, <3>3
            <4>2. (AU \o B)[i] = B[i - k]
                BY <2>2, <3>0, <3>3
            <4>. QED  BY <1>3, <4>1, <4>2
        <3>4. i <= k - 1 \/ i = k \/ i > k
            BY <3>0
        <3>. QED  BY <3>1, <3>2, <3>3, <3>4
    <2>. QED  BY <2>0, <2>2, <2>3, SeqEqual
<1>5. DropChars(s, Len(FirstSeg(s)) + 1) = B
    BY <1>1, <1>2
<1>. QED  BY <1>2, <1>3, <1>4, <1>5

\* What s[n:] leaves of a name is a name.
LEMMA DropCharsType ==
    ASSUME NEW s \in Seq(Char), NEW n \in Nat
    PROVE  DropChars(s, n) \in Seq(Char)
<1>1. CASE n >= Len(s)
    BY <1>1 DEF DropChars
<1>2. CASE n < Len(s)
    <2>1. \A i \in n + 1..Len(s) : s[i] \in Char
        OBVIOUS
    <2>. QED  BY <1>2, <2>1, SubSeqProperties DEF DropChars
<1>. QED  BY <1>1, <1>2
(***************************************************************************)
(* A segment and its '_' moved from the front of a name to the end of the *)
(* group name leave <group>_<name> as it was.                             *)
(***************************************************************************)
LEMMA MoveSegment ==
    ASSUME NEW S, NEW g \in Seq(S), NEW u \in Seq(S), NEW p \in Seq(S),
           NEW d \in Seq(S)
    PROVE  (g \o u \o p) \o u \o d = g \o u \o (p \o u \o d)
<1>1. ASSUME NEW a \in Seq(S), NEW b \in Seq(S), NEW c \in Seq(S)
      PROVE  (a \o b) \o c = a \o (b \o c)
    BY ConcatAssociative, SMTT(60)
<1>2. g \o u \in Seq(S) /\ p \o u \in Seq(S)
    BY ConcatProperties
<1>3. ((g \o u) \o p) \o u = (g \o u) \o (p \o u)
    BY <1>1, <1>2, SMTT(60)
<1>4. ((g \o u) \o (p \o u)) \o d = (g \o u) \o ((p \o u) \o d)
    BY <1>1, <1>2, SMTT(60)
<1>. QED  BY <1>3, <1>4
------------------------------------------------------------------------------
(***************************************************************************)
(* ProbeLossless is inductive once the types are known: the first member  *)
(* exists (a group has a member) and is a name, so the split of its name  *)
(* at its first '_' is what Factor moves to the group name.               *)
(***************************************************************************)
IInv == TypeOK /\ ProbeLossless

\* The first member exists in every member list a group may have.
LEMMA FirstMember ==
    ASSUME TypeOK
    PROVE  1 \in DOMAIN orig /\ DOMAIN names = DOMAIN orig /\ names[1] \in Seq(Char)
<1>1. orig \in Seq(Seq(Char)) /\ orig # <<>>
    BY FactoringAssumption DEF TypeOK
<1>2. 1 \in DOMAIN orig
    BY <1>1
<1>. QED  BY <1>2 DEF TypeOK

LEMMA InitIInv == Init => IInv
<1>. SUFFICES ASSUME Init PROVE IInv
    OBVIOUS
<1>1. orig \in Seq(Seq(Char)) /\ Group \in Seq(Char)
    BY FactoringAssumption DEF Init, Char
<1>2. names \in [DOMAIN orig -> Seq(Char)]
    <2>1. orig \in [DOMAIN orig -> Seq(Char)]
        BY <1>1
    <2>. QED  BY <2>1 DEF Init
<1>3. grpname \in Seq(Char) /\ done \in BOOLEAN /\ orig \in Members
    BY <1>1 DEF Init
<1>4. TypeOK
    BY <1>2, <1>3 DEF TypeOK
<1>. QED  BY <1>4 DEF Init, IInv, ProbeLossless, EnumName, FullName

LEMMA IInvStep == IInv /\ [Next]_vars => IInv'
<1>. SUFFICES ASSUME IInv, [Next]_vars PROVE IInv'
    OBVIOUS
<1>0. TypeOK /\ ProbeLossless /\ 1 \in DOMAIN orig /\ DOMAIN names = DOMAIN orig
      /\ names[1] \in Seq(Char)
    BY FirstMember DEF IInv
<1>1. CASE UNCHANGED vars
    BY <1>0, <1>1 DEF vars, IInv, TypeOK, ProbeLossless, EnumName, FullName
<1>2. CASE Stop
    BY <1>0, <1>2 DEF Stop, IInv, TypeOK, ProbeLossless, EnumName, FullName
<1>3. CASE Factor
    <2>. DEFINE P == Probe
                D == DropChars(names[1], Len(P) + 1)
    <2>1. /\ P \in Seq(Char) /\ D \in Seq(Char)
          /\ names[1] = P \o <<US>> \o D
        BY <1>0, <1>3, SplitAtUS DEF Factor, Probe
    <2>2. grpname' = grpname \o <<US>> \o P /\ names'[1] = D /\ orig' = orig
        BY <1>0, <1>3 DEF Factor
    <2>3. <<US>> \in Seq(Char) /\ grpname \in Seq(Char)
        BY <1>0 DEF Char, TypeOK
    <2>4. TypeOK'
        <3>1. names' \in [DOMAIN orig -> Seq(Char)]
            <4>1. \A i \in DOMAIN names : DropChars(names[i], Len(P) + 1) \in Seq(Char)
                BY <1>0, <2>1, DropCharsType DEF TypeOK
            <4>. QED  BY <1>0, <1>3, <4>1 DEF Factor
        <3>2. grpname' \in Seq(Char)
            BY <2>1, <2>2, <2>3, ConcatProperties
        <3>. QED  BY <1>0, <1>3, <3>1, <3>2 DEF Factor, TypeOK
    <2>5. ProbeLossless'
        <3>1. (grpname \o <<US>> \o P) \o <<US>> \o D
                = grpname \o <<US>> \o (P \o <<US>> \o D)
            <4>. HIDE DEF P, D
            <4>. QED  BY <2>1, <2>3, MoveSegment, SMTT(60)
        <3>2. EnumName(1)' = grpname \o <<US>> \o names[1]
            BY <2>1, <2>2, <3>1 DEF EnumName
        <3>. QED  BY <1>0, <2>2, <3>2 DEF ProbeLossless, EnumName, FullName
    <2>. QED  BY <2>4, <2>5 DEF IInv
<1>. QED  BY <1>1, <1>2, <1>3 DEF Next

\* Factoring only ever builds names: the group name and every member name
\* stay sequences of characters, and no member is added or dropped.
THEOREM TypeCorrect == Spec => []TypeOK
<1>1. IInv => TypeOK
    BY DEF IInv
<1>. QED  BY InitIInv, IInvStep, <1>1, PTL DEF Spec

(***************************************************************************)
(* For every alphabet, group segment and member list, however many        *)
(* segments the while loop at line 333 moves to the group name, the       *)
(* first member's enum name <grpname>_<name> spells its macro name.       *)
(***************************************************************************)
THEOREM ProbeLosslessInvariant == Spec => []ProbeLossless
<1>1. IInv => ProbeLossless
    BY DEF IInv
<1>. QED  BY InitIInv, IInvStep, <1>1, PTL DEF Spec
==============================================================================
