---------------------------- MODULE EnumFactoring ----------------------------
(***************************************************************************)
(* The prefix factoring of one constant group in convert_constants        *)
(* (src/scripts/wcall2ts.py, lines 328-354).  The member names of a group *)
(* are what remains of WCALL_<grp>_<rest> after the group segment and its *)
(* '_' were cut off (lines 318-319).  While the first member's name still *)
(* has a '_', its first segment is tested with startswith against every  *)
(* member; when all match, the segment is appended to the group name and  *)
(* len(segment)+1 characters are cut from every member.                   *)
(*                                                                         *)
(* Names are sequences of characters over Letters \cup {"_"}: the         *)
(* properties are about where the cuts fall.                               *)
(***************************************************************************)
EXTENDS Naturals, Sequences

CONSTANTS
    Letters,    \* the characters of names other than the delimiter
    Group,      \* the group segment: a non-empty sequence of Letters
    Members     \* the member lists a group may have

US == "_"
Char == Letters \cup {US}

ASSUME FactoringAssumption ==
    /\ US \notin Letters
    /\ Group \in Seq(Letters) /\ Group # <<>>
    /\ Members \subseteq Seq(Seq(Char)) /\ Members # {}
    /\ \A m \in Members : m # <<>>

VARIABLES
    orig,       \* the member names as grouping left them (never changed)
    grpname,    \* grpname of the loop at line 328, extended in place
    names,      \* c['name'] of every member, cut in place
    done        \* the while loop at line 333 has been left

vars == <<orig, grpname, names, done>>

(***************************************************************************)
(* str.split('_')[0] and len(str.split('_')) > 1 on a sequence of chars.  *)
(***************************************************************************)
HasUS(s) == \E i \in DOMAIN s : s[i] = US
FirstUS(s) == CHOOSE i \in DOMAIN s : s[i] = US /\ \A j \in 1..(i - 1) : s[j] # US
FirstSeg(s) == IF HasUS(s) THEN SubSeq(s, 1, FirstUS(s) - 1) ELSE s

\* str.startswith(p)
StartsWith(s, p) == Len(p) <= Len(s) /\ SubSeq(s, 1, Len(p)) = p

\* Mutant of DropChars: the cut forgets the '_' after the segment (s[n-1:]).
DropCharsKeepUS(s, n) == IF n - 1 >= Len(s) THEN <<>> ELSE SubSeq(s, n, Len(s))

\* s[n:] in Python: the characters after the first n (empty past the end).
DropChars(s, n) == IF n >= Len(s) THEN <<>> ELSE SubSeq(s, n + 1, Len(s))

\* The probe segment of the current iteration (lines 331, 334, 347).
Probe == FirstSeg(names[1])

Init ==
    /\ orig \in Members
    /\ grpname = Group
    /\ names = orig
    /\ done = FALSE

\* Mutant of Factor: the members are rebuilt from grp[1:], losing the first.
FactorSkipFirst ==
    /\ ~done
    /\ HasUS(names[1])
    /\ \A i \in DOMAIN names : StartsWith(names[i], Probe)
    /\ grpname' = grpname \o <<US>> \o Probe
    /\ names' = [i \in 2..Len(names) |-> DropChars(names[i], Len(Probe) + 1)]
    /\ UNCHANGED <<orig, done>>

\* Mutant of Factor: the body of 'if common:' writes nothing back, so the
\* loop tests the same probe again and again.
FactorNoProgress ==
    /\ ~done
    /\ HasUS(names[1])
    /\ \A i \in DOMAIN names : StartsWith(names[i], Probe)
    /\ UNCHANGED <<orig, grpname, names, done>>

\* Lines 336-344: every member starts with the probe segment; extend the
\* group name and cut len(testp)+1 characters from every member.
Factor ==
    /\ ~done
    /\ HasUS(names[1])
    /\ \A i \in DOMAIN names : StartsWith(names[i], Probe)
    /\ grpname' = grpname \o <<US>> \o Probe
    /\ names' = [i \in DOMAIN names |-> DropChars(names[i], Len(Probe) + 1)]
    /\ UNCHANGED <<orig, done>>

\* Lines 333 and 345-346: the first member has no '_' left, or some member
\* does not start with the probe segment.
Stop ==
    /\ ~done
    /\ \/ ~HasUS(names[1])
       \/ \E i \in DOMAIN names : ~StartsWith(names[i], Probe)
    /\ done' = TRUE
    /\ UNCHANGED <<orig, grpname, names>>

Next == Factor \/ Stop

\* convert_constants runs the loop to its end without interruption.
Spec == Init /\ [][Next]_vars /\ WF_vars(Next)
------------------------------------------------------------------------------
\* The type invariant.
TypeOK ==
    /\ orig \in Members
    /\ grpname \in Seq(Char)
    /\ names \in [DOMAIN orig -> Seq(Char)]
    /\ done \in BOOLEAN

\* The full macro name, after WCALL_, of member i: <grp>_<rest>.
FullName(i) == Group \o <<US>> \o orig[i]
\* The name the generated enum gives member i: <grpname>_<member>.
EnumName(i) == grpname \o <<US>> \o names[i]

(***************************************************************************)
(* The first member (the probe) always keeps its full name: the factored  *)
(* group name followed by '_' and its member name spell WCALL_<name>.     *)
(***************************************************************************)
ProbeLossless == EnumName(1) = FullName(1)

(***************************************************************************)
(* Factoring is lossless for every member (spec 4.3 and 8.2: a segment is *)
(* moved from the members to the group name).  startswith does not check  *)
(* that the segment ends where the member's segment ends, so a member     *)
(* AB_X of a group whose probe is A_Y loses the 'B'.                      *)
(***************************************************************************)
Lossless == \A i \in DOMAIN orig : EnumName(i) = FullName(i)

(***************************************************************************)
(* The while loop of line 333 always ends: the probe loses at least one   *)
(* character per iteration.                                                *)
(***************************************************************************)
Termination == <>done
==============================================================================
