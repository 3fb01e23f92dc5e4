-------------------------- MODULE MCEnumFactoring --------------------------
(***************************************************************************)
(* Every group of one or two members whose names have at most three     *)
(* characters over A, B and '_': long enough for two factoring rounds, a  *)
(* member equal to the probe segment, and a member that shares only a    *)
(* character prefix with it.                                               *)
(***************************************************************************)
EXTENDS EnumFactoring

MCLetters == {"A", "B"}
MCGroup == <<"A">>
Names == UNION {[1..n -> MCLetters \cup {"_"}] : n \in 0..3}
MCMembers == UNION {[1..n -> Names] : n \in 1..2}

\* Names as a C macro spells them: no empty segment (no leading, trailing
\* or doubled '_').
WellFormed(n) ==
    /\ n # <<>> => (n[1] # "_" /\ n[Len(n)] # "_")
    /\ \A i \in 1..(Len(n) - 1) : ~(n[i] = "_" /\ n[i + 1] = "_")
MCMembersWF == {m \in MCMembers : \A i \in DOMAIN m : WellFormed(m[i])}
==============================================================================
