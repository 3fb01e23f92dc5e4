------------------------- MODULE ReleaseOnGithubProofs -------------------------
(***************************************************************************)
(* Proofs about release-on-github.py for every directory, every set of    *)
(* runs, every order in which each run lists the directory and every      *)
(* bound on network errors: the type invariant, that a run exiting with  *)
(* status 0 has left every asset attached, and that the runs implement   *)
(* ReleaseStore.                                                          *)
(***************************************************************************)
EXTENDS ReleaseOnGithub, FiniteSetTheorems, TLAPS

(***************************************************************************)
(* A run that is uploading or done found or made the release, and every  *)
(* entry of its own listing that it has gone past is attached: it passed *)
(* an entry only when its upload succeeded, and nothing is ever detached. *)
(* A run that has not reached the loop is at its first entry, and a done *)
(* run went through the whole listing.                                    *)
(***************************************************************************)
Sent(r) == \A i \in 1..(next[r] - 1) : listing[r][i] \in attached

SentInv ==
    /\ \A r \in Runs : pc[r] \in {"idle", "create"} => next[r] = 1
    /\ \A r \in Runs : pc[r] \in {"upload", "done"} => hasRelease /\ Sent(r)
    /\ \A r \in Runs : pc[r] = "done" => next[r] = NumAssets + 1

IInv == TypeOK /\ SentInv
------------------------------------------------------------------------------
LEMMA NumAssetsNat == NumAssets \in Nat
BY ReleaseAssumption, FS_CardinalityType DEF NumAssets

\* The entry a run sends is an entry of the directory.
LEMMA ListingEntry ==
    ASSUME TypeOK, NEW r \in Runs, NEW i \in 1..NumAssets
    PROVE  listing[r][i] \in Assets
BY DEF TypeOK, Listings

LEMMA InitIInv == Init => IInv
<1>. SUFFICES ASSUME Init PROVE IInv
    OBVIOUS
<1>0. NumAssets \in Nat /\ MaxFaults \in Nat
    BY NumAssetsNat, ReleaseAssumption
<1>1. TypeOK
    <2>1. next \in [Runs -> 1..NumAssets + 1]
        BY <1>0 DEF Init
    <2>2. hasRelease \in BOOLEAN
        BY Zenon DEF Init
    <2>3. faults \in 0..MaxFaults
        BY <1>0 DEF Init
    <2>. QED  BY <2>1, <2>2, <2>3 DEF Init, TypeOK
<1>2. SentInv
    BY DEF Init, SentInv
<1>. QED  BY <1>1, <1>2 DEF IInv
------------------------------------------------------------------------------
(***************************************************************************)
(* Every step keeps IInv: one step per action of a run.                   *)
(***************************************************************************)
LEMMA IInvStep == IInv /\ [Next]_vars => IInv'
<1>. SUFFICES ASSUME IInv, [Next]_vars PROVE IInv'
    OBVIOUS
<1>0. TypeOK /\ NumAssets \in Nat /\ MaxFaults \in Nat
    BY NumAssetsNat, ReleaseAssumption DEF IInv
<1>1. CASE UNCHANGED vars
    BY <1>1 DEF IInv, TypeOK, SentInv, Sent, vars
<1>2. ASSUME NEW r \in Runs, Lookup(r) PROVE IInv'
    <2>1. TypeOK'
        BY <1>0, <1>2 DEF Lookup, TypeOK
    <2>2. SentInv'
        BY <1>0, <1>2 DEF IInv, SentInv, Sent, Lookup, TypeOK
    <2>. QED  BY <2>1, <2>2 DEF IInv
<1>3. ASSUME NEW r \in Runs, Create(r) PROVE IInv'
    <2>1. TypeOK'
        BY <1>0, <1>3 DEF Create, TypeOK
    <2>2. SentInv'
        BY <1>0, <1>3 DEF IInv, SentInv, Sent, Create, TypeOK
    <2>. QED  BY <2>1, <2>2 DEF IInv
<1>4. ASSUME NEW r \in Runs, Finish(r) PROVE IInv'
    <2>1. TypeOK'
        BY <1>0, <1>4 DEF Finish, TypeOK
    <2>2. SentInv'
        BY <1>0, <1>4 DEF IInv, SentInv, Sent, Finish, TypeOK
    <2>. QED  BY <2>1, <2>2 DEF IInv
<1>5. ASSUME NEW r \in Runs, Upload(r) PROVE IInv'
    <2>. DEFINE a == listing[r][next[r]]
    <2>0. /\ pc[r] = "upload" /\ next[r] \in 1..NumAssets
          /\ UNCHANGED <<hasRelease, listing>>
          /\ a \in Assets /\ hasRelease
        BY <1>0, <1>5, ListingEntry DEF Upload, TypeOK, IInv, SentInv
    <2>1. CASE a \in attached /\ pc' = [pc EXCEPT ![r] = "failed"]
                              /\ UNCHANGED <<attached, next, faults>>
        <3>1. TypeOK'
            BY <1>0, <2>0, <2>1 DEF TypeOK
        <3>2. SentInv'
            BY <1>0, <2>0, <2>1 DEF IInv, SentInv, Sent, TypeOK
        <3>. QED  BY <3>1, <3>2 DEF IInv
    <2>2. CASE a \notin attached /\ attached' = attached \cup {a}
                                 /\ next' = [next EXCEPT ![r] = next[r] + 1]
                                 /\ UNCHANGED <<pc, faults>>
        <3>1. TypeOK'
            BY <1>0, <2>0, <2>2 DEF TypeOK
        <3>2. Sent(r)'
            <4>. SUFFICES ASSUME NEW i \in 1..(next'[r] - 1)
                          PROVE  listing'[r][i] \in attached'
                BY DEF Sent
            <4>1. CASE i = next[r]
                BY <1>0, <2>0, <2>2, <4>1 DEF TypeOK
            <4>2. CASE i # next[r]
                <5>1. i \in 1..(next[r] - 1)
                    BY <1>0, <2>0, <2>2, <4>2 DEF TypeOK
                <5>. QED  BY <2>0, <2>2, <5>1 DEF IInv, SentInv, Sent
            <4>. QED  BY <4>1, <4>2
        <3>3. ASSUME NEW s \in Runs, s # r, pc'[s] \in {"upload", "done"}
              PROVE  Sent(s)'
            BY <1>0, <2>0, <2>2, <3>3 DEF IInv, SentInv, Sent, TypeOK
        <3>4. SentInv'
            BY <1>0, <2>0, <2>2, <3>2, <3>3 DEF IInv, SentInv, TypeOK
        <3>. QED  BY <3>1, <3>4 DEF IInv
    <2>3. CASE a \notin attached /\ faults < MaxFaults /\ faults' = faults + 1
               /\ pc' = [pc EXCEPT ![r] = "failed"]
               /\ attached' \in {attached, attached \cup {a}}
               /\ UNCHANGED next
        <3>1. TypeOK'
            BY <1>0, <2>0, <2>3 DEF TypeOK
        <3>2. attached \subseteq attached'
            BY <2>3
        <3>3. ASSUME NEW s \in Runs, pc'[s] \in {"upload", "done"}
              PROVE  hasRelease' /\ Sent(s)'
            <4>1. s # r /\ pc[s] \in {"upload", "done"}
                BY <1>0, <2>0, <2>3, <3>3 DEF TypeOK
            <4>2. Sent(s)
                BY <4>1 DEF IInv, SentInv
            <4>. QED  BY <2>0, <2>3, <3>2, <4>2 DEF Sent
        <3>4. SentInv'
            BY <1>0, <2>0, <2>3, <3>3 DEF IInv, SentInv, TypeOK
        <3>. QED  BY <3>1, <3>4 DEF IInv
    <2>. QED  BY <1>5, <2>1, <2>2, <2>3 DEF Upload
<1>. QED  BY <1>1, <1>2, <1>3, <1>4, <1>5 DEF Next
------------------------------------------------------------------------------
\* The runs never give the release an asset outside the directory, and
\* attach assets only to a release that exists.
THEOREM TypeCorrect == Spec => []TypeOK
<1>1. IInv => TypeOK
    BY DEF IInv
<1>. QED  BY InitIInv, IInvStep, <1>1, PTL DEF Spec

(***************************************************************************)
(* A run that exits with status 0 leaves every asset of the directory    *)
(* attached, for any number of overlapping runs, any listing orders and  *)
(* any network errors: it went through its whole listing, which names     *)
(* every entry.                                                           *)
(***************************************************************************)
THEOREM CompleteOnSuccessInvariant == Spec => []CompleteOnSuccess
<1>1. IInv => CompleteOnSuccess
    <2>. SUFFICES ASSUME IInv, NEW r \in Runs, pc[r] = "done"
                  PROVE  attached = Assets
        BY DEF CompleteOnSuccess
    <2>1. \A i \in 1..NumAssets : listing[r][i] \in attached
        BY NumAssetsNat DEF IInv, SentInv, Sent
    <2>2. \A x \in Assets : \E i \in 1..NumAssets : listing[r][i] = x
        BY DEF IInv, TypeOK, Listings
    <2>3. Assets \subseteq attached
        BY <2>1, <2>2
    <2>. QED  BY <2>3 DEF IInv, TypeOK
<1>. QED  BY InitIInv, IInvStep, <1>1, PTL DEF Spec

(***************************************************************************)
(* Every step of the runs is a step of ReleaseStore or leaves the release *)
(* as it was.                                                             *)
(***************************************************************************)
LEMMA StoreStep == IInv /\ [Next]_vars => [Store!Next]_<<hasRelease, attached>>
<1>. SUFFICES ASSUME IInv, [Next]_vars PROVE [Store!Next]_<<hasRelease, attached>>
    OBVIOUS
<1>1. CASE UNCHANGED vars
    BY <1>1 DEF vars
<1>2. ASSUME NEW r \in Runs, Lookup(r) \/ Finish(r) PROVE UNCHANGED <<hasRelease, attached>>
    BY <1>2 DEF Lookup, Finish
<1>3. ASSUME NEW r \in Runs, Create(r) PROVE [Store!Next]_<<hasRelease, attached>>
    BY <1>3 DEF Create, Store!Next, Store!Publish
<1>4. ASSUME NEW r \in Runs, Upload(r) PROVE [Store!Next]_<<hasRelease, attached>>
    <2>. DEFINE a == listing[r][next[r]]
    <2>0. /\ pc[r] = "upload" /\ next[r] \in 1..NumAssets /\ UNCHANGED hasRelease
          /\ hasRelease /\ a \in Assets
        BY <1>4, NumAssetsNat, ListingEntry DEF Upload, IInv, SentInv, TypeOK
    <2>1. ASSUME a \notin attached, attached' = attached \cup {a}
          PROVE  Store!Attach
        BY <2>0, <2>1 DEF Store!Attach
    <2>. QED  BY <1>4, <2>0, <2>1 DEF Upload, Store!Next
<1>. QED  BY <1>1, <1>2, <1>3, <1>4 DEF Next

(***************************************************************************)
(* The runs implement ReleaseStore under the identity mapping of the      *)
(* release and its assets: the release is made once, and assets of the   *)
(* directory are attached one at a time to the existing release and never *)
(* removed, whatever order each run lists the directory in.              *)
(***************************************************************************)
THEOREM Implementation == Spec => ReleaseOnlyGrows
<1>1. Init => Store!Init
    BY DEF Init, Store!Init
<1>. QED  BY <1>1, InitIInv, IInvStep, StoreStep, PTL
          DEF Spec, ReleaseOnlyGrows, Store!Spec
==============================================================================
