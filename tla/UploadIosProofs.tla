---------------------------- MODULE UploadIosProofs ----------------------------
(***************************************************************************)
(* Proofs about upload-ios.py for every set of jobs, every assignment of   *)
(* builds to jobs and every bound on network errors: the type invariant   *)
(* and that two jobs of one build never both reach upload_asset.          *)
(***************************************************************************)
EXTENDS UploadIos, TLAPS

(***************************************************************************)
(* A job that is uploading or done has seen create_git_release answered   *)
(* for its build, so the build has a release.  This is what keeps a       *)
(* second job of the build from passing the refusal at line 64.           *)
(***************************************************************************)
UploadInv == \A j \in Jobs : pc[j] \in {"upload", "done"} => Build[j] \in released

IInv == TypeOK /\ UploadInv /\ OneUploaderPerRelease
------------------------------------------------------------------------------
LEMMA InitIInv == Init => IInv
<1>. USE UploadAssumption
<1>. SUFFICES ASSUME Init PROVE IInv
    OBVIOUS
<1>1. TypeOK
    BY DEF Init, TypeOK
<1>2. UploadInv /\ OneUploaderPerRelease
    BY DEF Init, UploadInv, OneUploaderPerRelease
<1>. QED  BY <1>1, <1>2 DEF IInv

LEMMA MaxFaultsNat == MaxFaults \in Nat
BY UploadAssumption

(***************************************************************************)
(* A job that moves anywhere but upload or done, while the releases stay  *)
(* or only grow, keeps both invariants.                                   *)
(***************************************************************************)
LEMMA LeaveKeeps ==
    ASSUME UploadInv, OneUploaderPerRelease, NEW j \in Jobs, NEW to,
           to \notin {"upload", "done"}, Goto(j, to), released \subseteq released',
           DOMAIN pc = Jobs
    PROVE  UploadInv' /\ OneUploaderPerRelease'
<1>1. \A k \in Jobs : pc'[k] \in {"upload", "done"} => k # j /\ pc'[k] = pc[k]
    BY DEF Goto
<1>. QED  BY <1>1 DEF UploadInv, OneUploaderPerRelease

LEMMA PcDomain == TypeOK => DOMAIN pc = Jobs
BY DEF TypeOK

\* A fast-forward push never shortens the service's branch.
LEMMA PrefixLen ==
    ASSUME NEW s \in Seq(Jobs), NEW t \in Seq(Jobs), IsPrefix(s, t)
    PROVE  Len(s) <= Len(t)
BY DEF IsPrefix

(***************************************************************************)
(* Every step keeps IInv: one step per action of a job, and under each    *)
(* one per conjunct the action can disturb.                               *)
(***************************************************************************)
LEMMA IInvStep == IInv /\ [Next]_vars => IInv'
<1>. USE MaxFaultsNat
<1>. SUFFICES ASSUME IInv, [Next]_vars PROVE IInv'
    OBVIOUS
<1>0. TypeOK /\ UploadInv /\ OneUploaderPerRelease
    BY DEF IInv
<1>1. CASE UNCHANGED vars
    BY <1>0, <1>1 DEF IInv, TypeOK, UploadInv, OneUploaderPerRelease, vars
<1>2. ASSUME NEW j \in Jobs, Lookup(j) PROVE IInv'
    BY <1>0, <1>2 DEF Lookup, Goto, IInv, TypeOK, UploadInv, OneUploaderPerRelease
<1>3. ASSUME NEW j \in Jobs, Clone(j) PROVE IInv'
    <2>0. local' \in [Jobs -> Seq(Jobs)]
        <3>1. local' = [local EXCEPT ![j] = server] \/ local' = local
            BY <1>3 DEF Clone
        <3>2. server \in Seq(Jobs) /\ local \in [Jobs -> Seq(Jobs)]
            BY <1>0 DEF TypeOK
        <3>. QED  BY <3>1, <3>2
    <2>1. faults' \in 0..MaxFaults
        BY <1>0, <1>3 DEF Clone, Fault, TypeOK
    <2>2. TypeOK'
        <3>1. pc' \in [Jobs -> {"idle", "clone", "commit", "push", "create", "upload",
                                "done", "aborted", "failed"}]
            BY <1>0, <1>3 DEF Clone, Goto, TypeOK
        <3>. QED  BY <1>0, <1>3, <2>0, <2>1, <3>1 DEF Clone, TypeOK
    <2>3. UploadInv' /\ OneUploaderPerRelease'
        <3>1. \E to \in {"commit", "failed"} : Goto(j, to)
            BY <1>3 DEF Clone
        <3>. QED  BY <1>0, <1>3, <3>1, LeaveKeeps, PcDomain DEF Clone
    <2>. QED  BY <2>2, <2>3 DEF IInv
<1>4. ASSUME NEW j \in Jobs, Commit(j) PROVE IInv'
    <2>1. local' \in [Jobs -> Seq(Jobs)]
        BY <1>0, <1>4 DEF Commit, TypeOK
    <2>. QED  BY <1>0, <1>4, <2>1 DEF Commit, Goto, IInv, TypeOK, UploadInv,
                                         OneUploaderPerRelease
<1>5. ASSUME NEW j \in Jobs, Push(j) PROVE IInv'
    <2>1. server' \in Seq(Jobs) /\ Len(server) <= Len(server')
        BY <1>0, <1>5, PrefixLen DEF Push, Fault, TypeOK
    <2>2. tag \in [Builds -> 0..Len(server')]
        BY <1>0, <2>1 DEF TypeOK
    <2>. QED  BY <1>0, <1>5, <2>1, <2>2 DEF Push, Goto, Fault, IInv, TypeOK,
                                              UploadInv, OneUploaderPerRelease
<1>6. ASSUME NEW j \in Jobs, Create(j) PROVE IInv'
    <2>0. Build[j] \in Builds /\ pc[j] = "create"
        BY <1>6 DEF Builds, Create
    <2>1. CASE Build[j] \in released /\ Goto(j, "failed")
                /\ UNCHANGED <<released, tag, faults>>
        BY <1>0, <1>6, <2>1 DEF Create, Goto, IInv, TypeOK, UploadInv,
                                   OneUploaderPerRelease
    <2>2. CASE Build[j] \notin released /\ Goto(j, "upload") /\ UNCHANGED faults
                /\ released' = released \cup {Build[j]}
                /\ tag' = [tag EXCEPT ![Build[j]] = Len(server)]
        <3>1. TypeOK'
            BY <1>0, <1>6, <2>0, <2>2 DEF Create, Goto, TypeOK
        <3>2. UploadInv'
            BY <1>0, <2>2 DEF Goto, UploadInv
        <3>3. \A k \in Jobs : pc[k] \in {"upload", "done"} => Build[k] # Build[j]
            BY <1>0, <2>2 DEF UploadInv
        <3>4. OneUploaderPerRelease'
            BY <1>0, <2>0, <2>2, <3>3 DEF Goto, OneUploaderPerRelease
        <3>. QED  BY <3>1, <3>2, <3>4 DEF IInv
    <2>3. CASE Build[j] \notin released /\ Fault /\ Goto(j, "failed")
                /\ \/ released' = released \cup {Build[j]}
                      /\ tag' = [tag EXCEPT ![Build[j]] = Len(server)]
                   \/ UNCHANGED <<released, tag>>
        <3>0. pc' \in [Jobs -> {"idle", "clone", "commit", "push", "create", "upload",
                                "done", "aborted", "failed"}] /\ faults' \in 0..MaxFaults
            BY <1>0, <2>3 DEF Goto, Fault, TypeOK
        <3>1. TypeOK'
            <4>1. CASE released' = released \cup {Build[j]}
                       /\ tag' = [tag EXCEPT ![Build[j]] = Len(server)]
                BY <1>0, <1>6, <2>0, <3>0, <4>1 DEF Create, TypeOK
            <4>2. CASE UNCHANGED <<released, tag>>
                BY <1>0, <1>6, <3>0, <4>2 DEF Create, TypeOK
            <4>. QED  BY <2>3, <4>1, <4>2
        <3>2. UploadInv' /\ OneUploaderPerRelease'
            BY <1>0, <2>3 DEF Goto, UploadInv, OneUploaderPerRelease
        <3>. QED  BY <3>1, <3>2 DEF IInv
    <2>. QED  BY <1>6, <2>1, <2>2, <2>3 DEF Create
<1>7. ASSUME NEW j \in Jobs, Upload(j) PROVE IInv'
    <2>1. Build[j] \in released
        BY <1>0, <1>7 DEF Upload, UploadInv
    <2>2. assets' \subseteq released' /\ faults' \in 0..MaxFaults
        BY <1>0, <1>7, <2>1 DEF Upload, Fault, TypeOK
    <2>3. pc' \in [Jobs -> {"idle", "clone", "commit", "push", "create", "upload",
                            "done", "aborted", "failed"}]
        BY <1>0, <1>7 DEF Upload, Goto, TypeOK
    <2>4. TypeOK'
        BY <1>0, <1>7, <2>2, <2>3 DEF Upload, TypeOK
    <2>5. UploadInv' /\ OneUploaderPerRelease'
        <3>1. CASE Goto(j, "done")
            <4>1. \A k \in Jobs : pc'[k] \in {"upload", "done"} => pc[k] \in {"upload", "done"}
                BY <1>0, <1>7, <3>1 DEF Upload, Goto, TypeOK
            <4>. QED  BY <1>0, <1>7, <4>1 DEF Upload, UploadInv, OneUploaderPerRelease
        <3>2. CASE Goto(j, "failed")
            BY <1>0, <1>7, <3>2, LeaveKeeps, PcDomain DEF Upload
        <3>. QED  BY <1>7, <3>1, <3>2 DEF Upload
    <2>. QED  BY <2>4, <2>5 DEF IInv
<1>. QED  BY <1>1, <1>2, <1>3, <1>4, <1>5, <1>6, <1>7 DEF Next, Step

\* The jobs only ever record, tag and release the builds they were given,
\* and every release's tag is a position of the service's branch.
THEOREM TypeCorrect == Spec => []TypeOK
<1>1. IInv => TypeOK
    BY DEF IInv
<1>. QED  BY InitIInv, IInvStep, <1>1, PTL DEF Spec

(***************************************************************************)
(* For any number of jobs of one build running at once, at most one of    *)
(* them gets past create_git_release (line 64) to upload_asset.           *)
(***************************************************************************)
THEOREM OneUploaderInvariant == Spec => []OneUploaderPerRelease
<1>1. IInv => OneUploaderPerRelease
    BY DEF IInv
<1>. QED  BY InitIInv, IInvStep, <1>1, PTL DEF Spec
==============================================================================
