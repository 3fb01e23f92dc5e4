---------------------------- MODULE ReleaseOnGithub ----------------------------
(***************************************************************************)
(* src/scripts/release-on-github.py run against the release store of the  *)
(* hosting service.  Several runs of the script for the same version may   *)
(* overlap (two CI jobs) or follow one another (a CI retry of a failed     *)
(* job).  A run looks the release up (lines 26-31), creates it when it is *)
(* missing (line 38) and uploads every entry of the assets directory in   *)
(* the order its own os.listdir gives them (lines 42-45); runs on         *)
(* different machines may list the directory in different orders.  The   *)
(* service refuses to create a second                                      *)
(* release for a tag and to attach a second asset of the same name; any   *)
(* refusal or network error raises, and the script stops there.  An       *)
(* upload whose answer is lost has still attached the asset.              *)
(***************************************************************************)
EXTENDS Naturals, Sequences, FiniteSets

CONSTANTS
    Assets,     \* the entries of assets_directory_path
    Runs,       \* the runs of the script for this version
    MaxFaults   \* network errors the service may answer with, over all runs

ASSUME ReleaseAssumption ==
    /\ IsFiniteSet(Assets)
    /\ Runs # {} /\ IsFiniteSet(Runs)
    /\ MaxFaults \in Nat

NumAssets == Cardinality(Assets)

\* The orders in which os.listdir (line 42) may give the directory: every
\* entry once.
Listings ==
    {s \in [1..NumAssets -> Assets] : \A a \in Assets : \E i \in 1..NumAssets : s[i] = a}

VARIABLES
    hasRelease, \* the release for the version exists on the service
    attached,   \* the names of the assets attached to it
    pc,         \* pc[r]: where run r is
    listing,    \* listing[r]: the directory as run r's os.listdir gives it
    next,       \* next[r]: index in listing[r] of the next entry r uploads
    faults      \* network errors so far

vars == <<hasRelease, attached, pc, listing, next, faults>>

Init ==
    /\ hasRelease = FALSE
    /\ attached = {}
    /\ pc = [r \in Runs |-> "idle"]
    /\ listing \in [Runs -> Listings]
    /\ next = [r \in Runs |-> 1]
    /\ faults = 0

(***************************************************************************)
(* Lines 26-40: the releases are listed and searched for the tag; a run   *)
(* that finds it prints "already exists, aborting" and goes on uploading. *)
(***************************************************************************)
Lookup(r) ==
    /\ pc[r] = "idle"
    /\ pc' = [pc EXCEPT ![r] = IF hasRelease THEN "upload" ELSE "create"]
    /\ UNCHANGED <<hasRelease, attached, listing, next, faults>>

\* Mutant of Create: the release used without being created.
CreateSkipped(r) ==
    /\ pc[r] = "create"
    /\ pc' = [pc EXCEPT ![r] = "upload"]
    /\ UNCHANGED <<hasRelease, attached, listing, next, faults>>

\* Line 38: create_git_release; refused when another run created it since
\* the lookup.
Create(r) ==
    /\ pc[r] = "create"
    /\ IF hasRelease
       THEN /\ pc' = [pc EXCEPT ![r] = "failed"]
            /\ UNCHANGED hasRelease
       ELSE /\ hasRelease' = TRUE
            /\ pc' = [pc EXCEPT ![r] = "upload"]
    /\ UNCHANGED <<attached, listing, next, faults>>

\* Mutant of Upload: an entry of the directory skipped after each upload.
UploadSkip(r) ==
    LET a == listing[r][next[r]]
    IN  /\ pc[r] = "upload"
        /\ next[r] <= NumAssets
        /\ \/ /\ a \in attached
              /\ pc' = [pc EXCEPT ![r] = "failed"]
              /\ UNCHANGED <<attached, listing, next, faults>>
           \/ /\ a \notin attached
              /\ attached' = attached \cup {a}
              /\ next' = [next EXCEPT ![r] = next[r] + 2]
              /\ UNCHANGED <<pc, faults>>
           \/ /\ a \notin attached
              /\ faults < MaxFaults
              /\ faults' = faults + 1
              /\ pc' = [pc EXCEPT ![r] = "failed"]
              /\ attached' \in {attached, attached \cup {a}}
              /\ UNCHANGED next
        /\ UNCHANGED <<hasRelease, listing>>

(***************************************************************************)
(* Mutant of Upload: an attached asset of the same name deleted and sent *)
(* again instead of refused, the upload possibly failing after the delete.*)
(***************************************************************************)
UploadReplace(r) ==
    LET a == listing[r][next[r]]
    IN  /\ pc[r] = "upload"
        /\ next[r] <= NumAssets
        /\ \/ /\ a \in attached
              /\ next' = [next EXCEPT ![r] = next[r] + 1]
              /\ UNCHANGED <<attached, pc, faults>>
           \/ /\ a \in attached
              /\ faults < MaxFaults
              /\ faults' = faults + 1
              /\ pc' = [pc EXCEPT ![r] = "failed"]
              /\ attached' = attached \ {a}
              /\ UNCHANGED next
           \/ /\ a \notin attached
              /\ attached' = attached \cup {a}
              /\ next' = [next EXCEPT ![r] = next[r] + 1]
              /\ UNCHANGED <<pc, faults>>
        /\ UNCHANGED <<hasRelease, listing>>

(***************************************************************************)
(* Line 45: upload_asset of the next entry.  It is refused when an asset  *)
(* of that name is attached already; it may fail on the network, the      *)
(* asset attached or not; otherwise the asset is attached.                *)
(***************************************************************************)
Upload(r) ==
    LET a == listing[r][next[r]]
    IN  /\ pc[r] = "upload"
        /\ next[r] <= NumAssets
        /\ \/ /\ a \in attached
              /\ pc' = [pc EXCEPT ![r] = "failed"]
              /\ UNCHANGED <<attached, listing, next, faults>>
           \/ /\ a \notin attached
              /\ attached' = attached \cup {a}
              /\ next' = [next EXCEPT ![r] = next[r] + 1]
              /\ UNCHANGED <<pc, faults>>
           \/ /\ a \notin attached
              /\ faults < MaxFaults
              /\ faults' = faults + 1
              /\ pc' = [pc EXCEPT ![r] = "failed"]
              /\ attached' \in {attached, attached \cup {a}}
              /\ UNCHANGED next
        /\ UNCHANGED <<hasRelease, listing>>

\* The loop of line 42 ends and the script exits with status 0.
Finish(r) ==
    /\ pc[r] = "upload"
    /\ next[r] > NumAssets
    /\ pc' = [pc EXCEPT ![r] = "done"]
    /\ UNCHANGED <<hasRelease, attached, listing, next, faults>>

Next == \E r \in Runs : Lookup(r) \/ Create(r) \/ Upload(r) \/ Finish(r)

(***************************************************************************)
(* Every run is eventually started (a failed job is retried) and, once    *)
(* started, runs to its end: the script has no waits of its own.          *)
(***************************************************************************)
Spec == Init /\ [][Next]_vars
        /\ \A r \in Runs : WF_vars(Lookup(r) \/ Create(r) \/ Upload(r) \/ Finish(r))
------------------------------------------------------------------------------
\* The type invariant: assets are only ever attached to an existing release.
TypeOK ==
    /\ hasRelease \in BOOLEAN
    /\ attached \subseteq Assets
    /\ attached # {} => hasRelease
    /\ pc \in [Runs -> {"idle", "create", "upload", "done", "failed"}]
    /\ listing \in [Runs -> Listings]
    /\ next \in [Runs -> 1..NumAssets + 1]
    /\ faults \in 0..MaxFaults

(***************************************************************************)
(* A run that exits with status 0 has left every entry of the assets       *)
(* directory attached to the release, whatever the other runs did and in  *)
(* whatever order each listed the directory.                              *)
(***************************************************************************)
CompleteOnSuccess == \A r \in Runs : pc[r] = "done" => attached = Assets

\* No run is between its lookup and its end.
NoneRunning == \A s \in Runs : pc[s] \in {"idle", "done", "failed"}

(***************************************************************************)
(* A re-run completes the release: lines 39-40 go on uploading with an    *)
(* existing release, so that starting the script again once the release   *)
(* exists and the earlier runs have ended leaves every asset attached.   *)
(* The re-run uploads from its first entry, the service refuses a name    *)
(* that is attached already, and the script stops there.                  *)
(***************************************************************************)
ReRunCompletes ==
    \A r \in Runs : (pc[r] = "idle" /\ hasRelease /\ NoneRunning) ~> (attached = Assets)

\* The release store as the runs leave it, seen through ReleaseStore: the
\* service's release and its assets map one to one; the runs' listings,
\* positions and the network errors are hidden.
Store == INSTANCE ReleaseStore
             WITH Assets <- Assets, hasRelease <- hasRelease, attached <- attached

(***************************************************************************)
(* The overlapping and retried runs implement ReleaseStore: the release   *)
(* is made once, and entries of the directory are attached to it one at a *)
(* time and never before it exists; an asset, once attached, is never     *)
(* removed or replaced, because upload_asset is refused on a name the     *)
(* release has and the script never deletes one.                          *)
(***************************************************************************)
ReleaseOnlyGrows == Store!Spec
==============================================================================
