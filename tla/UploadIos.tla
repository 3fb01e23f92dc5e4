------------------------------ MODULE UploadIos ------------------------------
(***************************************************************************)
(* src/scripts/upload-ios.py run by CI jobs against the avs-ios-binaries   *)
(* repository and its releases.  A job looks for the release of its build *)
(* (lines 40-50), clones the repository (52-57), writes the build into    *)
(* releases.txt and commits it (58-60), tags locally (61), runs a plain    *)
(* 'git push' (62), creates the release (64) and uploads its file (67).   *)
(*                                                                         *)
(* The git calls go through subprocess.call and their results are never  *)
(* looked at.  'git push' pushes the branch and not the lightweight tag,   *)
(* so the service makes the release's tag itself, at the head of the     *)
(* default branch when create_git_release is answered.  Several jobs may  *)
(* run at once (two builds in CI) or one after the other (a re-run).      *)
(*                                                                         *)
(* A commit is named by the job that made it; its releases.txt holds that *)
(* job's build.                                                            *)
(***************************************************************************)
EXTENDS Naturals, Sequences, SequencesExt

CONSTANTS
    Jobs,       \* the CI jobs running the script
    Build,      \* Build[j]: the build (sys.argv[2]) job j releases
    MaxFaults   \* network errors the service may answer with, over all jobs

Builds == {Build[j] : j \in Jobs}

ASSUME UploadAssumption ==
    /\ Jobs # {}
    /\ Build \in [Jobs -> STRING]
    /\ MaxFaults \in Nat

VARIABLES
    server,     \* the default branch on the service: a sequence of commits
    local,      \* local[j]: the branch of job j's clone
    released,   \* the builds that have a release
    tag,        \* tag[b]: the length of server when b's release was made
    assets,     \* the builds whose release has the uploaded file
    pc,         \* pc[j]: where job j is
    faults      \* network errors so far

vars == <<server, local, released, tag, assets, pc, faults>>

\* The build recorded in releases.txt at the head of a branch.
Recorded(branch) == IF branch = <<>> THEN "none" ELSE Build[Last(branch)]

Init ==
    /\ server = <<>>
    /\ local = [j \in Jobs |-> <<>>]
    /\ released = {}
    /\ tag = [b \in Builds |-> 0]
    /\ assets = {}
    /\ pc = [j \in Jobs |-> "idle"]
    /\ faults = 0

\* A network error raised by a call of the service or of git.
Fault == faults < MaxFaults /\ faults' = faults + 1

Goto(j, to) == pc' = [pc EXCEPT ![j] = to]

\* Lines 40-50: the releases are searched for the build; one is found and
\* the job exits (with status 0), or it goes on to clone.
Lookup(j) ==
    /\ pc[j] = "idle"
    /\ Goto(j, IF Build[j] \in released THEN "aborted" ELSE "clone")
    /\ UNCHANGED <<server, local, released, tag, assets, faults>>

(***************************************************************************)
(* Lines 52-57: the old clone is removed and the repository cloned.  When  *)
(* the clone fails there is no directory and os.chdir raises.             *)
(***************************************************************************)
Clone(j) ==
    /\ pc[j] = "clone"
    /\ \/ /\ local' = [local EXCEPT ![j] = server]
          /\ Goto(j, "commit")
          /\ UNCHANGED faults
       \/ /\ Fault
          /\ Goto(j, "failed")
          /\ UNCHANGED local
    /\ UNCHANGED <<server, released, tag, assets>>

(***************************************************************************)
(* Lines 58-61: releases.txt gets the build; git commit makes a commit     *)
(* unless the file already held it (nothing to commit), and the tag stays *)
(* in the clone.                                                          *)
(***************************************************************************)
Commit(j) ==
    /\ pc[j] = "commit"
    /\ local' = [local EXCEPT ![j] = IF Recorded(local[j]) = Build[j] THEN @
                                     ELSE Append(@, j)]
    /\ Goto(j, "push")
    /\ UNCHANGED <<server, released, tag, assets, faults>>

\* Mutant of Push: git push --force, the service's branch replaced.
PushForce(j) ==
    /\ pc[j] = "push"
    /\ server' = local[j]
    /\ Goto(j, "create")
    /\ UNCHANGED <<local, released, tag, assets, faults>>

(***************************************************************************)
(* Line 62: git push is a fast-forward of the service's branch to the     *)
(* clone's; it is rejected when another job pushed since the clone, or    *)
(* fails on the network.  Either way the job goes on.                     *)
(***************************************************************************)
Push(j) ==
    /\ pc[j] = "push"
    /\ \/ /\ IsPrefix(server, local[j])
          /\ server' = local[j]
          /\ UNCHANGED faults
       \/ /\ ~IsPrefix(server, local[j])
          /\ UNCHANGED <<server, faults>>
       \/ /\ Fault
          /\ UNCHANGED server
    /\ Goto(j, "create")
    /\ UNCHANGED <<local, released, tag, assets>>

\* Mutant of Create: an existing release taken instead of refused.
CreateNoRefusal(j) ==
    /\ pc[j] = "create"
    /\ released' = released \cup {Build[j]}
    /\ tag' = IF Build[j] \in released THEN tag ELSE [tag EXCEPT ![Build[j]] = Len(server)]
    /\ Goto(j, "upload")
    /\ UNCHANGED <<server, local, assets, faults>>

(***************************************************************************)
(* Line 64: create_git_release; the service refuses a second release of   *)
(* the build, and tags the new one at the head of its branch.  A lost     *)
(* answer may leave the release made.  Every error raises.                *)
(***************************************************************************)
Create(j) ==
    LET made == /\ released' = released \cup {Build[j]}
                /\ tag' = [tag EXCEPT ![Build[j]] = Len(server)]
    IN  /\ pc[j] = "create"
        /\ \/ /\ Build[j] \in released
              /\ Goto(j, "failed")
              /\ UNCHANGED <<released, tag, faults>>
           \/ /\ Build[j] \notin released
              /\ made
              /\ Goto(j, "upload")
              /\ UNCHANGED faults
           \/ /\ Build[j] \notin released
              /\ Fault
              /\ Goto(j, "failed")
              /\ made \/ UNCHANGED <<released, tag>>
        /\ UNCHANGED <<server, local, assets>>

\* Line 67: upload_asset of the file; a lost answer may leave it attached.
Upload(j) ==
    /\ pc[j] = "upload"
    /\ \/ /\ assets' = assets \cup {Build[j]}
          /\ Goto(j, "done")
          /\ UNCHANGED faults
       \/ /\ Fault
          /\ Goto(j, "failed")
          /\ assets' \in {assets, assets \cup {Build[j]}}
    /\ UNCHANGED <<server, local, released, tag>>

Step(j) == Lookup(j) \/ Clone(j) \/ Commit(j) \/ Push(j) \/ Create(j) \/ Upload(j)

Next == \E j \in Jobs : Step(j)

(***************************************************************************)
(* Every job runs to its end: the script never waits for anything but the *)
(* calls it makes.  A finished or failed job is one of the states where   *)
(* the system stops.                                                      *)
(***************************************************************************)
Spec == Init /\ [][Next]_vars /\ \A j \in Jobs : WF_vars(Step(j))
------------------------------------------------------------------------------
\* The type invariant.
TypeOK ==
    /\ server \in Seq(Jobs)
    /\ local \in [Jobs -> Seq(Jobs)]
    /\ released \subseteq Builds
    /\ tag \in [Builds -> 0..Len(server)]
    /\ assets \subseteq released
    /\ pc \in [Jobs -> {"idle", "clone", "commit", "push", "create", "upload",
                        "done", "aborted", "failed"}]
    /\ faults \in 0..MaxFaults

(***************************************************************************)
(* Two jobs of one build (a re-run started while the first still runs)    *)
(* never both upload to its release: the release is looked up long before *)
(* it is made, and only the service's refusal of a second release at line *)
(* 64 keeps the second job from reaching upload_asset.                    *)
(***************************************************************************)
OneUploaderPerRelease ==
    \A j, k \in Jobs :
        /\ pc[j] \in {"upload", "done"}
        /\ pc[k] \in {"upload", "done"}
        /\ Build[j] = Build[k]
        => j = k

(***************************************************************************)
(* The tag of every release names a commit whose releases.txt holds that  *)
(* release's build: lines 58-62 are there to record the build before the *)
(* release is made.  The push result is ignored, and the tag is put at    *)
(* whatever head the service has when the release is created.             *)
(***************************************************************************)
ReleaseTagged ==
    \A b \in released : tag[b] >= 1 /\ Build[server[tag[b]]] = b

\* No job is between its lookup and its end.
NoneRunning == \A k \in Jobs : pc[k] \in {"idle", "done", "aborted", "failed"}

(***************************************************************************)
(* A re-run gives the release its file: a job started once its build's    *)
(* release exists and the earlier jobs have ended leads to the release   *)
(* having the file.  The re-run finds the release at line 45 and exits at *)
(* line 50 without uploading, so a job that failed between line 64 and    *)
(* line 67 leaves the release empty for good.                             *)
(***************************************************************************)
ReRunUploads ==
    \A j \in Jobs : (pc[j] = "idle" /\ Build[j] \in released /\ NoneRunning)
                        ~> (Build[j] \in assets)
==============================================================================
