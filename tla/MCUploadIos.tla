------------------------------ MODULE MCUploadIos ------------------------------
(***************************************************************************)
(* Small instance of UploadIos: two jobs of one build (a job and its      *)
(* re-run) and a job of the next build.                                   *)
(***************************************************************************)
EXTENDS UploadIos

CONSTANTS j1, j2, j3

MCJobs == {j1, j2, j3}
MCBuild == (j1 :> "1234" @@ j2 :> "1234") @@ j3 :> "1235"
==============================================================================
