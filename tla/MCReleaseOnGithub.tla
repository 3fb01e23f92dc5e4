--------------------------- MODULE MCReleaseOnGithub ---------------------------
(***************************************************************************)
(* Small instance of ReleaseOnGithub: three assets, so that two runs can  *)
(* list them in orders that share no first entry; three runs of the       *)
(* script (the job, an overlapping job, a retry) and one network error.   *)
(***************************************************************************)
EXTENDS ReleaseOnGithub

CONSTANTS r1, r2, r3, tar, zip, dsym

MCRuns == {r1, r2, r3}
MCAssets == {tar, zip, dsym}
==============================================================================
