----------------------------- MODULE ReleaseStore -----------------------------
(***************************************************************************)
(* What the release scripts promise of a version's release on the hosting *)
(* service, whatever runs of them overlap or fail, and in whatever order  *)
(* each run lists the assets directory: the release is made once, and    *)
(* entries of the directory are attached to it one at a time, never      *)
(* before it exists, and are never removed or replaced.                  *)
(***************************************************************************)
EXTENDS Naturals

CONSTANTS
    Assets      \* the entries of the assets directory

VARIABLES
    hasRelease, \* the release exists
    attached    \* the names attached to it

Init == hasRelease = FALSE /\ attached = {}

\* The release is made.
Publish == ~hasRelease /\ hasRelease' = TRUE /\ UNCHANGED attached

\* One entry of the directory that the release lacks is attached to it.
Attach ==
    /\ hasRelease
    /\ \E a \in Assets \ attached : attached' = attached \cup {a}
    /\ UNCHANGED hasRelease

Next == Publish \/ Attach

Spec == Init /\ [][Next]_<<hasRelease, attached>>
==============================================================================
