------------------------------ MODULE CleanBuild ------------------------------
(***************************************************************************)
(* What a user may expect of a build tool: whatever it publishes is what   *)
(* building the present sources from nothing gives.                        *)
(***************************************************************************)
CONSTANTS Tree, None,
          Builds(_, _)   \* whether a generation is the build of a tree

VARIABLES sources, current

vars == <<sources, current>>

Init == sources \in Tree /\ current = None

Edit == sources' \in Tree /\ UNCHANGED current

Publish == Builds(current', sources) /\ UNCHANGED sources

Spec == Init /\ [][Edit \/ Publish]_vars
=============================================================================
