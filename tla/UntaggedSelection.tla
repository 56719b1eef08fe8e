-------------------------- MODULE UntaggedSelection --------------------------
(***************************************************************************)
(* What repository.GetUntaggedManifests promises: in one step it answers   *)
(* the selection, or it fails and answers nothing.  UntaggedManifests is   *)
(* the concurrent implementation.                                          *)
(***************************************************************************)
EXTENDS RepositoryManifests

VARIABLES
    repo,    \* the repository
    phase,   \* "scanning", then "returned"
    failed,  \* the scan returned an error
    result   \* the manifests it returned

selectionVars == <<repo, phase, failed, result>>

SelectionInit ==
    /\ repo \in Repos
    /\ phase = "scanning" /\ failed = FALSE /\ result = {}

Answer ==
    /\ phase = "scanning" /\ phase' = "returned"
    /\ result' = Selected(repo)
    /\ UNCHANGED <<repo, failed>>

Fail ==
    /\ phase = "scanning" /\ phase' = "returned"
    /\ failed' = TRUE
    /\ UNCHANGED <<repo, result>>

SelectionSpec == SelectionInit /\ [][Answer \/ Fail]_selectionVars
=============================================================================
