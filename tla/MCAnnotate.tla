----------------------------- MODULE MCAnnotate -----------------------------
(* A repository of up to four tags, two to a page, of three manifests, one *)
(* of which has two or three of the tags, and of three without a tag.      *)
EXTENDS Annotate, TLC

CONSTANTS v1, v2, v3, v4, app, tool, docker, index, image, att

Base ==
    [ order |-> <<v1, v2, v3, v4>>,
      of |-> v1 :> app @@ v2 :> tool @@ v3 :> app @@ v4 :> docker,
      matching |-> {v1, v2, v3, v4}, locked |-> {}, before |-> {},
      lifecycle |-> TRUE, wellFormed |-> TRUE, untagged |-> TRUE, dryRun |-> FALSE,
      includeLocked |-> FALSE, faults |-> FALSE,
      listing |-> <<app, tool, docker, index, image>>,
      kind |-> docker :> "dockerImage" @@ index :> "index" @@ [d \in Digest |-> "image"],
      children |-> [d \in Digest |-> {}] ]

SamePage == [Base EXCEPT !.of[v2] = app]

AllCalls ==
    {[b EXCEPT !.locked = l, !.before = p, !.lifecycle = y, !.faults = f] :
        b \in {Base, SamePage}, l \in {{}, {v1}}, p \in {{}, {app}}, y \in BOOLEAN,
        f \in BOOLEAN}
    \cup {[Base EXCEPT !.matching = m, !.locked = {v3}, !.includeLocked = i, !.dryRun = d,
                       !.untagged = u] :
            m \in {{v1, v3}, {v1, v2, v3, v4}}, i \in BOOLEAN, d \in BOOLEAN, u \in BOOLEAN}
    \cup {[Base EXCEPT !.wellFormed = FALSE, !.dryRun = d] : d \in BOOLEAN}
    \cup {[Base EXCEPT !.order = << >>, !.children[index] = {docker}]}

=============================================================================
