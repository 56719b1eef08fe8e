------------------------ MODULE MCUntaggedManifests ------------------------
(***************************************************************************)
(* Repositories of up to five manifests for the scan, and its calls.       *)
(***************************************************************************)
EXTENDS UntaggedManifests, TLC

CONSTANTS
    outer, inner,   \* an OCI index and a Docker manifest list
    image, docker,  \* an OCI and a Docker image
    sig             \* an artifact that refers to image

\* As purge calls the scan: unless it is varied below, everything is untagged
\* and old enough, and nothing is a list's child.
Base ==
    [ listing       |-> <<outer, inner, image, docker, sig>>,
      tags          |-> [x \in Digest |-> 0],
      planned       |-> [x \in Digest |-> 0],
      updated       |-> [x \in Digest |-> 1],
      undated       |-> {},
      locked        |-> {},
      unlabelled    |-> {},
      kind          |-> outer :> "index" @@ inner :> "dockerList" @@ image :> "image"
                        @@ docker :> "dockerImage" @@ sig :> "artifact",
      subject       |-> {sig},
      children      |-> [x \in Digest |-> {}],
      gone          |-> {},
      dryRun        |-> FALSE,
      includeLocked |-> FALSE,
      preserveAll   |-> FALSE,
      cutoff        |-> 1 ]

Nested == [Base EXCEPT !.children[outer] = {inner, image}, !.children[inner] = {docker}]

\* inner is met before or after the list that refers to it.
Orders == {<<outer, inner, image, docker, sig>>, <<docker, inner, image, outer, sig>>}

\* The lists are tagged or not; inner may refer back to outer; outer may be an
\* untagged referrer.  Or inner is too young, and outer locked or not.
PurgeRepos ==
    {[Nested EXCEPT !.listing = order, !.tags[outer] = t, !.tags[inner] = u,
                    !.children[inner] = {docker} \cup back] :
        order \in Orders, t \in {0, 1}, u \in {0, 1}, back \in {{}, {outer}}}
    \cup {[Nested EXCEPT !.listing = order, !.subject = {sig, outer}] : order \in Orders}
    \cup {[Nested EXCEPT !.listing = order, !.updated[inner] = 2, !.locked = lock] :
            order \in Orders, lock \in {{}, {outer}}}
    \cup {[Base EXCEPT !.listing = << >>]}

\* The dry run: as many tags of outer and image are planned for deletion as
\* they have, or fewer; locks do not protect.
DryRunRepos ==
    {[Nested EXCEPT !.tags = outer :> t @@ image :> t @@ [x \in Digest |-> 0],
                    !.planned = outer :> p @@ image :> q @@ [x \in Digest |-> 0],
                    !.locked = {outer, sig}, !.undated = IF p = 0 THEN {} ELSE {inner},
                    !.dryRun = TRUE, !.includeLocked = TRUE] :
        t \in {1, 2}, p \in {0, 1}, q \in {0, 2}}

\* annotate: every manifest without tags that is no OCI image.
AnnotateRepos ==
    {[Nested EXCEPT !.tags[outer] = t, !.tags[inner] = u, !.unlabelled = n, !.locked = l,
                    !.preserveAll = TRUE, !.cutoff = NoCutoff] :
        t \in {0, 1}, u \in {0, 1}, n \in {{}, {image}}, l \in {{}, {inner}}}

\* Requests fail, and manifests are gone or have no media type.
FaultRepos ==
    {[Nested EXCEPT !.tags[outer] = t, !.gone = g, !.unlabelled = u] :
        t \in {0, 1}, g \in {{}, {outer, sig}, {inner}}, u \in {{}, {image, sig}}}

ScanRepos == PurgeRepos \cup DryRunRepos \cup AnnotateRepos \cup FaultRepos

\* A referrer that is a list.
ReferrerListRepos == {[Nested EXCEPT !.subject = {outer, sig}]}
=============================================================================
