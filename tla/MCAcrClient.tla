---------------------------- MODULE MCAcrClient ----------------------------
(***************************************************************************)
(* AcrClient on two repositories and three items: the commands tag delete, *)
(* manifest list, manifest delete, purge and annotate.                     *)
(***************************************************************************)
EXTENDS AcrClient

CONSTANTS r1, r2, i1, i2, i3

CallTo(op, repo, item) == [op |-> op, repo |-> repo, item |-> item]
Batch(repos, tasks) == [repos |-> repos, tasks |-> tasks]

\* tag delete: DeleteTags over two arguments.
TagDelete ==
    { [bearer |-> b, abac |-> a, locked |-> l, faults |-> f,
       batches |-> <<Batch({r1}, << <<CallTo(DeleteAcrTag, r1, i1),
                                      CallTo(DeleteAcrTag, r1, i2)>> >>)>>] :
      b \in BOOLEAN, a \in BOOLEAN, l \in {{}, {i1}, {i2}}, f \in BOOLEAN }

\* tag delete, when tries may fail.
TagDeleteRepeated == {s \in TagDelete : s.bearer /\ s.faults /\ s.locked = {}}

\* manifest delete and manifest list, with a password or a token.
Manifest ==
    { [bearer |-> b, abac |-> FALSE, locked |-> {}, faults |-> f, batches |-> <<Batch({r1}, t)>>] :
      b \in BOOLEAN, f \in BOOLEAN,
      t \in { << <<CallTo(DeleteManifest, r1, i1), CallTo(DeleteManifest, r1, i2)>> >>,
              << <<CallTo(GetAcrManifests, r1, i1), CallTo(GetAcrManifests, r1, i2)>> >> } }

\* purge: the catalog, then a batch of two repositories: two tasks delete tags
\* of r1, one of them unlocks its tag first, and then one deletes a manifest
\* of r2.
PurgeRun ==
    { [bearer |-> TRUE, abac |-> a, locked |-> {}, faults |-> f,
       batches |->
        <<Batch({}, << <<CallTo(GetRepositories, r1, i1)>> >>),
          Batch({r1, r2}, << <<CallTo(DeleteAcrTag, r1, i1)>>,
                             <<CallTo(UpdateAcrTagAttributes, r1, i2),
                               CallTo(DeleteAcrTag, r1, i2)>> >>),
          Batch({}, << <<CallTo(DeleteManifest, r2, i3)>> >>)>>] :
      a \in BOOLEAN, f \in BOOLEAN }

\* purge: two batches of a repository: its tags are listed, a manifest is read
\* by one task while another reads the attributes of a second and unlocks it.
PurgeBatches ==
    { [bearer |-> TRUE, abac |-> TRUE, locked |-> {}, faults |-> f,
       batches |->
        <<Batch({r1}, << <<CallTo(GetAcrTags, r1, i1)>> >>),
          Batch({r2}, << <<CallTo(GetManifest, r2, i2)>>,
                         <<CallTo(GetAcrManifestAttributes, r2, i3),
                           CallTo(UpdateAcrManifestAttributes, r2, i3)>> >>)>>] :
      f \in BOOLEAN }

AllSessions ==
    {s \in TagDelete \cup Manifest \cup PurgeRun \cup PurgeBatches : s.abac => s.bearer}

\* annotate: no token is asked for.
AnnotateRun ==
    { [bearer |-> TRUE, abac |-> a, locked |-> {}, faults |-> FALSE,
       batches |-> <<Batch({}, << <<CallTo(GetAcrTags, r1, i1), CallTo(GetAcrTags, r1, i2)>> >>)>>] :
      a \in BOOLEAN }
=============================================================================
