-------------------------- MODULE MCPurgeRepository --------------------------
(***************************************************************************)
(* Repositories of up to four tags, listed by pages of two, so that the    *)
(* tags to keep may be spread over pages, and of four manifests: a list,   *)
(* its two images, or a nested list with one, and a third image.           *)
(***************************************************************************)
EXTENDS PurgeRepository, TLC

CONSTANTS v1, v2, v3, v4, list, amd, arm, other

AllTags == {v1, v2, v3, v4}

Call(order, matching, lock, keep, dryRun, includeLocked, faults, interference) ==
    [order |-> order, matching |-> matching, old |-> AllTags, locked |-> lock,
     keep |-> keep, dryRun |-> dryRun, includeLocked |-> includeLocked,
     faults |-> faults, interference |-> interference]

\* Alone: dry runs and real runs.
AloneCalls ==
    {Call(<<v1, v2, v3, v4>>, AllTags \ m, l, keep, dry, inc, FALSE, FALSE) :
        m \in {{}, {v2}}, l \in {{}, {v1, v4}}, keep \in 0..2, dry \in BOOLEAN,
        inc \in BOOLEAN}
    \cup {[c EXCEPT !.old = {v3, v4}] :
            c \in {Call(<<v1, v2, v3, v4>>, AllTags, {}, 1, dry, FALSE, FALSE, FALSE) :
                    dry \in BOOLEAN}}
    \cup {Call(<< >>, AllTags, {}, keep, FALSE, FALSE, FALSE, FALSE) : keep \in {0, 2}}

\* While requests fail, and while other clients are active.
DisturbedCalls ==
    {Call(<<v1, v2, v3>>, AllTags \ m, {v3}, 1, FALSE, inc, TRUE, FALSE) :
        m \in {{}, {v2}}, inc \in BOOLEAN}
    \cup {Call(<<v1, v2, v3>>, AllTags, {v3}, 0, FALSE, TRUE, TRUE, FALSE),
          Call(<<v1, v2, v3>>, AllTags, {v3}, 1, FALSE, FALSE, TRUE, TRUE)}

AllCalls == AloneCalls \cup DisturbedCalls

Manifests ==
    [ listing |-> <<list, amd, arm, other>>,
      of |-> v1 :> list @@ v2 :> amd @@ v3 :> list @@ v4 :> other,
      updated |-> [d \in Digest |-> 1], undated |-> {},
      rank |-> list :> 1 @@ amd :> 2 @@ arm :> 3 @@ other :> 4,
      kind |-> list :> "index" @@ amd :> "image" @@ arm :> "dockerImage" @@ other :> "image",
      children |-> list :> {amd, arm} @@ [d \in Digest |-> {}],
      subject |-> {}, lockedManifests |-> {}, cutoff |-> 1,
      removeUntagged |-> TRUE, untaggedOnly |-> FALSE ]

AllStores ==
    { [Manifests EXCEPT !.updated = amd :> 0 @@ [d \in Digest |-> 1],
                        !.kind[amd] = "dockerList",
                        !.children = list :> {amd} @@ amd :> {arm} @@ [d \in Digest |-> {}],
                        !.lockedManifests = {arm}],
      [Manifests EXCEPT !.removeUntagged = FALSE],
      [Manifests EXCEPT !.untaggedOnly = TRUE, !.undated = {amd, arm, other}] }

\* The list is the newest manifest of a repository without tags.
RetainedCalls == {Call(<< >>, AllTags, {}, 1, FALSE, FALSE, FALSE, FALSE)}
RetainedStores == {[Manifests EXCEPT !.updated = list :> 1 @@ [d \in Digest |-> 0]]}
=============================================================================
