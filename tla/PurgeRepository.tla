--------------------------- MODULE PurgeRepository ---------------------------
(***************************************************************************)
(* What purge (cmd/acr/purge.go) does in one repository: purgeTags, which  *)
(* PurgeTags models, and then purgeDanglingManifests, which scans for the  *)
(* untagged manifests, keeps the keep newest and deletes the others.  A    *)
(* dry run deletes no tags, so its scan takes the tags it would have       *)
(* deleted, manifestToTagsCountMap, for gone.                              *)
(*                                                                         *)
(* The scan answers what RepositoryManifests selects, as UntaggedManifests *)
(* shows of GetUntaggedManifests; the batch behaves as PurgeBatch says.    *)
(***************************************************************************)
EXTENDS PurgeTags

CONSTANTS
    Digest, NoCutoff,
    Stores         \* the manifests and the mode of the call

M == INSTANCE RepositoryManifests WITH Repos <- {}

Store ==
    [ listing   : Seq(Digest),                \* GetAcrManifests
      of        : [Tag -> Digest],            \* tag.Digest
      updated   : [Digest -> Nat],            \* LastUpdateTime
      undated   : SUBSET Digest,              \* no readable LastUpdateTime
      rank      : [Digest -> Nat],            \* the order of digests as strings
      kind      : [Digest -> M!Kind],
      children  : [Digest -> SUBSET Digest],
      subject   : SUBSET Digest,
      lockedManifests : SUBSET Digest,
      cutoff         : Nat,                   \* timeToCompare
      removeUntagged : BOOLEAN,               \* --untagged or --untagged-only
      untaggedOnly   : BOOLEAN ]              \* --untagged-only

ASSUME PurgeRepositoryAssumption ==
    /\ Stores \subseteq Store
    /\ \A s \in Stores : /\ s.untaggedOnly => s.removeUntagged
                         /\ \A d, e \in Digest : s.rank[d] = s.rank[e] => d = e
                         /\ \A d \in Digest : s.children[d] # {} => M!IsList(s, d)

VARIABLES
    store,       \* the manifests at the start
    stage,       \* "tags", "manifests", "deleting", "returned"
    manifests,   \* the manifests the registry holds
    selected,    \* manifestsToDelete, as the scan answers
    doomed,      \* those left of them behind the keep newest
    queue,       \* those Purger.PurgeManifests has not settled yet
    deleted,     \* how many of them it counts
    batchErred,  \* one of them failed
    manifestCount, \* what purgeDanglingManifests returns
    manifestsFailed

manifestVars ==
    <<store, stage, manifests, selected, doomed, queue, deleted, batchErred, manifestCount,
      manifestsFailed>>
tagVars == vars
allVars == <<vars, manifestVars>>

PurgeRepositoryInit ==
    /\ PurgeTagsInit
    /\ store \in Stores
    /\ stage = "tags"
    /\ manifests = {store.listing[i] : i \in 1..Len(store.listing)}
    /\ selected = {} /\ doomed = {} /\ queue = {} /\ deleted = 0 /\ batchErred = FALSE
    /\ manifestCount = 0 /\ manifestsFailed = FALSE

-----------------------------------------------------------------------------
\* The tags of d that the registry lists, but for those pushed anew, which
\* refer to manifests of their own.
TagsOf(d) == {t \in present \ fresh : store.of[t] = d}

\* manifestToTagsCountMap.
Planned(d) == Cardinality({t \in chosen : store.of[t] = d})

\* Mutant: the tags chosen count as deleted in every run.
ScannedPlanning ==
    [ listing |-> store.listing, tags |-> [d \in Digest |-> Cardinality(TagsOf(d))],
      planned |-> [d \in Digest |-> Planned(d)],
      updated |-> store.updated, undated |-> store.undated,
      locked |-> store.lockedManifests, unlabelled |-> {}, kind |-> store.kind,
      subject |-> store.subject, children |-> store.children, gone |-> {},
      dryRun |-> TRUE, includeLocked |-> repo.includeLocked,
      preserveAll |-> FALSE, cutoff |-> store.cutoff ]

\* What GetUntaggedManifests is called with, and finds.
Scanned ==
    [ listing |-> store.listing, tags |-> [d \in Digest |-> Cardinality(TagsOf(d))],
      planned |-> [d \in Digest |-> Planned(d)],
      updated |-> store.updated, undated |-> store.undated,
      locked |-> store.lockedManifests, unlabelled |-> {}, kind |-> store.kind,
      subject |-> store.subject, children |-> store.children, gone |-> {},
      dryRun |-> repo.dryRun, includeLocked |-> repo.includeLocked,
      preserveAll |-> FALSE, cutoff |-> store.cutoff ]

\* sortManifestsByTime: readable times first, newest first, then by digest.
SortedBefore(d, e) ==
    IF (d \in store.undated) # (e \in store.undated) THEN e \in store.undated
    ELSE IF d \notin store.undated /\ store.updated[d] # store.updated[e]
    THEN store.updated[d] > store.updated[e]
    ELSE store.rank[d] < store.rank[e]

\* Mutant: nothing is kept when there is less than keep asks for.
BehindKeepAll(S) ==
    IF Cardinality(S) < repo.keep THEN S
    ELSE {d \in S : Cardinality({e \in S : SortedBefore(e, d)}) >= repo.keep}

\* What remains of S to be deleted; a keep of zero or less keeps nothing.
BehindKeep(S) == {d \in S : Cardinality({e \in S : SortedBefore(e, d)}) >= repo.keep}

-----------------------------------------------------------------------------
\* purgeTags, unless --untagged-only is set.
TagsStep ==
    /\ stage = "tags" /\ ~store.untaggedOnly
    /\ Answered
    /\ UNCHANGED manifestVars

TagsFault ==
    /\ stage = "tags" /\ ~store.untaggedOnly
    /\ Failed
    /\ UNCHANGED manifestVars

\* purge goes on to the manifests when it has no error and is asked to.
AfterTags ==
    /\ stage = "tags" /\ (store.untaggedOnly \/ pc = "returned")
    /\ stage' = IF store.removeUntagged /\ ~failed THEN "manifests" ELSE "returned"
    /\ UNCHANGED <<tagVars, store, manifests, selected, doomed, queue, deleted, batchErred,
                   manifestCount, manifestsFailed>>

\* The scan answers; a dry run returns the number it would delete.
Scan ==
    /\ stage = "manifests"
    /\ selected' = M!Selected(Scanned)
    /\ doomed' = BehindKeep(selected')
    /\ IF repo.dryRun
       THEN /\ manifestCount' = Cardinality(doomed')
            /\ stage' = "returned"
            /\ UNCHANGED queue
       ELSE /\ queue' = doomed'
            /\ stage' = "deleting"
            /\ UNCHANGED manifestCount
    /\ UNCHANGED <<tagVars, store, manifests, deleted, batchErred, manifestsFailed>>

ScanFails ==
    /\ stage = "manifests" /\ repo.faults
    /\ stage' = "returned" /\ manifestsFailed' = TRUE
    /\ UNCHANGED <<tagVars, store, manifests, selected, doomed, queue, deleted, batchErred,
                   manifestCount>>

SettleManifest(d) ==
    /\ stage = "deleting" /\ d \in queue
    /\ queue' = queue \ {d}
    /\ UNCHANGED <<tagVars, store, stage, selected, doomed, manifestCount, manifestsFailed>>

\* d is deleted, unlocked before if it was listed as locked, or was gone.
ManifestGone(d) ==
    /\ SettleManifest(d)
    /\ manifests' = manifests \ {d} /\ deleted' = deleted + 1
    /\ UNCHANGED batchErred

\* It could not be unlocked, or another client has locked it: it is refused.
ManifestRefused(d) ==
    /\ SettleManifest(d)
    /\ repo.interference \/ (repo.faults /\ d \in store.lockedManifests)
    /\ UNCHANGED <<manifests, deleted, batchErred>>

\* The request fails, whether or not d is deleted.
ManifestFails(d) ==
    /\ SettleManifest(d) /\ repo.faults
    /\ manifests' \in {manifests, manifests \ {d}} /\ batchErred' = TRUE
    /\ UNCHANGED deleted

ManifestCancelled(d) ==
    /\ SettleManifest(d) /\ batchErred
    /\ UNCHANGED <<manifests, deleted, batchErred>>

ManifestsDone ==
    /\ stage = "deleting" /\ queue = {}
    /\ stage' = "returned"
    /\ IF batchErred THEN manifestsFailed' = TRUE /\ UNCHANGED manifestCount
       ELSE manifestCount' = deleted /\ UNCHANGED manifestsFailed
    /\ UNCHANGED <<tagVars, store, manifests, selected, doomed, queue, deleted, batchErred>>

\* Other clients, while the tags are purged.
OtherClientsStep ==
    /\ stage = "tags" /\ ~store.untaggedOnly
    /\ \E t \in Tag : OtherClient(t)
    /\ UNCHANGED manifestVars

ManifestStep ==
    \/ AfterTags \/ Scan \/ ManifestsDone
    \/ \E d \in Digest : ManifestGone(d) \/ ManifestRefused(d) \/ ManifestCancelled(d)

ManifestFault == ScanFails \/ \E d \in Digest : ManifestFails(d)

PurgeRepositorySpec ==
    /\ PurgeRepositoryInit
    /\ [][TagsStep \/ TagsFault \/ ManifestStep \/ ManifestFault \/ OtherClientsStep]_allVars
    /\ WF_allVars(TagsStep \/ ManifestStep)

-----------------------------------------------------------------------------
(***************************************************************************)
(* Properties.                                                             *)
(***************************************************************************)
\* The tags purgeTags deletes in a run that nobody disturbs.
TagsToGo == IF store.untaggedOnly THEN {} ELSE Purgeable

\* The manifests to go: those the selection has once these tags are gone,
\* but for as many as keep says, each of them before all that go.
ManifestsToGo ==
    LET allTags == TagsAt(1..Len(repo.order))
        left    == [Scanned EXCEPT
                      !.tags = [d \in Digest |->
                                  Cardinality({t \in allTags \ TagsToGo : store.of[t] = d})],
                      !.dryRun = FALSE]
        S       == M!Selected(left)
    IN  IF ~store.removeUntagged THEN {}
        ELSE CHOOSE D \in SUBSET S :
                /\ Cardinality(S \ D) = Min({Max({repo.keep, 0}), Cardinality(S)})
                /\ \A d \in D, e \in S \ D : SortedBefore(e, d)

\* Over tags and manifests the real run, left alone, deletes and counts what
\* the dry run reports; the dry run itself deletes nothing.
DryRunPredicts ==
    ~repo.interference /\ ~repo.faults /\ stage = "returned" =>
        /\ count = Cardinality(TagsToGo) /\ manifestCount = Cardinality(ManifestsToGo)
        /\ TagsAt(1..Len(repo.order)) \ present = IF repo.dryRun THEN {} ELSE TagsToGo
        /\ M!Listed(store) \ manifests = IF repo.dryRun THEN {} ELSE ManifestsToGo

\* A manifest is deleted only when none of the tags the repository had at the
\* start refers to it any more, also when deleting some of the tags failed,
\* or was refused, and when other clients deleted some.
OnlyUntaggedAreDeleted ==
    [][\A d \in manifests \ manifests' : TagsOf(d) = {}]_allVars

\* Neither a manifest that has a tag and is not locked, nor what it refers to,
\* through nested lists also, is deleted: what is left of the listing contains
\* a set that is closed under references and has all these manifests.
ReferencedAreKept ==
    \E S \in SUBSET manifests :
        /\ \A d \in M!Listed(store) \ store.lockedManifests : TagsOf(d) # {} => d \in S
        /\ \A d \in S : store.children[d] \cap M!Listed(store) \subseteq S

\* The numbers of deleted tags and manifests never exceed what is gone of
\* those that were chosen: what is refused or fails is not counted.
CountsAreHonest ==
    ~repo.dryRun =>
        /\ count <= Cardinality(chosen \ present)
        /\ manifestCount <= Cardinality(doomed \ manifests)

\* The newest untagged manifests are kept, and what they refer to with them
\* (purge.go: "except the ones that are referenced by a multiarch manifest").
RetainedListsStayComplete ==
    \A d \in selected \ doomed : store.children[d] \cap M!Listed(store) \subseteq manifests

\* The repository is done with in the end.
PurgeRepositoryReturns == <>(stage = "returned")
=============================================================================
