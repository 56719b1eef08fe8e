-------------------------------- MODULE Purge --------------------------------
(***************************************************************************)
(* purge (cmd/acr/purge.go): the repositories the filters select, sorted,  *)
(* in batches; on an ABAC registry the token is renewed for each batch.    *)
(* In each repository purgeTags and then purgeDanglingManifests run; their *)
(* calls, which PurgeTags, UntaggedManifests and Purger detail, delete a   *)
(* number of items and return, or fail having deleted a number of items.   *)
(* A dry run takes the same steps with the items it would delete.          *)
(* A repository is its position in the sorted list.  PurgeCommand has what *)
(* comes before.                                                           *)
(***************************************************************************)
EXTENDS Naturals, Sequences, FiniteSets

CONSTANTS
    BatchSize, \* ABAC_BATCH_SIZE, 10 by default
    MaxItems,  \* bound: items deleted by a call
    Faults     \* requests may fail

ASSUME PurgeAssumption ==
    /\ BatchSize \in Nat \ {0} /\ MaxItems \in Nat /\ Faults \in BOOLEAN

VARIABLES
    call,           \* the call: repos, how many there are; catalog, the one
                    \* named "catalog", if any; abac, acrClient.IsAbac();
                    \* untaggedOnly; removeUntagged
    pc,             \* "batch", "tags", "manifests", "returned"
    start,          \* i: where the batch starts
    at,             \* the repository at hand
    scope,          \* the repositories the token is good for
    tagsGone,       \* how many tags the call deleted in each repository
    manifestsGone,  \* and how many manifests
    single,         \* singleDeletedTagsCount
    tagsCount,      \* deletedTagsCount
    manifestsCount, \* deletedManifestsCount
    completed,      \* completedRepos
    remaining,      \* remainingRepos[1:], as a permission error reports them
    error           \* "none", "refresh", "permission", "other"

goneVars == <<tagsGone, manifestsGone>>
countVars == <<single, tagsCount, manifestsCount, completed>>
purgeVars == <<call, pc, start, at, scope, goneVars, countVars, remaining, error>>

Repo == 1..call.repos

\* The call c begins.
Begins(c) ==
    /\ call' = c
    /\ pc' = "batch" /\ start' = 0 /\ at' = 0
    /\ scope' = IF c.abac THEN {} ELSE 1..c.repos
    /\ tagsGone' = [r \in 1..c.repos |-> 0] /\ manifestsGone' = [r \in 1..c.repos |-> 0]
    /\ single' = 0 /\ tagsCount' = 0 /\ manifestsCount' = 0
    /\ completed' = << >> /\ remaining' = << >> /\ error' = "none"

-----------------------------------------------------------------------------
\* The last repository of the batch.
BatchEnd == IF start + BatchSize > call.repos THEN call.repos ELSE start + BatchSize

\* buildAbacScope: the name "catalog" asks for the catalog.
ScopeOf(repositories) == repositories \ call.catalog

\* Mutant: the token is renewed for the first batch only.
NextBatchSameToken ==
    /\ pc = "batch" /\ start < call.repos
    /\ scope' = IF call.abac /\ start = 0 THEN ScopeOf(start + 1 .. BatchEnd) ELSE scope
    /\ at' = start + 1
    /\ pc' = "tags"
    /\ UNCHANGED <<call, start, goneVars, countVars, remaining, error>>

\* RefreshTokenForAbac, on an ABAC registry; the first repository is next.
NextBatch ==
    /\ pc = "batch" /\ start < call.repos
    /\ scope' = IF call.abac THEN ScopeOf(start + 1 .. BatchEnd) ELSE scope
    /\ at' = start + 1
    /\ pc' = "tags"
    /\ UNCHANGED <<call, start, goneVars, countVars, remaining, error>>

RefreshFails ==
    /\ pc = "batch" /\ start < call.repos
    /\ call.abac /\ Faults
    /\ pc' = "returned" /\ error' = "refresh"
    /\ UNCHANGED <<call, start, at, scope, goneVars, countVars, remaining>>

\* Mutant: the batches are expected to end at the last repository exactly.
LastPurged ==
    /\ pc = "batch" /\ start = call.repos
    /\ pc' = "returned"
    /\ UNCHANGED <<call, start, at, scope, goneVars, countVars, remaining, error>>

AllPurged ==
    /\ pc = "batch" /\ start >= call.repos
    /\ pc' = "returned"
    /\ UNCHANGED <<call, start, at, scope, goneVars, countVars, remaining, error>>

-----------------------------------------------------------------------------
\* --untagged-only: no tags are deleted.
SkipTags ==
    /\ pc = "tags" /\ call.untaggedOnly
    /\ single' = 0
    /\ pc' = "manifests"
    /\ UNCHANGED <<call, start, at, scope, goneVars, tagsCount, manifestsCount, completed,
                   remaining, error>>

\* purgeTags deletes n tags.
PurgeTags(n) ==
    /\ pc = "tags" /\ ~call.untaggedOnly /\ at \in scope
    /\ tagsGone' = [tagsGone EXCEPT ![at] = n]
    /\ single' = n
    /\ pc' = "manifests"
    /\ UNCHANGED <<call, start, at, scope, manifestsGone, tagsCount, manifestsCount, completed,
                   remaining, error>>

\* Mutant: the next batch starts one behind the start of this one.
RepoPurgedOverlap(n) ==
    /\ tagsCount' = tagsCount + single
    /\ manifestsCount' = manifestsCount + n
    /\ completed' = Append(completed, at)
    /\ IF at < BatchEnd THEN at' = at + 1 /\ pc' = "tags" /\ UNCHANGED start
       ELSE start' = start + 1 /\ pc' = "batch" /\ UNCHANGED at
    /\ UNCHANGED <<call, scope, tagsGone, single, remaining, error>>

\* The counters are updated once the repository is purged.
RepoPurged(n) ==
    /\ tagsCount' = tagsCount + single
    /\ manifestsCount' = manifestsCount + n
    /\ completed' = Append(completed, at)
    /\ IF at < BatchEnd THEN at' = at + 1 /\ pc' = "tags" /\ UNCHANGED start
       ELSE start' = start + BatchSize /\ pc' = "batch" /\ UNCHANGED at
    /\ UNCHANGED <<call, scope, tagsGone, single, remaining, error>>

SkipManifests ==
    /\ pc = "manifests" /\ ~call.removeUntagged
    /\ RepoPurged(0)
    /\ UNCHANGED manifestsGone

\* purgeDanglingManifests deletes n manifests.
PurgeManifests(n) ==
    /\ pc = "manifests" /\ call.removeUntagged /\ at \in scope
    /\ manifestsGone' = [manifestsGone EXCEPT ![at] = n]
    /\ RepoPurged(n)

-----------------------------------------------------------------------------
\* Mutant: the repositories that remain are counted from the batch's start.
CallFailsInBatch(err) ==
    /\ pc' = "returned" /\ error' = err
    /\ remaining' = IF err = "permission"
                    THEN [k \in 1..(call.repos - start - 1) |-> start + 1 + k] ELSE << >>
    /\ UNCHANGED <<call, start, at, scope, countVars>>

\* A call fails.  A 401 is reported with what is left of repos behind the
\* repository, repos[i+indexOf(batch, repoName):] without its first.
CallFails(err) ==
    /\ pc' = "returned" /\ error' = err
    /\ remaining' = IF err = "permission" THEN [k \in 1..(call.repos - at) |-> at + k]
                    ELSE << >>
    /\ UNCHANGED <<call, start, at, scope, countVars>>

\* Outside the token's scope every request is answered 401.
Failure == IF at \notin scope THEN {"permission"}
           ELSE IF Faults THEN {"permission", "other"} ELSE {}

\* What a failing call has deleted until then.
Until == IF at \notin scope THEN {0} ELSE 0..MaxItems

PurgeTagsFails(n) ==
    /\ pc = "tags" /\ ~call.untaggedOnly
    /\ \E err \in Failure : CallFails(err)
    /\ n \in Until
    /\ tagsGone' = [tagsGone EXCEPT ![at] = n]
    /\ UNCHANGED manifestsGone

PurgeManifestsFails(n) ==
    /\ pc = "manifests" /\ call.removeUntagged
    /\ \E err \in Failure : CallFails(err)
    /\ n \in Until
    /\ manifestsGone' = [manifestsGone EXCEPT ![at] = n]
    /\ UNCHANGED tagsGone

PurgeNext ==
    \/ NextBatch \/ RefreshFails \/ AllPurged
    \/ SkipTags \/ SkipManifests
    \/ \E n \in 0..MaxItems : \/ PurgeTags(n) \/ PurgeManifests(n)
                              \/ PurgeTagsFails(n) \/ PurgeManifestsFails(n)

-----------------------------------------------------------------------------
(***************************************************************************)
(* Properties.                                                             *)
(***************************************************************************)
Completed == {completed[k] : k \in 1..Len(completed)}

\* The items gone from the completed repositories.
Items(gone) == {i \in Completed \X (1..MaxItems) : i[2] <= gone[i[1]]}

\* On an ABAC registry the token at hand is good for the repository at hand,
\* in every batch, the last and shorter one included; only a repository named
\* "catalog" is without permission.
TokenCoversRepo ==
    pc \in {"tags", "manifests"} => at \in scope \/ (call.abac /\ at \in call.catalog)

\* A permission error names each repository once, in order: those completed,
\* the one that failed, and those behind it; nothing behind it is touched.
ReportIsComplete ==
    error = "permission" =>
        /\ completed \o <<at>> \o remaining = [k \in Repo |-> k]
        /\ \A k \in 1..Len(remaining) :
            tagsGone[remaining[k]] = 0 /\ manifestsGone[remaining[k]] = 0

\* The counts are those of the completed repositories, each counted once.
CountsCoverCompleted ==
    /\ \A j, k \in 1..Len(completed) : completed[j] = completed[k] => j = k
    /\ tagsCount = Cardinality(Items(tagsGone))
    /\ manifestsCount = Cardinality(Items(manifestsGone))

\* The purge ends, whatever the batch size.
PurgeReturns == <>(pc = "returned")
=============================================================================
