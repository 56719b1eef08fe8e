# acr-cli in TLA+

Specifications of [acr-cli](../src/README.md), the command line tool that
deletes (`purge`), annotates, lists and filters the images of an Azure container
registry, with TLC configurations that check them and TLAPS proofs.
`purge` is the tool's reason to exist: it deletes things that cannot be
restored, chosen by a concurrent scan of a repository that others use at the
same time. Paths below are relative to the repository.

## 1. The system

### Components, their state and operations

| Component | Source | State | Operations | What makes it correct |
|---|---|---|---|---|
| Task pool and group | `vendor/github.com/alitto/pond/v2/{pool,group}.go`, `internal/future/composite.go` | queue, worker count, submit waiters, a wait group and a first error | `SubmitErr`, the workers' loop, `Wait` | no task is lost or run twice, a blocked submitter wakes, an error cancels what has not started, `Wait` waits for all |
| Scan for untagged manifests | `cmd/repository/image_functions.go` 156-547 | the page cursor, `candidates`, the shared `ignoreList`, each task's queue of nested lists | `GetUntaggedManifests` and its tasks | selects exactly the manifests nothing protects, in every interleaving; ends on cyclic lists; fails as a whole |
| Purger | `internal/worker/purger.go` | an atomic counter, the group | `PurgeTags`, `PurgeManifests` | the count is exact, nothing happens after the return, errors are reported |
| Tags of a repository | `cmd/acr/purge.go` 328-387, 450-520 | `lastTag`, `skippedTagsCount`, the counts | `purgeTags`, `getTagsToDelete` | the newest `keep` stay, only purgeable tags go, a dry run predicts |
| Dangling manifests | `cmd/acr/purge.go` 522-628 | - | `purgeDanglingManifests`, `sortManifestsByTime` | only what no tag refers to any more goes; `keep` newest stay; a dry run predicts |
| Repositories and batches | `cmd/acr/purge.go` 224-326, 630-676 | batch position, counts, completed repositories | `purge` | each repository once, under a token for it; honest reports |
| Flags, `--ago` | `cmd/acr/purge.go` 100-222, 389-448 | - | `newPurgeCmd`, `parseDuration` | combinations are refused or completed; the cutoff is in the past and capped at 150 years |
| Filters, discovery | `cmd/repository/image_functions.go` 37-132 | page cursor, a map of filters | `GetAllRepositoryNames`, `CollectTagFilters`, ... | every repository that matches, once, with all its filters, and no other |
| Registry client | `internal/api/acrsdk.go` | token, Authorizer, expiry, `currentRepositories` | creation, scopes, renewal, request wrappers | each request carries a valid token of the right scope, whatever concurrent tasks do to it |
| Generated client | `acr/client.go` | - | the requests, their retries and responders | what the registry does is not taken for an error, nor an error for success |
| Annotate | `cmd/acr/annotate.go`, `internal/worker/annotator.go`, `internal/api/orassdk.go` | cursors, counts | `annotateTags`, `annotateUntaggedManifests`, `Annotate` | what is annotated already is passed over; counts |
| CSSC | `internal/cssc/cssc.go`, `cmd/acr/cssc.go` | the map of tags, what is listed already | `ValidateFilter`, `ApplyFilterAndGetFilteredList`, `compareTags` | the newest patch per image, by convention; every tag of the filter is listed or reported |
| tag, manifest | `internal/tag/tag.go`, `cmd/acr/{tag,manifest}.go` | page cursor | list, delete | every item once, in order, up to the first error |
| login, logout, credentials | `cmd/acr/{login,logout}.go`, `auth/` | a credential file (library) | | not modelled |
| Others | root, version, set, mocks, scripts | | | not modelled |

### Interaction

`newPurgeCmd` parses `--ago`, collects the filters and calls `purge`. For each
batch of repositories `purge` renews the token (ABAC registries only), and for
each repository calls `purgeTags` and then `purgeDanglingManifests`. The first
lists pages of tags and gives each page's choice to `Purger.PurgeTags`; the
second calls `GetUntaggedManifests` and gives the result, without the newest
`keep`, to `Purger.PurgeManifests`. The scan and the purger share the pattern of
one goroutine that submits closures to a bounded, blocking pool and waits for
the group; the scan's tasks write into the `ignoreList` that the submitting loop
reads. `annotate` uses the scan with `preserveAllOCIManifests` and an
`Annotator` built like the purger; its attachments are manifests that the next
scan sees. All tasks of a command share one `AcrCLIClient`, whose wrappers renew
the token on their own.

### What is hard

* The scan's loop, its tasks, and each other's traversals all use one
  `ignoreList`, both as the result and as the "already handled" mark.
* Cancellation after an error: queued tasks are skipped, running ones are
  waited for, the loop is not told; a failing page request abandons the group.
* Other clients delete, lock, unlock and push between a listing and a DELETE,
  and between two pages; answers 404 and 405 are taken for outcomes; the listing
  cursor may be deleted.
* State carried across pages and batches (`keep`, counts, cursors, indexes).
* A dry run takes paths of its own and must predict the real run.
* Concurrent renewal of the token without a lock, and requests that are
  repeated after the look at its expiry, for longer than its margin.
* Arithmetic near the limit of `time.Duration`; numbers compared as texts.

`PROJECT.json` lists the hazards by line with the properties that cover them.

## 2. Modules

```
TaskPool ------------------+------------------+
                           |                  |
RepositoryManifests -- UntaggedManifests    Purger
   |   |                   | implements       | implements
   |   UntaggedSelection <-+              PurgeBatch
   |        :  (its promise is used by)      :
   |        +------------+    +--------------+
   |                     :    :
   +------------- PurgeRepository -- PurgeTags
   |                     :  (abstracted in)
   |                   Purge -- PurgeCommand -- ParseDuration
   +-- Annotate
RegistryOperations -- AcrClient          PatchFilter
```

| Module | Models | State and actions |
|---|---|---|
| `TaskPool` | pond's pool and group | One action per critical section: `QueueFull`, `Enqueue`, `LaunchWorker` are the three outcomes of `trySubmit`; `ReadTask`, `ExitWorker` those of `readTask`; `StartTask`, `SkipTask`, `FinishTask` the wrapper around a task. `submitWaiter` is the one-place channel |
| `RepositoryManifests` | a repository and a call of the scan, and the selection as a set | `Protected`, `KeptItself`, `ReferrerIndex` are the code's predicates; `Shielded` the closure the traversal computes; `Selected` the result |
| `UntaggedSelection` | abstract: answer `Selected` or fail | `Answer`, `Fail` |
| `UntaggedManifests` | `GetUntaggedManifests` with its tasks, on `TaskPool` | the loop: `ListPage`, `Visit...`, `WaitReturns`; the tasks: `FetchProtected`, `Check...`, and the traversal `StoreLeaf`, `TakeList`, `FetchNested`, one access to the registry or to the `ignoreList` per step |
| `PurgeBatch` | abstract: each item settles once, items are cancelled only after a failure, then the call returns | `Settle`, `ReturnBatch` |
| `Purger` | `PurgeTags`/`PurgeManifests`, on `TaskPool`, and a registry | `Unlock`, `UnlockFails`, `Delete`, `DeleteFails`, `HandleAnswer`; `OtherClient` |
| `PurgeTags` | `purgeTags`, `getTagsToDelete` | `ListPage` is one call of `getTagsToDelete` with the loop body up to the purger's call; the batch is settled tag by tag in any order, as `PurgeBatch` allows, then `BatchReturns` |
| `PurgeRepository` | what `purge` does in one repository: `PurgeTags`, then `purgeDanglingManifests` | `AfterTags`, `Scan` (the selection, `keep`, the dry run's answer), the batch of manifests, `ManifestsDone`; `manifestToTagsCountMap` is `Planned` |
| `Purge` | `purge` and its reports | `NextBatch`, then per repository `PurgeTags(n)` or `SkipTags`, `PurgeManifests(n)` or `SkipManifests`, or a failing call having deleted `n`. An item gone is a pair of a repository and a number (`Items`) |
| `ParseDuration` | `parseDuration`, a function | days and rest in `Width`-bit two's complement; `fits` says whether a "d" follows the number `Sscanf` reads, which is kept also if not; `Intended` is what a value asks for in unbounded integers |
| `PurgeCommand` | `acr purge`: extends `Purge` by what comes before it | `CheckFlags`, `RefuseFlags`, `ListPage`, `ListEnds`, `ListFails` (the catalog, which `Create` and `Delete` change), `CollectTagFilters`, `BadFilter`, `StartPurge`; maps and sorted slices are sets of positions, put `InOrder` |
| `RegistryOperations` | the requests of the generated client | a record each: verb, resource, accepted codes; `Requests` is their set |
| `AcrClient` | `AcrCLIClient` and the tasks that share it | `Create`, `StartBatch` (`RefreshTokenForAbac`); of each task `StartCall` (`isExpired`), `ReceiveToken`, `WriteToken` (Authorizer and expiry are two steps), `Prepare`, `Answer`, `TryFails`; `Tick`, which bounds a first try (`FirstTry`) and no repetition |
| `Annotate` | `annotateTags`, `annotateUntaggedManifests` and the `Annotator` | `ListPage` looks at all tags of a page; the batch, a set of tasks [position of the tag, digest] (`TasksAt`): `AnnotateOne`, `AnnotateFails`, `AnnotateCancelled`, `BatchReturns`; `Attach` pushes an annotation or the manifest another task for the digest has pushed; `Untagged` |
| `PatchFilter` | `acr cssc patch --dry-run` with `tag.ListTags` | `Start`, `ReadFails`; per entry `Skip`, `Begin`, `ListPage`, `LastPage` (groups and answers: `Apply`), `FirstFails`, `LaterFails`; `PushTag`, `DropTag` |
| `TaskPoolProofs`, `UntaggedManifestsProofs`, `PurgerProofs`, `PurgeRepositoryProofs`, `PurgeCommandProofs`, `AcrClientProofs`, `AnnotateProofs`, `PatchFilterProofs` | theorems about the module they are named after and those it extends | |
| `MC...` | model values, repositories, calls and commands for TLC | |

`map` in `PROJECT.json` gives the lines of each definition. Definitions whose
comment begins with "Mutant" are plausible mistakes; no specification uses
them, and each shows that a property would notice.

### Abstractions

* A tag, a manifest, a task or an item of a batch is a model value; a task is
  named by the digest or tag it works on, which is distinct within a call.
* The pool's steps under its mutex are atomic; the notification that follows
  the unlock is part of the step (it fills a one-place channel that only the
  submitter empties). The group's completion is read off the tasks: `Wait`
  returns when the wait group is at zero.
* A request and its effect on the registry are one step; a failing request may
  have taken effect. The purger handles the answer in a step of its own.
* During a scan the repository's content is fixed; manifests that disappear
  are those `GetManifest` answers with 404, from the first request for them.
* Content that cannot be parsed is a request that fails.
* `FaultRepos`, `Faults` and `Interference` (fields `faults`, `interference`)
  say whether requests fail and other clients are active.
* `PurgeRepository` uses the scan through what it is shown to implement (one
  step that answers `Selected`) and the batch through `PurgeBatch`.
* What `Purge` knows of its two calls is how many items they deleted and
  whether they failed; a 401 is the permission error.
* A regular expression is what it matches: for repositories a sequence of
  alternatives with `^` and `$` at its two ends, as the code puts them; for
  `cssc` the tags its dots match besides itself. A repository name and a tag are
  sequences of words; the order of texts is given.
* In `AcrClient` time counts in ticks. A try is bounded (`TryTime`); the pauses
  before a request is repeated (30, 60 and 120 seconds, or what the registry asks
  for) are not, nor is the time a renewal takes with its own. `Operation` is what
  the path names, not its text.
* In `Annotate` one digest stands for all annotations a run attaches, when it is
  listed; an annotation is known by the task that pushed it first. Annotations are
  stamped with the second, so a second task for the same digest may push the same
  manifest, which adds none.
* A filter that takes too long to match a repository's name is one that is not
  well-formed; for tags it is a request that fails.

## 3. What TLC checks

| Run | Checks | Bounds |
|---|---|---|
| `task_pool` | saturation, stragglers; every task settles | 5 tasks, 2 workers, queue of 1: the queue fills, the submitter blocks, several tasks fail |
| `untagged_scan` | lists are followed, shields are followed, nothing else is ignored; refinement of `UntaggedSelection`; termination | 5 manifests, 2 workers, a queue of 2, so that the loop blocks on it, also after an error; pages of 3; 57 calls: purge, dry run, annotate, two orders, a cycle of lists; failing requests, vanished manifests, manifests without media type |
| `purger` | exact and honest count, no item left unlocked by a success, what is left over is accounted for; refinement of `PurgeBatch`; termination | 3 items, 2 workers; requests for two items fail, other clients delete, lock and unlock one of these |
| `purge_repository` | keep over pages, honest counts, the dry run predicts the real one, nothing tagged or referenced goes; termination | 4 tags in pages of 2 and 4 manifests, `--keep` 0 to 2; alone, and with 3 tags while requests fail and other clients are active |
| `purge_command` | `--ago` as meant, completeness of a success, selection, scope of the token, permission report, counts; termination | 5 repositories, one named "catalog", in batches and pages of 2, one created or deleted meanwhile, at most 2 items per call; values of `--ago` in 8 bits around every cap and both ends, negative, unreadable and partly read ones, a day of 5 units, at most 13 days: the maximum is 0.51 of the range, as 150 years are of 64 bits |
| `acr_client` | the margin is kept up to the first try, expiry no later than by a try, scope of the token, order of deletes, no request refused; termination | 2 repositories, 3 items, up to 2 concurrent tasks and 3 batches; a token lives 3 ticks of 6 with a margin of 2 and tries of 1, so that it expires at every point of a command and is renewed by both tasks, and both bounds on a token's age are reached; one repetition |
| `annotate` | annotated once over pages and runs, annotations are not annotated, counts that fit the annotations; termination | 4 tags in pages of 2, 3 tagged manifests, one with tags on one or on two pages, 2 untagged ones and the attachments |
| `patch_filter` | the latest patch is the highest, every tag is accounted for; termination | 2 repositories, 11 texts, among them "100" and "1.0.1", filters of 1 to 3 entries, pages of 2, 2 tags pushed or deleted meanwhile |
| `referrer_list`, `retained_list`, `expired_token`, `annotate_abac` | see Findings | one repository or command each |

Why these bounds are enough: two workers give every race between two tasks and
between a task and the loop, a third task is the one that is queued or
cancelled; with five manifests there is a list in a list, a leaf of each, a
referrer, and a manifest only the inner list refers to; two pages and a batch
that is not full show what is carried over, and one change of the registry
between two requests is seen before, at or behind the cursor. The theorems below
do not depend on bounds.

Type invariants are the first conjunct of each inductive invariant that is
proved (`PoolTypeOK`, `ScanTypeOK`, `PurgerTypeOK`, `AcrClientTypeOK`, `TagInv`,
`FlagsInv`, `TaskInv`, `TypeInv`); no run repeats them. `PoolNext` of
`TaskPool` alone has a client that may do anything; the runs of the scan and the
purger check the pool under its two real clients.

**Fairness.** Every goroutine that can run runs (Go's scheduler; weak fairness
of the loop and of each worker's steps), and a request is answered or fails
(HTTP clients time out). In `AcrClient` the clock may stop but the command goes
on. Nothing is assumed of other clients
beyond the bounds on their changes, of which worker takes a task, or of the
outcome of a request. `CHECK_DEADLOCK FALSE` is in every configuration because
each of these calls returns and then nothing is left to do; hanging is excluded
by the liveness properties.

### Findings

Each is a run that TLC is expected to refute, because the code differs from what
its comments say.

* `referrer_list`: an untagged OCI index that has a subject and children is
  itself selected; only its children go to the ignore list
  (`image_functions.go` 324-326; `purge.go` 593: "if a manifest has no tag, but
  it has subject, then it should not be deleted").
* `retained_list`: `--keep` retains the newest untagged manifests, and if one of
  them is a list its children, which were pushed before it, are deleted
  (`purge.go` 601-609; 582-583: "except the ones that are referenced by a
  multiarch manifest").
* `expired_token`: the look at the token's expiry comes before the first try of a
  request, and the sender repeats the request with the token in its header:
  pauses of 30, 60 and 120 seconds, four tries, or a Retry-After of any length
  are not within the five minutes (`acrsdk.go` 318, 317: "to make sure that there
  won't be a case were a client with an expired token tries doing a request"). A
  renewal's own repetitions do not age the token, which is issued by the last.
* `annotate_abac`: `annotate` (and `cssc`) never ask for repository scopes, as
  `acrsdk.go` 103-105 demands of callers on ABAC registries; the first request
  carries a token without permission.

The models also have the following behaviours, which no run singles out:

* two parts of `--ago` near the maximum overflow when they are added, before the
  sum is capped, and the cutoff is in the future (`purge.go` 441-445; 432: "Cap
  the additional duration to prevent overflow when adding"); a rest that
  `time.ParseDuration` cannot read counts as the maximum, so that 150 years of
  days and such a rest are enough. `ReadAsIntended` leaves these values out;
* a locked list with tags is passed over before its children are looked up, and
  these are selected (`image_functions.go` 208; `purge.go` 592 says they "should
  not be deleted"); `ReferencedAreKept` excepts it;
* a nested list that is gone fails the whole scan, because
  `findDirectDependentManifests` expects another type of error than the client
  returns (`image_functions.go` 381-384);
* a number of days that does not fit an int is read as 0, and of a value such as
  "1.5d" or "2h1d" only the first number is used, as days (`purge.go` 395-396);
  a negative value puts the cutoff into the future;
* `--untagged-only` does apply `--ago` and `--keep`, which the documentation
  calls "not applicable" (`README.md` 184);
* a nested list listed without a media type hides its children from the
  traversal (`image_functions.go` 328, 527; the proofs assume `LabelledLists`);
  the loop goes on after an error in the group (192);
* a tag that is pushed again, or a manifest that is tagged, between listing and
  DELETE is deleted (`purge.go` 375, 591);
* what was deleted before an error is missing from the summary (300, 314); a
  repository named "catalog" is outside its batch's token (`acrsdk.go` 179);
* a DELETE that is repeated after a lost answer is answered 404, which ends
  `tag delete` and `manifest delete` with an error although the item is gone;
* an annotated manifest that is untagged is annotated again by every run
  (`annotate.go` 310), and one with two tags on a page by two tasks, which
  counts two although both may push the same annotation (268);
* a tag of a filter is used as a regular expression as it stands, and so are tags
  listed that it does not name (`cssc.go` 250-252; 238: "only those tags are
  considered"). Its dot matches a hyphen: "1.0.1" also selects 1.0-1, and
  then 1.0-1 is listed as the latest patch of 1.0 although 1.0-2 exists, because
  the latter is not considered; likewise "-patched2" with the floating convention
  (`cssc.go` 252; `LatestIsHighest` excepts such filters by `MatchesAllPatches`);
* an image is left out of the list of `cssc` when its key, joined by hyphens,
  is that of another (`cssc.go` 278).

## 4. What is proved

All with `tlapm`, for every value of the constants: any number of workers, tasks,
tags, manifests and repositories, any queue, page and batch size, any calls,
commands and sessions. Every invariant and action property of the passing runs
is stated by a theorem. In each module one conjunction of named invariants is
shown to hold at first and to be preserved by every action, and the properties
follow from it. TLC checks the properties on the bounds of section 3.

* `TaskPoolProofs`: `PoolInv`, the conjunction of the pool's invariants, is
  inductive (`PoolCorrect`), from which `PoolSaturation`, `PoolStragglers`,
  `PoolNoLoss`. `QueueImpliesSaturation` needs `EachTaskInOnePlace` (the reader
  of the last task is alive), and `BlockedSubmitterHasWaker` needs both: with a
  full queue some worker is alive that will read from it and send a token. The
  step lemmas are stated without a client; the other two modules cite them.
* `UntaggedManifestsProofs`: `ScanInv` is inductive (`ScanCorrect`), hence
  `ScanFollowsLists`, `ScanFollowsShields` and `ScanSparesNothingElse`, and the scan
  implements the one-step selection (`ScanImplementsSelection`). The argument has two halves.
  *Enough is ignored*: a list in the ignore list is being fetched, or each child
  is stored or in some task's hands (`IgnoredListsAreFollowed`); a visited
  shield has a task still to fetch it, or is covered like that
  (`VisitedShieldsAreFollowed`). When the group is done without error no task
  holds anything, so the ignore list is closed and holds the shields' children.
  *Not too much is ignored* (`WithinShields`): whatever closed set contains the
  shields' children contains all a task stores or holds, save manifests kept
  for their own sake. The two meet in `Shielded`, the least such set.
  `CandidatesInv` says who is a candidate; `LoopInv` and `TasksInv` tie the loop,
  the tasks and the pool together.
* `PurgerProofs`: `PurgerInv` is inductive (`PurgerCorrect`), for any batch,
  faults and other clients. It adds to the pool's invariants where the caller is
  (`CallInv`), that the last answer goes with the task's state (`StageInv`), that
  what was answered "deleted" or "gone" is gone (`GoneInv`: nobody restores an
  item), and that what is unlocked was asked for (`UnlockInv`). The count is then
  the number of settled tasks with such an answer (`PurgerCountIsExact`), and
  since these items are all gone it is honest (`PurgerCountIsHonest`); all tasks
  are settled at the return, so none acts later (`PurgerSilentAfterReturn`), and
  a success leaves no item unlocked (`PurgerLeavesNothingUnlocked`).
  `PurgerImplementsBatch` maps the answer of a task and the skip of one to
  `Settle`, the return of `Wait` to `ReturnBatch`, every other step to a stutter.
  `PurgerUndisturbedIsComplete` adds `LockInv`: an item nobody else touches is
  there, and its lock is as it was listed, until its own task changes that.
* `PurgeRepositoryProofs`: `RepositoryInv` is inductive (`RepositoryCorrect`).
  `KeepInv` says that nothing is chosen before `keep` tags are kept, and that
  every kept tag is newer than every chosen one; pages move forward only, so this
  survives the next page and gives `PurgeKeepsNewest`. `HitInv` and `DeletedInv`
  bound the counts by what is gone of the settled part of a batch
  (`PurgeCountsAreHonest`). What is doomed was selected when no tag of the start
  referred to it and none does since (`StoreInv`), hence
  `PurgeDeletesOnlyUntagged`; what remains of the listing contains `Shielded`,
  which is closed, hence `PurgeKeepsReferenced`.
  `PurgeDryRunPredicts` is the longest proof: for a run left alone (`AloneInv`)
  the tags kept so far are the candidates of rank below `keep` on the pages so
  far, and those chosen are the others. For manifests the code's sort is a strict
  order, and "the first `n` of it" is unique, so that what the two runs leave out
  is the same set.
* `PurgeCommandProofs`: `PurgeInv` is inductive (`PurgeCommandCorrect`). What was
  there throughout is listed up to the cursor (`ListInv`), the filters' choice is
  a function of that (`ChosenInv`), and `PlaceInv` ties together the position, the
  batch, the token's scope and the completed repositories: these are always the
  numbers 1 to `Done`, and how the purge ended tells `Done`. Completeness, the
  report, the scope of the token and the selection follow; `GoneInv` says that
  nothing is gone behind the repository at hand, so that counts are exact when one
  is completed (`CountInv`). `ParseDurationIsIntended` is about the operator
  alone: in every width, a value within `InRange` (it fits the format, is not
  negative, and the sum of its capped parts fits the width) is never wrapped.
* `AcrClientProofs`: `ClientInv` is inductive (`ClientCorrect`). Concurrent
  renewals write the Authorizer and the expiry in two steps each, in any order. A
  token is written within a try of its issue (`RenewalInv`), so the expiry noted
  may belong to another token, but exceeds that of the Authorizer by at most
  `TryTime` (`ClientExpiryIsHonest`), however long renewals take. A call starts a
  request only `Margin` before the noted expiry or after a renewal, so the token
  it sends is good for `Margin` less a try (`RequestInv`, `ClientMarginIsKept`),
  which is enough for the first try (`FirstTryIsInTime`) and thereby for
  `ClientRequestsAreAccepted`, and is not enough for the repetitions.
  `ScopeInv` carries the scopes through renewals. `ClientDeletesInOrder` is for
  sessions that delete no item twice, `ClientRequestsAreAccepted` for those
  that do not name what they have deleted and call only repositories they asked
  for (`DistinctDeletes`, `DeletedLast`, `ScopedCalls`, which the sessions of
  `purge`, `tag delete` and `manifest delete` satisfy when an item is given once).
* `AnnotateProofs`: `AnnotateInv` is inductive (`AnnotateCorrect`). The cursor is
  at the end of a page (`PageInv`); all tasks given for a manifest are of tags on
  one page, for on a later page the manifest has an annotation or its batch has
  failed and ended the run (`OnceInv`, `AnnotateOnOnePage`); a task for an
  untagged manifest comes after the tags and is for no annotation (`TaskInv`,
  `AnnotateSkipsAnnotations`); each counted task has a tag, or an untagged
  manifest, of its own that is annotated, and each annotation a task that is
  counted unless something failed (`CountInv`, `AnnotateCountsAnnotations`).
* `PatchFilterProofs`: `PatchInv` is inductive (`PatchCorrect`). While an entry is
  listed, what stayed is listed up to the cursor, and what is listed was there
  (`ListingInv`). `compareTags` orders the versions of one tag strictly, so a
  latest one exists; `MatchesAllPatches` puts every patch that stayed into the
  same group as the tag it is compared with (`PatchLatestIsHighest`). Each entry,
  once passed, stays accounted for because answers only grow (`AnswerInv`,
  `PatchAccountsForEveryTag`).

### Assumptions

The named ASSUMEs of the modules, which TLC evaluates in every run (digests in a
listing are distinct; only lists have children; `Task = Digest`; a batch is
finite; names are texts), and hypotheses of single theorems:

* `LabelledLists`, for the scan: the listing gives every list its media type.
  Without it the theorem is false.
* `TimingAssumption`, for the client: a try takes at most half of the margin of
  five minutes, `2 * TryTime <= Margin`, and `TryTime + Margin <= Life`. It speaks
  of one request and its answer, not of pauses and repetitions. The code relies
  on it and does not enforce it.
* The three hypotheses on sessions named above; all sessions of the run
  `acr_client` satisfy them.

### What the proofs changed

* `PatchFilter`: `All` compared the tags with a text instead of a list of one
  text and was never true, so that the filter `*` was not modelled; the proof of
  `EveryTagIsAccounted` failed there. `LatestIsHighest` was false for dots that
  match a hyphen, which the run's tags did not have; now they do.
* `PurgeRepository`: what a dry run ought to report was stated wrongly for a
  negative `--keep`, and the assumption that only lists have children was missing.
* `AcrClient`: a token must live longer than the margin, or another task's token
  is used that is close to expiring (`TimingAssumption`).
* `Annotate` has sets of tasks instead of counters, `Purge` and `PurgeCommand`
  cardinalities instead of recursive sums: the provers have finite sets, but no
  induction over data.

### Model-checked only

The liveness properties, which are out of the prover's reach: `EveryTaskSettles`,
`ScanTerminates`, `PurgeReturns` (of `Purger` and of `Purge`),
`PurgeRepositoryReturns`, `CommandEnds`, `AnnotateReturns`, `PatchEnds`. The
properties of the four runs under Findings are false of the code.
`BatchRefined` and `SelectionRefined` are both proved and checked.

## 5. Plan

Done, in this order: `TaskPool`, the scan, the purger, `PurgeTags`,
`ParseDuration`, `Purge`; then `PurgeRepository`, `PurgeCommand`, `AcrClient`
with `RegistryOperations`, `Annotate`, `PatchFilter`.

Theorems: the pool, the scan, the purger, then the client, the command, a
repository's purge, `annotate` and `cssc`.

To come, in this order:

1. The seams between modules that are argued here but not proved: that
   `PurgeTags` settles a page's tags as `PurgeBatch` allows, and that
   `PurgeRepository`, from its start to its return, is a step of `Purge`'s two
   calls (the counts it answers are numbers of items gone).
2. That the catalog's and the tags' listings (`PurgeCommand`, `PatchFilter`) are
   one abstract paging of an ordered set under change, with the two `ListingInv`s
   as its invariant.
3. Facts about `Shielded` for their own sake: that it is the least set closed
   under references that holds what the shields refer to.

### Not modelled

* HTTP transport, JSON and token parsing, and regular expressions beyond the
  abstraction above: library code.
* login, logout and the credential store: one library call per operation, and no
  state of the program between the calls.
* The loop of `annotate` over repositories: it adds up counts and stops at the
  first error; `Purge` has the same loop with batches and reports.
* Parts of the generated client that the program does not call, the set of
  strings, printing, the command tree, test doubles, scripts.
