------------------------------ MODULE Annotate ------------------------------
(***************************************************************************)
(* annotateTags and annotateUntaggedManifests (cmd/acr/annotate.go) in one *)
(* repository: the matching tags are listed page by page; for each the     *)
(* registry is asked whether its manifest has a lifecycle annotation, and  *)
(* the manifests of a page that have none get one attached, by the tasks   *)
(* of worker.Annotator; with --untagged the manifests the scan answers     *)
(* follow, which are not looked at for annotations they have.              *)
(*                                                                         *)
(* An annotation is itself a manifest of the repository, without a tag, an *)
(* OCI image manifest whose subject is the manifest it belongs to (what    *)
(* oras.PackManifest makes).  One digest stands for all that a run         *)
(* attaches.  The scan answers what RepositoryManifests selects.           *)
(***************************************************************************)
EXTENDS Integers, Sequences, FiniteSetsExt

CONSTANTS
    Tag, Digest, NoCutoff,
    Attachment,    \* the annotations this run attaches
    PageSize,      \* tags per page of GetAcrTags
    Calls          \* the calls to consider

M == INSTANCE RepositoryManifests WITH Repos <- {}

Call ==
    [ order    : Seq(Tag),         \* GetAcrTags, all pages, in the order timedesc
      of       : [Tag -> Digest],  \* tag.Digest
      matching : SUBSET Tag,       \* the filter matches
      locked   : SUBSET Tag,       \* WriteEnabled is false
      before   : SUBSET Digest,    \* annotated by an earlier run
      lifecycle     : BOOLEAN,     \* --artifact-type is the lifecycle type
      wellFormed    : BOOLEAN,     \* --annotations are pairs
      untagged      : BOOLEAN,     \* --untagged
      dryRun        : BOOLEAN,     \* --dry-run
      includeLocked : BOOLEAN,     \* --include-locked
      faults        : BOOLEAN,     \* requests may fail
      listing  : Seq(Digest),      \* GetAcrManifests
      kind     : [Digest -> M!Kind],
      children : [Digest -> SUBSET Digest] ]

ASSUME AnnotateAssumption ==
    /\ PageSize \in Nat \ {0} /\ Attachment \in Digest
    /\ Calls \subseteq Call
    /\ \A c \in Calls : c.kind[Attachment] = "image" /\ \A t \in Tag : c.of[t] # Attachment

VARIABLES
    call,
    pc,        \* "tags", "untagged", "batch", "returned"
    cursor,    \* the position of lastTag, 0 at first
    attached,  \* the annotations of the run: the tasks that pushed them first
    batch,     \* the tasks Annotator.Annotate has not settled yet
    size,      \* how many it was given
    next,      \* where the run goes when the batch is done
    hit,       \* annotatedImages
    erred,     \* a task of the batch failed
    tagsCount, manifestsCount, skipped, \* annotatedTagsCount, ...; -1 with some errors
    failed     \* an error is returned

batchVars == <<batch, size, next, hit, erred>>
countVars == <<tagsCount, manifestsCount, skipped>>
vars == <<call, pc, cursor, attached, batchVars, countVars, failed>>

AnnotateInit ==
    /\ call \in Calls
    /\ pc = "tags" /\ cursor = 0
    /\ attached = {}
    /\ batch = {} /\ size = 0 /\ next = "tags" /\ hit = 0 /\ erred = FALSE
    /\ tagsCount = 0 /\ manifestsCount = 0 /\ skipped = 0
    /\ failed = FALSE

-----------------------------------------------------------------------------
\* Mutant: lastTag is not passed on to the next request.
FirstPage == {i \in 1 .. Len(call.order) : i <= PageSize}

Page == {i \in cursor + 1 .. Len(call.order) : i <= cursor + PageSize}

HasTag(S, d) == {i \in S : call.of[call.order[i]] = d}

\* A task for the tag at each of these positions; position 0 is that of the
\* tasks for untagged manifests.
TasksAt(S) == {[position |-> i, digest |-> call.of[call.order[i]]] : i \in S}

\* What the run has attached to d.
AttachedTo(d) == {a \in attached : a.digest = d}

\* Mutant: what this run has annotated is not seen.
DiscoveredBefore(d) == call.lifecycle /\ d \in call.before

\* DiscoverLifecycleAnnotation: the referrers of the type asked for, if that
\* is the lifecycle type; of another type it finds none.
Discovered(d) == call.lifecycle /\ (d \in call.before \/ AttachedTo(d) # {})

LockedOut(t) == ~call.includeLocked /\ t \in call.locked

\* getManifestsToAnnotate: the positions of the page's tags to annotate.
ToAnnotate ==
    {i \in Page : LET t == call.order[i]
                  IN  t \in call.matching /\ ~LockedOut(t) /\ ~Discovered(call.of[t])}

LockedOnPage == {i \in Page : call.order[i] \in call.matching /\ LockedOut(call.order[i])}

AfterPage == IF Max(Page) < Len(call.order) THEN "tags" ELSE "untagged"

\* NewAnnotator, in a run that is no dry run, refuses what is no pair.
Refused == ~call.dryRun /\ ~call.wellFormed

Submit(given, then) ==
    /\ batch' = given /\ size' = Cardinality(given)
    /\ hit' = 0 /\ erred' = FALSE
    /\ next' = then /\ pc' = "batch"

\* An iteration of annotateTags: up to Annotate, or to the end of a dry run's.
ListPage ==
    /\ pc = "tags" /\ ~Refused /\ Page # {}
    /\ cursor' = Max(Page)
    /\ skipped' = skipped + Cardinality(LockedOnPage)
    /\ IF call.dryRun \/ ToAnnotate = {}
       THEN /\ tagsCount' = tagsCount + Cardinality(ToAnnotate)
            /\ pc' = AfterPage
            /\ UNCHANGED batchVars
       ELSE Submit(TasksAt(ToAnnotate), AfterPage) /\ UNCHANGED tagsCount
    /\ UNCHANGED <<call, attached, manifestsCount, failed>>

\* No tag is left, or 404: the repository is not found.
ListNothing ==
    /\ pc = "tags" /\ ~Refused /\ Page = {}
    /\ pc' = "untagged"
    /\ UNCHANGED <<call, cursor, attached, batchVars, countVars, failed>>

\* What has been counted is given up: the answer is -1 with the error.
Fail ==
    /\ pc' = "returned" /\ failed' = TRUE
    /\ IF pc = "tags"
       THEN tagsCount' = -1 /\ skipped' = 0 /\ UNCHANGED manifestsCount
       ELSE manifestsCount' = -1 /\ UNCHANGED <<tagsCount, skipped>>
    /\ UNCHANGED <<call, cursor, attached, batchVars>>

RefuseAnnotations == pc = "tags" /\ Refused /\ Fail

\* A listing, a filter (which takes too long), a look for annotations or the
\* scan fails.
RequestFails == pc \in {"tags", "untagged"} /\ ~Refused /\ call.faults /\ Fail

-----------------------------------------------------------------------------
\* What GetUntaggedManifests is called with; what was attached is listed too.
Scanned ==
    [ listing |-> IF attached = {} THEN call.listing ELSE Append(call.listing, Attachment),
      tags |-> [d \in Digest |-> Cardinality(HasTag(1..Len(call.order), d))],
      planned |-> [d \in Digest |-> 0], updated |-> [d \in Digest |-> 0],
      undated |-> {}, locked |-> {},
      unlabelled |-> {}, kind |-> call.kind, subject |-> {Attachment},
      children |-> call.children, gone |-> {}, dryRun |-> call.dryRun,
      includeLocked |-> call.includeLocked, preserveAll |-> TRUE, cutoff |-> NoCutoff ]

\* annotateUntaggedManifests, with --untagged.
Untagged ==
    LET digests == M!Selected(Scanned)
    IN  /\ pc = "untagged" /\ call.untagged
        /\ IF call.dryRun
           THEN /\ manifestsCount' = Cardinality(digests)
                /\ pc' = "returned"
                /\ UNCHANGED batchVars
           ELSE /\ Submit({[position |-> 0, digest |-> d] : d \in digests}, "returned")
                /\ UNCHANGED manifestsCount
        /\ UNCHANGED <<call, cursor, attached, tagsCount, skipped, failed>>

TaggedOnly ==
    /\ pc = "untagged" /\ ~call.untagged
    /\ pc' = "returned"
    /\ UNCHANGED <<call, cursor, attached, batchVars, countVars, failed>>

-----------------------------------------------------------------------------
(***************************************************************************)
(* Annotator.Annotate: a task for each digest it is given, in any order;   *)
(* a digest that it is given for two tags has two.                         *)
(***************************************************************************)
Settle(task) ==
    /\ pc = "batch" /\ task \in batch
    /\ batch' = batch \ {task}
    /\ UNCHANGED <<call, pc, cursor, size, next, countVars, failed>>

\* PackManifest stamps an annotation with the second it is made in: two tasks
\* for one digest push two manifests, or the same one twice, which is no error.
Attach(task) ==
    \/ attached' = attached \cup {task}
    \/ AttachedTo(task.digest) # {} /\ UNCHANGED attached

AnnotateOne(task) ==
    /\ Settle(task)
    /\ Attach(task) /\ hit' = hit + 1
    /\ UNCHANGED erred

\* Mutant: a failure is counted.
AnnotateIgnores(task) ==
    /\ Settle(task) /\ call.faults
    /\ hit' = hit + 1
    /\ UNCHANGED <<attached, erred>>

\* Annotate fails, whether or not the annotation was pushed.
AnnotateFails(task) ==
    /\ Settle(task) /\ call.faults
    /\ Attach(task) \/ UNCHANGED attached
    /\ erred' = TRUE
    /\ UNCHANGED hit

\* The task is cancelled by an error.
AnnotateCancelled(task) ==
    /\ Settle(task) /\ erred
    /\ UNCHANGED <<attached, hit, erred>>

\* The tags of a page count once they are all annotated, and when one fails
\* those that were.
BatchReturns ==
    /\ pc = "batch" /\ batch = {}
    /\ IF next = "returned"
       THEN manifestsCount' = manifestsCount + hit /\ UNCHANGED tagsCount
       ELSE /\ tagsCount' = tagsCount + (IF erred THEN hit ELSE size)
            /\ UNCHANGED manifestsCount
    /\ failed' = erred
    /\ pc' = IF erred THEN "returned" ELSE next
    /\ UNCHANGED <<call, cursor, attached, batchVars, skipped>>

Answered ==
    \/ ListPage \/ ListNothing \/ RefuseAnnotations \/ Untagged \/ TaggedOnly
    \/ \E task \in batch : AnnotateOne(task) \/ AnnotateCancelled(task)
    \/ BatchReturns

Failed == RequestFails \/ \E task \in batch : AnnotateFails(task)

AnnotateSpec == AnnotateInit /\ [][Answered \/ Failed]_vars /\ WF_vars(Answered)

-----------------------------------------------------------------------------
(***************************************************************************)
(* Properties.                                                             *)
(***************************************************************************)
Pages == {{i \in 1..Len(call.order) : n < i /\ i <= n + PageSize} :
            n \in {k * PageSize : k \in 0..Len(call.order)}}

\* The tags that may have d annotated.
Names(d) ==
    {i \in HasTag(1..Len(call.order), d) :
        call.order[i] \in call.matching /\ ~LockedOut(call.order[i])}

\* A manifest with a lifecycle annotation, from this run or from an earlier
\* one that was interrupted, does not get another for a tag on a later page.
\* (All tags of a page are looked at before any is annotated: a manifest gets
\* up to as many annotations as it has tags on one page.)
AnnotatedOnOnePage ==
    call.lifecycle =>
        \A d \in {call.of[call.order[i]] : i \in 1..Len(call.order)} :
            /\ d \in call.before => AttachedTo(d) = {}
            /\ \E P \in Pages : Cardinality(AttachedTo(d)) <= Cardinality(P \cap Names(d))

\* What a run attaches to tagged manifests does not itself get annotated as
\* an untagged manifest.
AnnotationsAreNotAnnotated == AttachedTo(Attachment) = {}

\* What this run has annotated: tags it may annotate, by their positions, and
\* manifests without a tag.
AnnotatedTags ==
    {i \in 1..Len(call.order) : /\ i \in Names(call.of[call.order[i]])
                                /\ AttachedTo(call.of[call.order[i]]) # {}}

AnnotatedManifests ==
    {d \in Digest : HasTag(1..Len(call.order), d) = {} /\ AttachedTo(d) # {}}

\* The counts, of tags and of manifests without one, are of no more than those
\* that have got an annotation, and a run that succeeds has made no annotation
\* that it does not count.  (It may have made fewer than it counts: two tags of
\* a manifest are two, when both were annotated in one second with one.)
AnnotationsAreCounted ==
    pc = "returned" /\ ~call.dryRun =>
        /\ tagsCount <= Cardinality(AnnotatedTags)
        /\ manifestsCount <= Cardinality(AnnotatedManifests)
        /\ ~failed => Cardinality(attached) <= tagsCount + manifestsCount

\* The run ends: lastTag moves with every page.
AnnotateReturns == <>(pc = "returned")
=============================================================================
