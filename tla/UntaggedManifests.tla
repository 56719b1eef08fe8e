-------------------------- MODULE UntaggedManifests --------------------------
(***************************************************************************)
(* repository.GetUntaggedManifests: one goroutine pages through the        *)
(* manifests of a repository and decides on each, while the tasks it       *)
(* submits to a pool read manifests and put what must not be deleted into  *)
(* the ignoreList, which both sides share.  A task examines one manifest   *)
(* and is named by its digest.                                             *)
(*                                                                         *)
(* The repository does not change during the scan; a manifest that went    *)
(* away after it was listed or referred to is one of repo.gone.  The order *)
(* of a manifest's children is left open.  The digests of the listing are  *)
(* there and distinct.                                                     *)
(***************************************************************************)
EXTENDS TaskPool, RepositoryManifests

CONSTANTS
    PageSize,  \* manifests per page of GetAcrManifests
    Faults     \* the repositories in which a request may fail, other than with 404

ASSUME ScanAssumption ==
    /\ Task = Digest
    /\ PageSize \in Nat \ {0}
    /\ Faults \subseteq Repos

VARIABLES
    repo,       \* the repository, fixed in the initial state
    pc,         \* the scanning goroutine: "scan", "wait", "returned", "panicked"
    pos,        \* how many manifests of the listing it has visited
    pageEnd,    \* how many the pages it got so far hold
    ignoreList, \* the sync.Map shared with the tasks
    candidates, \* the keys of candidates
    body,       \* the local state of each task
    failure,    \* what the returned error comes from
    result      \* the digests returned

scanVars == <<repo, pc, pos, pageEnd, ignoreList, candidates, body, failure, result>>
vars == <<poolVars, scanVars>>

(***************************************************************************)
(* A task's traversal: it is about to fetch its own manifest, or stores    *)
(* and dequeues what it found, or is about to fetch the nested list        *)
(* current.                                                                *)
(***************************************************************************)
Body == [at      : {"fetch", "drain", "expand"},
         leaves  : SUBSET Digest,   \* found, not a list, not yet stored
         lists   : SUBSET Digest,   \* addDependentManifestsToIgnoreList's queue
         current : Digest \cup {NoTask}]

ScanTypeOK ==
    /\ PoolTypeOK
    /\ repo \in Repos
    /\ pc \in {"scan", "wait", "returned", "panicked"}
    /\ pageEnd \in 0..Len(repo.listing)
    /\ pos \in 0..pageEnd
    /\ ignoreList \in SUBSET Digest
    /\ candidates \in SUBSET Digest
    /\ body \in [Digest -> Body]
    /\ failure \in {"none", "listing", "task"}
    /\ result \in SUBSET Digest

ScanInit ==
    /\ PoolInit
    /\ repo \in Repos
    /\ pc = "scan" /\ pos = 0 /\ pageEnd = 0
    /\ ignoreList = {} /\ candidates = {}
    /\ body = [d \in Digest |->
                 [at |-> "fetch", leaves |-> {}, lists |-> {}, current |-> NoTask]]
    /\ failure = "none" /\ result = {}

-----------------------------------------------------------------------------
(***************************************************************************)
(* The scanning goroutine.  It takes its next step when SubmitErr has      *)
(* accepted the task in its hands.                                         *)
(***************************************************************************)
AtPageEnd == pc = "scan" /\ submitting = NoTask /\ pos = pageEnd

Return(err, digests) ==
    /\ pc' = "returned"
    /\ failure' = err
    /\ result' = digests
    /\ UNCHANGED <<repo, pos, pageEnd, ignoreList, candidates, body>>

\* A page of GetAcrManifests.
ListPage ==
    /\ AtPageEnd /\ pos < Len(repo.listing)
    /\ pageEnd' = IF pos + PageSize < Len(repo.listing) THEN pos + PageSize
                  ELSE Len(repo.listing)
    /\ UNCHANGED <<poolVars, repo, pc, pos, ignoreList, candidates, body, failure, result>>

\* An empty page, or none: nothing is left to visit.
ListEnd ==
    /\ AtPageEnd /\ pos = Len(repo.listing)
    /\ pc' = "wait"
    /\ UNCHANGED <<poolVars, repo, pos, pageEnd, ignoreList, candidates, body, failure, result>>

\* The first request is answered 404: there is no such repository.
RepositoryNotFound ==
    /\ AtPageEnd /\ repo.listing = << >>
    /\ Return("none", {})
    /\ UNCHANGED poolVars

\* A request for a page fails.  The group is not waited for.
ListError ==
    /\ AtPageEnd /\ repo \in Faults
    /\ Return("listing", {})
    /\ UNCHANGED poolVars

\* The loop body meets d.  Its check of ctx.Err() never fires: ctx is the
\* caller's context, which nothing cancels, and not the group's.
Visit(d) ==
    /\ pc = "scan" /\ submitting = NoTask /\ pos < pageEnd
    /\ d = repo.listing[pos + 1]
    /\ pos' = pos + 1
    /\ UNCHANGED <<repo, pageEnd, ignoreList, body, failure, result>>

Passed(d) == d \in ignoreList \/ LockedOut(repo, d)

\* Mutant: no task looks for the children of a protected list.
VisitSkipProtected(d) ==
    /\ Visit(d)
    /\ Passed(d) \/ Protected(repo, d)
    /\ UNCHANGED <<poolVars, pc, candidates>>

\* d is already ignored, locked, or protected and without children.
VisitSkip(d) ==
    /\ Visit(d)
    /\ Passed(d) \/ (Protected(repo, d) /\ ~MaybeList(repo, d))
    /\ UNCHANGED <<poolVars, pc, candidates>>

\* d is protected and may have children: a task will look for them.
VisitProtectedList(d) ==
    /\ Visit(d) /\ ~Passed(d)
    /\ Protected(repo, d) /\ MaybeList(repo, d)
    /\ Submit(d)
    /\ UNCHANGED <<pc, candidates>>

\* preserveAllOCIManifests: d is a candidate by its media type alone, and the
\* dereference of a missing media type panics.
VisitPreserveAll(d) ==
    /\ Visit(d) /\ ~Passed(d)
    /\ ~Protected(repo, d) /\ repo.preserveAll
    /\ IF d \in repo.unlabelled
       THEN pc' = "panicked" /\ UNCHANGED candidates
       ELSE /\ candidates' = IF repo.kind[d] = "image" THEN candidates
                               ELSE candidates \cup {d}
            /\ UNCHANGED pc
    /\ UNCHANGED poolVars

\* d is a candidate, and a task will check whether it is a referrer.
VisitUntagged(d) ==
    /\ Visit(d) /\ ~Passed(d)
    /\ ~Protected(repo, d) /\ ~repo.preserveAll
    /\ Submit(d)
    /\ candidates' = candidates \cup {d}
    /\ UNCHANGED pc

\* group.Wait returns; the candidates that are not ignored are the answer.
WaitReturns ==
    /\ pc = "wait" /\ GroupDone
    /\ IF groupErr = NoTask THEN Return("none", candidates \ ignoreList)
       ELSE Return("task", {})
    /\ UNCHANGED poolVars

-----------------------------------------------------------------------------
(***************************************************************************)
(* The tasks.  At(w, d, here): worker w executes the task of d, which is   *)
(* at the step here.                                                       *)
(***************************************************************************)
At(w, d, here) ==
    /\ Busy(w) /\ job[w] = d
    /\ task[d] = "running"
    /\ body[d].at = here
    /\ UNCHANGED <<repo, pc, pos, pageEnd, candidates, failure, result>>

Leaves(d) == {c \in Kids(repo, d) : ~IsList(repo, c)}
Lists(d) == {c \in Kids(repo, d) : IsList(repo, c)}

\* addDependentManifestsToIgnoreList starts on the children of d, or there
\* are none and the task has nothing more to do.
Traverse(d) ==
    /\ body' = [body EXCEPT ![d] = [at |-> "drain", leaves |-> Leaves(d),
                                    lists |-> Lists(d), current |-> NoTask]]
    /\ UNCHANGED <<poolVars, ignoreList>>

\* d is protected: its children are to be ignored.  A 404 leaves none.
FetchProtected(w, d) ==
    /\ At(w, d, "fetch")
    /\ Protected(repo, d)
    /\ Traverse(d)

\* checkManifestDeletabilityAndGetDependencies: d may be deleted.
CheckDeletable(w, d) ==
    /\ At(w, d, "fetch")
    /\ ~Protected(repo, d)
    /\ ~KeptItself(repo, d) /\ ~ReferrerIndex(repo, d)
    /\ FinishTask(w, TRUE)
    /\ UNCHANGED <<ignoreList, body>>

\* d may not be deleted and has no children: d itself is to be ignored.
CheckKept(w, d) ==
    /\ At(w, d, "fetch")
    /\ ~Protected(repo, d) /\ KeptItself(repo, d)
    /\ ignoreList' = ignoreList \cup {d}
    /\ FinishTask(w, TRUE)
    /\ UNCHANGED body

\* Mutant: a referrer with children is ignored itself, too.
CheckReferrerKept(w, d) ==
    /\ At(w, d, "fetch")
    /\ ~Protected(repo, d) /\ ReferrerIndex(repo, d)
    /\ body' = [body EXCEPT ![d] = [at |-> "drain", leaves |-> Leaves(d),
                                    lists |-> Lists(d), current |-> NoTask]]
    /\ ignoreList' = ignoreList \cup {d}
    /\ UNCHANGED poolVars

\* d may not be deleted and has children: they are to be ignored, and d is
\* not put into the ignoreList.
CheckReferrerIndex(w, d) ==
    /\ At(w, d, "fetch")
    /\ ~Protected(repo, d) /\ ReferrerIndex(repo, d)
    /\ Traverse(d)

\* GetManifest fails, or its answer is not JSON.
FetchError(w, d) ==
    /\ At(w, d, "fetch") /\ repo \in Faults
    /\ Protected(repo, d) \/ (d \notin repo.unlabelled /\ repo.kind[d] \in OCIKind)
    /\ FinishTask(w, FALSE)
    /\ UNCHANGED <<ignoreList, body>>

\* A child that is not a list is stored.
StoreLeaf(w, d, c) ==
    /\ At(w, d, "drain")
    /\ c \in body[d].leaves
    /\ ignoreList' = ignoreList \cup {c}
    /\ body' = [body EXCEPT ![d].leaves = @ \ {c}]
    /\ UNCHANGED poolVars

\* Mutant: the list is stored first, and then found to be loaded.
TakeListStoredFirst(w, d, c) ==
    /\ At(w, d, "drain")
    /\ body[d].leaves = {} /\ c \in body[d].lists
    /\ ignoreList' = ignoreList \cup {c}
    /\ body' = [body EXCEPT ![d].lists = @ \ {c}]
    /\ UNCHANGED poolVars

\* A nested list is dequeued: it is stored and fetched unless it was loaded.
TakeList(w, d, c) ==
    /\ At(w, d, "drain")
    /\ body[d].leaves = {} /\ c \in body[d].lists
    /\ ignoreList' = ignoreList \cup {c}
    /\ body' = [body EXCEPT ![d].lists = @ \ {c},
                            ![d].at = IF c \in ignoreList THEN "drain" ELSE "expand",
                            ![d].current = IF c \in ignoreList THEN NoTask ELSE c]
    /\ UNCHANGED poolVars

\* Mutant: the lists in a nested list are not queued.
FetchNestedOnce(w, d) ==
    LET c == body[d].current
    IN  /\ At(w, d, "expand")
        /\ c \notin repo.gone
        /\ body' = [body EXCEPT ![d] = [at |-> "drain", leaves |-> Leaves(c),
                                        lists |-> @.lists, current |-> NoTask]]
        /\ UNCHANGED <<poolVars, ignoreList>>

\* findDirectDependentManifests on the nested list.
FetchNested(w, d) ==
    LET c == body[d].current
    IN  /\ At(w, d, "expand")
        /\ c \notin repo.gone
        /\ body' = [body EXCEPT ![d] = [at |-> "drain", leaves |-> Leaves(c),
                                        lists |-> @.lists \cup Lists(c),
                                        current |-> NoTask]]
        /\ UNCHANGED <<poolVars, ignoreList>>

\* Mutant: the request is repeated until it succeeds.
FetchNestedRetried(w, d) ==
    /\ At(w, d, "expand")
    /\ body[d].current \in repo.gone \/ repo \in Faults
    /\ UNCHANGED <<poolVars, ignoreList, body>>

\* It fails, also with a 404: the error value GetManifest returns is a
\* DetailedError around *azure.RequestError, and errors.As looks for the
\* struct azure.RequestError.
FetchNestedError(w, d) ==
    /\ At(w, d, "expand")
    /\ body[d].current \in repo.gone \/ repo \in Faults
    /\ FinishTask(w, FALSE)
    /\ UNCHANGED <<ignoreList, body>>

\* The queue is empty.
TraversalEnds(w, d) ==
    /\ At(w, d, "drain")
    /\ body[d].leaves = {} /\ body[d].lists = {}
    /\ FinishTask(w, TRUE)
    /\ UNCHANGED <<ignoreList, body>>

TaskStep(w) ==
    \E d \in Digest :
        \/ FetchProtected(w, d)
        \/ CheckDeletable(w, d)
        \/ CheckKept(w, d)
        \/ CheckReferrerIndex(w, d)
        \/ FetchError(w, d)
        \/ \E c \in Digest : StoreLeaf(w, d, c) \/ TakeList(w, d, c)
        \/ FetchNested(w, d)
        \/ FetchNestedError(w, d)
        \/ TraversalEnds(w, d)

-----------------------------------------------------------------------------
ScanLoop ==
    \/ ListPage
    \/ ListEnd
    \/ RepositoryNotFound
    \/ ListError
    \/ \E d \in Digest : \/ VisitSkip(d)
                         \/ VisitProtectedList(d)
                         \/ VisitPreserveAll(d)
                         \/ VisitUntagged(d)
    \/ WaitReturns

ScanNext ==
    \/ ScanLoop
    \/ PoolStep /\ UNCHANGED scanVars
    \/ \E w \in Worker : TaskStep(w)

\* The Go scheduler runs every runnable goroutine, and every request to the
\* registry is answered.
ScanSpec ==
    /\ ScanInit
    /\ [][ScanNext]_vars
    /\ WF_vars(ScanLoop)
    /\ PoolFairness
    /\ \A w \in Worker : WF_vars(TaskStep(w))

-----------------------------------------------------------------------------
(***************************************************************************)
(* Properties.                                                             *)
(***************************************************************************)
Visited == {repo.listing[i] : i \in 1..pos}

\* c is on its way into the ignoreList.
Pending(c) ==
    \E d \in Digest : /\ task[d] = "running" /\ body[d].at # "fetch"
                      /\ c \in body[d].leaves \cup body[d].lists

Expanding(l) ==
    \E d \in Digest : task[d] = "running" /\ body[d].at = "expand" /\ body[d].current = l

Covered(l) ==
    Expanding(l) \/ \A c \in Kids(repo, l) : c \in ignoreList \/ Pending(c)

\* A list in the ignoreList is followed there by its children, whichever task
\* stored it first: until an error, each child is stored, in some task's
\* queue, or the list is just being fetched.
IgnoredListsAreFollowed ==
    groupErr = NoTask => \A l \in ignoreList : Covered(l)

\* A visited manifest that shields its children does so although the loop
\* may pass over it: its own task has them to store, or another task met it.
VisitedShieldsAreFollowed ==
    groupErr = NoTask =>
        \A d \in Visited \cap Shields(repo) :
            \/ task[d] \in {"submitting", "queued", "picked"}
            \/ task[d] = "running" /\ body[d].at = "fetch"
            \/ Covered(d)

\* Nothing is spared that need not be: all that is ignored is referred to by
\* a shield, or kept for its own sake.
OnlyShieldedIsIgnored ==
    ignoreList \subseteq
        Shielded(repo) \cup {d \in Digest : ~Protected(repo, d) /\ KeptItself(repo, d)}

\* Whatever the interleaving of the loop and the tasks, a scan that succeeds
\* returns the selection of RepositoryManifests, and one that fails nothing.
Selection == INSTANCE UntaggedSelection WITH
    phase  <- IF pc = "returned" THEN "returned" ELSE "scanning",
    failed <- failure # "none"

SelectionRefined == Selection!SelectionSpec

\* The scan ends, also when a request fails while the queue is full; annotate
\* may end in the panic of VisitPreserveAll, and purge may not.
ScanTerminates == <>(pc = "returned" \/ (pc = "panicked" /\ repo.preserveAll))

-----------------------------------------------------------------------------
(***************************************************************************)
(* What comments say of the scan, and the code does not do.                *)
(***************************************************************************)

\* cmd/acr/purge.go:593: "if a manifest has no tag, but it has subject, then
\* it should not be deleted".
ReferrersSurvive == \A d \in result : d \notin repo.subject

=============================================================================
