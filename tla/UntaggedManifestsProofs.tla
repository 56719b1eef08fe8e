----------------------- MODULE UntaggedManifestsProofs -----------------------
(***************************************************************************)
(* The scan returns the selection of RepositoryManifests, for every        *)
(* repository, pool size, page size and interleaving, provided that the    *)
(* listing gives every list its media type (LabelledLists).                *)
(***************************************************************************)
EXTENDS UntaggedManifests, TaskPoolProofs

USE SelectionAssumption, ScanAssumption

\* Without it a nested list can be stored by its own task, unexpanded, before
\* the task of its parent meets it.
LabelledLists == \A r \in Repos : \A d \in r.unlabelled : r.kind[d] \notin ListKind

-----------------------------------------------------------------------------
(***************************************************************************)
(* Facts about a repository.                                               *)
(***************************************************************************)

\* Every child is a digest, and only a list has children.
LEMMA KidsFacts ==
  ASSUME NEW r \in Repos, NEW d \in Digest
  PROVE  /\ Kids(r, d) \subseteq Digest
         /\ ~IsList(r, d) => Kids(r, d) = {}
  BY DEF Kids, IsList, Repository

\* A manifest that is kept for its own sake has no children to shield.
LEMMA KeptHasNoKids ==
  ASSUME LabelledLists, NEW r \in Repos, NEW d \in Digest, KeptItself(r, d)
  PROVE  Kids(r, d) = {} /\ ~ReferrerIndex(r, d)
<1>1. CASE d \in r.unlabelled
  <2>1. r.kind[d] \notin ListKind
      BY <1>1 DEF LabelledLists
  <2>2. r.children[d] = {}
      BY <2>1
  <2> QED
      BY <1>1, <2>2 DEF Kids, ReferrerIndex
<1>2. CASE d \notin r.unlabelled
    BY <1>2 DEF KeptItself, Kids, ReferrerIndex, ListKind, OCIKind
<1> QED
    BY <1>1, <1>2

\* The manifests of the listing are digests, each in one position.
LEMMA ListingFacts ==
  ASSUME NEW r \in Repos
  PROVE  /\ Len(r.listing) \in Nat
         /\ \A i \in 1..Len(r.listing) : r.listing[i] \in Digest
         /\ \A i, j \in 1..Len(r.listing) : r.listing[i] = r.listing[j] => i = j
         /\ Listed(r) \subseteq Digest
         /\ Shields(r) \subseteq Listed(r)
<1>1. r.listing \in Seq(Digest)
    BY DEF Repository
<1> QED
    BY <1>1 DEF Listed, Shields

-----------------------------------------------------------------------------
(***************************************************************************)
(* The inductive invariant.                                                *)
(***************************************************************************)
AtFetch(d) == task[d] = "running" /\ body[d].at = "fetch"

\* The loop submits a task for d.
Examined(d) ==
    /\ ~LockedOut(repo, d)
    /\ IF Protected(repo, d) THEN MaybeList(repo, d) ELSE ~repo.preserveAll

LoopInv ==
    /\ pc = "wait" => pos = Len(repo.listing)
    /\ pc # "scan" => submitting = NoTask
    /\ pc # "returned" => failure = "none" /\ result = {}

TasksInv ==
    /\ \A d \in Digest : task[d] # "new" => d \in Visited /\ Examined(d)
    /\ \A d \in Digest : task[d] = "new" \/ Early(d) => body[d].at = "fetch"
    /\ \A d \in Digest : body[d].at = "expand" =>
                            /\ body[d].leaves = {}
                            /\ body[d].current \in ignoreList
    /\ \A d \in Digest : \A c \in body[d].leaves : ~IsList(repo, c)

CandidatesInv ==
    /\ \A d \in candidates : /\ d \in Visited
                             /\ ~LockedOut(repo, d) /\ ~Protected(repo, d)
                             /\ repo.preserveAll => repo.kind[d] # "image"
    /\ pc # "panicked" =>
        \A d \in Visited :
            /\ ~LockedOut(repo, d) /\ ~Protected(repo, d)
            /\ repo.preserveAll => repo.kind[d] # "image"
            => d \in candidates \cup ignoreList
    /\ groupErr = NoTask =>
        \A d \in candidates : ~repo.preserveAll /\ KeptItself(repo, d) =>
            Early(d) \/ AtFetch(d) \/ d \in ignoreList

Followed == IgnoredListsAreFollowed /\ VisitedShieldsAreFollowed

\* Everything the tasks found lies in every closed set around the shields.
ClosedAround(S) ==
    /\ \A d \in Shields(repo) : Kids(repo, d) \subseteq S
    /\ ClosedUnderKids(repo, S)

Kept == {d \in Digest : ~repo.preserveAll /\ ~Protected(repo, d) /\ KeptItself(repo, d)}

WithinShields ==
    \A S \in SUBSET Digest : ClosedAround(S) =>
        /\ ignoreList \subseteq S \cup Kept
        /\ \A d \in Digest : /\ body[d].leaves \subseteq S
                             /\ body[d].lists \subseteq S
                             /\ body[d].at = "expand" => body[d].current \in S

Answered ==
    pc = "returned" => result = IF failure = "none" THEN Selected(repo) ELSE {}

ScanInv ==
    /\ PoolInv /\ ScanTypeOK
    /\ LoopInv /\ TasksInv /\ CandidatesInv
    /\ Followed /\ WithinShields
    /\ Answered

-----------------------------------------------------------------------------
(***************************************************************************)
(* Initial states, and steps of the pool.                                  *)
(***************************************************************************)

\* Nothing is visited, submitted or ignored at the start.
LEMMA ScanInitInv == ScanInit => ScanInv
<1> SUFFICES ASSUME ScanInit PROVE ScanInv
    OBVIOUS
<1>1. PoolInv /\ PoolTypeOK
    BY PoolInitInv DEF ScanInit, PoolInv
<1>2. task = [d \in Digest |-> "new"] /\ submitting = NoTask
    BY DEF ScanInit, PoolInit
<1>3. ScanTypeOK
  <2>1. pageEnd \in 0..Len(repo.listing) /\ pos \in 0..pageEnd
      BY ListingFacts DEF ScanInit
  <2>2. body \in [Digest -> Body]
      BY DEF ScanInit, Body
  <2> QED
      BY <1>1, <2>1, <2>2 DEF ScanInit, ScanTypeOK
<1>4. Visited = {}
    BY DEF ScanInit, Visited
<1>5. LoopInv /\ TasksInv
    BY <1>2, <1>4 DEF ScanInit, LoopInv, TasksInv, Early
<1>6. CandidatesInv
    BY <1>4 DEF ScanInit, CandidatesInv
<1>7. Followed
    BY <1>4 DEF ScanInit, Followed, IgnoredListsAreFollowed, VisitedShieldsAreFollowed
<1>8. WithinShields /\ Answered
    BY DEF ScanInit, WithinShields, Answered
<1> QED
    BY <1>1, <1>3, <1>5, <1>6, <1>7, <1>8 DEF ScanInv

\* A step of the pool preserves the invariant of the scan.
LEMMA PoolStepScanInv ==
  ASSUME ScanInv, PoolStep, UNCHANGED scanVars
  PROVE  ScanInv'
<1> USE DEF ScanInv
<1>1. PoolInv' /\ PoolTypeOK'
    BY PoolStepInv DEF PoolInv
<1>2. /\ groupErr' = groupErr
      /\ submitting' \in {submitting, NoTask}
      /\ \A d \in Digest : \/ task'[d] = task[d]
                           \/ Early(d) /\ \/ Early(d)'
                                          \/ task'[d] = "running"
                                          \/ task'[d] = "skipped" /\ groupErr # NoTask
    BY PoolStepEffect
<1>3. /\ repo' = repo /\ pc' = pc /\ pos' = pos /\ pageEnd' = pageEnd
      /\ ignoreList' = ignoreList /\ candidates' = candidates /\ body' = body
      /\ failure' = failure /\ result' = result
    BY DEF scanVars
<1>4. Visited' = Visited
    BY <1>3 DEF Visited
<1>5. ScanTypeOK'
    BY <1>1, <1>3 DEF ScanTypeOK
<1>6. LoopInv'
    BY <1>2, <1>3 DEF LoopInv
<1>7. TasksInv'
  <2>1. \A d \in Digest : (task[d] # "new" => d \in Visited /\ Examined(d))'
      BY <1>2, <1>3, <1>4 DEF TasksInv, Examined, Early
  <2>2. \A d \in Digest : (task[d] = "new" \/ Early(d) => body[d].at = "fetch")'
      BY <1>2, <1>3 DEF TasksInv, Early
  <2> QED
      BY <1>3, <2>1, <2>2 DEF TasksInv
<1>8. \A d \in Digest : Early(d) => Early(d)' \/ AtFetch(d)' \/ groupErr # NoTask
    BY <1>2, <1>3 DEF TasksInv, Early, AtFetch
<1>9. \A d \in Digest : AtFetch(d) => AtFetch(d)'
    BY <1>2, <1>3 DEF Early, AtFetch
<1>10. CandidatesInv'
    BY <1>2, <1>3, <1>4, <1>8, <1>9 DEF CandidatesInv, ScanTypeOK
<1>11. ASSUME NEW l \in Digest, Covered(l)
       PROVE  Covered(l)'
  <2>1. \A d \in Digest : task[d] = "running" => task'[d] = "running"
      BY <1>2 DEF Early
  <2>2. CASE Expanding(l)
      BY <1>3, <2>1, <2>2 DEF Covered, Expanding
  <2>3. ASSUME NEW c \in Kids(repo, l), c \in ignoreList \/ Pending(c)
        PROVE  (c \in ignoreList \/ Pending(c))'
      BY <1>3, <2>1, <2>3 DEF Pending
  <2> QED
      BY <1>3, <1>11, <2>2, <2>3 DEF Covered
<1>12. Followed'
  <2>1. IgnoredListsAreFollowed'
      BY <1>2, <1>3, <1>11 DEF Followed, IgnoredListsAreFollowed, ScanTypeOK
  <2>2. ASSUME groupErr = NoTask, NEW d \in Visited \cap Shields(repo)
        PROVE  (Early(d) \/ AtFetch(d) \/ Covered(d))'
    <3>1. d \in Digest
        BY ListingFacts DEF ScanTypeOK
    <3>2. Early(d) \/ AtFetch(d) \/ Covered(d)
        BY <2>2 DEF Followed, VisitedShieldsAreFollowed, Early, AtFetch
    <3> QED
        BY <1>8, <1>9, <1>11, <2>2, <3>1, <3>2
  <2>3. VisitedShieldsAreFollowed'
      BY <1>2, <1>3, <1>4, <2>2 DEF VisitedShieldsAreFollowed, Early, AtFetch
  <2> QED
      BY <2>1, <2>3 DEF Followed
<1>13. WithinShields'
    BY <1>3 DEF WithinShields, ClosedAround, Kept
<1>14. Answered'
    BY <1>3 DEF Answered
<1> QED
    BY <1>1, <1>5, <1>6, <1>7, <1>10, <1>12, <1>13, <1>14

-----------------------------------------------------------------------------
(***************************************************************************)
(* Steps of the loop.                                                      *)
(***************************************************************************)

\* Paging changes nothing the invariant relates to the tasks.
LEMMA ListingInv ==
  ASSUME ScanInv, ListPage \/ ListEnd
  PROVE  ScanInv'
<1> USE DEF ScanInv
<1>1. UNCHANGED poolVars
    BY DEF ListPage, ListEnd
<1>2. /\ repo' = repo /\ pos' = pos /\ ignoreList' = ignoreList
      /\ candidates' = candidates /\ body' = body /\ failure' = failure /\ result' = result
      /\ pc = "scan" /\ submitting = NoTask
      /\ \/ pc' = pc
         \/ pc' = "wait" /\ pos = Len(repo.listing) /\ pageEnd' = pageEnd
    BY DEF ListPage, ListEnd, AtPageEnd
<1>3. PoolInv' /\ PoolTypeOK'
    BY <1>1, PoolStutterInv DEF PoolInv
<1>4. /\ task' = task /\ groupErr' = groupErr /\ submitting' = submitting
    BY <1>1 DEF poolVars
<1>5. pageEnd' \in 0..Len(repo.listing) /\ pos \in 0..pageEnd'
  <2>1. Len(repo.listing) \in Nat
      BY ListingFacts DEF ScanTypeOK
  <2> QED
      BY <2>1, <1>2 DEF ListPage, ListEnd, AtPageEnd, ScanTypeOK
<1>6. ScanTypeOK'
    BY <1>2, <1>3, <1>5 DEF ScanTypeOK
<1>7. LoopInv' /\ Answered'
    BY <1>2, <1>4 DEF LoopInv, Answered
<1>8. TasksInv' /\ CandidatesInv'
    BY <1>2, <1>4 DEF TasksInv, CandidatesInv, Visited, Early, AtFetch, Examined
<1>9. Followed' /\ WithinShields'
    BY <1>2, <1>4 DEF Followed, IgnoredListsAreFollowed, VisitedShieldsAreFollowed, Visited,
         Covered, Expanding, Pending, WithinShields, ClosedAround, Kept
<1> QED
    BY <1>3, <1>6, <1>7, <1>8, <1>9

\* When every task has settled without error and every manifest is visited,
\* the ignoreList is the smallest closed set, and the answer the selection.
LEMMA AnswerIsSelection ==
  ASSUME LabelledLists, ScanInv, pc = "wait", GroupDone, groupErr = NoTask
  PROVE  candidates \ ignoreList = Selected(repo)
<1> USE DEF ScanInv
<1>1. repo \in Repos /\ ignoreList \subseteq Digest /\ candidates \subseteq Digest
    BY DEF ScanTypeOK
<1>2. \A d \in Digest : task[d] \in {"new", "ok"}
    BY DEF GroupDone, Settled, PoolInv, ErrorHasCause
<1>3. Visited = Listed(repo)
    BY DEF LoopInv, Visited, Listed
<1>4. ASSUME NEW l \in Digest, Covered(l)
      PROVE  Kids(repo, l) \subseteq ignoreList
    BY <1>2, <1>4 DEF Covered, Expanding, Pending
<1>5. ClosedUnderKids(repo, ignoreList)
    BY <1>1, <1>4 DEF Followed, IgnoredListsAreFollowed, ClosedUnderKids
<1>6. \A d \in Shields(repo) : Kids(repo, d) \subseteq ignoreList
  <2> SUFFICES ASSUME NEW d \in Shields(repo) PROVE Kids(repo, d) \subseteq ignoreList
      OBVIOUS
  <2>1. d \in Visited /\ d \in Digest
      BY <1>1, <1>3, ListingFacts
  <2>2. Covered(d)
      BY <1>2, <2>1 DEF Followed, VisitedShieldsAreFollowed
  <2> QED
      BY <1>4, <2>1, <2>2
<1>7. Shielded(repo) \subseteq ignoreList
    BY <1>1, <1>5, <1>6 DEF Shielded
<1>8. ignoreList \subseteq Shielded(repo) \cup Kept
  <2> SUFFICES ASSUME NEW d \in ignoreList, d \notin Kept,
                      NEW S \in SUBSET Digest,
                      UNION {Kids(repo, x) : x \in Shields(repo)} \subseteq S,
                      ClosedUnderKids(repo, S)
               PROVE  d \in S
      BY <1>1 DEF Shielded
  <2>1. ClosedAround(S)
      BY DEF ClosedAround
  <2> QED
      BY <2>1 DEF WithinShields
<1>9. ASSUME NEW d \in candidates, d \notin ignoreList
      PROVE  d \in Selected(repo)
  <2>1. d \in Listed(repo) /\ ~LockedOut(repo, d) /\ ~Protected(repo, d)
        /\ (repo.preserveAll => repo.kind[d] # "image")
      BY <1>3, <1>9 DEF CandidatesInv
  <2>2. ~repo.preserveAll => ~KeptItself(repo, d)
      BY <1>1, <1>2, <1>9 DEF CandidatesInv, Early, AtFetch
  <2> QED
      BY <1>7, <1>9, <2>1, <2>2 DEF Selected, Eligible
<1>10. ASSUME NEW d \in Selected(repo)
       PROVE  d \in candidates /\ d \notin ignoreList
  <2>1. d \in Visited /\ ~LockedOut(repo, d) /\ ~Protected(repo, d)
        /\ (IF repo.preserveAll THEN repo.kind[d] # "image" ELSE ~KeptItself(repo, d))
      BY <1>3 DEF Selected, Eligible
  <2>2. d \notin ignoreList
      BY <1>8, <2>1 DEF Selected, Kept
  <2> QED
      BY <2>1, <2>2 DEF CandidatesInv
<1> QED
    BY <1>9, <1>10

\* The returned answer is the selection, or nothing.
LEMMA ReturnInv ==
  ASSUME LabelledLists, ScanInv, RepositoryNotFound \/ ListError \/ WaitReturns
  PROVE  ScanInv'
<1> USE DEF ScanInv
<1>1. UNCHANGED poolVars
    BY DEF RepositoryNotFound, ListError, WaitReturns
<1>2. /\ repo' = repo /\ pos' = pos /\ pageEnd' = pageEnd /\ ignoreList' = ignoreList
      /\ candidates' = candidates /\ body' = body
      /\ pc' = "returned" /\ pc # "panicked" /\ submitting = NoTask
    BY DEF RepositoryNotFound, ListError, WaitReturns, Return, AtPageEnd, LoopInv
<1>3. PoolInv' /\ PoolTypeOK'
    BY <1>1, PoolStutterInv DEF PoolInv
<1>4. task' = task /\ groupErr' = groupErr /\ submitting' = submitting
    BY <1>1 DEF poolVars
<1>5. failure' \in {"none", "listing", "task"}
      /\ result' = IF failure' = "none" THEN Selected(repo) ELSE {}
  <2>1. CASE RepositoryNotFound
    <3>1. Listed(repo) = {}
        BY <2>1 DEF RepositoryNotFound, Listed
    <3> QED
        BY <2>1, <3>1 DEF RepositoryNotFound, Return, Selected, Eligible
  <2>2. CASE ListError
      BY <2>2 DEF ListError, Return
  <2>3. CASE WaitReturns
      BY <2>3, AnswerIsSelection DEF WaitReturns, Return
  <2> QED
      BY <2>1, <2>2, <2>3
<1>6. Selected(repo) \subseteq Digest
    BY ListingFacts DEF Selected, Eligible, ScanTypeOK
<1>7. ScanTypeOK' /\ Answered'
    BY <1>2, <1>3, <1>5, <1>6 DEF ScanTypeOK, Answered
<1>8. LoopInv'
    BY <1>2, <1>4 DEF LoopInv
<1>9. TasksInv' /\ CandidatesInv'
    BY <1>2, <1>4 DEF TasksInv, CandidatesInv, Visited, Early, AtFetch, Examined
<1>10. Followed' /\ WithinShields'
    BY <1>2, <1>4 DEF Followed, IgnoredListsAreFollowed, VisitedShieldsAreFollowed, Visited,
         Covered, Expanding, Pending, WithinShields, ClosedAround, Kept
<1> QED
    BY <1>3, <1>7, <1>8, <1>9, <1>10

\* The loop meets a manifest it has not met before.
LEMMA VisitEffect ==
  ASSUME ScanInv, NEW d \in Digest, Visit(d)
  PROVE  /\ Visited' = Visited \cup {d}
         /\ d \in Listed(repo) /\ d \notin Visited
         /\ task[d] = "new"
         /\ pageEnd' \in 0..Len(repo'.listing) /\ pos' \in 0..pageEnd'
<1> USE DEF ScanInv
<1>1. repo \in Repos /\ pos \in Nat /\ pageEnd \in 0..Len(repo.listing) /\ pos + 1 \in 1..pageEnd
  <2>1. Len(repo.listing) \in Nat
      BY ListingFacts DEF ScanTypeOK
  <2> QED
      BY <2>1 DEF Visit, ScanTypeOK
<1>2. /\ Len(repo.listing) \in Nat
      /\ \A i, j \in 1..Len(repo.listing) : repo.listing[i] = repo.listing[j] => i = j
    BY <1>1, ListingFacts
<1>3. pos' = pos + 1 /\ repo' = repo /\ pageEnd' = pageEnd /\ d = repo.listing[pos + 1]
    BY DEF Visit
<1>4. 1..pos' = (1..pos) \cup {pos + 1}
    BY <1>1, <1>3
<1>5. Visited' = Visited \cup {d}
    BY <1>3, <1>4 DEF Visited
<1>6. pos + 1 \in 1..Len(repo.listing)
    BY <1>1, <1>2
<1>7. d \in Listed(repo)
    BY <1>3, <1>6 DEF Listed
<1>8. d \notin Visited
  <2> SUFFICES ASSUME NEW i \in 1..pos, repo.listing[i] = d PROVE FALSE
      BY DEF Visited
  <2>1. i \in 1..Len(repo.listing) /\ i # pos + 1
      BY <1>1, <1>2
  <2> QED
      BY <1>2, <1>3, <1>6, <2>1
<1>9. task[d] = "new"
    BY <1>8 DEF TasksInv
<1>10. pageEnd' \in 0..Len(repo'.listing) /\ pos' \in 0..pageEnd'
    BY <1>1, <1>3
<1> QED
    BY <1>5, <1>7, <1>8, <1>9, <1>10

\* A visit does not touch what the tasks found: lists stay followed, and so
\* do the shields met before; the new one must be accounted for.
LEMMA VisitFollowed ==
  ASSUME ScanInv, NEW d \in Digest, Visit(d),
         groupErr' = groupErr,
         \A x \in Digest : x # d => task'[x] = task[x],
         task[d] = "new", task'[d] \in {"new", "submitting"},
         d \in Shields(repo) => task'[d] = "submitting" \/ d \in ignoreList
  PROVE  Followed' /\ WithinShields'
<1> USE DEF ScanInv
<1>1. repo' = repo /\ ignoreList' = ignoreList /\ body' = body
    BY DEF Visit
<1>2. \A x \in Digest : task[x] = "running" <=> task'[x] = "running"
    OBVIOUS
<1>3. \A l \in Digest : Covered(l)' <=> Covered(l)
  <2>1. \A l \in Digest : Expanding(l)' <=> Expanding(l)
      BY <1>1, <1>2 DEF Expanding
  <2>2. \A c : Pending(c)' <=> Pending(c)
      BY <1>1, <1>2 DEF Pending
  <2> QED
      BY <1>1, <2>1, <2>2 DEF Covered
<1>4. IgnoredListsAreFollowed'
    BY <1>1, <1>3 DEF Followed, IgnoredListsAreFollowed, ScanTypeOK
<1>5. ASSUME groupErr = NoTask, NEW x \in Visited' \cap Shields(repo)
      PROVE  (\/ task[x] \in {"submitting", "queued", "picked"}
              \/ task[x] = "running" /\ body[x].at = "fetch"
              \/ Covered(x))'
  <2>1. Shields(repo) \subseteq Digest
      BY ListingFacts DEF ScanTypeOK
  <2>2. CASE x = d /\ d \in ignoreList
      BY <1>3, <1>5, <2>2 DEF Followed, IgnoredListsAreFollowed
  <2>3. CASE x = d /\ d \notin ignoreList
      BY <1>5, <2>3
  <2>4. CASE x # d
    <3>1. x \in Visited \cap Shields(repo)
        BY <1>5, <2>4, VisitEffect
    <3> QED
        BY <1>1, <1>3, <1>5, <2>1, <2>4, <3>1 DEF Followed, VisitedShieldsAreFollowed
  <2> QED
      BY <2>2, <2>3, <2>4
<1>6. VisitedShieldsAreFollowed'
    BY <1>1, <1>5 DEF VisitedShieldsAreFollowed
<1>7. WithinShields'
    BY <1>1 DEF WithinShields, ClosedAround, Kept
<1> QED
    BY <1>4, <1>6, <1>7 DEF Followed

\* A visit that submits nothing.
LEMMA VisitWithoutTaskInv ==
  ASSUME ScanInv, NEW d \in Digest, VisitSkip(d) \/ VisitPreserveAll(d)
  PROVE  ScanInv'
<1> USE DEF ScanInv
<1>1. Visit(d) /\ UNCHANGED poolVars
    BY DEF VisitSkip, VisitPreserveAll
<1>2. /\ repo' = repo /\ ignoreList' = ignoreList /\ body' = body
      /\ failure' = failure /\ result' = result /\ pc = "scan" /\ submitting = NoTask
    BY <1>1 DEF Visit
<1>3. /\ task' = task /\ groupErr' = groupErr /\ submitting' = submitting
    BY <1>1 DEF poolVars
<1>4. /\ Visited' = Visited \cup {d} /\ d \notin Visited /\ task[d] = "new"
      /\ d \in Listed(repo)
      /\ pageEnd' \in 0..Len(repo'.listing) /\ pos' \in 0..pageEnd'
    BY <1>1, VisitEffect
<1>5. PoolInv' /\ PoolTypeOK'
    BY <1>1, PoolStutterInv DEF PoolInv
<1>6. /\ candidates' \subseteq candidates \cup {d} /\ candidates \subseteq candidates'
      /\ pc' \in {"scan", "panicked"}
    BY <1>2 DEF VisitSkip, VisitPreserveAll
<1>7. ScanTypeOK'
    BY <1>2, <1>4, <1>5, <1>6 DEF ScanTypeOK
<1>8. LoopInv' /\ Answered'
    BY <1>2, <1>3, <1>6 DEF LoopInv, Answered
<1>9. TasksInv'
    BY <1>2, <1>3, <1>4 DEF TasksInv, Early, Examined
<1>10. CandidatesInv'
  <2>1. d \in candidates' \ candidates =>
            ~LockedOut(repo, d) /\ ~Protected(repo, d) /\ repo.preserveAll
            /\ repo.kind[d] # "image"
      BY <1>2 DEF VisitSkip, VisitPreserveAll, Passed
  <2>2. pc' # "panicked" /\ ~LockedOut(repo, d) /\ ~Protected(repo, d)
        /\ (repo.preserveAll => repo.kind[d] # "image") => d \in candidates' \cup ignoreList
      BY <1>2 DEF VisitSkip, VisitPreserveAll, Passed
  <2> QED
      BY <1>2, <1>3, <1>4, <1>6, <2>1, <2>2 DEF CandidatesInv, Early, AtFetch
<1>11. d \in Shields(repo) => d \in ignoreList
    BY DEF VisitSkip, VisitPreserveAll, Passed, Shields
<1>12. Followed' /\ WithinShields'
    BY <1>1, <1>3, <1>4, <1>11, VisitFollowed
<1> QED
    BY <1>5, <1>7, <1>8, <1>9, <1>10, <1>12

\* A visit that submits a task.
LEMMA VisitWithTaskInv ==
  ASSUME ScanInv, NEW d \in Digest, VisitProtectedList(d) \/ VisitUntagged(d)
  PROVE  ScanInv'
<1> USE DEF ScanInv
<1>1. Visit(d) /\ Submit(d)
    BY DEF VisitProtectedList, VisitUntagged
<1>2. /\ repo' = repo /\ ignoreList' = ignoreList /\ body' = body /\ pc' = pc
      /\ failure' = failure /\ result' = result /\ pc = "scan"
    BY <1>1 DEF Visit, VisitProtectedList, VisitUntagged
<1>3. /\ groupErr' = groupErr /\ task' = [task EXCEPT ![d] = "submitting"]
    BY <1>1 DEF Submit
<1>4. /\ Visited' = Visited \cup {d} /\ d \notin Visited /\ task[d] = "new"
      /\ d \in Listed(repo)
      /\ pageEnd' \in 0..Len(repo'.listing) /\ pos' \in 0..pageEnd'
    BY <1>1, VisitEffect
<1>5. PoolInv' /\ PoolTypeOK'
    BY <1>1, SubmitInv DEF PoolInv
<1>6. candidates' \subseteq candidates \cup {d} /\ candidates \subseteq candidates'
    BY DEF VisitProtectedList, VisitUntagged
<1>7. /\ ~LockedOut(repo, d)
      /\ IF Protected(repo, d) THEN MaybeList(repo, d) /\ candidates' = candidates
         ELSE ~repo.preserveAll /\ d \in candidates'
    BY DEF VisitProtectedList, VisitUntagged, Passed
<1>8. task'[d] = "submitting" /\ \A x \in Digest : x # d => task'[x] = task[x]
    BY <1>3 DEF PoolInv, PoolTypeOK
<1>9. ScanTypeOK'
    BY <1>2, <1>4, <1>5, <1>6 DEF ScanTypeOK
<1>10. LoopInv' /\ Answered'
    BY <1>2 DEF LoopInv, Answered
<1>11. TasksInv'
    BY <1>2, <1>4, <1>7, <1>8 DEF TasksInv, Early, Examined
<1>12. CandidatesInv'
  <2>1. candidates \subseteq Digest /\ candidates' \subseteq Digest
      BY <1>6 DEF ScanTypeOK
  <2>2. \A x \in Digest : x # d => (Early(x)' <=> Early(x)) /\ (AtFetch(x)' <=> AtFetch(x))
      BY <1>2, <1>8 DEF Early, AtFetch
  <2>3. Early(d)'
      BY <1>8 DEF Early
  <2>4. (groupErr = NoTask =>
           \A x \in candidates : ~repo.preserveAll /\ KeptItself(repo, x) =>
              Early(x) \/ AtFetch(x) \/ x \in ignoreList)'
      BY <1>2, <1>3, <1>6, <2>1, <2>2, <2>3 DEF CandidatesInv
  <2>5. (\A x \in candidates : /\ x \in Visited
                               /\ ~LockedOut(repo, x) /\ ~Protected(repo, x)
                               /\ repo.preserveAll => repo.kind[x] # "image")'
    <3>1. d \in candidates' => d \in candidates \/ (~Protected(repo, d) /\ ~repo.preserveAll)
        BY <1>7
    <3> QED
        BY <1>2, <1>4, <1>6, <1>7, <3>1 DEF CandidatesInv
  <2>6. (\A x \in Visited :
            /\ ~LockedOut(repo, x) /\ ~Protected(repo, x)
            /\ repo.preserveAll => repo.kind[x] # "image"
            => x \in candidates \cup ignoreList)'
      BY <1>2, <1>4, <1>6, <1>7 DEF CandidatesInv
  <2> QED
      BY <2>4, <2>5, <2>6 DEF CandidatesInv
<1>13. Followed' /\ WithinShields'
    BY <1>1, <1>3, <1>4, <1>8, VisitFollowed
<1> QED
    BY <1>5, <1>9, <1>10, <1>11, <1>12, <1>13

-----------------------------------------------------------------------------
(***************************************************************************)
(* Steps of the tasks.                                                     *)
(***************************************************************************)

\* A task is executed for a manifest the loop examined, and its step leaves
\* the loop alone.
LEMMA TaskStepFrame ==
  ASSUME ScanInv, NEW w \in Worker, NEW d \in Digest, NEW here, At(w, d, here)
  PROVE  /\ task[d] = "running" /\ job[w] = d /\ body[d].at = here
         /\ d \in Visited /\ d \in Listed(repo) /\ Examined(d)
         /\ Visited' = Visited
         /\ repo' = repo /\ pc' = pc /\ pos' = pos /\ pageEnd' = pageEnd
         /\ candidates' = candidates /\ failure' = failure /\ result' = result
<1> USE DEF ScanInv
<1>1. d \in Visited /\ Examined(d)
    BY DEF At, TasksInv
<1>2. Visited \subseteq Listed(repo)
  <2>1. Len(repo.listing) \in Nat
      BY ListingFacts DEF ScanTypeOK
  <2> QED
      BY <2>1 DEF Visited, Listed, ScanTypeOK
<1> QED
    BY <1>1, <1>2 DEF At, Visited

\* The parts of the invariant that relate the loop to the pool and the body
\* hold again once the types do and the tasks end as FinishTask lets them.
LEMMA TaskStepLoopInv ==
  ASSUME ScanInv, NEW w \in Worker, NEW d \in Digest, NEW here, At(w, d, here),
         submitting' = submitting, ignoreList \subseteq ignoreList',
         groupErr' = NoTask => groupErr = NoTask,
         \A x \in Digest : x # d => task'[x] = task[x] /\ body'[x] = body[x],
         task'[d] \in {"running", "ok", "failed"},
         groupErr' = NoTask /\ body[d].at = "fetch" =>
            AtFetch(d)' \/ ~(d \in candidates /\ ~repo.preserveAll /\ KeptItself(repo, d)) \/ d \in ignoreList'
  PROVE  LoopInv' /\ CandidatesInv' /\ Answered'
<1> USE DEF ScanInv
<1>1. /\ task[d] = "running" /\ body[d].at = here
      /\ Visited' = Visited
      /\ repo' = repo /\ pc' = pc /\ pos' = pos /\ pageEnd' = pageEnd
      /\ candidates' = candidates /\ failure' = failure /\ result' = result
    BY TaskStepFrame
<1>2. LoopInv' /\ Answered'
    BY <1>1 DEF LoopInv, Answered
<1>3. candidates \subseteq Digest
    BY DEF ScanTypeOK
<1>4. \A x \in Digest : x # d => (Early(x)' <=> Early(x)) /\ (AtFetch(x)' <=> AtFetch(x))
    BY DEF Early, AtFetch
<1>5. ~Early(d) /\ (AtFetch(d) <=> body[d].at = "fetch")
    BY <1>1 DEF Early, AtFetch
<1>6. (groupErr = NoTask =>
         \A x \in candidates : ~repo.preserveAll /\ KeptItself(repo, x) =>
            Early(x) \/ AtFetch(x) \/ x \in ignoreList)'
    BY <1>1, <1>3, <1>4, <1>5 DEF CandidatesInv
<1>7. CandidatesInv'
    BY <1>1, <1>6 DEF CandidatesInv
<1> QED
    BY <1>2, <1>7

\* The task is over and had nothing left to store.
LEMMA FinishInv ==
  ASSUME LabelledLists, ScanInv, NEW w \in Worker, NEW d \in Digest,
         CheckDeletable(w, d) \/ CheckKept(w, d) \/ TraversalEnds(w, d)
  PROVE  ScanInv'
<1> USE DEF ScanInv
<1>1. PICK here \in {"fetch", "drain"} : At(w, d, here)
    BY DEF CheckDeletable, CheckKept, TraversalEnds
<1>2. /\ task[d] = "running" /\ job[w] = d /\ body[d].at = here
      /\ d \in Visited /\ d \in Listed(repo) /\ Examined(d)
      /\ Visited' = Visited
      /\ repo' = repo /\ pc' = pc /\ pos' = pos /\ pageEnd' = pageEnd
      /\ candidates' = candidates /\ failure' = failure /\ result' = result
    BY <1>1, TaskStepFrame
<1>3. FinishTask(w, TRUE) /\ body' = body /\ ignoreList' \in SUBSET Digest
      /\ ignoreList \subseteq ignoreList'
    BY DEF CheckDeletable, CheckKept, TraversalEnds, ScanTypeOK
<1>4. PoolInv' /\ PoolTypeOK'
    BY <1>3, FinishTaskInv DEF PoolInv
<1>5. /\ groupErr' = groupErr /\ submitting' = submitting
      /\ task'[d] = "ok" /\ \A x \in Digest : x # d => task'[x] = task[x]
    BY <1>2, <1>3 DEF FinishTask, PoolInv, PoolTypeOK
<1>6. ScanTypeOK'
    BY <1>2, <1>3, <1>4 DEF ScanTypeOK
<1>7. \/ ignoreList' = ignoreList
      \/ ignoreList' = ignoreList \cup {d} /\ KeptItself(repo, d) /\ ~Protected(repo, d)
    BY DEF CheckDeletable, CheckKept, TraversalEnds
<1>8. LoopInv' /\ CandidatesInv' /\ Answered'
  <2>1. body[d].at = "fetch" => ~KeptItself(repo, d) \/ d \in ignoreList'
      BY DEF CheckDeletable, CheckKept, TraversalEnds, At
  <2> QED
      BY <1>1, <1>3, <1>5, <2>1, TaskStepLoopInv
<1>9. TasksInv'
    BY <1>2, <1>3, <1>5 DEF TasksInv, Early, Examined
<1>10. ASSUME NEW l \in Digest, Covered(l)
       PROVE  Covered(l)'
  <2>1. Expanding(l) => Expanding(l)'
      BY <1>2, <1>3, <1>5 DEF Expanding
  <2>2. \A c : Pending(c) => Pending(c)'
    <3>1. body[d].at = "fetch" \/ (body[d].leaves = {} /\ body[d].lists = {})
        BY DEF CheckDeletable, CheckKept, TraversalEnds, At
    <3> QED
        BY <1>3, <1>5, <3>1 DEF Pending
  <2> QED
      BY <1>2, <1>3, <1>10, <2>1, <2>2 DEF Covered
<1>11. Followed'
  <2>1. groupErr = NoTask => \A l \in ignoreList' : Covered(l)'
    <3>1. KeptItself(repo, d) => Covered(d)'
        BY <1>2, KeptHasNoKids DEF Covered, ScanTypeOK
    <3> QED
        BY <1>7, <1>10, <3>1 DEF Followed, IgnoredListsAreFollowed, ScanTypeOK
  <2>2. ASSUME groupErr = NoTask, NEW x \in Visited \cap Shields(repo)
        PROVE  (\/ task[x] \in {"submitting", "queued", "picked"}
                \/ task[x] = "running" /\ body[x].at = "fetch"
                \/ Covered(x))'
    <3>1. x \in Digest
        BY ListingFacts DEF ScanTypeOK
    <3>2. x = d => body[d].at # "fetch"
      <4>1. CASE CheckDeletable(w, d)
          BY <2>2, <4>1 DEF CheckDeletable, Shields
      <4>2. CASE CheckKept(w, d)
          BY <2>2, <4>2, KeptHasNoKids DEF CheckKept, Shields, ScanTypeOK
      <4>3. CASE TraversalEnds(w, d)
          BY <4>3 DEF TraversalEnds, At
      <4> QED
          BY <4>1, <4>2, <4>3
    <3> QED
        BY <1>2, <1>3, <1>5, <1>10, <2>2, <3>1, <3>2 DEF Followed, VisitedShieldsAreFollowed
  <2> QED
      BY <1>2, <1>5, <2>1, <2>2
         DEF Followed, IgnoredListsAreFollowed, VisitedShieldsAreFollowed
<1>12. WithinShields'
  <2>1. ignoreList' \subseteq ignoreList \cup Kept
      BY <1>2, <1>7 DEF Kept, Examined
  <2>2. Kept' = Kept /\ \A S : ClosedAround(S)' <=> ClosedAround(S)
      BY <1>2 DEF Kept, ClosedAround
  <2> QED
      BY <1>3, <2>1, <2>2 DEF WithinShields
<1> QED
    BY <1>4, <1>6, <1>8, <1>9, <1>11, <1>12

\* The task fails: from then on the scan only has to stay consistent.
LEMMA FailInv ==
  ASSUME ScanInv, NEW w \in Worker, NEW d \in Digest,
         FetchError(w, d) \/ FetchNestedError(w, d)
  PROVE  ScanInv'
<1> USE DEF ScanInv
<1>1. PICK here \in {"fetch", "expand"} : At(w, d, here)
    BY DEF FetchError, FetchNestedError
<1>2. /\ task[d] = "running" /\ job[w] = d /\ body[d].at = here
      /\ Visited' = Visited
      /\ repo' = repo /\ pc' = pc /\ pos' = pos /\ pageEnd' = pageEnd
      /\ candidates' = candidates /\ failure' = failure /\ result' = result
    BY <1>1, TaskStepFrame
<1>3. FinishTask(w, FALSE) /\ body' = body /\ ignoreList' = ignoreList
    BY DEF FetchError, FetchNestedError
<1>4. PoolInv' /\ PoolTypeOK'
    BY <1>3, FinishTaskInv DEF PoolInv
<1>5. /\ groupErr' # NoTask /\ submitting' = submitting
      /\ task'[d] = "failed" /\ \A x \in Digest : x # d => task'[x] = task[x]
    BY <1>2, <1>3, PoolAssumption DEF FinishTask, PoolInv, PoolTypeOK
<1>6. ScanTypeOK'
    BY <1>2, <1>3, <1>4 DEF ScanTypeOK
<1>7. LoopInv' /\ CandidatesInv' /\ Answered'
    BY <1>1, <1>3, <1>5, TaskStepLoopInv
<1>8. TasksInv'
    BY <1>2, <1>3, <1>5 DEF TasksInv, Early, Examined
<1>9. Followed'
    BY <1>5 DEF Followed, IgnoredListsAreFollowed, VisitedShieldsAreFollowed
<1>10. WithinShields'
    BY <1>2, <1>3 DEF WithinShields, Kept, ClosedAround
<1> QED
    BY <1>4, <1>6, <1>7, <1>8, <1>9, <1>10

\* The steps of a task that only move digests between the body, which is the
\* task's own, and the ignoreList.
LEMMA BodyStepFrame ==
  ASSUME ScanInv, NEW w \in Worker, NEW d \in Digest, NEW here, At(w, d, here),
         UNCHANGED poolVars, NEW b, b \in Body, body' = [body EXCEPT ![d] = b],
         ignoreList \subseteq ignoreList', ignoreList' \subseteq Digest,
         b.at # "fetch",
         b.at = "expand" => b.leaves = {} /\ b.current \in ignoreList',
         \A c \in b.leaves : ~IsList(repo, c),
         body[d].at = "fetch" => Protected(repo, d) \/ ReferrerIndex(repo, d),
         LabelledLists
  PROVE  /\ PoolInv' /\ ScanTypeOK' /\ LoopInv' /\ TasksInv' /\ CandidatesInv' /\ Answered'
         /\ groupErr' = groupErr /\ task' = task
         /\ body'[d] = b /\ \A x \in Digest : x # d => body'[x] = body[x]
<1> USE DEF ScanInv
<1>1. /\ task[d] = "running" /\ body[d].at = here
      /\ Visited' = Visited
      /\ repo' = repo /\ pc' = pc /\ pos' = pos /\ pageEnd' = pageEnd
      /\ candidates' = candidates /\ failure' = failure /\ result' = result
    BY TaskStepFrame
<1>2. PoolInv' /\ PoolTypeOK'
    BY PoolStutterInv DEF PoolInv
<1>3. groupErr' = groupErr /\ task' = task /\ submitting' = submitting
    BY DEF poolVars
<1>4. body'[d] = b /\ \A x \in Digest : x # d => body'[x] = body[x]
    BY DEF ScanTypeOK
<1>5. ScanTypeOK'
    BY <1>1, <1>2 DEF ScanTypeOK
<1>6. LoopInv' /\ Answered'
    BY <1>1, <1>3 DEF LoopInv, Answered
<1>7. TasksInv'
    BY <1>1, <1>3, <1>4 DEF TasksInv, Early, Examined
<1>8. CandidatesInv'
  <2>1. body[d].at = "fetch" => ~(d \in candidates /\ ~repo.preserveAll /\ KeptItself(repo, d))
      BY KeptHasNoKids DEF ScanTypeOK, CandidatesInv
  <2> QED
      BY <1>1, <1>3, <1>4, <2>1, TaskStepLoopInv
<1> QED
    BY <1>2, <1>3, <1>4, <1>5, <1>6, <1>7, <1>8

\* addDependentManifestsToIgnoreList starts on the children of a shield.
LEMMA TraverseInv ==
  ASSUME LabelledLists, ScanInv, NEW w \in Worker, NEW d \in Digest,
         FetchProtected(w, d) \/ CheckReferrerIndex(w, d)
  PROVE  ScanInv'
<1> USE DEF ScanInv
<1>1. At(w, d, "fetch") /\ Traverse(d)
      /\ (Protected(repo, d) \/ (~Protected(repo, d) /\ ReferrerIndex(repo, d)))
    BY DEF FetchProtected, CheckReferrerIndex
<1> DEFINE b == [at |-> "drain", leaves |-> Leaves(d), lists |-> Lists(d), current |-> NoTask]
<1>2. /\ task[d] = "running" /\ body[d].at = "fetch"
      /\ d \in Listed(repo) /\ Examined(d)
      /\ Visited' = Visited /\ repo' = repo
    BY <1>1, TaskStepFrame
<1>3. Kids(repo, d) \subseteq Digest
    BY KidsFacts DEF ScanTypeOK
<1>4. b \in Body /\ b.at = "drain" /\ b.leaves \cup b.lists = Kids(repo, d)
      /\ \A c \in b.leaves : ~IsList(repo, c)
    BY <1>3 DEF Body, Leaves, Lists
<1>5. body' = [body EXCEPT ![d] = b] /\ ignoreList' = ignoreList /\ UNCHANGED poolVars
    BY <1>1 DEF Traverse
<1> HIDE DEF b
<1>6. /\ PoolInv' /\ ScanTypeOK' /\ LoopInv' /\ TasksInv' /\ CandidatesInv' /\ Answered'
      /\ groupErr' = groupErr /\ task' = task
      /\ body'[d] = b /\ \A x \in Digest : x # d => body'[x] = body[x]
    BY <1>1, <1>4, <1>5, BodyStepFrame DEF ScanTypeOK
<1>7. d \in Shields(repo)
    BY <1>1, <1>2 DEF Shields, Examined
<1>8. \A l \in Digest : Covered(l) => Covered(l)'
  <2>1. \A l \in Digest : Expanding(l) => Expanding(l)'
      BY <1>2, <1>6 DEF Expanding
  <2>2. \A c : Pending(c) => Pending(c)'
      BY <1>2, <1>6 DEF Pending
  <2> QED
      BY <1>2, <1>5, <2>1, <2>2 DEF Covered
<1>9. Covered(d)'
  <2>1. \A c \in Kids(repo, d) : Pending(c)'
      BY <1>2, <1>4, <1>6 DEF Pending
  <2> QED
      BY <1>2, <2>1 DEF Covered
<1>10. Followed'
  <2>1. IgnoredListsAreFollowed'
      BY <1>5, <1>6, <1>8 DEF Followed, IgnoredListsAreFollowed, ScanTypeOK
  <2>2. Shields(repo) \subseteq Digest
      BY ListingFacts DEF ScanTypeOK
  <2>3. VisitedShieldsAreFollowed'
      BY <1>2, <1>6, <1>8, <1>9, <2>2 DEF Followed, VisitedShieldsAreFollowed
  <2> QED
      BY <2>1, <2>3 DEF Followed
<1>11. WithinShields'
  <2>1. Kept' = Kept /\ \A S : ClosedAround(S)' <=> ClosedAround(S)
      BY <1>2 DEF Kept, ClosedAround
  <2>2. \A S : ClosedAround(S) => b.leaves \subseteq S /\ b.lists \subseteq S
      BY <1>4, <1>7 DEF ClosedAround
  <2> QED
      BY <1>4, <1>5, <1>6, <2>1, <2>2 DEF WithinShields
<1> QED
    BY <1>6, <1>10, <1>11

\* A leaf moves from the body to the ignoreList.
LEMMA StoreLeafInv ==
  ASSUME LabelledLists, ScanInv, NEW w \in Worker, NEW d \in Digest,
         NEW c \in Digest, StoreLeaf(w, d, c)
  PROVE  ScanInv'
<1> USE DEF ScanInv
<1> DEFINE b == [body[d] EXCEPT !.leaves = @ \ {c}]
<1>1. At(w, d, "drain") /\ UNCHANGED poolVars /\ ignoreList' = ignoreList \cup {c}
      /\ c \in body[d].leaves
    BY DEF StoreLeaf
<1>2. /\ task[d] = "running" /\ body[d].at = "drain"
      /\ Visited' = Visited /\ repo' = repo
    BY <1>1, TaskStepFrame
<1>3. body[d] \in Body
    BY DEF ScanTypeOK
<1>4. /\ b \in Body /\ b.at = "drain"
      /\ b.leaves = body[d].leaves \ {c} /\ b.lists = body[d].lists
    BY <1>2, <1>3 DEF Body
<1>5. body' = [body EXCEPT ![d] = b]
    BY DEF StoreLeaf, ScanTypeOK
<1>6. \A x \in b.leaves : ~IsList(repo, x)
    BY <1>4 DEF TasksInv
<1> HIDE DEF b
<1>7. /\ PoolInv' /\ ScanTypeOK' /\ LoopInv' /\ TasksInv' /\ CandidatesInv' /\ Answered'
      /\ groupErr' = groupErr /\ task' = task
      /\ body'[d] = b /\ \A x \in Digest : x # d => body'[x] = body[x]
    BY <1>1, <1>2, <1>4, <1>5, <1>6, BodyStepFrame, ZenonT(60) DEF ScanTypeOK
<1>8. \A l \in Digest : Covered(l) => Covered(l)'
  <2>1. \A l \in Digest : Expanding(l) => Expanding(l)'
      BY <1>2, <1>7 DEF Expanding
  <2>2. \A x : Pending(x) => Pending(x)' \/ x = c
      BY <1>2, <1>4, <1>7 DEF Pending
  <2> QED
      BY <1>1, <1>2, <2>1, <2>2 DEF Covered
<1>9. Followed'
  <2>1. Covered(c)'
    <3>1. ~IsList(repo, c)
        BY <1>1 DEF TasksInv
    <3>2. Kids(repo, c) = {}
        BY <3>1, KidsFacts DEF ScanTypeOK
    <3> QED
        BY <1>2, <3>2 DEF Covered
  <2>2. IgnoredListsAreFollowed'
      BY <1>1, <1>7, <1>8, <2>1 DEF Followed, IgnoredListsAreFollowed, ScanTypeOK
  <2>3. Shields(repo) \subseteq Digest
      BY ListingFacts DEF ScanTypeOK
  <2>4. VisitedShieldsAreFollowed'
      BY <1>2, <1>7, <1>8, <2>3 DEF Followed, VisitedShieldsAreFollowed
  <2> QED
      BY <2>2, <2>4 DEF Followed
<1>10. WithinShields'
  <2>1. Kept' = Kept /\ \A S : ClosedAround(S)' <=> ClosedAround(S)
      BY <1>2 DEF Kept, ClosedAround
  <2> QED
      BY <1>1, <1>4, <1>7, <2>1 DEF WithinShields
<1> QED
    BY <1>7, <1>9, <1>10

\* A nested list is dequeued; unless it was loaded it is about to be fetched.
LEMMA TakeListInv ==
  ASSUME LabelledLists, ScanInv, NEW w \in Worker, NEW d \in Digest,
         NEW c \in Digest, TakeList(w, d, c)
  PROVE  ScanInv'
<1> USE DEF ScanInv
<1> DEFINE b == [at |-> IF c \in ignoreList THEN "drain" ELSE "expand",
                 leaves |-> body[d].leaves, lists |-> body[d].lists \ {c},
                 current |-> IF c \in ignoreList THEN NoTask ELSE c]
<1>1. At(w, d, "drain") /\ UNCHANGED poolVars /\ ignoreList' = ignoreList \cup {c}
      /\ body[d].leaves = {} /\ c \in body[d].lists
    BY DEF TakeList
<1>2. /\ task[d] = "running" /\ body[d].at = "drain"
      /\ Visited' = Visited /\ repo' = repo
    BY <1>1, TaskStepFrame
<1>3. body[d] \in Body
    BY DEF ScanTypeOK
<1>4. b \in Body
    BY <1>3 DEF Body
<1>5. body' = [body EXCEPT ![d] = b]
  <2>1. body'[d] = b
      BY <1>3 DEF TakeList, ScanTypeOK, Body
  <2> QED
      BY <2>1 DEF TakeList, ScanTypeOK
<1>6. /\ b.at \in {"drain", "expand"} /\ b.leaves = {} /\ b.lists = body[d].lists \ {c}
      /\ b.at = "expand" => b.current = c
      /\ c \notin ignoreList => b.at = "expand"
    BY <1>1
<1> HIDE DEF b
<1>7. /\ PoolInv' /\ ScanTypeOK' /\ LoopInv' /\ TasksInv' /\ CandidatesInv' /\ Answered'
      /\ groupErr' = groupErr /\ task' = task
      /\ body'[d] = b /\ \A x \in Digest : x # d => body'[x] = body[x]
    BY <1>1, <1>2, <1>4, <1>5, <1>6, BodyStepFrame, ZenonT(60) DEF ScanTypeOK
<1>8. \A l \in Digest : Covered(l) => Covered(l)'
  <2>1. \A l \in Digest : Expanding(l) => Expanding(l)'
      BY <1>2, <1>7 DEF Expanding
  <2>2. \A x : Pending(x) => Pending(x)' \/ x = c
      BY <1>1, <1>2, <1>6, <1>7 DEF Pending
  <2> QED
      BY <1>1, <1>2, <2>1, <2>2 DEF Covered
<1>9. Followed'
  <2>1. c \notin ignoreList => Covered(c)'
      BY <1>2, <1>6, <1>7 DEF Covered, Expanding
  <2>2. IgnoredListsAreFollowed'
      BY <1>1, <1>7, <1>8, <2>1 DEF Followed, IgnoredListsAreFollowed, ScanTypeOK
  <2>3. Shields(repo) \subseteq Digest
      BY ListingFacts DEF ScanTypeOK
  <2>4. VisitedShieldsAreFollowed'
      BY <1>2, <1>7, <1>8, <2>3 DEF Followed, VisitedShieldsAreFollowed
  <2> QED
      BY <2>2, <2>4 DEF Followed
<1>10. WithinShields'
  <2>1. Kept' = Kept /\ \A S : ClosedAround(S)' <=> ClosedAround(S)
      BY <1>2 DEF Kept, ClosedAround
  <2>2. \A S \in SUBSET Digest : ClosedAround(S) => c \in S
      BY <1>1 DEF WithinShields
  <2> QED
      BY <1>1, <1>6, <1>7, <2>1, <2>2 DEF WithinShields
<1> QED
    BY <1>7, <1>9, <1>10

\* The children of a nested list are found.
LEMMA FetchNestedInv ==
  ASSUME LabelledLists, ScanInv, NEW w \in Worker, NEW d \in Digest, FetchNested(w, d)
  PROVE  ScanInv'
<1> USE DEF ScanInv
<1> DEFINE c == body[d].current
           b == [at |-> "drain", leaves |-> Leaves(c),
                 lists |-> body[d].lists \cup Lists(c), current |-> NoTask]
<1>1. At(w, d, "expand") /\ UNCHANGED poolVars /\ ignoreList' = ignoreList
    BY DEF FetchNested
<1>2. /\ task[d] = "running" /\ body[d].at = "expand"
      /\ Visited' = Visited /\ repo' = repo
    BY <1>1, TaskStepFrame
<1>3. body[d] \in Body /\ c \in ignoreList /\ c \in Digest /\ body[d].leaves = {}
    BY <1>2 DEF ScanTypeOK, TasksInv
<1>4. Kids(repo, c) \subseteq Digest
    BY <1>3, KidsFacts DEF ScanTypeOK
<1>5. b \in Body
    BY <1>3, <1>4 DEF Body, Leaves, Lists
<1>6. body' = [body EXCEPT ![d] = b]
    BY DEF FetchNested, ScanTypeOK
<1>7. /\ b.at = "drain" /\ b.leaves \cup b.lists = body[d].lists \cup Kids(repo, c)
      /\ \A x \in b.leaves : ~IsList(repo, x)
    BY DEF Leaves, Lists
<1> HIDE DEF b
<1>8. /\ PoolInv' /\ ScanTypeOK' /\ LoopInv' /\ TasksInv' /\ CandidatesInv' /\ Answered'
      /\ groupErr' = groupErr /\ task' = task
      /\ body'[d] = b /\ \A x \in Digest : x # d => body'[x] = body[x]
    BY <1>1, <1>2, <1>5, <1>6, <1>7, BodyStepFrame, ZenonT(60) DEF ScanTypeOK
<1>9. \A x : Pending(x) => Pending(x)'
    BY <1>2, <1>3, <1>7, <1>8 DEF Pending
<1>10. \A x \in Kids(repo, c) : Pending(x)'
    BY <1>2, <1>7, <1>8 DEF Pending
<1>11. ASSUME NEW l \in Digest, Covered(l)
       PROVE  Covered(l)'
  <2>1. CASE l = c
      BY <1>2, <1>10, <2>1 DEF Covered
  <2>2. CASE l # c
    <3>1. Expanding(l) => Expanding(l)'
        BY <1>2, <1>8, <2>2 DEF Expanding
    <3> QED
        BY <1>1, <1>2, <1>9, <1>11, <3>1 DEF Covered
  <2> QED
      BY <2>1, <2>2
<1>12. Followed'
  <2>1. IgnoredListsAreFollowed'
      BY <1>1, <1>8, <1>11 DEF Followed, IgnoredListsAreFollowed, ScanTypeOK
  <2>2. Shields(repo) \subseteq Digest
      BY ListingFacts DEF ScanTypeOK
  <2>3. VisitedShieldsAreFollowed'
      BY <1>2, <1>8, <1>11, <2>2 DEF Followed, VisitedShieldsAreFollowed
  <2> QED
      BY <2>1, <2>3 DEF Followed
<1>13. WithinShields'
  <2>1. Kept' = Kept /\ \A S : ClosedAround(S)' <=> ClosedAround(S)
      BY <1>2 DEF Kept, ClosedAround
  <2>2. ASSUME NEW S \in SUBSET Digest, ClosedAround(S)
        PROVE  Kids(repo, c) \subseteq S
    <3>1. c \in S
        BY <1>2, <2>2 DEF WithinShields
    <3> QED
        BY <2>2, <3>1 DEF ClosedAround, ClosedUnderKids
  <2> QED
      BY <1>1, <1>7, <1>8, <2>1, <2>2 DEF WithinShields
<1> QED
    BY <1>8, <1>12, <1>13

-----------------------------------------------------------------------------
(***************************************************************************)
(* The theorems.                                                           *)
(***************************************************************************)

\* The invariant is inductive.
LEMMA ScanNextInv ==
  ASSUME LabelledLists, ScanInv, [ScanNext]_vars
  PROVE  ScanInv'
<1>1. CASE UNCHANGED vars
  <2>1. UNCHANGED poolVars /\ UNCHANGED scanVars
      BY <1>1 DEF vars
  <2>2. PoolInv' /\ PoolTypeOK'
      BY <2>1, PoolStutterInv DEF ScanInv, PoolInv
  <2>3. /\ repo' = repo /\ pc' = pc /\ pos' = pos /\ pageEnd' = pageEnd
        /\ ignoreList' = ignoreList /\ candidates' = candidates /\ body' = body
        /\ failure' = failure /\ result' = result
        /\ task' = task /\ groupErr' = groupErr /\ submitting' = submitting
      BY <2>1 DEF scanVars, poolVars
  <2>4. (ScanTypeOK /\ LoopInv /\ TasksInv /\ CandidatesInv)'
      BY <2>2, <2>3 DEF ScanInv, ScanTypeOK, LoopInv, TasksInv, CandidatesInv, Visited,
           Early, AtFetch, Examined
  <2>5. (Followed /\ WithinShields /\ Answered)'
      BY <2>3 DEF ScanInv, Followed, IgnoredListsAreFollowed, VisitedShieldsAreFollowed,
           Visited, Covered, Expanding, Pending, WithinShields, ClosedAround, Kept, Answered
  <2> QED
      BY <2>2, <2>4, <2>5 DEF ScanInv
<1>2. CASE ScanLoop
    BY <1>2, ListingInv, ReturnInv, VisitWithoutTaskInv, VisitWithTaskInv DEF ScanLoop
<1>3. CASE PoolStep /\ UNCHANGED scanVars
    BY <1>3, PoolStepScanInv
<1>4. ASSUME NEW w \in Worker, TaskStep(w)
      PROVE  ScanInv'
    BY <1>4, FinishInv, FailInv, TraverseInv, StoreLeafInv, TakeListInv, FetchNestedInv
       DEF TaskStep
<1> QED
    BY <1>1, <1>2, <1>3, <1>4 DEF ScanNext

\* All of it holds in every reachable state of the scan.
THEOREM ScanCorrect ==
  ASSUME LabelledLists
  PROVE  ScanSpec => []ScanInv
<1>1. ScanInit => ScanInv
    BY ScanInitInv
<1>2. ScanInv /\ [ScanNext]_vars => ScanInv'
    BY ScanNextInv
<1> QED
    BY <1>1, <1>2, PTL DEF ScanSpec

\* Lists are followed by their children, whichever task stores them first.
THEOREM ScanFollowsLists ==
  ASSUME LabelledLists
  PROVE  ScanSpec => []IgnoredListsAreFollowed
<1>1. ScanInv => IgnoredListsAreFollowed
    BY DEF ScanInv, Followed
<1> QED
    BY <1>1, ScanCorrect, PTL

\* A shield the loop has passed is still with its own task, or another task
\* has met it and its children are covered.
THEOREM ScanFollowsShields ==
  ASSUME LabelledLists
  PROVE  ScanSpec => []VisitedShieldsAreFollowed
<1>1. ScanInv => VisitedShieldsAreFollowed
    BY DEF ScanInv, Followed
<1> QED
    BY <1>1, ScanCorrect, PTL

\* Only what a shield refers to, or what is kept for its own sake, is spared.
THEOREM ScanSparesNothingElse ==
  ASSUME LabelledLists
  PROVE  ScanSpec => []OnlyShieldedIsIgnored
<1>1. ASSUME ScanInv PROVE OnlyShieldedIsIgnored
  <2> SUFFICES ASSUME NEW d \in ignoreList, d \notin Kept,
                      NEW S \in SUBSET Digest,
                      UNION {Kids(repo, x) : x \in Shields(repo)} \subseteq S,
                      ClosedUnderKids(repo, S)
               PROVE  d \in S
      BY <1>1 DEF ScanInv, ScanTypeOK, OnlyShieldedIsIgnored, Shielded, Kept
  <2>1. ClosedAround(S)
      BY DEF ClosedAround
  <2> QED
      BY <1>1, <2>1 DEF ScanInv, WithinShields
<1> QED
    BY <1>1, ScanCorrect, PTL

\* The abstract machine selects from the same definitions.
LEMMA SameSelection ==
  ASSUME NEW r
  PROVE  Selection!Selected(r) = Selected(r)
<1>1. Selection!Eligible(r) = Eligible(r)
    BY DEF Selection!Eligible, Selection!Listed, Selection!LockedOut, Selection!Protected,
       Selection!ProtectedByTags, Selection!ProtectedByAge, Selection!KeptItself,
       Selection!OCIKind, Eligible, Listed, LockedOut, Protected, ProtectedByTags,
       ProtectedByAge, KeptItself, OCIKind
<1>2. Selection!Shields(r) = Shields(r)
    BY DEF Selection!Shields, Selection!Listed, Selection!LockedOut, Selection!Protected,
       Selection!ProtectedByTags, Selection!ProtectedByAge, Selection!MaybeList,
       Selection!IsList, Selection!ListKind, Selection!ReferrerIndex, Shields, Listed,
       LockedOut, Protected, ProtectedByTags, ProtectedByAge, MaybeList, IsList, ListKind,
       ReferrerIndex
<1>3. \A d : Selection!Kids(r, d) = Kids(r, d)
    BY DEF Selection!Kids, Kids
<1>4. \A S : Selection!ClosedUnderKids(r, S) <=> ClosedUnderKids(r, S)
    BY <1>3 DEF Selection!ClosedUnderKids, ClosedUnderKids
<1>5. Selection!Shielded(r) = Shielded(r)
    BY <1>2, <1>3, <1>4 DEF Selection!Shielded, Shielded
<1> QED
    BY <1>1, <1>5 DEF Selection!Selected, Selected

\* The concurrent scan implements the one-step selection: whatever the
\* repository, the pool and the interleaving, it returns exactly the selection
\* of RepositoryManifests or fails and returns nothing.
THEOREM ScanImplementsSelection ==
  ASSUME LabelledLists
  PROVE  ScanSpec => SelectionRefined
<1> USE DEF Selection!selectionVars, Selection!Answer, Selection!Fail
<1>1. ScanInit => Selection!SelectionInit
    BY DEF ScanInit, Selection!SelectionInit
<1>2. ASSUME ScanInv, ScanInv', [ScanNext]_vars
      PROVE  [Selection!Answer \/ Selection!Fail]_(Selection!selectionVars)
  <2>1. CASE UNCHANGED scanVars
      BY <2>1 DEF scanVars
  <2>2. CASE pc' = "returned" /\ pc # "returned" /\ repo' = repo
    <3>1. failure = "none" /\ result = {}
        BY <1>2, <2>2 DEF ScanInv, LoopInv
    <3>2. result' = IF failure' = "none" THEN Selected(repo) ELSE {}
        BY <1>2, <2>2 DEF ScanInv, Answered
    <3>3. CASE failure' = "none"
      <4>1. (failure # "none")' = (failure # "none")
        <5>1. failure' = failure
            BY <3>1, <3>3
        <5> QED
            BY <5>1
      <4>2. result' = Selection!Selected(repo)
          BY <3>2, <3>3, SameSelection
      <4>3. Selection!Answer
          BY <2>2, <4>1, <4>2
      <4> QED
          BY <4>3
    <3>4. CASE failure' # "none"
      <4>1. (failure # "none")' = TRUE
          BY <3>4
      <4>2. Selection!Fail
          BY <2>2, <3>1, <3>2, <3>4, <4>1
      <4> QED
          BY <4>2
    <3> QED
        BY <3>3, <3>4
  <2>3. CASE /\ repo' = repo /\ failure' = failure /\ result' = result
             /\ pc' = "returned" <=> pc = "returned"
      BY <2>3
  <2>4. ScanLoop => \/ pc' = "returned" /\ pc # "returned" /\ repo' = repo
                    \/ /\ repo' = repo /\ failure' = failure /\ result' = result
                       /\ pc' = "returned" <=> pc = "returned"
    <3>1. ListPage \/ ListEnd =>
              /\ repo' = repo /\ failure' = failure /\ result' = result
              /\ pc' = "returned" <=> pc = "returned"
        BY DEF ListPage, ListEnd, AtPageEnd
    <3>2. RepositoryNotFound \/ ListError \/ WaitReturns =>
              pc' = "returned" /\ pc # "returned" /\ repo' = repo
        BY DEF RepositoryNotFound, ListError, WaitReturns, Return, AtPageEnd
    <3>3. ASSUME NEW d \in Digest, \/ VisitSkip(d) \/ VisitProtectedList(d)
                                   \/ VisitPreserveAll(d) \/ VisitUntagged(d)
          PROVE  /\ repo' = repo /\ failure' = failure /\ result' = result
                 /\ pc' = "returned" <=> pc = "returned"
        BY <3>3 DEF VisitSkip, VisitProtectedList, VisitPreserveAll, VisitUntagged, Visit
    <3> QED
        BY <3>1, <3>2, <3>3 DEF ScanLoop
  <2>5. ASSUME NEW w \in Worker, TaskStep(w)
        PROVE  /\ repo' = repo /\ failure' = failure /\ result' = result
               /\ pc' = "returned" <=> pc = "returned"
      BY <2>5, ZenonT(60) DEF TaskStep, FetchProtected, CheckDeletable, CheckKept, CheckReferrerIndex,
           FetchError, StoreLeaf, TakeList, FetchNested, FetchNestedError, TraversalEnds, At
  <2> QED
      BY <1>2, <2>1, <2>2, <2>3, <2>4, <2>5 DEF ScanNext, vars
<1> QED
    BY <1>1, <1>2, ScanCorrect, PTL DEF ScanSpec, SelectionRefined, Selection!SelectionSpec
=============================================================================
