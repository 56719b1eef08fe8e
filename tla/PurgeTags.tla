------------------------------ MODULE PurgeTags ------------------------------
(***************************************************************************)
(* purgeTags and getTagsToDelete (cmd/acr/purge.go): the tags of one       *)
(* repository are listed page by page, newest first; of those that match,  *)
(* are old enough and not locked the first keep are kept and the others    *)
(* are deleted, a page at a time, by Purger.PurgeTags.  The batch behaves  *)
(* as PurgeBatch says, which Purger implements.                            *)
(*                                                                         *)
(* skippedTagsCount is Cardinality(kept), and manifestToTagsCountMap[m]    *)
(* counts the chosen tags of m.  A position of repo.order stands for the   *)
(* tag that is there; GetAcrTags, asked for what follows a tag, answers    *)
(* from that tag's position on, also when the tag is gone.  A tag another  *)
(* client pushes again moves to the front of the listing and is not met    *)
(* on a later page.                                                        *)
(***************************************************************************)
EXTENDS Integers, Sequences, FiniteSetsExt

CONSTANTS
    Tag,
    Repos,         \* the calls of purgeTags to consider
    PageSize       \* tags per page of GetAcrTags

\* A call: the repository, the flags, and what may happen meanwhile.
Repository ==
    [ order         : Seq(Tag),   \* GetAcrTags, all pages, in the order timedesc
      matching      : SUBSET Tag, \* the filter matches
      old           : SUBSET Tag, \* LastUpdateTime is before timeToCompare
      locked        : SUBSET Tag, \* DeleteEnabled or WriteEnabled is false
      keep          : Int,        \* --keep
      dryRun        : BOOLEAN,    \* --dry-run
      includeLocked : BOOLEAN,    \* --include-locked
      faults        : BOOLEAN,    \* requests may fail, the filter may time out
      interference  : BOOLEAN ]   \* other clients are active

ASSUME PurgeTagsAssumption ==
    /\ PageSize \in Nat \ {0}
    /\ Repos \subseteq Repository
    /\ \A r \in Repos : \A i, j \in 1..Len(r.order) : r.order[i] = r.order[j] => i = j

VARIABLES
    repo,    \* the call, with the repository as it is at the start
    present, \* the tags it holds
    locked,  \* the tags among them that it will not delete
    fresh,   \* the tags another client has pushed since the start
    pc,      \* "list", "purge", "returned"
    cursor,  \* the position of lastTag, 0 at first
    more,    \* lastTag is not empty
    kept,    \* the tags getTagsToDelete skipped
    chosen,  \* the tags it returned for deletion
    batch,   \* the tags Purger.PurgeTags has not settled yet
    unlock,  \* those of them it will unlock first
    hit,     \* how many tags of the batch it counts
    erred,   \* a tag of the batch failed
    count,   \* deletedTagsCount
    failed   \* the call returned an error

registryVars == <<repo, present, locked, fresh>>
batchVars == <<batch, unlock, hit, erred>>
vars == <<registryVars, pc, cursor, more, kept, chosen, batchVars, count, failed>>

PurgeTagsInit ==
    /\ repo \in Repos
    /\ present = {repo.order[i] : i \in 1..Len(repo.order)}
    /\ locked = repo.locked \cap present /\ fresh = {}
    /\ pc = "list" /\ cursor = 0 /\ more = TRUE
    /\ kept = {} /\ chosen = {}
    /\ batch = {} /\ unlock = {} /\ hit = 0 /\ erred = FALSE
    /\ count = 0 /\ failed = FALSE

-----------------------------------------------------------------------------
\* Mutant: lastTag is not passed on to the next request.
BehindNothing == {i \in 1 .. Len(repo.order) : repo.order[i] \in present \ fresh}

\* The positions of the tags the registry lists behind lastTag.
Behind == {i \in cursor + 1 .. Len(repo.order) : repo.order[i] \in present \ fresh}

\* Those among S with fewer than n others of S before them.
Foremost(S, n) == {i \in S : Cardinality({j \in S : j <= i}) <= n}

Page == Foremost(Behind, PageSize)

Eligible(t) ==
    /\ t \in repo.matching /\ t \in repo.old
    /\ repo.includeLocked \/ t \notin locked

\* getTagsToDelete: what the page holds for deletion, the first of them kept
\* as long as skippedTagsCount is below keep.
EligibleOnPage == {i \in Page : Eligible(repo.order[i])}

\* Mutant: skippedTagsCount is not passed on to the next page.
SkippedPerPage == Foremost(EligibleOnPage, repo.keep)

SkippedOnPage == Foremost(EligibleOnPage, repo.keep - Cardinality(kept))

TagsAt(S) == {repo.order[i] : i \in S}

\* An iteration of purgeTags up to the purger's call, or, in a dry run or
\* with nothing to delete, to its end.
ListPage ==
    LET tagsToDelete == TagsAt(EligibleOnPage \ SkippedOnPage)
    IN  /\ pc = "list" /\ Page # {}
        /\ cursor' = Max(Page)
        /\ more' = (Page # Behind)
        /\ kept' = kept \cup TagsAt(SkippedOnPage)
        /\ chosen' = chosen \cup tagsToDelete
        /\ IF tagsToDelete = {} \/ repo.dryRun
           THEN /\ count' = count + Cardinality(tagsToDelete)
                /\ pc' = IF more' THEN "list" ELSE "returned"
                /\ UNCHANGED batchVars
           ELSE /\ batch' = tagsToDelete
                /\ unlock' = tagsToDelete \cap locked
                /\ hit' = 0 /\ erred' = FALSE
                /\ pc' = "purge"
                /\ UNCHANGED count
        /\ UNCHANGED <<registryVars, failed>>

\* An empty page, or 404: the repository is not found.
ListNothing ==
    /\ pc = "list" /\ Page = {}
    /\ pc' = "returned" /\ more' = FALSE
    /\ UNCHANGED <<registryVars, cursor, kept, chosen, batchVars, count, failed>>

\* The request fails, the filter times out or a time cannot be read.
ListFails ==
    /\ pc = "list" /\ repo.faults
    /\ pc' = "returned" /\ failed' = TRUE
    /\ UNCHANGED <<registryVars, cursor, more, kept, chosen, batchVars, count>>

-----------------------------------------------------------------------------
(***************************************************************************)
(* Purger.PurgeTags: the tags of the batch are settled in any order.       *)
(***************************************************************************)

Settle(t) ==
    /\ pc = "purge" /\ t \in batch
    /\ batch' = batch \ {t}
    /\ UNCHANGED <<repo, fresh, pc, cursor, more, kept, chosen, unlock, count, failed>>

\* t is deleted, or was gone already.
TagGone(t) ==
    /\ Settle(t)
    /\ t \in locked => t \in unlock
    /\ present' = present \ {t} /\ locked' = locked \ {t}
    /\ hit' = hit + 1
    /\ UNCHANGED erred

\* Mutant: 405 is taken for 404.
TagRefusedCounts(t) ==
    /\ Settle(t)
    /\ t \in locked /\ (t \in unlock => repo.faults \/ repo.interference)
    /\ hit' = hit + 1
    /\ UNCHANGED <<present, locked, erred>>

\* t is locked: the registry answers 405.  If the purge was to unlock it, that
\* failed, or another client has locked it since.
TagRefused(t) ==
    /\ Settle(t)
    /\ t \in locked /\ (t \in unlock => repo.faults \/ repo.interference)
    /\ UNCHANGED <<present, locked, hit, erred>>

\* The request for t fails, and t may be deleted all the same.
TagFails(t) ==
    /\ Settle(t) /\ repo.faults
    /\ \/ UNCHANGED <<present, locked>>
       \/ /\ t \in locked => t \in unlock
          /\ present' = present \ {t} /\ locked' = locked \ {t}
    /\ erred' = TRUE
    /\ UNCHANGED hit

\* The task of t is cancelled by an error.
TagCancelled(t) ==
    /\ Settle(t) /\ erred
    /\ UNCHANGED <<present, locked, hit, erred>>

BatchReturns ==
    /\ pc = "purge" /\ batch = {}
    /\ IF erred THEN failed' = TRUE /\ UNCHANGED count
       ELSE count' = count + hit /\ UNCHANGED failed
    /\ pc' = IF erred \/ ~more THEN "returned" ELSE "list"
    /\ UNCHANGED <<registryVars, cursor, more, kept, chosen, batchVars>>

-----------------------------------------------------------------------------
(***************************************************************************)
(* The registry's other clients delete, lock, unlock and push tags.        *)
(***************************************************************************)
OtherClient(t) ==
    /\ repo.interference /\ pc # "returned" /\ t \in present
    /\ \/ present' = present \ {t} /\ locked' = locked \ {t} /\ UNCHANGED fresh
       \/ locked' \in {locked \cup {t}, locked \ {t}} /\ UNCHANGED <<present, fresh>>
       \/ t \notin locked /\ fresh' = fresh \cup {t} /\ UNCHANGED <<present, locked>>
    /\ UNCHANGED <<repo, pc, cursor, more, kept, chosen, batchVars, count, failed>>

Answered ==
    \/ ListPage \/ ListNothing
    \/ \E t \in Tag : TagGone(t) \/ TagRefused(t) \/ TagCancelled(t)
    \/ BatchReturns

Failed == ListFails \/ \E t \in Tag : TagFails(t)

\* Requests that do not fail are answered, and the purger's tasks all run.
PurgeTagsSpec ==
    /\ PurgeTagsInit
    /\ [][Answered \/ Failed \/ \E t \in Tag : OtherClient(t)]_vars
    /\ WF_vars(Answered)

-----------------------------------------------------------------------------
(***************************************************************************)
(* Properties.                                                             *)
(***************************************************************************)
Newer(t, u) ==
    \E i, j \in 1..Len(repo.order) : i < j /\ repo.order[i] = t /\ repo.order[j] = u

\* What should be deleted: the eligible tags but the keep newest.
Purgeable ==
    {t \in TagsAt(1..Len(repo.order)) :
        /\ t \in repo.matching \cap repo.old
        /\ repo.includeLocked \/ t \notin repo.locked
        /\ Cardinality({u \in repo.matching \cap repo.old :
                           Newer(u, t) /\ (repo.includeLocked \/ u \notin repo.locked)}) >= repo.keep}

\* Whatever the pages and other clients: a tag is chosen only behind keep
\* newer tags that were skipped, and those are not chosen on a later page.
NewestAreKept ==
    /\ kept \cap chosen = {}
    /\ \A t \in chosen :
        repo.keep > 0 => Cardinality({u \in kept : Newer(u, t)}) = repo.keep

=============================================================================
