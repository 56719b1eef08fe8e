------------------------------- MODULE Purger -------------------------------
(***************************************************************************)
(* worker.Purger: PurgeTags and PurgeManifests delete a batch of tags or   *)
(* manifests, one task of the pool per item.  The two differ in the        *)
(* requests they send and in nothing this model tells apart.               *)
(*                                                                         *)
(* The registry's side is what the code relies on: a request to unlock     *)
(* enables deletion and writing, a DELETE removes the item, is answered    *)
(* 404 when it is absent and 405 when it is locked.  Between the listing   *)
(* and the batch, and during the batch, other clients may delete, lock and *)
(* unlock the same items.                                                  *)
(***************************************************************************)
EXTENDS TaskPool, FiniteSets

CONSTANTS
    IncludeLocked, \* --include-locked
    Faults,        \* the items for which requests may fail, having taken effect or not
    Interference   \* the items that other clients delete, lock and unlock

ASSUME PurgerAssumption ==
    /\ IsFiniteSet(Task)
    /\ IncludeLocked \in BOOLEAN /\ Interference \subseteq Task /\ Faults \subseteq Task

VARIABLES
    present,    \* the items the registry holds
    locked,     \* those of them it will not delete
    seenLocked, \* the items whose ChangeableAttributes, as listed, are locked
    stage,      \* how far the task of each item is: its last answer
    unlocked,   \* the items the purger unlocked
    count,      \* deletedTags or deletedManifests, an atomic counter
    pc          \* the caller: "submit", "wait", "returned"

registryVars == <<present, locked>>
purgerVars == <<present, locked, seenLocked, stage, unlocked, count, pc>>
vars == <<poolVars, purgerVars>>

Answer == {"ok", "notFound", "notAllowed", "error"}

PurgerTypeOK ==
    /\ PoolTypeOK
    /\ present \in SUBSET Task /\ locked \in SUBSET present
    /\ seenLocked \in SUBSET Task /\ unlocked \in SUBSET Task
    /\ stage \in [Task -> {"start", "unlockTried"} \cup Answer]
    /\ count \in Nat
    /\ pc \in {"submit", "wait", "returned"}

PurgerInit ==
    /\ PoolInit
    /\ seenLocked \in SUBSET Task /\ (~IncludeLocked => seenLocked = {})
    /\ present \in SUBSET Task /\ locked \in SUBSET present
    /\ Task \ Interference \subseteq present
    /\ locked \ Interference = seenLocked \ Interference
    /\ stage = [i \in Task |-> "start"]
    /\ unlocked = {} /\ count = 0 /\ pc = "submit"

-----------------------------------------------------------------------------
(***************************************************************************)
(* The caller: one SubmitErr per item, then Wait.                          *)
(***************************************************************************)
SubmitItem(i) ==
    /\ pc = "submit"
    /\ Submit(i)
    /\ UNCHANGED purgerVars

SubmittedAll ==
    /\ pc = "submit" /\ submitting = NoTask
    /\ \A i \in Task : task[i] # "new"
    /\ pc' = "wait"
    /\ UNCHANGED <<poolVars, present, locked, seenLocked, stage, unlocked, count>>

\* group.Wait; then the counter is read.  The call's error is groupErr's.
WaitReturns ==
    /\ pc = "wait" /\ GroupDone
    /\ pc' = "returned"
    /\ UNCHANGED <<poolVars, present, locked, seenLocked, stage, unlocked, count>>

-----------------------------------------------------------------------------
(***************************************************************************)
(* A task.                                                                 *)
(***************************************************************************)
At(w, i, here) ==
    /\ Busy(w) /\ job[w] = i
    /\ task[i] = "running"
    /\ stage[i] = here
    /\ UNCHANGED <<seenLocked, pc>>

\* Mutant: items are unlocked when locks are to be respected.
NeedsUnlockInverted(i) == ~IncludeLocked /\ i \in seenLocked

\* The listed ChangeableAttributes decide, not the present ones.
NeedsUnlock(i) == IncludeLocked /\ i \in seenLocked

\* UpdateAcrTagAttributes or UpdateAcrManifestAttributes succeeds.
Unlock(w, i) ==
    /\ At(w, i, "start") /\ NeedsUnlock(i)
    /\ i \in present
    /\ locked' = locked \ {i}
    /\ unlocked' = unlocked \cup {i}
    /\ stage' = [stage EXCEPT ![i] = "unlockTried"]
    /\ UNCHANGED <<poolVars, present, count>>

\* It fails, which is only warned about; its effect may be there or not.
UnlockFails(w, i) ==
    /\ At(w, i, "start") /\ NeedsUnlock(i)
    /\ i \notin present \/ i \in Faults
    /\ \/ UNCHANGED <<locked, unlocked>>
       \/ i \in present /\ locked' = locked \ {i} /\ unlocked' = unlocked \cup {i}
    /\ stage' = [stage EXCEPT ![i] = "unlockTried"]
    /\ UNCHANGED <<poolVars, present, count>>

\* The DELETE follows the attempt to unlock, or comes first without one.
AtDelete(w, i) ==
    \/ At(w, i, "unlockTried")
    \/ At(w, i, "start") /\ ~NeedsUnlock(i)

\* DeleteAcrTag or DeleteManifest, as the registry executes it.
Delete(w, i) ==
    /\ AtDelete(w, i)
    /\ present' = IF i \in locked THEN present ELSE present \ {i}
    /\ stage' = [stage EXCEPT ![i] =
                    IF i \notin present THEN "notFound"
                    ELSE IF i \in locked THEN "notAllowed" ELSE "ok"]
    /\ UNCHANGED <<poolVars, locked, unlocked, count>>

\* It fails in another way, having deleted the item or not.
DeleteFails(w, i) ==
    /\ AtDelete(w, i) /\ i \in Faults
    /\ present' \in {present, IF i \in locked THEN present ELSE present \ {i}}
    /\ stage' = [stage EXCEPT ![i] = "error"]
    /\ UNCHANGED <<poolVars, locked, unlocked, count>>

\* Mutant: an item that was gone already is not counted.
HandleGone(w, i) ==
    /\ \E a \in Answer : At(w, i, a)
    /\ count' = IF stage[i] = "ok" THEN count + 1 ELSE count
    /\ FinishTask(w, stage[i] # "error")
    /\ UNCHANGED <<registryVars, stage, unlocked>>

\* Mutant: an item the registry refuses to delete is counted.
HandleRefused(w, i) ==
    /\ \E a \in Answer : At(w, i, a)
    /\ count' = IF stage[i] # "error" THEN count + 1 ELSE count
    /\ FinishTask(w, stage[i] # "error")
    /\ UNCHANGED <<registryVars, stage, unlocked>>

\* Mutant: the task returns nil for every answer.
HandleNoError(w, i) ==
    /\ \E a \in Answer : At(w, i, a)
    /\ count' = IF stage[i] \in {"ok", "notFound"} THEN count + 1 ELSE count
    /\ FinishTask(w, TRUE)
    /\ UNCHANGED <<registryVars, stage, unlocked>>

\* The task reads the answer: 404 counts as deleted, 405 is skipped, and any
\* other error is the task's.
HandleAnswer(w, i) ==
    /\ \E a \in Answer : At(w, i, a)
    /\ count' = IF stage[i] \in {"ok", "notFound"} THEN count + 1 ELSE count
    /\ FinishTask(w, stage[i] # "error")
    /\ UNCHANGED <<registryVars, stage, unlocked>>

TaskStep(w) ==
    \E i \in Task : \/ Unlock(w, i)
                    \/ UnlockFails(w, i)
                    \/ Delete(w, i)
                    \/ DeleteFails(w, i)
                    \/ HandleAnswer(w, i)

-----------------------------------------------------------------------------
(***************************************************************************)
(* The registry's other clients.                                           *)
(***************************************************************************)
OtherClient(i) ==
    /\ i \in Interference /\ i \in present
    /\ \/ i \notin locked /\ present' = present \ {i} /\ UNCHANGED locked
       \/ locked' \in {locked \cup {i}, locked \ {i}} /\ UNCHANGED present
    /\ UNCHANGED <<poolVars, seenLocked, stage, unlocked, count, pc>>

CallerStep == SubmittedAll \/ WaitReturns \/ \E i \in Task : SubmitItem(i)

PurgerNext ==
    \/ CallerStep
    \/ PoolStep /\ UNCHANGED purgerVars
    \/ \E w \in Worker : TaskStep(w)
    \/ \E i \in Task : OtherClient(i)

\* The Go scheduler runs every runnable goroutine, and every request to the
\* registry is answered.
PurgerSpec ==
    /\ PurgerInit
    /\ [][PurgerNext]_vars
    /\ WF_vars(CallerStep)
    /\ PoolFairness
    /\ \A w \in Worker : WF_vars(TaskStep(w))

-----------------------------------------------------------------------------
(***************************************************************************)
(* Properties.                                                             *)
(***************************************************************************)
Counted == {i \in Task : task[i] = "ok" /\ stage[i] \in {"ok", "notFound"}}

\* The counter the goroutines share counts each deleted item once.
CountIsExact == count = Cardinality(Counted)

\* The count never claims more than is gone from the registry.
CountIsHonest == count <= Cardinality(Task \ present)

\* A batch that reports success leaves no item behind that it unlocked,
\* unless another client locked the item again before the DELETE.
NothingLeftUnlocked ==
    pc = "returned" /\ groupErr = NoTask =>
        \A i \in unlocked : i \notin present \/ stage[i] = "notAllowed"

\* A batch deletes every item that other clients leave alone and for which no
\* request fails, a locked one too with --include-locked, whatever happens to
\* the others, unless it was given up after an error; then the call reports
\* that error.
UndisturbedIsComplete ==
    pc = "returned" =>
        \A i \in Task \ (Faults \cup Interference) :
            \/ i \notin present
            \/ i \in locked /\ ~IncludeLocked
            \/ task[i] = "skipped" /\ groupErr \in Faults

\* Once the call has returned, an error included, the purger changes nothing
\* in the registry any more: tasks that still ran were waited for.
NoRequestAfterReturn ==
    [][pc = "returned" => ~\E w \in Worker : TaskStep(w)]_vars

\* What became of item i.
FateOf(i) ==
    CASE task[i] = "failed"  -> "failed"
      [] task[i] = "skipped" -> "cancelled"
      [] task[i] = "ok"      -> IF i \in Counted THEN "deleted" ELSE "refused"
      [] OTHER               -> "pending"

\* The batch settles each item once and gives items up only after an error.
Batch == INSTANCE PurgeBatch WITH
    Item     <- Task,
    fate     <- [i \in Task |-> FateOf(i)],
    outcome  <- IF pc # "returned" THEN "running"
                ELSE IF groupErr = NoTask THEN "ok" ELSE "error",
    reported <- IF pc = "returned" THEN count ELSE 0

BatchRefined == Batch!BatchSpec

\* The call returns, whatever fails.
PurgeReturns == <>(pc = "returned")
=============================================================================
