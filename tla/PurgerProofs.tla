---------------------------- MODULE PurgerProofs ----------------------------
(***************************************************************************)
(* The purger's count, its silence after the return and its refinement of  *)
(* PurgeBatch, for any batch, pool, faults and other clients.              *)
(***************************************************************************)
EXTENDS Purger, TaskPoolProofs, FiniteSetTheorems

USE PurgerAssumption

-----------------------------------------------------------------------------
(***************************************************************************)
(* The inductive invariant.                                                *)
(***************************************************************************)
CallInv ==
    /\ pc # "submit" => submitting = NoTask /\ \A i \in Task : task[i] # "new"
    /\ pc = "returned" => \A i \in Task : Settled(i)

\* The last answer an item got goes with the state of its task.
StageInv ==
    \A i \in Task :
        /\ task[i] \notin {"running", "ok", "failed"} => stage[i] = "start"
        /\ task[i] = "ok" => stage[i] \in Answer \ {"error"}
        /\ task[i] = "failed" => stage[i] = "error"

GoneInv == \A i \in Task : stage[i] \in {"ok", "notFound"} => i \notin present

UnlockInv == \A i \in unlocked : stage[i] # "start"

PurgerInv ==
    /\ PoolInv /\ PurgerTypeOK
    /\ CallInv /\ StageInv /\ GoneInv /\ UnlockInv
    /\ CountIsExact

\* Nothing is submitted, asked for or counted at the start.
LEMMA PurgerInitInv == PurgerInit => PurgerInv
<1> SUFFICES ASSUME PurgerInit PROVE PurgerInv
    OBVIOUS
<1>1. PoolInv /\ PoolTypeOK
    BY PoolInitInv DEF PurgerInit, PoolInv
<1>2. task = [t \in Task |-> "new"] /\ submitting = NoTask
    BY DEF PurgerInit, PoolInit
<1>3. PurgerTypeOK
    BY <1>1 DEF PurgerInit, PurgerTypeOK, Answer
<1>4. CallInv /\ StageInv /\ GoneInv /\ UnlockInv
    BY <1>2 DEF PurgerInit, CallInv, StageInv, GoneInv, UnlockInv
<1>5. Counted = {}
    BY <1>2 DEF Counted
<1>6. CountIsExact
    BY <1>5, FS_EmptySet DEF CountIsExact, PurgerInit
<1> QED
    BY <1>1, <1>3, <1>4, <1>6 DEF PurgerInv

-----------------------------------------------------------------------------
(***************************************************************************)
(* Steps of the pool, of the caller and of other clients: they count and   *)
(* answer nothing.                                                         *)
(***************************************************************************)

\* Items whose task and stage stay are counted as before.
LEMMA CountedStays ==
  ASSUME \A i \in Task : (i \in Counted)' <=> i \in Counted, count' = count, CountIsExact
  PROVE  CountIsExact'
<1>1. Counted' = Counted
    BY DEF Counted
<1> QED
    BY <1>1 DEF CountIsExact

\* The pool moves tasks that have not started, and no counted one.
LEMMA PoolStepPurgerInv ==
  ASSUME PurgerInv, PoolStep, UNCHANGED purgerVars
  PROVE  PurgerInv'
<1> USE DEF PurgerInv, purgerVars
<1>1. PoolInv' /\ PoolTypeOK'
    BY PoolStepInv DEF PoolInv
<1>2. PurgerTypeOK'
    BY <1>1 DEF PurgerTypeOK
<1>3. /\ submitting' \in {submitting, NoTask}
      /\ \A i \in Task : \/ task'[i] = task[i]
                         \/ Early(i) /\ (Early(i)' \/ task'[i] \in {"running", "skipped"})
    BY PoolStepEffect
<1>4. CallInv'
    BY <1>3 DEF CallInv, Settled, Early
<1>5. StageInv'
    BY <1>3 DEF StageInv, Early
<1>6. GoneInv' /\ UnlockInv'
    BY DEF GoneInv, UnlockInv
<1>7. CountIsExact'
    BY <1>3, CountedStays DEF Counted, Early
<1> QED
    BY <1>1, <1>2, <1>4, <1>5, <1>6, <1>7

\* The caller submits, waits and returns.
LEMMA CallerStepInv ==
  ASSUME PurgerInv, CallerStep
  PROVE  PurgerInv'
<1> USE DEF PurgerInv
<1>1. ASSUME NEW i \in Task, SubmitItem(i)
      PROVE  PurgerInv'
  <2> USE <1>1 DEF SubmitItem, purgerVars
  <2>1. PoolInv' /\ PoolTypeOK'
      BY SubmitInv DEF PoolInv
  <2>2. PurgerTypeOK'
      BY <2>1 DEF PurgerTypeOK
  <2>3. task[i] = "new" /\ task' = [task EXCEPT ![i] = "submitting"]
      BY DEF Submit
  <2>4. CallInv' /\ GoneInv' /\ UnlockInv'
      BY DEF CallInv, GoneInv, UnlockInv
  <2>5. StageInv'
      BY <2>3 DEF StageInv, PurgerTypeOK, PoolTypeOK
  <2>6. CountIsExact'
      BY <2>3, CountedStays DEF Counted, PurgerTypeOK, PoolTypeOK
  <2> QED
      BY <2>1, <2>2, <2>4, <2>5, <2>6
<1>2. ASSUME SubmittedAll \/ WaitReturns
      PROVE  PurgerInv'
  <2>1. UNCHANGED <<poolVars, present, locked, seenLocked, stage, unlocked, count>>
      BY <1>2 DEF SubmittedAll, WaitReturns
  <2>2. PoolInv' /\ PoolTypeOK'
      BY <2>1, PoolStutterInv DEF PoolInv
  <2>3. PurgerTypeOK'
      BY <1>2, <2>1, <2>2 DEF PurgerTypeOK, SubmittedAll, WaitReturns
  <2>4. CallInv'
      BY <1>2, <2>1 DEF CallInv, Settled, poolVars, SubmittedAll, WaitReturns, GroupDone
  <2>5. StageInv' /\ GoneInv' /\ UnlockInv' /\ CountIsExact'
      BY <2>1, CountedStays DEF StageInv, GoneInv, UnlockInv, Counted, poolVars
  <2> QED
      BY <2>2, <2>3, <2>4, <2>5
<1> QED
    BY <1>1, <1>2 DEF CallerStep

\* Another client deletes or locks an item, and restores none.
LEMMA OtherClientInv ==
  ASSUME PurgerInv, NEW i \in Task, OtherClient(i)
  PROVE  PurgerInv'
<1> USE DEF PurgerInv, OtherClient
<1>1. PoolInv' /\ PoolTypeOK'
    BY PoolStutterInv DEF PoolInv
<1>2. PurgerTypeOK'
    BY <1>1 DEF PurgerTypeOK
<1>3. present' \subseteq present
    OBVIOUS
<1>4. CallInv' /\ StageInv'
    BY DEF CallInv, StageInv, Settled, poolVars
<1>5. GoneInv' /\ UnlockInv'
    BY <1>3 DEF GoneInv, UnlockInv
<1>6. CountIsExact'
    BY CountedStays DEF Counted, poolVars
<1> QED
    BY <1>1, <1>2, <1>4, <1>5, <1>6

-----------------------------------------------------------------------------
(***************************************************************************)
(* Steps of the tasks.                                                     *)
(***************************************************************************)

\* A request of a running task: the task goes on, nothing is counted yet.
LEMMA RequestInv ==
  ASSUME PurgerInv,
         NEW w \in Worker, NEW i \in Task, At(w, i, "start") \/ At(w, i, "unlockTried"),
         UNCHANGED <<poolVars, count>>,
         present' \in SUBSET present, locked' \in SUBSET present',
         unlocked' \in {unlocked, unlocked \cup {i}},
         NEW a \in Answer \cup {"unlockTried"},
         stage' = [stage EXCEPT ![i] = a],
         a \in {"ok", "notFound"} => i \notin present'
  PROVE  PurgerInv'
<1> USE DEF PurgerInv
<1>1. PoolInv' /\ PoolTypeOK'
    BY PoolStutterInv DEF PoolInv
<1>2. task[i] = "running" /\ seenLocked' = seenLocked /\ pc' = pc
    BY DEF At
<1>3. PurgerTypeOK'
    BY <1>1, <1>2 DEF PurgerTypeOK, Answer
<1>4. stage \in [Task -> {"start", "unlockTried"} \cup Answer] /\ task' = task
    BY DEF PurgerTypeOK, poolVars
<1>5. CallInv'
    BY <1>2 DEF CallInv, Settled, poolVars
<1>6. StageInv'
    BY <1>2, <1>4 DEF StageInv
<1>7. GoneInv'
    BY <1>4 DEF GoneInv
<1>8. UnlockInv'
    BY <1>4 DEF UnlockInv, Answer
<1>9. CountIsExact'
    BY <1>2, <1>4, CountedStays DEF Counted
<1> QED
    BY <1>1, <1>3, <1>5, <1>6, <1>7, <1>8, <1>9

\* The answer settles the item, which is counted if it is gone.
LEMMA HandleAnswerInv ==
  ASSUME PurgerInv, NEW w \in Worker, NEW i \in Task, HandleAnswer(w, i)
  PROVE  PurgerInv'
<1> USE DEF PurgerInv, HandleAnswer, registryVars
<1>1. /\ task[i] = "running" /\ job[w] = i /\ stage[i] \in Answer
      /\ seenLocked' = seenLocked /\ pc' = pc
    BY DEF At
<1>2. PoolInv' /\ PoolTypeOK'
    BY FinishTaskInv DEF PoolInv
<1>3. /\ task' = [task EXCEPT ![i] = IF stage[i] # "error" THEN "ok" ELSE "failed"]
      /\ submitting' = submitting /\ task \in [Task -> TaskState]
    BY <1>1 DEF FinishTask, PurgerTypeOK, PoolTypeOK
<1>4. PurgerTypeOK'
    BY <1>1, <1>2 DEF PurgerTypeOK
<1>5. CallInv'
    BY <1>1, <1>3 DEF CallInv, Settled
<1>6. StageInv'
    BY <1>1, <1>3 DEF StageInv
<1>7. GoneInv' /\ UnlockInv'
    BY DEF GoneInv, UnlockInv
<1>8. CountIsExact'
  <2>1. i \notin Counted /\ Counted \subseteq Task
      BY <1>1 DEF Counted
  <2>2. IsFiniteSet(Counted)
      BY <2>1, FS_Subset
  <2>3. CASE stage[i] \in {"ok", "notFound"}
    <3>1. Counted' = Counted \cup {i}
        BY <1>1, <1>3, <2>3 DEF Counted
    <3>2. Cardinality(Counted \cup {i}) = Cardinality(Counted) + 1
        BY <2>1, <2>2, FS_AddElement
    <3> QED
        BY <2>3, <3>1, <3>2 DEF CountIsExact
  <2>4. CASE stage[i] \notin {"ok", "notFound"}
    <3>1. Counted' = Counted
        BY <1>1, <1>3, <2>4 DEF Counted
    <3> QED
        BY <2>4, <3>1 DEF CountIsExact
  <2> QED
      BY <2>3, <2>4
<1> QED
    BY <1>2, <1>4, <1>5, <1>6, <1>7, <1>8

\* Every step of a task preserves the invariant.
LEMMA TaskStepInv ==
  ASSUME PurgerInv, NEW w \in Worker, TaskStep(w)
  PROVE  PurgerInv'
<1> USE DEF PurgerInv, PurgerTypeOK, Answer
<1>1. ASSUME NEW i \in Task, Unlock(w, i) \/ UnlockFails(w, i)
      PROVE  PurgerInv'
    BY <1>1, RequestInv DEF Unlock, UnlockFails
<1>2. ASSUME NEW i \in Task, Delete(w, i)
      PROVE  PurgerInv'
    BY <1>2, RequestInv DEF Delete, AtDelete
<1>3. ASSUME NEW i \in Task, DeleteFails(w, i)
      PROVE  PurgerInv'
    BY <1>3, RequestInv DEF DeleteFails, AtDelete
<1> QED
    BY <1>1, <1>2, <1>3, HandleAnswerInv DEF TaskStep

\* A step that changes nothing.
LEMMA PurgerStutterInv ==
  ASSUME PurgerInv, UNCHANGED vars
  PROVE  PurgerInv'
<1> USE DEF PurgerInv, vars, purgerVars
<1>1. PoolInv' /\ PoolTypeOK'
    BY PoolStutterInv DEF PoolInv
<1>2. PurgerTypeOK' /\ CallInv' /\ StageInv' /\ GoneInv' /\ UnlockInv'
    BY <1>1 DEF PurgerTypeOK, CallInv, StageInv, GoneInv, UnlockInv, Settled, poolVars
<1>3. CountIsExact'
    BY CountedStays DEF Counted, poolVars
<1> QED
    BY <1>1, <1>2, <1>3

\* The whole is an invariant of the purger, with its type correctness.
THEOREM PurgerCorrect == PurgerSpec => []PurgerInv
<1>1. PurgerInv /\ [PurgerNext]_vars => PurgerInv'
    BY PoolStepPurgerInv, CallerStepInv, TaskStepInv, OtherClientInv, PurgerStutterInv
    DEF PurgerNext
<1> QED
    BY <1>1, PurgerInitInv, PTL DEF PurgerSpec

\* The counter is exact, however the goroutines interleave.
THEOREM PurgerCountIsExact == PurgerSpec => []CountIsExact
<1>1. PurgerInv => CountIsExact
    BY DEF PurgerInv
<1> QED
    BY <1>1, PurgerCorrect, PTL

\* The count never exceeds what is gone, whatever fails and whatever other
\* clients do.
THEOREM PurgerCountIsHonest == PurgerSpec => []CountIsHonest
<1>1. PurgerInv => CountIsHonest
  <2> SUFFICES ASSUME PurgerInv PROVE CountIsHonest
      OBVIOUS
  <2>1. Counted \subseteq Task \ present
      BY DEF PurgerInv, GoneInv, Counted
  <2>2. IsFiniteSet(Task \ present)
      BY FS_Subset
  <2>3. Cardinality(Counted) <= Cardinality(Task \ present)
      BY <2>1, <2>2, FS_Subset
  <2> QED
      BY <2>3 DEF PurgerInv, CountIsExact, CountIsHonest
<1> QED
    BY <1>1, PurgerCorrect, PTL

\* A batch that succeeds leaves nothing unlocked but what others locked again.
THEOREM PurgerLeavesNothingUnlocked == PurgerSpec => []NothingLeftUnlocked
<1>1. PurgerInv => NothingLeftUnlocked
  <2> SUFFICES ASSUME PurgerInv, pc = "returned", groupErr = NoTask, NEW i \in unlocked
               PROVE  i \notin present \/ stage[i] = "notAllowed"
      BY DEF NothingLeftUnlocked
  <2>1. i \in Task
      BY DEF PurgerInv, PurgerTypeOK
  <2>2. task[i] = "ok"
      BY <2>1 DEF PurgerInv, CallInv, Settled, PoolInv, ErrorHasCause
  <2> QED
      BY <2>1, <2>2 DEF PurgerInv, StageInv, GoneInv, Answer
<1> QED
    BY <1>1, PurgerCorrect, PTL

\* No task acts once the call has returned.
THEOREM PurgerSilentAfterReturn == PurgerSpec => NoRequestAfterReturn
<1>1. PurgerInv => (pc = "returned" => ~\E w \in Worker : TaskStep(w))
  <2> SUFFICES ASSUME PurgerInv, pc = "returned", NEW w \in Worker, TaskStep(w)
               PROVE  FALSE
      OBVIOUS
  <2>1. PICK i \in Task : task[i] = "running"
      BY DEF TaskStep, Unlock, UnlockFails, Delete, DeleteFails, HandleAnswer, AtDelete, At
  <2> QED
      BY <2>1 DEF PurgerInv, CallInv, Settled
<1> QED
    BY <1>1, PurgerCorrect, PTL DEF NoRequestAfterReturn

-----------------------------------------------------------------------------
(***************************************************************************)
(* The items that other clients leave alone and for which nothing fails.   *)
(***************************************************************************)
Undisturbed == Task \ (Faults \cup Interference)

\* Their locks are as listed until their task removes them; only a failing
\* request answers with an error.
LockInv ==
    /\ \A i \in Task : stage[i] = "error" => i \in Faults
    /\ \A i \in Undisturbed :
        /\ stage[i] = "start" => (i \in locked <=> i \in seenLocked)
        /\ stage[i] = "unlockTried" => i \notin locked
        /\ stage[i] = "notAllowed" => i \in locked /\ ~IncludeLocked
        /\ stage[i] = "start" \/ stage[i] = "unlockTried" => i \in present

LEMMA LockInit == PurgerInit => LockInv
  BY DEF PurgerInit, LockInv, Undisturbed

\* The items of other tasks keep their locks and answers.
LEMMA LockTask ==
  ASSUME PurgerInv, LockInv, NEW w \in Worker, TaskStep(w)
  PROVE  LockInv'
<1>1. stage \in [Task -> {"start", "unlockTried"} \cup Answer] /\ locked \subseteq present
    BY DEF PurgerInv, PurgerTypeOK
<1>2. ASSUME NEW i \in Task, Unlock(w, i) \/ UnlockFails(w, i)
      PROVE  LockInv'
  <2>1. /\ stage[i] = "start" /\ stage' = [stage EXCEPT ![i] = "unlockTried"]
        /\ locked' \in {locked, locked \ {i}} /\ present' = present /\ seenLocked' = seenLocked
        /\ i \in Undisturbed => locked' = locked \ {i}
      BY <1>2 DEF Unlock, UnlockFails, At, Undisturbed, LockInv
  <2> QED
      BY <1>1, <2>1 DEF LockInv, Undisturbed
<1>3. ASSUME NEW i \in Task, Delete(w, i)
      PROVE  LockInv'
  <2>1. /\ stage[i] = "unlockTried" \/ (stage[i] = "start" /\ ~NeedsUnlock(i))
        /\ locked' = locked /\ seenLocked' = seenLocked
        /\ present' = IF i \in locked THEN present ELSE present \ {i}
      BY <1>3 DEF Delete, AtDelete, At
  <2>2. stage' = [stage EXCEPT ![i] = IF i \notin present THEN "notFound"
                                      ELSE IF i \in locked THEN "notAllowed" ELSE "ok"]
      BY <1>3 DEF Delete
  <2>3. i \in Undisturbed /\ i \in locked => ~IncludeLocked
      BY <2>1 DEF LockInv, NeedsUnlock
  <2> QED
      BY <1>1, <2>1, <2>2, <2>3 DEF LockInv, Undisturbed
<1>4. ASSUME NEW i \in Task, DeleteFails(w, i)
      PROVE  LockInv'
  <2>1. /\ i \in Faults /\ stage' = [stage EXCEPT ![i] = "error"]
        /\ locked' = locked /\ seenLocked' = seenLocked
        /\ present' \in {present, present \ {i}}
      BY <1>4 DEF DeleteFails, AtDelete, At
  <2> QED
      BY <1>1, <2>1 DEF LockInv, Undisturbed
<1>5. ASSUME NEW i \in Task, HandleAnswer(w, i)
      PROVE  LockInv'
    BY <1>5 DEF HandleAnswer, At, registryVars, LockInv
<1> QED
    BY <1>2, <1>3, <1>4, <1>5 DEF TaskStep

LEMMA LockStep ==
  ASSUME PurgerInv, LockInv, [PurgerNext]_vars
  PROVE  LockInv'
<1>1. CASE CallerStep \/ (PoolStep /\ UNCHANGED purgerVars) \/ UNCHANGED vars
  <2>1. UNCHANGED <<present, locked, seenLocked, stage>>
      BY <1>1 DEF CallerStep, SubmittedAll, WaitReturns, SubmitItem, purgerVars, vars
  <2> QED
      BY <2>1 DEF LockInv
<1>2. ASSUME NEW i \in Task, OtherClient(i)
      PROVE  LockInv'
  <2>1. /\ i \in Interference /\ UNCHANGED <<seenLocked, stage>>
        /\ locked' \in {locked, locked \cup {i}, locked \ {i}}
        /\ present' \in {present, present \ {i}}
      BY <1>2 DEF OtherClient
  <2> QED
      BY <2>1 DEF LockInv, Undisturbed
<1> QED
    BY <1>1, <1>2, LockTask DEF PurgerNext

\* A batch deletes every item that is left alone and whose requests do not
\* fail, or reports the error after which it was given up.
THEOREM PurgerUndisturbedIsComplete == PurgerSpec => []UndisturbedIsComplete
<1>1. PurgerInv /\ LockInv => UndisturbedIsComplete
  <2> SUFFICES ASSUME PurgerInv, LockInv, pc = "returned", NEW i \in Undisturbed
               PROVE  \/ i \notin present
                      \/ i \in locked /\ ~IncludeLocked
                      \/ task[i] = "skipped" /\ groupErr \in Faults
      BY DEF UndisturbedIsComplete, Undisturbed
  <2>1. i \in Task /\ Settled(i)
      BY DEF Undisturbed, PurgerInv, CallInv
  <2>2. CASE task[i] = "ok"
      BY <2>1, <2>2 DEF PurgerInv, StageInv, GoneInv, Answer, LockInv
  <2>3. CASE task[i] = "failed"
      BY <2>1, <2>3 DEF PurgerInv, StageInv, LockInv, Undisturbed
  <2>4. CASE task[i] = "skipped"
    <3>1. groupErr \in Task /\ task[groupErr] = "failed"
        BY <2>1, <2>4 DEF PurgerInv, PoolInv, PoolTypeOK, ErrorHasCause
    <3> QED
        BY <2>4, <3>1 DEF PurgerInv, StageInv, LockInv
  <2> QED
      BY <2>1, <2>2, <2>3, <2>4 DEF Settled
<1>2. PurgerInit => PurgerInv /\ LockInv
    BY PurgerInitInv, LockInit
<1>3. PurgerInv /\ LockInv /\ [PurgerNext]_vars => LockInv'
    BY LockStep
<1> QED
    BY <1>1, <1>2, <1>3, PurgerCorrect, PTL DEF PurgerSpec

-----------------------------------------------------------------------------
(***************************************************************************)
(* The purger implements PurgeBatch.                                       *)
(***************************************************************************)

\* The fates are the tasks' states, and the answers of those that returned nil.
LEMMA Fates ==
  ASSUME NEW i \in Task
  PROVE  /\ FateOf(i) = "failed" <=> task[i] = "failed"
         /\ FateOf(i) = "cancelled" <=> task[i] = "skipped"
         /\ FateOf(i) = "deleted" <=> i \in Counted
         /\ FateOf(i) = "pending" <=> ~Settled(i)
         /\ FateOf(i) \in Batch!Fate
<1>1. CASE task[i] = "failed"
    BY <1>1 DEF FateOf, Counted, Settled, Batch!Fate
<1>2. CASE task[i] = "skipped"
    BY <1>2 DEF FateOf, Counted, Settled, Batch!Fate
<1>3. CASE task[i] = "ok"
    BY <1>3 DEF FateOf, Counted, Settled, Batch!Fate
<1>4. CASE task[i] \notin {"failed", "skipped", "ok"}
    BY <1>4 DEF FateOf, Counted, Settled, Batch!Fate
<1> QED
    BY <1>1, <1>2, <1>3, <1>4

\* At the start everything is pending.
LEMMA BatchInitLemma == PurgerInit => Batch!BatchInit
<1> SUFFICES ASSUME PurgerInit PROVE Batch!BatchInit
    OBVIOUS
<1>1. \A i \in Task : FateOf(i) = "pending"
    BY DEF PurgerInit, PoolInit, FateOf
<1> QED
    BY <1>1 DEF PurgerInit, Batch!BatchInit

\* A step that settles nothing and is not the return is none of the batch.
LEMMA BatchStutter ==
  ASSUME \A i \in Task : FateOf(i)' = FateOf(i),
         pc' = pc \/ "returned" \notin {pc, pc'},
         pc = "returned" => groupErr' = groupErr /\ count' = count
  PROVE  UNCHANGED Batch!batchVars
<1>1. [i \in Task |-> FateOf(i)]' = [i \in Task |-> FateOf(i)]
    OBVIOUS
<1> QED
    BY <1>1 DEF Batch!batchVars

\* Tasks that do not settle keep the fate of their item.
LEMMA PendingStays ==
  ASSUME NEW i \in Task, ~Settled(i), ~Settled(i)'
  PROVE  FateOf(i)' = FateOf(i)
  BY DEF FateOf, Settled

\* A settled task whose state and answer stay keeps it too.
LEMMA FateStays ==
  ASSUME NEW i \in Task, task'[i] = task[i], stage'[i] = stage[i] \/ ~Settled(i)
  PROVE  FateOf(i)' = FateOf(i)
  BY DEF FateOf, Counted, Settled

\* A task that settles settles its item.
LEMMA BatchSettle ==
  ASSUME PurgerInv, NEW i \in Task, ~Settled(i), Settled(i)', pc' = pc, count' = count \/ pc # "returned",
         task'[i] = "skipped" => groupErr # NoTask,
         \A j \in Task \ {i} : task'[j] = task[j] /\ stage'[j] = stage[j]
  PROVE  Batch!Settle(i)
<1> USE DEF PurgerInv
<1>1. FateOf(i) = "pending"
    BY Fates
<1>2. pc # "returned"
    BY <1>1 DEF CallInv
<1>3. FateOf(i)' \in Batch!Fate \ {"pending"}
    BY DEF FateOf, Counted, Settled, Batch!Fate
<1>4. FateOf(i)' = "cancelled" => Batch!With("failed") # {}
  <2>1. FateOf(i)' = "cancelled" => task'[i] = "skipped"
      BY DEF FateOf, Counted, Settled
  <2>2. groupErr # NoTask => groupErr \in Task /\ task[groupErr] = "failed"
      BY DEF PoolInv, PoolTypeOK, ErrorHasCause
  <2> QED
      BY <2>1, <2>2, Fates DEF Batch!With
<1>5. \A j \in Task \ {i} : FateOf(j)' = FateOf(j)
    BY FateStays
<1>6. [j \in Task |-> FateOf(j)]'
        = [[j \in Task |-> FateOf(j)] EXCEPT ![i] = FateOf(i)']
    BY <1>5
<1> QED
    BY <1>1, <1>2, <1>3, <1>4, <1>6 DEF Batch!Settle

\* The return of Wait is the return of the batch.
LEMMA BatchReturn ==
  ASSUME PurgerInv, WaitReturns
  PROVE  Batch!ReturnBatch
<1> USE DEF PurgerInv, WaitReturns
<1>1. \A i \in Task : Settled(i)
    BY DEF CallInv, GroupDone
<1>2. Batch!With("pending") = {}
    BY <1>1, Fates DEF Batch!With
<1>3. Batch!With("failed") = {} <=> groupErr = NoTask
    BY Fates DEF Batch!With, PoolInv, PoolTypeOK, ErrorHasCause
<1>4. Batch!With("deleted") = Counted
    BY Fates DEF Batch!With, Counted
<1>5. \A i \in Task : FateOf(i)' = FateOf(i)
    BY FateStays DEF poolVars
<1>6. [i \in Task |-> FateOf(i)]' = [i \in Task |-> FateOf(i)]
    BY <1>5
<1>7. pc = "wait" /\ pc' = "returned" /\ groupErr' = groupErr
    BY DEF poolVars
<1>8. count' = count /\ count = Cardinality(Batch!With("deleted"))
    BY <1>4 DEF CountIsExact
<1> QED
    BY <1>2, <1>3, <1>6, <1>7, <1>8 DEF Batch!ReturnBatch, Cardinality, Batch!Cardinality

\* A step of the pool skips one task or settles none.
LEMMA BatchPoolStep ==
  ASSUME PurgerInv, PoolStep, UNCHANGED purgerVars
  PROVE  UNCHANGED Batch!batchVars \/ \E i \in Task : Batch!Settle(i)
<1> USE DEF PurgerInv, purgerVars
<1>1. /\ groupErr' = groupErr
      /\ \A i \in Task :
            \/ task'[i] = task[i]
            \/ Early(i) /\ \/ Early(i)'
                           \/ task'[i] = "running"
                           \/ /\ task'[i] = "skipped" /\ groupErr # NoTask
                              /\ task' = [task EXCEPT ![i] = "skipped"]
    BY PoolStepEffect
<1>2. ASSUME NEW i \in Task, Early(i), task' = [task EXCEPT ![i] = "skipped"], groupErr # NoTask
      PROVE  Batch!Settle(i)
  <2>1. task'[i] = "skipped" /\ \A j \in Task \ {i} : task'[j] = task[j]
      BY <1>2 DEF PurgerTypeOK, PoolTypeOK
  <2> QED
      BY <1>2, <2>1, BatchSettle DEF Early, Settled
<1>3. CASE \A i \in Task : \/ task'[i] = task[i]
                           \/ Early(i) /\ (Early(i)' \/ task'[i] = "running")
  <2>1. \A i \in Task : FateOf(i)' = FateOf(i)
      BY <1>3, FateStays, PendingStays DEF Early, Settled
  <2> QED
      BY <1>1, <2>1, BatchStutter
<1>4. ASSUME NEW i \in Task,
             ~(task'[i] = task[i] \/ (Early(i) /\ (Early(i)' \/ task'[i] = "running")))
      PROVE  Batch!Settle(i)
    BY <1>1, <1>2, <1>4
<1> QED
    BY <1>3, <1>4

\* A step of a task settles its item with the answer, or nothing before it.
LEMMA BatchTaskStep ==
  ASSUME PurgerInv, NEW w \in Worker, TaskStep(w)
  PROVE  UNCHANGED Batch!batchVars \/ \E i \in Task : Batch!Settle(i)
<1> USE DEF PurgerInv
<1>1. ASSUME NEW i \in Task, HandleAnswer(w, i)
      PROVE  Batch!Settle(i)
  <2> USE <1>1 DEF HandleAnswer, At
  <2>1. task[i] = "running" /\ pc' = pc /\ pc # "returned" /\ stage' = stage
      BY DEF CallInv, Settled
  <2>2. /\ Settled(i)' /\ task'[i] # "skipped"
        /\ \A j \in Task \ {i} : task'[j] = task[j]
      BY DEF FinishTask, Settled, PurgerTypeOK, PoolTypeOK
  <2> QED
      BY <2>1, <2>2, BatchSettle DEF Settled
<1>2. ASSUME NEW i \in Task,
             Unlock(w, i) \/ UnlockFails(w, i) \/ Delete(w, i) \/ DeleteFails(w, i)
      PROVE  UNCHANGED Batch!batchVars
  <2>1. /\ UNCHANGED <<poolVars, pc, count>> /\ task[i] = "running"
        /\ \A j \in Task \ {i} : stage'[j] = stage[j]
      BY <1>2 DEF Unlock, UnlockFails, Delete, DeleteFails, AtDelete, At, PurgerTypeOK
  <2>2. \A j \in Task : FateOf(j)' = FateOf(j)
      BY <2>1, FateStays DEF poolVars, Settled
  <2> QED
      BY <2>1, <2>2, BatchStutter DEF poolVars
<1> QED
    BY <1>1, <1>2 DEF TaskStep

\* The purger settles each item once, gives items up only after an error, and
\* returns when all are settled, with the exact count.
THEOREM PurgerImplementsBatch == PurgerSpec => BatchRefined
<1>1. ASSUME PurgerInv, [PurgerNext]_vars
      PROVE  [Batch!ReturnBatch \/ \E i \in Task : Batch!Settle(i)]_(Batch!batchVars)
  <2>1. CASE UNCHANGED vars
    <3>1. \A i \in Task : FateOf(i)' = FateOf(i)
        BY <2>1, FateStays DEF vars, poolVars, purgerVars
    <3> QED
        BY <2>1, <3>1, BatchStutter DEF vars, poolVars, purgerVars
  <2>2. ASSUME NEW i \in Task, SubmitItem(i)
        PROVE  UNCHANGED Batch!batchVars
    <3>1. \A j \in Task : FateOf(j)' = FateOf(j)
      <4>1. task[i] = "new" /\ task' = [task EXCEPT ![i] = "submitting"] /\ stage' = stage
          BY <2>2 DEF SubmitItem, Submit, purgerVars
      <4>2. \A j \in Task : task'[j] = task[j] \/ (~Settled(j) /\ ~Settled(j)')
          BY <1>1, <4>1 DEF PurgerInv, PurgerTypeOK, PoolTypeOK, Settled
      <4> QED
          BY <4>1, <4>2, FateStays, PendingStays
    <3> QED
        BY <2>2, <3>1, BatchStutter DEF SubmitItem, Submit, purgerVars
  <2>3. ASSUME SubmittedAll \/ \E i \in Task : OtherClient(i)
        PROVE  UNCHANGED Batch!batchVars
    <3>1. /\ UNCHANGED <<poolVars, stage, count>>
          /\ pc' = pc \/ "returned" \notin {pc, pc'}
        BY <2>3 DEF SubmittedAll, OtherClient
    <3>2. \A i \in Task : FateOf(i)' = FateOf(i)
        BY <3>1, FateStays DEF poolVars
    <3> QED
        BY <3>1, <3>2, BatchStutter DEF poolVars
  <2> QED
      BY <1>1, <2>1, <2>2, <2>3, BatchReturn, BatchPoolStep, BatchTaskStep
      DEF PurgerNext, CallerStep
<1> QED
    BY <1>1, BatchInitLemma, PurgerCorrect, PTL DEF PurgerSpec, BatchRefined, Batch!BatchSpec
=============================================================================
