--------------------------- MODULE TaskPoolProofs ---------------------------
(***************************************************************************)
(* The invariants of TaskPool hold for every pool, queue and set of tasks. *)
(* The lemmas are stated per action and without the client, so that the    *)
(* modules that compose TaskPool with their own tasks can cite them.       *)
(***************************************************************************)
EXTENDS TaskPool, TLAPS

\* Every invariant of the pool, together: the whole is inductive.
PoolInv ==
    /\ PoolTypeOK
    /\ EachTaskInOnePlace
    /\ QueueImpliesSaturation
    /\ ErrorHasCause
    /\ BoundedStragglers
    /\ BlockedSubmitterHasWaker

USE PoolAssumption

\* The pool starts empty, with nothing submitted.
LEMMA PoolInitInv == PoolInit => PoolInv
<1> SUFFICES ASSUME PoolInit PROVE PoolInv
    OBVIOUS
<1>1. PoolTypeOK
  <2>1. queue \in Seq(Task)
      BY DEF PoolInit
  <2>2. alive \in SUBSET Worker /\ submitting \in Task \cup {NoTask}
      BY DEF PoolInit
  <2>3. waiting \in BOOLEAN /\ submitWaiter \in BOOLEAN
      BY Zenon DEF PoolInit
  <2> QED
      BY <2>1, <2>2, <2>3 DEF PoolInit, PoolTypeOK, TaskState
<1>4. EachTaskInOnePlace
  <2>1. Len(queue) = 0
      BY DEF PoolInit
  <2> QED
      BY <2>1 DEF PoolInit, EachTaskInOnePlace
<1>2. QueueImpliesSaturation /\ ErrorHasCause
    BY DEF PoolInit, QueueImpliesSaturation, ErrorHasCause
<1>3. BoundedStragglers /\ BlockedSubmitterHasWaker
    BY DEF PoolInit, BoundedStragglers, BlockedSubmitterHasWaker
<1> QED
    BY <1>1, <1>2, <1>3, <1>4 DEF PoolInv

\* group.submit takes a new task in hand.
LEMMA SubmitInv ==
  ASSUME PoolInv, NEW t \in Task, Submit(t)
  PROVE  PoolInv'
  BY DEF Submit, PoolInv, PoolTypeOK, TaskState, EachTaskInOnePlace,
         QueueImpliesSaturation, ErrorHasCause, BoundedStragglers, Busy,
         BlockedSubmitterHasWaker

\* The submitter meets a full queue.
LEMMA QueueFullInv ==
  ASSUME PoolInv, QueueFull
  PROVE  PoolInv'
  BY DEF QueueFull, PoolInv, PoolTypeOK, TaskState, EachTaskInOnePlace,
         QueueImpliesSaturation, ErrorHasCause, BoundedStragglers, Busy,
         BlockedSubmitterHasWaker

\* The submitter receives a token.
LEMMA WakeSubmitterInv ==
  ASSUME PoolInv, WakeSubmitter
  PROVE  PoolInv'
<1> USE DEF WakeSubmitter, PoolInv
<1>1. PoolTypeOK' /\ EachTaskInOnePlace'
    BY ZenonT(60) DEF PoolTypeOK, EachTaskInOnePlace
<1>2. QueueImpliesSaturation' /\ ErrorHasCause'
    BY DEF QueueImpliesSaturation, ErrorHasCause
<1>3. BoundedStragglers' /\ BlockedSubmitterHasWaker'
    BY DEF BoundedStragglers, Busy, BlockedSubmitterHasWaker
<1> QED
    BY <1>1, <1>2, <1>3

\* The task joins the queue of a saturated pool.
LEMMA EnqueueInv ==
  ASSUME PoolInv, Enqueue
  PROVE  PoolInv'
  BY DEF Enqueue, PoolInv, PoolTypeOK, TaskState, EachTaskInOnePlace,
         QueueImpliesSaturation, ErrorHasCause, BoundedStragglers, Busy,
         BlockedSubmitterHasWaker

\* A new worker starts, and then the queue was empty.
LEMMA LaunchWorkerInv ==
  ASSUME PoolInv, NEW w \in Worker, LaunchWorker(w)
  PROVE  PoolInv'
  BY DEF LaunchWorker, notifySubmitWaiter, PoolInv, PoolTypeOK, TaskState, EachTaskInOnePlace,
         QueueImpliesSaturation, ErrorHasCause, BoundedStragglers, Busy,
         BlockedSubmitterHasWaker

\* A worker without work exits.
LEMMA ExitWorkerInv ==
  ASSUME PoolInv, NEW w \in Worker, ExitWorker(w)
  PROVE  PoolInv'
  BY DEF ExitWorker, notifySubmitWaiter, PoolInv, PoolTypeOK, TaskState, EachTaskInOnePlace,
         QueueImpliesSaturation, ErrorHasCause, BoundedStragglers, Busy,
         BlockedSubmitterHasWaker

\* A worker takes the front of the queue.
LEMMA ReadTaskInv ==
  ASSUME PoolInv, NEW w \in Worker, ReadTask(w)
  PROVE  PoolInv'
<1> USE DEF ReadTask, notifySubmitWaiter, PoolInv
<1>1. /\ Head(queue) = queue[1] /\ Len(queue) \in Nat \ {0}
      /\ Tail(queue) \in Seq(Task) /\ Len(Tail(queue)) = Len(queue) - 1
      /\ \A i \in 1..Len(Tail(queue)) : Tail(queue)[i] = queue[i + 1]
    BY DEF PoolTypeOK
<1>2. task[Head(queue)] = "queued" /\ Head(queue) \in Task
    BY <1>1 DEF PoolTypeOK, EachTaskInOnePlace
<1>3. PoolTypeOK'
    BY <1>1, <1>2 DEF PoolTypeOK, TaskState
<1>4. EachTaskInOnePlace'
  <2>1. \A t \in Task : (task[t] = "submitting" <=> submitting = t)'
      BY <1>2 DEF PoolTypeOK, EachTaskInOnePlace
  <2>2. \A t \in Task : (task[t] = "queued" <=> \E i \in 1..Len(queue) : queue[i] = t)'
    <3> SUFFICES ASSUME NEW t \in Task
                 PROVE  (task[t] = "queued" <=> \E i \in 1..Len(queue) : queue[i] = t)'
        OBVIOUS
    <3>1. CASE t = Head(queue)
        BY <1>1, <1>2, <3>1 DEF PoolTypeOK, EachTaskInOnePlace
    <3>2. CASE t # Head(queue)
      <4>1. (\E i \in 1..Len(queue) : queue[i] = t)
              <=> \E i \in 1..Len(Tail(queue)) : Tail(queue)[i] = t
        <5>1. ASSUME NEW i \in 1..Len(queue), queue[i] = t
              PROVE  \E k \in 1..Len(Tail(queue)) : Tail(queue)[k] = t
          <6>1. i # 1
              BY <1>1, <3>2, <5>1
          <6>2. i - 1 \in 1..Len(Tail(queue)) /\ Tail(queue)[i - 1] = queue[i]
              BY <1>1, <6>1
          <6> QED
              BY <5>1, <6>2
        <5>2. ASSUME NEW i \in 1..Len(Tail(queue)), Tail(queue)[i] = t
              PROVE  \E k \in 1..Len(queue) : queue[k] = t
          <6>1. i + 1 \in 1..Len(queue) /\ queue[i + 1] = t
              BY <1>1, <5>2
          <6> QED
              BY <6>1
        <5> QED
            BY <5>1, <5>2
      <4>2. task'[t] = task[t]
          BY <3>2 DEF PoolTypeOK
      <4> QED
          BY <4>1, <4>2 DEF EachTaskInOnePlace
    <3> QED
        BY <3>1, <3>2
  <2>3. \A t \in Task : (task[t] \in {"picked", "running"} <=> \E v \in alive : job[v] = t)'
      BY <1>2 DEF PoolTypeOK, EachTaskInOnePlace
  <2>4. (\A i, j \in 1..Len(queue) : queue[i] = queue[j] => i = j)'
      BY <1>1 DEF PoolTypeOK, EachTaskInOnePlace
  <2>5. (\A u, v \in alive : job[u] = job[v] /\ job[u] # NoTask => u = v)'
      BY <1>2 DEF PoolTypeOK, EachTaskInOnePlace
  <2> QED
      BY <2>1, <2>2, <2>3, <2>4, <2>5 DEF EachTaskInOnePlace
<1>5. QueueImpliesSaturation' /\ ErrorHasCause'
    BY <1>2 DEF PoolTypeOK, QueueImpliesSaturation, ErrorHasCause
<1>6. BoundedStragglers'
    BY <1>2 DEF PoolTypeOK, BoundedStragglers, Busy, EachTaskInOnePlace
<1>7. BlockedSubmitterHasWaker'
    BY DEF BlockedSubmitterHasWaker
<1> QED
    BY <1>3, <1>4, <1>5, <1>6, <1>7

\* A task starts.
LEMMA StartTaskInv ==
  ASSUME PoolInv, NEW w \in Worker, StartTask(w)
  PROVE  PoolInv'
  BY DEF StartTask, PoolInv, PoolTypeOK, TaskState, EachTaskInOnePlace,
         QueueImpliesSaturation, ErrorHasCause, BoundedStragglers, Busy,
         BlockedSubmitterHasWaker

\* A task of a cancelled group is skipped.
LEMMA SkipTaskInv ==
  ASSUME PoolInv, NEW w \in Worker, SkipTask(w)
  PROVE  PoolInv'
  BY DEF SkipTask, PoolInv, PoolTypeOK, TaskState, EachTaskInOnePlace,
         QueueImpliesSaturation, ErrorHasCause, BoundedStragglers, Busy,
         BlockedSubmitterHasWaker

\* A task returns.
LEMMA FinishTaskInv ==
  ASSUME PoolInv, NEW w \in Worker, NEW ok \in BOOLEAN, FinishTask(w, ok)
  PROVE  PoolInv'
  BY DEF FinishTask, PoolInv, PoolTypeOK, TaskState, EachTaskInOnePlace,
         QueueImpliesSaturation, ErrorHasCause, BoundedStragglers, Busy,
         BlockedSubmitterHasWaker

\* Every step of the pool itself preserves the invariants.
LEMMA PoolStepInv ==
  ASSUME PoolInv, PoolStep
  PROVE  PoolInv'
  BY QueueFullInv, EnqueueInv, WakeSubmitterInv, LaunchWorkerInv, ExitWorkerInv,
     ReadTaskInv, StartTaskInv, SkipTaskInv DEF PoolStep

\* A step of the client that leaves the pool alone preserves them too.
LEMMA PoolStutterInv ==
  ASSUME PoolInv, UNCHANGED poolVars
  PROVE  PoolInv'
  BY DEF poolVars, PoolInv, PoolTypeOK, EachTaskInOnePlace, QueueImpliesSaturation,
         ErrorHasCause, BoundedStragglers, Busy, BlockedSubmitterHasWaker

\* A submitted task that has not started.
Early(t) == task[t] \in {"submitting", "queued", "picked"}

\* The pool moves tasks towards "running"; it lets none run that was not
\* picked, touches none that runs, and skips one at a time after an error.
LEMMA PoolStepEffect ==
  ASSUME PoolInv, PoolStep
  PROVE  /\ groupErr' = groupErr
         /\ submitting' \in {submitting, NoTask}
         /\ \A t \in Task :
              \/ task'[t] = task[t]
              \/ Early(t) /\ \/ Early(t)'
                             \/ task'[t] = "running"
                             \/ /\ task'[t] = "skipped" /\ groupErr # NoTask
                                /\ task' = [task EXCEPT ![t] = "skipped"]
<1> USE DEF PoolInv, PoolTypeOK, TaskState, Early, EachTaskInOnePlace
<1>1. CASE QueueFull
    BY <1>1 DEF QueueFull
<1>2. CASE Enqueue
    BY <1>2 DEF Enqueue
<1>3. CASE WakeSubmitter
    BY <1>3 DEF WakeSubmitter
<1>4. ASSUME NEW w \in Worker, LaunchWorker(w)
      PROVE  /\ groupErr' = groupErr
             /\ submitting' \in {submitting, NoTask}
             /\ \A t \in Task : task'[t] = task[t] \/ (Early(t) /\ Early(t)')
  <2>1. queue = << >>
      BY <1>4 DEF LaunchWorker, QueueImpliesSaturation
  <2>2. Head(Append(queue, submitting)) = submitting
      BY <1>4, <2>1 DEF LaunchWorker
  <2> QED
      BY <1>4, <2>2 DEF LaunchWorker
<1>5. ASSUME NEW w \in Worker, ExitWorker(w)
      PROVE  groupErr' = groupErr /\ submitting' = submitting /\ task' = task
    BY <1>5 DEF ExitWorker
<1>6. ASSUME NEW w \in Worker, ReadTask(w)
      PROVE  /\ groupErr' = groupErr
             /\ submitting' = submitting
             /\ \A t \in Task : task'[t] = task[t] \/ (Early(t) /\ Early(t)')
  <2>1. Head(queue) = queue[1] /\ 1 \in 1..Len(queue) /\ Head(queue) \in Task
      BY <1>6 DEF ReadTask
  <2>2. task[Head(queue)] = "queued"
      BY <2>1
  <2> QED
      BY <1>6, <2>1, <2>2 DEF ReadTask
<1>7. ASSUME NEW w \in Worker, StartTask(w)
      PROVE  /\ groupErr' = groupErr
             /\ submitting' = submitting
             /\ \A t \in Task : task'[t] = task[t] \/ (Early(t) /\ task'[t] = "running")
    BY <1>7 DEF StartTask, Busy
<1>8. ASSUME NEW w \in Worker, SkipTask(w)
      PROVE  /\ groupErr' = groupErr
             /\ submitting' = submitting
             /\ \A t \in Task : task'[t] = task[t]
                    \/ /\ Early(t) /\ task'[t] = "skipped" /\ groupErr # NoTask
                       /\ task' = [task EXCEPT ![t] = "skipped"]
    BY <1>8, ZenonT(60) DEF SkipTask, Busy
<1> QED
    BY <1>1, <1>2, <1>3, <1>4, <1>5, <1>6, <1>7, <1>8 DEF PoolStep

\* The pool behaves, with any client: tasks are neither lost nor executed
\* twice, the queue is only used by a saturated pool, no wakeup of the
\* submitter is lost, and an error stops all but the tasks under way.
THEOREM PoolCorrect == PoolSpec => []PoolInv
<1>1. PoolInit => PoolInv
    BY PoolInitInv
<1>2. PoolInv /\ [PoolNext]_poolVars => PoolInv'
    BY PoolStepInv, SubmitInv, FinishTaskInv, PoolStutterInv DEF PoolNext
<1> QED
    BY <1>1, <1>2, PTL DEF PoolSpec

\* Accepted tasks wait in the queue only while every worker is alive.
THEOREM PoolSaturation == PoolSpec => []QueueImpliesSaturation
<1>1. PoolInv => QueueImpliesSaturation
    BY DEF PoolInv
<1> QED
    BY <1>1, PoolCorrect, PTL

\* After the first error at least one worker executes nothing.
THEOREM PoolStragglers == PoolSpec => []BoundedStragglers
<1>1. PoolInv => BoundedStragglers
    BY DEF PoolInv
<1> QED
    BY <1>1, PoolCorrect, PTL

\* No task is lost between two places and none is executed twice.
THEOREM PoolNoLoss == PoolSpec => []EachTaskInOnePlace
<1>1. PoolInv => EachTaskInOnePlace
    BY DEF PoolInv
<1> QED
    BY <1>1, PoolCorrect, PTL
=============================================================================
