------------------------------ MODULE TaskPool ------------------------------
(***************************************************************************)
(* The goroutine pool and task group of github.com/alitto/pond/v2, as      *)
(* acr-cli uses them: one goroutine submits tasks to one group of one      *)
(* blocking pool (WithNonBlocking(false), a bounded queue) and then waits   *)
(* for the group.  GetUntaggedManifests, the Purger and the Annotator are  *)
(* such clients; what a task does between its start and its end is theirs. *)
(*                                                                         *)
(* A step under the pool's mutex is one action.  The notification of a     *)
(* blocked submitter, which follows the unlock, is part of the step: its   *)
(* effect is to fill a one-place channel, which only the submitter drains. *)
(***************************************************************************)
EXTENDS Naturals, Sequences

CONSTANTS
    Task,       \* the tasks of the group
    Worker,     \* the worker goroutines the pool may run at once
    QueueSize,  \* how many tasks the queue holds
    NoTask      \* not a task

ASSUME PoolAssumption ==
    /\ QueueSize \in Nat \ {0}
    /\ NoTask \notin Task
    /\ Worker # {}

VARIABLES
    queue,        \* pool.tasks: accepted and not yet read by a worker
    alive,        \* the workers pool.workerCount counts
    job,          \* the task a worker executes, NoTask between two tasks
    task,         \* how far each task is
    submitting,   \* the task group.submit is called with, or NoTask
    waiting,      \* the submitter blocks on pool.submitWaiters
    submitWaiter, \* the one-place channel pool.submitWaiters holds a token
    groupErr      \* the task whose error cancelled the group, or NoTask

poolVars == <<queue, alive, job, task, submitting, waiting, submitWaiter, groupErr>>

TaskState == {"new", "submitting", "queued", "picked", "running",
              "ok", "failed", "skipped"}

\* A task is settled once its deferred taskWaitGroup.Done() has run.
Settled(t) == task[t] \in {"ok", "failed", "skipped"}

Busy(w) == w \in alive /\ job[w] # NoTask

PoolTypeOK ==
    /\ queue \in Seq(Task)
    /\ alive \in SUBSET Worker
    /\ job \in [Worker -> Task \cup {NoTask}]
    /\ task \in [Task -> TaskState]
    /\ submitting \in Task \cup {NoTask}
    /\ waiting \in BOOLEAN
    /\ submitWaiter \in BOOLEAN
    /\ groupErr \in Task \cup {NoTask}

PoolInit ==
    /\ queue = << >>
    /\ alive = {}
    /\ job = [w \in Worker |-> NoTask]
    /\ task = [t \in Task |-> "new"]
    /\ submitting = NoTask
    /\ waiting = FALSE
    /\ submitWaiter = FALSE
    /\ groupErr = NoTask

-----------------------------------------------------------------------------
(***************************************************************************)
(* The submitting goroutine.                                               *)
(***************************************************************************)

\* group.submit counts the task in its wait group, then calls pool.submit.
Submit(t) ==
    /\ submitting = NoTask
    /\ task[t] = "new"
    /\ submitting' = t
    /\ task' = [task EXCEPT ![t] = "submitting"]
    /\ UNCHANGED <<queue, alive, job, waiting, submitWaiter, groupErr>>

\* The channel's one place is filled, or is full already.
notifySubmitWaiter == submitWaiter' = TRUE

\* trySubmit: ErrQueueFull, and blockingTrySubmit turns to the channel.
QueueFull ==
    /\ submitting # NoTask /\ ~waiting
    /\ Len(queue) >= QueueSize
    /\ waiting' = TRUE
    /\ UNCHANGED <<queue, alive, job, task, submitting, submitWaiter, groupErr>>

\* Mutant: a task is left in the queue although a worker could be launched.
EnqueueOnly ==
    /\ submitting # NoTask /\ ~waiting
    /\ Len(queue) < QueueSize
    /\ queue' = Append(queue, submitting)
    /\ task' = [task EXCEPT ![submitting] = "queued"]
    /\ submitting' = NoTask
    /\ UNCHANGED <<alive, job, waiting, submitWaiter, groupErr>>

\* trySubmit: every worker is busy, the task goes to the back of the queue.
Enqueue ==
    /\ submitting # NoTask /\ ~waiting
    /\ Len(queue) < QueueSize
    /\ alive = Worker
    /\ queue' = Append(queue, submitting)
    /\ task' = [task EXCEPT ![submitting] = "queued"]
    /\ submitting' = NoTask
    /\ UNCHANGED <<alive, job, waiting, submitWaiter, groupErr>>

\* trySubmit: a new worker w starts with the oldest task there is.
LaunchWorker(w) ==
    LET pending == Append(queue, submitting)
    IN  /\ submitting # NoTask /\ ~waiting
        /\ Len(queue) < QueueSize
        /\ w \in Worker \ alive
        /\ alive' = alive \cup {w}
        /\ job' = [job EXCEPT ![w] = Head(pending)]
        /\ queue' = Tail(pending)
        /\ task' = [task EXCEPT ![submitting] = "queued", ![Head(pending)] = "picked"]
        /\ submitting' = NoTask
        /\ notifySubmitWaiter
        /\ UNCHANGED <<waiting, groupErr>>

\* blockingTrySubmit receives a token and tries again.
WakeSubmitter ==
    /\ waiting /\ submitWaiter
    /\ waiting' = FALSE
    /\ submitWaiter' = FALSE
    /\ UNCHANGED <<queue, alive, job, task, submitting, groupErr>>

-----------------------------------------------------------------------------
(***************************************************************************)
(* The workers.                                                            *)
(***************************************************************************)

\* readTask on an empty queue: the worker exits.
ExitWorker(w) ==
    /\ w \in alive /\ job[w] = NoTask
    /\ queue = << >>
    /\ alive' = alive \ {w}
    /\ notifySubmitWaiter
    /\ UNCHANGED <<queue, job, task, submitting, waiting, groupErr>>

\* readTask: the worker takes the task at the front of the queue.
ReadTask(w) ==
    /\ w \in alive /\ job[w] = NoTask
    /\ queue # << >>
    /\ job' = [job EXCEPT ![w] = Head(queue)]
    /\ task' = [task EXCEPT ![Head(queue)] = "picked"]
    /\ queue' = Tail(queue)
    /\ notifySubmitWaiter
    /\ UNCHANGED <<alive, submitting, waiting, groupErr>>

\* Mutant: tasks start after the group's context was cancelled.
StartAlways(w) ==
    /\ Busy(w) /\ task[job[w]] = "picked"
    /\ task' = [task EXCEPT ![job[w]] = "running"]
    /\ UNCHANGED <<queue, alive, job, submitting, waiting, submitWaiter, groupErr>>

\* The wrapper group.submit put around the task finds the group's context
\* alive and invokes the task.
StartTask(w) ==
    /\ Busy(w) /\ task[job[w]] = "picked"
    /\ groupErr = NoTask
    /\ task' = [task EXCEPT ![job[w]] = "running"]
    /\ UNCHANGED <<queue, alive, job, submitting, waiting, submitWaiter, groupErr>>

\* Mutant: the early return of the wrapper comes before its deferred Done.
SkipWithoutDone(w) ==
    /\ Busy(w) /\ task[job[w]] = "picked"
    /\ groupErr # NoTask
    /\ job' = [job EXCEPT ![w] = NoTask]
    /\ UNCHANGED <<queue, alive, task, submitting, waiting, submitWaiter, groupErr>>

\* The wrapper finds the context cancelled and settles the task unexecuted.
SkipTask(w) ==
    /\ Busy(w) /\ task[job[w]] = "picked"
    /\ groupErr # NoTask
    /\ task' = [task EXCEPT ![job[w]] = "skipped"]
    /\ job' = [job EXCEPT ![w] = NoTask]
    /\ UNCHANGED <<queue, alive, submitting, waiting, submitWaiter, groupErr>>

\* The task returns; the first error cancels the group's context with its
\* cause, and the task leaves the wait group.
FinishTask(w, ok) ==
    /\ Busy(w) /\ task[job[w]] = "running"
    /\ task' = [task EXCEPT ![job[w]] = IF ok THEN "ok" ELSE "failed"]
    /\ groupErr' = IF ~ok /\ groupErr = NoTask THEN job[w] ELSE groupErr
    /\ job' = [job EXCEPT ![w] = NoTask]
    /\ UNCHANGED <<queue, alive, submitting, waiting, submitWaiter>>

\* Mutant: the future is resolved by an error, and that is enough.
FutureResolved ==
    groupErr # NoTask \/ \A t \in Task : task[t] = "new" \/ Settled(t)

\* TaskGroup.Wait: the future is resolved (every task, or the first error)
\* and the wait group is at zero.  Its error is then groupErr's.
GroupDone == \A t \in Task : task[t] = "new" \/ Settled(t)

-----------------------------------------------------------------------------
(***************************************************************************)
(* What the pool does by itself, for the modules that compose it: all of   *)
(* the above but Submit and FinishTask, which belong to the client.        *)
(***************************************************************************)
PoolStep ==
    \/ QueueFull
    \/ Enqueue
    \/ WakeSubmitter
    \/ \E w \in Worker : \/ LaunchWorker(w)
                         \/ ExitWorker(w)
                         \/ ReadTask(w)
                         \/ StartTask(w)
                         \/ SkipTask(w)

\* The Go scheduler runs every runnable goroutine.
PoolFairness ==
    /\ WF_poolVars(QueueFull)
    /\ WF_poolVars(Enqueue)
    /\ WF_poolVars(WakeSubmitter)
    /\ WF_poolVars(\E w \in Worker : LaunchWorker(w))
    /\ \A w \in Worker : /\ WF_poolVars(ExitWorker(w))
                         /\ WF_poolVars(ReadTask(w))
                         /\ WF_poolVars(StartTask(w))
                         /\ WF_poolVars(SkipTask(w))

(***************************************************************************)
(* The pool with a client that submits any tasks, each of which returns.   *)
(***************************************************************************)
PoolNext ==
    \/ PoolStep
    \/ \E t \in Task : Submit(t)
    \/ \E w \in Worker, ok \in BOOLEAN : FinishTask(w, ok)

PoolSpec ==
    /\ PoolInit
    /\ [][PoolNext]_poolVars
    /\ PoolFairness
    /\ \A w \in Worker : WF_poolVars(\E ok \in BOOLEAN : FinishTask(w, ok))

-----------------------------------------------------------------------------
(***************************************************************************)
(* Properties.                                                             *)
(***************************************************************************)

\* A task waits in the queue only while the pool is saturated: readTask lets
\* a worker exit, and trySubmit passes over an idle worker, only when that
\* leaves no accepted task behind.
QueueImpliesSaturation == queue # << >> => alive = Worker

\* Every task that is counted in the wait group and not settled is in
\* exactly one place (the submitter's hand, one queue position, one worker),
\* and that place agrees with its state: none is lost or executed twice.
EachTaskInOnePlace ==
    /\ \A t \in Task :
        /\ task[t] = "submitting" <=> submitting = t
        /\ task[t] = "queued" <=> \E i \in 1..Len(queue) : queue[i] = t
        /\ task[t] \in {"picked", "running"} <=> \E w \in alive : job[w] = t
    /\ \A i, j \in 1..Len(queue) : queue[i] = queue[j] => i = j
    /\ \A v, w \in alive : job[v] = job[w] /\ job[v] # NoTask => v = w

\* The group reports a task that did fail, and cancels nothing while no task
\* has failed.
ErrorHasCause ==
    /\ groupErr # NoTask => task[groupErr] = "failed"
    /\ groupErr = NoTask => \A t \in Task : task[t] \notin {"failed", "skipped"}

\* Once a task has failed, the tasks still executing are those that were
\* already started on the other workers: one worker at least executes none.
BoundedStragglers ==
    groupErr # NoTask =>
        \E w \in Worker : ~(Busy(w) /\ task[job[w]] = "running")

\* No wakeup is lost: a submitter that found the queue full and has no token
\* to receive still has a worker that will release a slot and send one.
BlockedSubmitterHasWaker ==
    waiting /\ ~submitWaiter => alive # {} /\ Len(queue) >= QueueSize

\* Every submitted task settles: the blocked submitter is woken, the queue is
\* drained and, after an error, the rest is skipped.
EveryTaskSettles == \A t \in Task : task[t] = "submitting" ~> Settled(t)
=============================================================================
