----------------------------- MODULE MCTaskPool -----------------------------
(* Model values for TaskPool: two workers, a queue of one, five tasks, so  *)
(* that the queue fills and the submitter blocks while workers run.        *)
EXTENDS TaskPool
=============================================================================
