----------------------------- MODULE PurgeBatch -----------------------------
(***************************************************************************)
(* What Purger.PurgeTags and Purger.PurgeManifests (internal/worker)       *)
(* promise for one batch of tags or manifests: each item is settled once,  *)
(* items are given up only because of an error, and the call returns when  *)
(* all are settled, with the number deleted and an error if there was one. *)
(***************************************************************************)
EXTENDS Naturals, FiniteSets

CONSTANT Item

VARIABLES
    fate,     \* what became of each item
    outcome,  \* "running", then "ok" or "error"
    reported  \* the number of deleted items the call returns

batchVars == <<fate, outcome, reported>>

Fate == {"pending", "deleted", "refused", "failed", "cancelled"}

With(f) == {i \in Item : fate[i] = f}

BatchInit ==
    /\ fate = [i \in Item |-> "pending"]
    /\ outcome = "running"
    /\ reported = 0

Settle(i) ==
    /\ outcome = "running"
    /\ fate[i] = "pending"
    /\ \E f \in Fate \ {"pending"} :
        /\ f = "cancelled" => With("failed") # {}
        /\ fate' = [fate EXCEPT ![i] = f]
    /\ UNCHANGED <<outcome, reported>>

ReturnBatch ==
    /\ outcome = "running"
    /\ With("pending") = {}
    /\ outcome' = IF With("failed") = {} THEN "ok" ELSE "error"
    /\ reported' = Cardinality(With("deleted"))
    /\ UNCHANGED fate

BatchSpec == BatchInit /\ [][ReturnBatch \/ \E i \in Item : Settle(i)]_batchVars
=============================================================================
