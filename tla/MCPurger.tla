------------------------------ MODULE MCPurger ------------------------------
(* Model values for Purger.  Three items and two workers: two tasks run    *)
(* and one waits when the first fails.  The requests of two items may      *)
(* fail, one of which other clients are interested in; one item is         *)
(* undisturbed.                                                            *)
EXTENDS Purger
=============================================================================
