--------------------------- MODULE MCPatchFilter ---------------------------
(* Repositories "a" and "a-b"; tags "1.0", its patches, "100" (which the   *)
(* expression 1.0 matches too), "1.0.1" (which matches "1.0-1" too),       *)
(* "b-1.0" (whose key in "a" is that of "1.0" in "a-b").  The calls have   *)
(* one or two entries, at most one of them with faults.                    *)
EXTENDS PatchFilter, TLC

CONSTANTS a, b, dot, dots, hundred, patched, patched2, star, na

Name0 == <<dot>>

Texts == << Name0, <<dot, 1>>, <<dot, 10>>, <<dot, 2>>, <<dot, patched>>, <<dot, patched2>>,
            <<dots>>, <<hundred>>, <<hundred, 3>>, <<b, dot>>, <<b, dot, 1>> >>

Dots == {<<Name0, <<hundred>>>>, <<<<b, dot>>, <<b, hundred>>>>, <<<<dots>>, <<dot, 1>>>>}

A == <<a>>
AB == <<a, b>>

E(r, ts) == [repo |-> r, tags |-> ts, enabled |-> TRUE]

Base ==
    [ dryRun |-> TRUE, policy |-> TRUE, file |-> FALSE, faults |-> FALSE,
      version |-> "v1", convention |-> "",
      entries |-> <<E(A, <<Name0>>)>>,
      tags |-> (A :> {Name0, <<dot, 1>>, <<dot, 10>>, <<dot, 2>>, <<hundred, 3>>})
               @@ (AB :> {Name0, <<b, dot, 1>>}) ]

Mixed == {Name0, <<dot, 2>>, <<dot, patched>>, <<dot, patched2>>, <<hundred>>}

Refused ==
    {[Base EXCEPT !.dryRun = FALSE], [Base EXCEPT !.file = TRUE],
     [Base EXCEPT !.policy = FALSE], [Base EXCEPT !.version = ""],
     [Base EXCEPT !.convention = "other"], [Base EXCEPT !.entries = << >>],
     [Base EXCEPT !.entries = <<E(<< >>, <<Name0>>)>>, !.tags = (<< >> :> {}) @@ @],
     [Base EXCEPT !.entries = <<E(A, << >>)>>],
     [Base EXCEPT !.entries = <<E(A, <<<< >>>>)>>],
     [Base EXCEPT !.entries = <<E(A, <<<<dot, 1>>>>)>>],
     [Base EXCEPT !.entries = <<E(A, <<<<dot, patched>>>>)>>, !.convention = "floating"]}

Answered ==
    {[Base EXCEPT !.entries = <<E(A, ts)>>, !.faults = f] :
        ts \in {<<Name0>>, <<<<star>>>>, <<Name0, <<star>>>>}, f \in BOOLEAN}
    \cup {[Base EXCEPT !.entries = <<E(A, ts)>>, !.convention = "floating", !.tags[A] = Mixed] :
            ts \in {<<Name0>>, <<<<star>>>>}}
    \cup {[Base EXCEPT !.entries = <<E(A, <<Name0, <<hundred>>>>), [E(A, <<<<star>>>>) EXCEPT !.enabled = FALSE],
                                     E(AB, <<Name0>>)>>],
          [Base EXCEPT !.entries = <<E(A, <<<<star>>>>), E(AB, <<<<star>>>>)>>,
                       !.tags[A] = {<<b, dot>>, <<dot, 1>>}, !.tags[AB] = {Name0}],
          [Base EXCEPT !.entries = <<E(A, <<Name0>>), E(A, <<<<star>>>>)>>,
                       !.tags[A] = {Name0, <<dot, 1>>}],
          [Base EXCEPT !.entries = <<E(A, <<<<dots>>>>)>>,
                       !.tags[A] = {<<dot, 1>>, <<dot, 2>>, <<dots>>}],
          [Base EXCEPT !.tags[A] = {}]}

AllCalls == Refused \cup Answered
=============================================================================
