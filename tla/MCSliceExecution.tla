--------------------------- MODULE MCSliceExecution ---------------------------
(* Two executors of one workflow with two slices.                           *)
EXTENDS SliceExecution, TLC

CONSTANTS w1, e1, e2

OneWorkflow == {w1}
TwoExecutors == {e1, e2}
SameWorkflow == [e \in Executors |-> w1]
TwoSlices == {1, 2}
\* The slices depend on each other against the order of their IDs.
Chain == [s \in Slices |-> {r \in Slices : r > s}]

Alike == Permutations({e1, e2})
=============================================================================
