--------------------------- MODULE MCWorkflowStore ---------------------------
(* A small instance of WorkflowStore: interchangeable clients and keys.      *)
EXTENDS WorkflowStore, TLC

Symmetry == Permutations(Clients) \cup Permutations(Keys)
=============================================================================
