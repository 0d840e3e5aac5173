---------------------------- MODULE MCWorkflowJobs ----------------------------
(***************************************************************************)
(* An instance of WorkflowJobs for TLC: a launcher, its worker, a          *)
(* foreground run and the kill switch contend for one workflow.            *)
(***************************************************************************)
EXTENDS WorkflowJobs, TLC

CONSTANTS l1, f1

OneLauncher == {l1}
OneForeground == {f1}
=============================================================================
