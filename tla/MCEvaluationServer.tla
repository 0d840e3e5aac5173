------------------------- MODULE MCEvaluationServer -------------------------
(***************************************************************************)
(* Two runtimes of one experiment that share an OAuth session.             *)
(***************************************************************************)
EXTENDS EvaluationServer
=============================================================================
