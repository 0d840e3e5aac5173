--------------------------- MODULE MCEvaluationRun ---------------------------
(* A plain sample whose agent may delegate, or a managed one that asks and  *)
(* then waits for a turn of the plugin, and somebody who opens a session.  *)
EXTENDS EvaluationRun

MCDelegates == [plain |-> {"child"}, managed |-> {}]
MCAnswers == [plain |-> 0, managed |-> 1]
=============================================================================
