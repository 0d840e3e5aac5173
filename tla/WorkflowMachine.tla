--------------------------- MODULE WorkflowMachine ---------------------------
(***************************************************************************)
(* The legality table of a workflow's lifecycle                            *)
(* (internal/workflow/types.go, internal/workflow/machine.go).  It has no  *)
(* state: the modules that own a workflow row take the states and          *)
(* CanTransition from here.                                                *)
(***************************************************************************)

\* The empty ResumeTarget of a row that is not blocked.
NoState == ""

States == {"created", "discovering", "ready", "executing", "verifying",
           "candidate_frozen", "reviewing", "receipted", "delivered", "blocked",
           "replan_required", "integration_conflict", "aborted", "failed"}

\* forwardTransitions: the edges that need no further justification.
Forward == {<<"created", "discovering">>,
            <<"discovering", "ready">>,
            <<"ready", "executing">>,
            <<"executing", "verifying">>,
            <<"executing", "integration_conflict">>,
            <<"verifying", "candidate_frozen">>,
            <<"candidate_frozen", "reviewing">>,
            <<"reviewing", "receipted">>,
            <<"receipted", "delivered">>,
            <<"integration_conflict", "ready">>,
            <<"replan_required", "discovering">>,
            <<"replan_required", "ready">>,
            <<"replan_required", "verifying">>}

Terminal == {"delivered", "aborted", "failed"}

NonTerminal == States \ Terminal

Blockable == {"discovering", "ready", "executing", "verifying",
              "candidate_frozen", "reviewing", "receipted"}

Replannable == Blockable \cup {"blocked"}

\* CanTransition(from, to, resumeTarget).  A blocked workflow returns only to
\* the state it was blocked in, or to integration_conflict.
CanTransition(from, to, resume) ==
  \/ <<from, to>> \in Forward
  \/ from \in Blockable /\ to = "blocked"
  \/ from \in Replannable /\ to = "replan_required"
  \/ from \in NonTerminal /\ to \in {"aborted", "failed"}
  \/ from = "blocked" /\ to = resume /\ to \in Blockable
  \/ from = "blocked" /\ to # resume /\ to = "integration_conflict"
=============================================================================
