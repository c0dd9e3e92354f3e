------------------------ MODULE MCWorkflowExecution ------------------------
\* Instances of WorkflowExecution for TLC.
EXTENDS WorkflowExecution, TLC

CONSTANTS a1, a2, n1

\* a2 is a retry of a1, or a callback that was asked for in its call.
Calls1 == a1 :> n1 @@ a2 :> n1
Before1 == a1 :> {} @@ a2 :> {a1}
=============================================================================
