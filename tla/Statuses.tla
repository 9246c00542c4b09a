------------------------------ MODULE Statuses ------------------------------
(***************************************************************************)
(* The state vocabularies of AgentForge and the two transition tables that *)
(* the fold enforces (core/domain/enums.py).  Every other module that      *)
(* changes a workflow or a step status takes its guard from here.          *)
(***************************************************************************)

WorkflowStatuses ==
  {"pending", "running", "paused", "waiting_approval", "retrying", "failed",
   "dead_lettered", "completed", "rolled_back"}

StepStatuses ==
  {"pending", "ready", "running", "waiting_approval", "completed", "failed",
   "skipped", "compensated"}

OnFailurePolicies == {"pause", "rollback", "dead_letter", "escalate"}

TerminalWorkflowStatuses == {"completed", "rolled_back"}

\* WORKFLOW_TRANSITIONS: the statuses each workflow status may move to.
WorkflowTransitions ==
  [s \in WorkflowStatuses |->
     CASE s = "pending" -> {"running", "paused", "failed", "rolled_back"}
       [] s = "running" -> {"paused", "waiting_approval", "retrying", "failed",
                            "completed", "dead_lettered", "rolled_back"}
       [] s = "retrying" -> {"running", "failed", "dead_lettered"}
       [] s = "paused" -> {"running", "rolled_back", "failed"}
       [] s = "waiting_approval" -> {"running", "rolled_back", "failed", "dead_lettered"}
       [] s = "failed" -> {"running", "retrying", "rolled_back", "dead_lettered"}
       [] s = "dead_lettered" -> {"running"}
       [] OTHER -> {}]

\* STEP_TRANSITIONS: the statuses each step status may move to.
StepTransitions ==
  [s \in StepStatuses |->
     CASE s = "pending" -> {"ready", "skipped"}
       [] s = "ready" -> {"running", "skipped", "waiting_approval"}
       [] s = "running" -> {"completed", "failed", "waiting_approval", "ready"}
       [] s = "waiting_approval" -> {"ready", "running", "completed", "skipped", "failed"}
       [] s = "failed" -> {"ready", "running", "skipped", "compensated", "waiting_approval"}
       [] s = "completed" -> {"compensated", "waiting_approval"}
       [] OTHER -> {}]

WorkflowTransitionAllowed(src, dst) == dst \in WorkflowTransitions[src]

\* Unlike the workflow table, a step may be moved to the status it already has.
StepTransitionAllowed(src, dst) == src = dst \/ dst \in StepTransitions[src]

\* _RUNNABLE_STATUSES of the lease store: the statuses a worker may claim.
RunnableStatuses == {"pending", "running", "retrying"}

\* _DONE and _SETTLED of the driver: a dependency that no longer blocks its
\* successors, and a step that no longer keeps its workflow from completing.
Done == {"completed", "skipped"}
Settled == {"completed", "skipped", "compensated"}
=============================================================================
