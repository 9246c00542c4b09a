-------------------------------- MODULE Fold --------------------------------
(***************************************************************************)
(* The events of core/events/types.py and fold of core/events/fold.py: how *)
(* a batch of events changes an instance, or is refused as a whole.  The   *)
(* instance is the record of module Engine.  An escalation's id is its     *)
(* place among the escalations of the instance.  The references to side    *)
(* effects are in module SideEffects, the recorded model calls in module   *)
(* Spending; context, tokens, times and texts are left out.                *)
(***************************************************************************)
EXTENDS Integers, Sequences, SequencesExt, Statuses

InstanceStatusChanged(from, to) ==
  [type |-> "InstanceStatusChanged", from |-> from, to |-> to]

InstanceCompleted == [type |-> "InstanceCompleted"]

WorkflowRequeued(s) == [type |-> "WorkflowRequeued", step |-> s]

WorkflowBudgetAdjusted(limit) == [type |-> "WorkflowBudgetAdjusted", limit |-> limit]

StepStatusChanged(s, from, to) ==
  [type |-> "StepStatusChanged", step |-> s, from |-> from, to |-> to]

StepStarted(s, attempt) == [type |-> "StepStarted", step |-> s, attempt |-> attempt]

StepCompleted(s) == [type |-> "StepCompleted", step |-> s]

StepFailed(s, error) == [type |-> "StepFailed", step |-> s, error |-> error]

StepRetryScheduled(s) == [type |-> "StepRetryScheduled", step |-> s]

StepCompensated(s) == [type |-> "StepCompensated", step |-> s]

\* step 0: a workflow-level escalation, which carries no step.
EscalationRaised(s, reason, deadline, action) ==
  [type |-> "EscalationRaised", step |-> s, reason |-> reason, deadline |-> deadline,
   action |-> action]

EscalationResolved(e, resolution) ==
  [type |-> "EscalationResolved", id |-> e, resolution |-> resolution]

EscalationTimedOut(e, action) ==
  [type |-> "EscalationTimedOut", id |-> e, resolution |-> action]

CostCharged(s, amount) == [type |-> "CostCharged", step |-> s, amount |-> amount]

BudgetExceeded(s) == [type |-> "BudgetExceeded", step |-> s]
-----------------------------------------------------------------------------
(***************************************************************************)
(* The handlers.                                                           *)
(***************************************************************************)

\* InvalidStateTransition or EventStreamError: the append is rolled back.
Rejected == [rejected |-> TRUE]

SetStepStatus(i, s, target) ==
  IF StepTransitionAllowed(i.st[s], target) THEN [i EXCEPT !.st[s] = target] ELSE Rejected

SetWorkflowStatus(i, target) ==
  IF i.status = target \/ WorkflowTransitionAllowed(i.status, target)
  THEN [i EXCEPT !.status = target] ELSE Rejected

OnWfStatus(i, e) == IF e.from = i.status THEN SetWorkflowStatus(i, e.to) ELSE Rejected

OnCompleted(i, e) == SetWorkflowStatus(i, "completed")

\* The step is reset whatever its status is.
OnRequeued(i, e) ==
  SetWorkflowStatus([i EXCEPT !.st[e.step] = "ready", !.att[e.step] = 0,
                              !.retry[e.step] = "none", !.err[e.step] = "none"], "running")

OnBudgetAdjusted(i, e) == [i EXCEPT !.limit = e.limit]

OnStepStatus(i, e) ==
  IF e.from = i.st[e.step] THEN SetStepStatus(i, e.step, e.to) ELSE Rejected

OnStepStarted(i, e) ==
  SetStepStatus([i EXCEPT !.att[e.step] = e.attempt, !.retry[e.step] = "none"],
                e.step, "running")

OnStepCompleted(i, e) == SetStepStatus([i EXCEPT !.out[e.step] = TRUE], e.step, "completed")

OnStepFailed(i, e) == SetStepStatus([i EXCEPT !.err[e.step] = e.error], e.step, "failed")

\* run_at is in the future when the event is written.
OnRetryScheduled(i, e) == [i EXCEPT !.retry[e.step] = "later"]

OnStepCompensated(i, e) == SetStepStatus(i, e.step, "compensated")

OnCost(i, e) == [i EXCEPT !.spent = @ + e.amount]

\* Only the error history, which nothing reads, grows.
OnBudgetExceeded(i, e) == i

\* The row that _project_escalations inserts, which carries the fields of the
\* instance's EscalationRef; answers is a history of the row's resolutions.
PendingRow(e) ==
  [step |-> e.step, reason |-> e.reason, open |-> TRUE, deadline |-> e.deadline,
   action |-> e.action, answers |-> {}]

\* The row after its UPDATE, which does not look at the row's status.
AnsweredRow(row, e) == [row EXCEPT !.open = FALSE, !.answers = @ \cup {e.resolution}]

OnEscalationRaised(i, e) ==
  LET raised == [i EXCEPT !.escs = Append(@, PendingRow(e))]
  IN IF e.step = 0 THEN raised ELSE SetStepStatus(raised, e.step, "waiting_approval")

ResolveEscalation(i, e) == [i EXCEPT !.escs[e.id] = AnsweredRow(@, e)]

Apply(i, e) ==
  CASE e.type = "InstanceStatusChanged" -> OnWfStatus(i, e)
    [] e.type = "InstanceCompleted" -> OnCompleted(i, e)
    [] e.type = "WorkflowRequeued" -> OnRequeued(i, e)
    [] e.type = "WorkflowBudgetAdjusted" -> OnBudgetAdjusted(i, e)
    [] e.type = "StepStatusChanged" -> OnStepStatus(i, e)
    [] e.type = "StepStarted" -> OnStepStarted(i, e)
    [] e.type = "StepCompleted" -> OnStepCompleted(i, e)
    [] e.type = "StepFailed" -> OnStepFailed(i, e)
    [] e.type = "StepRetryScheduled" -> OnRetryScheduled(i, e)
    [] e.type = "StepCompensated" -> OnStepCompensated(i, e)
    [] e.type = "CostCharged" -> OnCost(i, e)
    [] e.type = "BudgetExceeded" -> OnBudgetExceeded(i, e)
    [] e.type = "EscalationRaised" -> OnEscalationRaised(i, e)
    [] e.type \in {"EscalationResolved", "EscalationTimedOut"} -> ResolveEscalation(i, e)

\* fold, with a base: the first event that is refused refuses the batch.
FoldEvents(base, events) ==
  FoldLeft(LAMBDA i, e : IF i = Rejected THEN Rejected ELSE Apply(i, e), base, events)
=============================================================================
