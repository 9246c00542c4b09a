------------------------------- MODULE Drafts -------------------------------
(***************************************************************************)
(* The events that the driver, the escalation controller, the operator's   *)
(* control and the dead-letter queue draft for each append of module       *)
(* Engine.  Engine says what an append makes of the instance; here the     *)
(* batch of events that the code writes is folded (module Fold) to see     *)
(* that it does exactly that and that the store does not refuse it.        *)
(***************************************************************************)
EXTENDS Engine, Fold

\* The drafts of the steps of S, step after step in definition order.
StepByStep(S, draftsOf(_)) ==
  LET order == InOrder(S)
  IN FlattenSeq([k \in 1 .. Len(order) |-> draftsOf(order[k])])

\* _transition of a RUNNING instance.
TransitionDrafts(to) == <<InstanceStatusChanged("running", to)>>

RecoverDrafts ==
  StepByStep(StepsIn({"running"}), LAMBDA s : <<StepStatusChanged(s, "running", "ready")>>)

StartDrafts == <<InstanceStatusChanged(inst.status, "running")>>

\* Only a PENDING step has to become READY first.
Readied(s) == IF inst.st[s] = "pending" THEN <<StepStatusChanged(s, "pending", "ready")>>
                                        ELSE <<>>

\* Mutant: a PENDING step is started as it is.
StartedDraftsDirect == StepByStep(Wave, LAMBDA s : <<StepStarted(s, inst.att[s] + 1)>>)

StartedDrafts ==
  StepByStep(Wave, LAMBDA s : Append(Readied(s), StepStarted(s, inst.att[s] + 1)))

ResultDrafts(wave, res) ==
  StepByStep(wave, LAMBDA s :
    <<CostCharged(s, Cost),
      IF res[s] \in {"ok", "review"} THEN StepCompleted(s) ELSE StepFailed(s, res[s])>>)

RetryDrafts(S) == StepByStep(S, LAMBDA s : <<StepRetryScheduled(s)>>)

ApprovalTimeout == IF inst.defn.timeout THEN "set" ELSE "none"

\* What the runner of s has asked for.
ReviewRequest(s) == EscalationRaised(s, "review", ApprovalTimeout, inst.defn.auto_action)

ReviewDrafts(S) ==
  StepByStep(S, LAMBDA s : <<ReviewRequest(s)>>) \o TransitionDrafts("waiting_approval")

ApprovalDrafts ==
  StepByStep(ApprovalNeeded, LAMBDA s :
    Append(Readied(s),
           EscalationRaised(s, "explicit_approval", ApprovalTimeout, inst.defn.auto_action)))
      \o TransitionDrafts("waiting_approval")

CompleteDrafts == Append(TransitionDrafts("completed"), InstanceCompleted)

BudgetDrafts == <<BudgetExceeded(Min(Dispatchable))>> \o TransitionDrafts("paused")

\* _escalate_max_retries and _escalate_cost_threshold; step 0 for
\* _escalate_compensation_failure.
EscalationDrafts(s, reason) ==
  <<EscalationRaised(s, reason, "none", "abort")>> \o TransitionDrafts("waiting_approval")

\* The side effects undone by the guard are in module SideEffects.
RollbackDrafts ==
  Reverse(StepByStep(ToCompensate, LAMBDA s : <<StepCompensated(s)>>))
    \o TransitionDrafts("rolled_back")

WorkflowTo(to) == <<InstanceStatusChanged(inst.status, to)>>

TransitionEvents(s, resolution) ==
  IF s = 0 THEN WorkflowTo(IF resolution = "abort" THEN "failed" ELSE "rolled_back")
  ELSE IF resolution = "abort" THEN WorkflowTo("failed")
  ELSE <<StepStatusChanged(s, inst.st[s],
           IF resolution = "skip" THEN "skipped"
           ELSE IF inst.out[s] THEN "completed" ELSE "ready")>> \o WorkflowTo("running")

ResolveDrafts(e, resolution, budgets) ==
  <<EscalationResolved(e, resolution)>>
    \o [k \in 1 .. Len(budgets) |-> WorkflowBudgetAdjusted(budgets[k])]
    \o TransitionEvents(inst.escs[e].step, resolution)

TimeoutDrafts(e) ==
  <<EscalationTimedOut(e, inst.escs[e].action)>>
    \o TransitionEvents(inst.escs[e].step, inst.escs[e].action)

ControlDrafts(to) == <<InstanceStatusChanged(inst.status, to)>>

RequeueDrafts(k) == <<WorkflowRequeued(dlq[k].step)>>
-----------------------------------------------------------------------------
FoldsTo(drafts) == FoldEvents(inst, drafts) = inst'

DriverAppendsFold(w) ==
  /\ Recover(w) => FoldsTo(RecoverDrafts)
  /\ Start(w) => FoldsTo(StartDrafts)
  /\ BlockOnBudget(w) => FoldsTo(BudgetDrafts)
  /\ EscalateForApproval(w) => FoldsTo(ApprovalDrafts)
  /\ Dispatch(w) => FoldsTo(StartedDrafts)
  /\ Results(w) => \E res \in [InWave(w) -> Outcomes] : FoldsTo(ResultDrafts(InWave(w), res))
  /\ ScheduleRetries(w) => FoldsTo(RetryDrafts(wk[w].retry))
  /\ RaiseReviews(w) => FoldsTo(ReviewDrafts(wk[w].review))
  /\ Complete(w) => FoldsTo(CompleteDrafts)
  /\ Park(w) => FoldsTo(TransitionDrafts("retrying"))
  /\ EscalateCostThreshold(w) => FoldsTo(EscalationDrafts(Failure, "cost_threshold"))
  /\ EscalateMaxRetries(w) => FoldsTo(EscalationDrafts(Failure, "max_retries"))
  /\ Rollback(w) => \/ FoldsTo(RollbackDrafts)
                    \/ FoldsTo(EscalationDrafts(0, "compensation_failed"))
  /\ DeadLetter(w) => FoldsTo(TransitionDrafts("dead_lettered"))
  /\ PauseOnFailure(w) => FoldsTo(TransitionDrafts("paused"))

\* An answer is refused (resolve raises, the sweep logs and goes on) exactly when
\* the instance is not waiting or the fold refuses its events.
AnswersFold(e) ==
  /\ Resolve(e) =>
       \E answer \in Resolutions :
         \/ FoldsTo(ResolveDrafts(e, answer, <<>>))
         \/ \E limit \in NewBudgets : FoldsTo(ResolveDrafts(e, answer, <<limit>>))
  /\ ResolveRejected(e) /\ inst.status = "waiting_approval" =>
       \E answer \in Resolutions : FoldEvents(inst, ResolveDrafts(e, answer, <<>>)) = Rejected
  /\ SweepFire(e) /\ inst.status = "waiting_approval" =>
       FoldEvents(inst, TimeoutDrafts(e)) = IF inst' = inst THEN Rejected ELSE inst'

\* Every batch that a driver, a human, the sweep or an operator drafts on the
\* version it has read is accepted by the fold inside the append's transaction
\* and makes of the instance what its writer goes on with: no crash, stale
\* answer or requeue leads to a state whose next append is refused for ever.
AppendsFold ==
  [][/\ \A e \in Escs : AnswersFold(e)
     /\ inst' # inst =>
          /\ \A w \in Workers : wk[w].fresh => DriverAppendsFold(w)
          /\ \A to \in Targets : Control(to) => FoldsTo(ControlDrafts(to))
          /\ \A k \in 1 .. Len(dlq) : Requeue(k) => FoldsTo(RequeueDrafts(k))]_vars
=============================================================================
