------------------------------- MODULE Engine -------------------------------
(***************************************************************************)
(* The life of one workflow instance: the driver (core/driver.py) run by   *)
(* leased workers that crash and lose their leases, the human side         *)
(* (core/escalation.py), the dead-letter queue (core/dead_letter.py) and   *)
(* the operator's pause, resume and abort (core/control.py), all writing   *)
(* to one event log.                                                       *)
(*                                                                         *)
(* inst is the fold of the log (core/events/fold.py) with every step of    *)
(* its definition in it, as the tests of the store expect (the property    *)
(* ViewKnowsDefinition of EventStore is about that).  Everyone appends     *)
(* with the version it has read; instead of the numbers, each worker has a *)
(* bit, fresh, that says whether the version it holds is still the log's:  *)
(* any append by someone else clears it, and a worker that is not fresh    *)
(* gets a ConflictError.  The lease guard can add nothing to that (module  *)
(* EventStore shows that it may let a fenced-out worker pass), so a worker *)
(* that lost its lease but is fresh either commits or fails here.          *)
(*                                                                         *)
(* The driver's plan is a function of the instance it holds, so planning   *)
(* and the append the plan leads to are one action; what separates two     *)
(* appends of one handler are the program counters exec, retry, review and *)
(* dlq.  The operators' read and append are one action too (a conflict     *)
(* makes them start again or give up), except that an escalation row is    *)
(* read before the instance.                                               *)
(***************************************************************************)
EXTENDS Integers, FiniteSets, Sequences, SequencesExt, FiniteSetsExt, Statuses, Orders

CONSTANTS
  N,                \* number of steps; step s is the s-th of definition.steps
  Definitions,      \* the registered workflow definitions (see DefinitionRecords)
  Workers,          \* worker processes
  NoWorker,         \* holder of a free lease
  Outcomes,         \* what an attempt may come to (see AllOutcomes)
  Cost,             \* cost of one attempt
  BudgetLimit,      \* budget_limit_usd of the instance
  NewBudgets,       \* what an answer's new_budget_usd may be
  Resolutions,      \* what the human may answer
  Targets,          \* what the operator may ask for: paused, running, failed
  MaxFaults,        \* bound: crashes, lost leases, API calls cut short
  MaxOps            \* bound: requests of the operator

Steps == 1 .. N
AllOutcomes == {"ok", "review", "retryable", "fatal", "budget"}
Answers == {"approve", "skip", "abort"}

\* What the driver reads of a WorkflowDefinition.  The retry policy and the
\* approval policy (approval_timeout_seconds or none, approval_auto_action) are
\* per step in the code; here all the steps of a definition share them.
DefinitionRecords ==
  [deps : [Steps -> SUBSET Steps], max_retries : Nat, requires_approval : SUBSET Steps,
   compensable : SUBSET Steps, on_failure : OnFailurePolicies,
   max_concurrent_steps : Nat \ {0}, timeout : BOOLEAN, auto_action : Answers]

ASSUME DefinitionAssumption ==
  /\ N \in Nat \ {0}
  /\ Definitions \subseteq DefinitionRecords
ASSUME WorldAssumption ==
  /\ NoWorker \notin Workers
  /\ Outcomes \subseteq AllOutcomes
  /\ Cost \in Nat /\ BudgetLimit \in Nat /\ NewBudgets \subseteq Nat
  /\ Resolutions \subseteq Answers
  /\ Targets \subseteq {"paused", "running", "failed"}
  /\ MaxFaults \in Nat /\ MaxOps \in Nat

VARIABLES
  inst,     \* the folded instance
  wk,       \* what each worker's drive is doing
  holder,   \* whose lease on the instance is live
  dlq,      \* dead_letters rows
  desk,     \* escalation rows the human has read as pending
  sweep,    \* escalation rows the sweep has read as due
  requeued, \* dead-letter row requeued and not yet marked resolved, or 0
  asked,    \* history: steps whose recorded result asked for a review not yet raised
  cut,      \* history: follow-ups (retry, review, dlq) that were left unmade
  redone,   \* history: steps that were not FAILED when a requeue reset them
  faults,   \* used of MaxFaults
  ops       \* used of MaxOps

vars == <<inst, wk, holder, dlq, desk, sweep, requeued, asked, cut, redone, faults, ops>>
history == <<asked, cut, redone>>
human == <<desk, sweep, requeued, ops>>

IdleWorker ==
  [pc |-> "idle", fresh |-> FALSE, wave |-> [s \in Steps |-> 0], retry |-> {}, review |-> {}]

Init ==
  /\ \E d \in Definitions :
       inst = [defn |-> d, status |-> "pending", st |-> [s \in Steps |-> "pending"],
               att |-> [s \in Steps |-> 0], retry |-> [s \in Steps |-> "none"],
               out |-> [s \in Steps |-> FALSE], err |-> [s \in Steps |-> "none"],
               escs |-> <<>>, spent |-> 0, limit |-> BudgetLimit]
  /\ wk = [w \in Workers |-> IdleWorker]
  /\ holder = NoWorker
  /\ dlq = <<>>
  /\ desk = {} /\ sweep = {} /\ requeued = 0
  /\ asked = {} /\ cut = {} /\ redone = {}
  /\ faults = 0 /\ ops = 0
-----------------------------------------------------------------------------
(***************************************************************************)
(* The fold: what the events of an append do to the instance.              *)
(***************************************************************************)

SetSteps(i, S, to) == [i EXCEPT !.st = [s \in Steps |-> IF s \in S THEN to ELSE i.st[s]]]

SetStatus(i, to) == [i EXCEPT !.status = to]

\* EscalationRaised for each step of S in turn: the step waits, the reference
\* is open.  Step 0 is the workflow-level escalation, which moves no step.
Raise(i, S, reason, deadline, action) ==
  LET order == InOrder(S)
      ref(s) == [step |-> s, reason |-> reason, open |-> TRUE, deadline |-> deadline,
                 action |-> action, answers |-> {}]
  IN [SetSteps(i, S \ {0}, "waiting_approval") EXCEPT
        !.escs = @ \o [k \in 1 .. Len(order) |-> ref(order[k])],
        !.status = "waiting_approval"]

\* Mutant: an approved step that already ran is queued again.
ResolvedToReady(i, e, answer) ==
  LET s == i.escs[e].step
      closed == [i EXCEPT !.escs[e].open = FALSE, !.escs[e].answers = @ \cup {answer}]
  IN IF s = 0 THEN SetStatus(closed, IF answer = "abort" THEN "failed" ELSE "rolled_back")
     ELSE IF answer = "abort" THEN SetStatus(closed, "failed")
     ELSE SetStatus(SetSteps(closed, {s}, IF answer = "skip" THEN "skipped" ELSE "ready"),
                    "running")

\* EscalationResolved / EscalationTimedOut, then _transition_events.
Resolved(i, e, answer) ==
  LET s == i.escs[e].step
      closed == [i EXCEPT !.escs[e].open = FALSE, !.escs[e].answers = @ \cup {answer}]
      to == IF answer = "skip" THEN "skipped"
            ELSE IF i.out[s] THEN "completed" ELSE "ready"
  IN IF s = 0 THEN SetStatus(closed, IF answer = "abort" THEN "failed" ELSE "rolled_back")
     ELSE IF answer = "abort" THEN SetStatus(closed, "failed")
     ELSE SetStatus(SetSteps(closed, {s}, to), "running")

\* The fold rejects an illegal step transition, and with it the append.
ResolveAllowed(i, e, answer) ==
  LET s == i.escs[e].step
  IN (s # 0 /\ answer # "abort")
       => StepTransitionAllowed(i.st[s], Resolved(i, e, answer).st[s])
-----------------------------------------------------------------------------
(***************************************************************************)
(* _plan, on the instance of the log (only a fresh worker acts on it).     *)
(***************************************************************************)
StepsIn(S) == {s \in Steps : inst.st[s] \in S}

DepsDone(s) == \A d \in inst.defn.deps[s] : inst.st[d] \in Done

TerminalFailures == {s \in StepsIn({"failed"}) : inst.retry[s] = "none"}

Backoffs == {s \in StepsIn({"failed"}) : inst.retry[s] = "later"}

\* Mutant: the dependencies of a step that was queued before are not looked at.
CandidatesIgnoringDeps ==
  StepsIn({"pending", "ready"}) \cup {s \in StepsIn({"failed"}) : inst.retry[s] = "due"}

Candidates ==
  {s \in StepsIn({"pending", "ready"}) : DepsDone(s)}
    \cup {s \in StepsIn({"failed"}) : inst.retry[s] = "due"}

Escs == 1 .. Len(inst.escs)
OpenEscs == {e \in Escs : inst.escs[e].open}
Held == {inst.escs[e].step : e \in OpenEscs}

\* Mutant: any resolved escalation counts, whatever its step.
ApprovalGrantedForAny(s) == Escs \ OpenEscs # {}

ApprovalGranted(s) == \E e \in Escs \ OpenEscs : inst.escs[e].step = s

ApprovalNeeded ==
  {s \in Candidates \cap inst.defn.requires_approval :
     s \notin Held /\ ~ApprovalGranted(s)}

Dispatchable == Candidates \ Held

\* Mutant: the budget is never out.
BudgetNeverOut == FALSE

BudgetOut == inst.spent >= inst.limit

Free == Max({inst.defn.max_concurrent_steps - Cardinality(StepsIn({"running"})), 0})

\* Mutant: one step too many.
WaveOffByOne == FirstOf(Dispatchable, Free + 1)

\* dispatchable[:free], in definition order.
Wave == FirstOf(Dispatchable, Free)

AllSettled ==
  /\ Wave = {} /\ Backoffs = {}
  /\ \A s \in Steps : inst.st[s] \in Settled

\* The driver has a RUNNING instance in hand and its plan is not pre-empted.
Plans(w) == wk[w].pc = "plan" /\ wk[w].fresh /\ inst.status = "running"
NoFailure == TerminalFailures = {}
NoApproval == NoFailure /\ ApprovalNeeded = {}
NoBudgetBlock == NoApproval /\ ~(Dispatchable # {} /\ BudgetOut)
-----------------------------------------------------------------------------
(***************************************************************************)
(* Appending.                                                              *)
(***************************************************************************)

\* Mutant: the store does not compare expected_version.
AppendUnchecked(w, new, rec) ==
  /\ inst' = new
  /\ wk' = [v \in Workers |-> IF v = w THEN rec ELSE wk[v]]

\* Worker w appends: its own version moves along, everyone else's is stale.
DriverAppend(w, new, rec) ==
  /\ inst' = new
  /\ wk' = [v \in Workers |-> IF v = w THEN rec ELSE [wk[v] EXCEPT !.fresh = FALSE]]

OperatorAppend(new) ==
  /\ inst' = new
  /\ wk' = [v \in Workers |-> [wk[v] EXCEPT !.fresh = FALSE]]

\* A worker whose append has left it at pc.
At(pc) == [IdleWorker EXCEPT !.pc = pc, !.fresh = TRUE]

\* An append of the plan that ends the drive.
EndDrive(w, new) ==
  /\ DriverAppend(w, new, At("release"))
  /\ UNCHANGED <<holder, dlq, history, faults, human>>

UseFault == faults < MaxFaults /\ faults' = faults + 1
UseOp == ops < MaxOps /\ ops' = ops + 1
-----------------------------------------------------------------------------
(***************************************************************************)
(* Leases and the life of a drive.                                         *)
(***************************************************************************)

\* The claim and the drive's first read.  A RETRYING instance is claimable when
\* its next_wakeup_at, the earliest retry time, has passed.
Claim(w) ==
  /\ wk[w].pc = "idle"
  /\ holder = NoWorker
  /\ inst.status \in RunnableStatuses
  /\ inst.status = "retrying" => \E s \in Steps : inst.retry[s] = "due"
  /\ holder' = w
  /\ wk' = [wk EXCEPT ![w] =
       At(IF StepsIn({"running"}) = {} THEN "plan" ELSE "recover")]
  /\ UNCHANGED <<inst, dlq, history, faults, human>>

\* Mutant: the steps a dead worker left RUNNING stay so.
RecoverNothing(w) ==
  /\ wk[w].pc = "recover" /\ wk[w].fresh
  /\ wk' = [wk EXCEPT ![w] = At("plan")]
  /\ UNCHANGED <<inst, holder, dlq, history, faults, human>>

\* _recover_in_flight
Recover(w) ==
  /\ wk[w].pc = "recover" /\ wk[w].fresh
  /\ DriverAppend(w, SetSteps(inst, StepsIn({"running"}), "ready"), At("plan"))
  /\ UNCHANGED <<holder, dlq, history, faults, human>>

\* The follow-ups of its last append that w has not made yet.
FollowUps(w) ==
  ({wk[w].pc} \cap {"retry", "review", "dlq"})
    \cup (IF wk[w].review # {} THEN {"review"} ELSE {})

\* ConflictError or LeaseLostError from the next append: LEASE_LOST.  Planning
\* on a stale instance comes to the same, or returns without an append.
LoseRace(w) ==
  /\ wk[w].pc \in {"recover", "plan", "exec", "retry", "review"}
  /\ ~wk[w].fresh \/ holder # w
  /\ cut' = cut \cup FollowUps(w)
  /\ wk' = [wk EXCEPT ![w] = [IdleWorker EXCEPT !.pc = "release"]]
  /\ UNCHANGED <<inst, holder, dlq, asked, redone, faults, human>>

\* release() and the end of the drive task.
Release(w) ==
  /\ wk[w].pc = "release"
  /\ holder' = IF holder = w THEN NoWorker ELSE holder
  /\ wk' = [wk EXCEPT ![w] = IdleWorker]
  /\ UNCHANGED <<inst, dlq, history, faults, human>>

\* The process dies or the drive is cancelled, and its lease runs out.
Crash(w) ==
  /\ wk[w].pc # "idle"
  /\ UseFault
  /\ holder' = IF holder = w THEN NoWorker ELSE holder
  /\ cut' = cut \cup FollowUps(w)
  /\ wk' = [wk EXCEPT ![w] = IdleWorker]
  /\ UNCHANGED <<inst, dlq, asked, redone, human>>

\* The lease expires, or is taken over, while its owner keeps driving.
LeaseLapses ==
  /\ holder # NoWorker
  /\ UseFault
  /\ holder' = NoWorker
  /\ UNCHANGED <<inst, wk, dlq, history, human>>

\* next_retry_at of a step, or the deadline of an escalation, passes.
Tick ==
  /\ \/ \E s \in Steps :
          /\ inst.retry[s] = "later"
          /\ inst' = [inst EXCEPT !.retry[s] = "due"]
     \/ \E e \in Escs :
          /\ inst.escs[e].deadline = "set"
          /\ inst' = [inst EXCEPT !.escs[e].deadline = "passed"]
  /\ UNCHANGED <<wk, holder, dlq, history, faults, human>>
-----------------------------------------------------------------------------
(***************************************************************************)
(* _run: one action per branch.                                            *)
(***************************************************************************)

\* A status that is not for the driver, or a plan with nothing to do: IDLE.
Return(w) ==
  /\ wk[w].pc = "plan" /\ wk[w].fresh
  /\ \/ inst.status \notin RunnableStatuses
     \/ Plans(w) /\ NoApproval /\ Wave = {} /\ ~AllSettled /\ Backoffs = {}
                 /\ NoBudgetBlock
  /\ wk' = [wk EXCEPT ![w] = At("release")]
  /\ UNCHANGED <<inst, holder, dlq, history, faults, human>>

\* PENDING or RETRYING -> RUNNING
Start(w) ==
  /\ wk[w].pc = "plan" /\ wk[w].fresh
  /\ inst.status \in {"pending", "retrying"}
  /\ DriverAppend(w, SetStatus(inst, "running"), At("plan"))
  /\ UNCHANGED <<holder, dlq, history, faults, human>>

\* _block_on_budget
BlockOnBudget(w) ==
  /\ Plans(w) /\ NoApproval /\ ~NoBudgetBlock
  /\ EndDrive(w, SetStatus(inst, "paused"))

\* _escalate_for_approval
EscalateForApproval(w) ==
  /\ Plans(w) /\ NoFailure /\ ApprovalNeeded # {}
  /\ EndDrive(w, Raise(inst, ApprovalNeeded, "explicit_approval",
                       IF inst.defn.timeout THEN "set" ELSE "none", inst.defn.auto_action))

\* _dispatch_wave's first append: PENDING -> READY, StepStarted.
Dispatch(w) ==
  LET started == [inst EXCEPT
        !.st = [s \in Steps |-> IF s \in Wave THEN "running" ELSE inst.st[s]],
        !.att = [s \in Steps |-> IF s \in Wave THEN inst.att[s] + 1 ELSE inst.att[s]],
        !.retry = [s \in Steps |-> IF s \in Wave THEN "none" ELSE inst.retry[s]]]
  IN /\ Plans(w) /\ NoBudgetBlock /\ Wave # {}
     /\ DriverAppend(w, started, [At("exec") EXCEPT
          !.wave = [s \in Steps |-> IF s \in Wave THEN inst.att[s] + 1 ELSE 0]])
     /\ UNCHANGED <<holder, dlq, history, faults, human>>

\* _complete
Complete(w) ==
  /\ Plans(w) /\ NoBudgetBlock /\ AllSettled
  /\ EndDrive(w, SetStatus(inst, "completed"))

\* RUNNING -> RETRYING with next_wakeup_at: PARKED.
Park(w) ==
  /\ Plans(w) /\ NoBudgetBlock /\ Wave = {} /\ Backoffs # {}
  /\ EndDrive(w, SetStatus(inst, "retrying"))
-----------------------------------------------------------------------------
(***************************************************************************)
(* _dispatch_wave after the attempts have run.                             *)
(***************************************************************************)
InWave(w) == {s \in Steps : wk[w].wave[s] > 0}

\* Mutant: the first attempt counts as a retry.
RetriesLeftLess(w, s) == wk[w].wave[s] < inst.defn.max_retries

RetriesLeft(w, s) == wk[w].wave[s] <= inst.defn.max_retries

\* The result append: charges, StepCompleted or StepFailed for every step of
\* the wave.  Which steps to retry and to review stays in the worker.  Every
\* attempt costs Cost, one that its budget refuses too: it may have made calls
\* before the one that is refused.
Results(w) ==
  \E res \in [InWave(w) -> Outcomes] :
    LET with(O) == {s \in InWave(w) : res[s] \in O}
        succeeded == with({"ok", "review"})
        again == {s \in with({"retryable"}) : RetriesLeft(w, s)}
        new == [inst EXCEPT
          !.st = [s \in Steps |-> IF s \notin InWave(w) THEN inst.st[s]
                                  ELSE IF s \in succeeded THEN "completed" ELSE "failed"],
          !.out = [s \in Steps |-> inst.out[s] \/ s \in succeeded],
          !.err = [s \in Steps |-> IF s \in InWave(w) \ succeeded THEN res[s] ELSE inst.err[s]],
          !.spent = @ + Cost * Cardinality(InWave(w))]
    IN /\ wk[w].pc = "exec" /\ wk[w].fresh
       /\ DriverAppend(w, new,
            [At(IF again # {} THEN "retry"
                   ELSE IF with({"review"}) # {} THEN "review" ELSE "plan")
               EXCEPT !.retry = again, !.review = with({"review"})])
       /\ asked' = (asked \ InWave(w)) \cup with({"review"})
       /\ UNCHANGED <<holder, dlq, cut, redone, faults, human>>

\* The retry append: StepRetryScheduled.
ScheduleRetries(w) ==
  /\ wk[w].pc = "retry" /\ wk[w].fresh
  /\ DriverAppend(w,
       [inst EXCEPT !.retry = [s \in Steps |-> IF s \in wk[w].retry THEN "later"
                                                             ELSE inst.retry[s]]],
       [At(IF wk[w].review # {} THEN "review" ELSE "plan")
          EXCEPT !.review = wk[w].review])
  /\ UNCHANGED <<holder, dlq, history, faults, human>>

\* _raise_review_escalations.  A review request brings its own deadline and
\* auto-action; here they are those of the definition's approvals.
RaiseReviews(w) ==
  /\ wk[w].pc = "review" /\ wk[w].fresh
  /\ DriverAppend(w, Raise(inst, wk[w].review, "review",
                           IF inst.defn.timeout THEN "set" ELSE "none",
                           inst.defn.auto_action), At("plan"))
  /\ asked' = asked \ wk[w].review
  /\ UNCHANGED <<holder, dlq, cut, redone, faults, human>>
-----------------------------------------------------------------------------
(***************************************************************************)
(* _apply_failure_policy, for the first failed step without a retry.       *)
(***************************************************************************)
Failure == Min(TerminalFailures)
Fails(w) == Plans(w) /\ ~NoFailure
PolicyIs(policy) == inst.err[Failure] # "budget" /\ inst.defn.on_failure = policy

\* _escalate_cost_threshold, whatever the policy.
EscalateCostThreshold(w) ==
  /\ Fails(w) /\ inst.err[Failure] = "budget"
  /\ EndDrive(w, Raise(inst, {Failure}, "cost_threshold", "none", "abort"))

\* _escalate_max_retries
EscalateMaxRetries(w) ==
  /\ Fails(w) /\ PolicyIs("escalate")
  /\ EndDrive(w, Raise(inst, {Failure}, "max_retries", "none", "abort"))

ToCompensate == {s \in inst.defn.compensable : inst.st[s] = "completed"}

\* _rollback: every compensation succeeds, or one fails and a human is asked.
Rollback(w) ==
  /\ Fails(w) /\ PolicyIs("rollback")
  /\ \/ EndDrive(w, SetStatus(SetSteps(inst, ToCompensate, "compensated"), "rolled_back"))
     \/ EndDrive(w, Raise(inst, {0}, "compensation_failed", "none", "abort"))

\* RUNNING -> DEAD_LETTERED, and then the dead-letter row in a transaction of
\* its own.
DeadLetter(w) ==
  /\ Fails(w) /\ PolicyIs("dead_letter")
  /\ DriverAppend(w, SetStatus(inst, "dead_lettered"),
             [At("dlq") EXCEPT !.retry = {Failure}])
  /\ UNCHANGED <<holder, dlq, history, faults, human>>

\* Mutant: the row does not name the failing step.
RecordNoStep(w) ==
  /\ wk[w].pc = "dlq"
  /\ dlq' = Append(dlq, [step |-> 0, resolved |-> FALSE])
  /\ wk' = [wk EXCEPT ![w] = [IdleWorker EXCEPT !.pc = "release"]]
  /\ UNCHANGED <<inst, holder, history, faults, human>>

\* PgDeadLetterStore.record
RecordDeadLetter(w) ==
  /\ wk[w].pc = "dlq"
  /\ dlq' = Append(dlq, [step |-> Min(wk[w].retry), resolved |-> FALSE])
  /\ wk' = [wk EXCEPT ![w] = [IdleWorker EXCEPT !.pc = "release"]]
  /\ UNCHANGED <<inst, holder, history, faults, human>>

PauseOnFailure(w) ==
  /\ Fails(w) /\ PolicyIs("pause")
  /\ EndDrive(w, SetStatus(inst, "paused"))
-----------------------------------------------------------------------------
(***************************************************************************)
(* Humans, the sweep and the operator.                                     *)
(***************************************************************************)

\* _load reads the escalation row, which must be pending ...
DeskRead(e) ==
  /\ e \in OpenEscs \ desk
  /\ UseOp
  /\ desk' = desk \cup {e}
  /\ UNCHANGED <<inst, wk, holder, dlq, sweep, requeued, history, faults>>

\* ... and the instance, which must be waiting; resolve then appends.
Resolve(e) ==
  /\ e \in desk
  /\ inst.status = "waiting_approval"
  /\ \E answer \in Resolutions, limit \in NewBudgets \cup {inst.limit} :
       /\ ResolveAllowed(inst, e, answer)
       /\ OperatorAppend([Resolved(inst, e, answer) EXCEPT !.limit = limit])
  /\ desk' = desk \ {e}
  /\ UNCHANGED <<holder, dlq, sweep, requeued, history, faults, ops>>

\* resolve raises: the instance is not waiting, or the fold rejects the events.
ResolveRejected(e) ==
  /\ e \in desk
  /\ \/ inst.status # "waiting_approval"
     \/ \E answer \in Resolutions : ~ResolveAllowed(inst, e, answer)
  /\ desk' = desk \ {e}
  /\ UNCHANGED <<inst, wk, holder, dlq, sweep, requeued, history, faults, ops>>

Due == {e \in OpenEscs : inst.escs[e].deadline = "passed"}

\* expire_due reads the rows that are due ...
SweepRead ==
  /\ sweep = {}
  /\ Due # {}
  /\ sweep' = Due
  /\ UNCHANGED <<inst, wk, holder, dlq, desk, requeued, history, faults, ops>>

\* ... and takes them one by one; a row whose instance is not waiting, or
\* whose append fails, is left for the next sweep.
SweepFire(e) ==
  /\ e \in sweep
  /\ IF inst.status = "waiting_approval" /\ ResolveAllowed(inst, e, inst.escs[e].action)
     THEN OperatorAppend(Resolved(inst, e, inst.escs[e].action))
     ELSE UNCHANGED <<inst, wk>>
  /\ sweep' = sweep \ {e}
  /\ UNCHANGED <<holder, dlq, desk, requeued, history, faults, ops>>

\* InstanceControl: pause, resume, abort.
Control(to) ==
  /\ inst.status \notin TerminalWorkflowStatuses
  /\ WorkflowTransitionAllowed(inst.status, to)
  /\ UseOp
  /\ OperatorAppend(SetStatus(inst, to))
  /\ UNCHANGED <<holder, dlq, desk, sweep, requeued, history, faults>>

\* Requeue of an unresolved dead letter: WorkflowRequeued resets the row's step
\* whatever its status is; mark_resolved follows in a transaction of its own.
\* Requests come one at a time, and the row is read with the instance: one that
\* reads a row which another request then resolves acts like one that finds the
\* row unresolved because the other was cut short.
Requeue(k) ==
  LET s == dlq[k].step
  IN /\ requeued = 0
     /\ ~dlq[k].resolved
     /\ inst.status = "dead_lettered"
     /\ UseOp
     /\ OperatorAppend([inst EXCEPT !.status = "running", !.st[s] = "ready", !.att[s] = 0,
                                    !.retry[s] = "none", !.err[s] = "none"])
     /\ requeued' = k
     /\ redone' = redone \cup ({s} \ StepsIn({"failed"}))
     /\ UNCHANGED <<holder, dlq, desk, sweep, asked, cut, faults>>

MarkResolved ==
  /\ requeued # 0
  /\ dlq' = [dlq EXCEPT ![requeued].resolved = TRUE]
  /\ requeued' = 0
  /\ UNCHANGED <<inst, wk, holder, desk, sweep, history, faults, ops>>

\* The API process dies between the two.
RequeueCutShort ==
  /\ requeued # 0
  /\ UseFault
  /\ requeued' = 0
  /\ UNCHANGED <<inst, wk, holder, dlq, desk, sweep, history, ops>>
-----------------------------------------------------------------------------
Drive(w) ==
  \/ Claim(w) \/ Recover(w) \/ Return(w) \/ Start(w)
  \/ BlockOnBudget(w) \/ EscalateForApproval(w)
  \/ Dispatch(w) \/ Results(w) \/ ScheduleRetries(w) \/ RaiseReviews(w)
  \/ Complete(w) \/ Park(w)
  \/ EscalateCostThreshold(w) \/ EscalateMaxRetries(w) \/ Rollback(w)
  \/ DeadLetter(w) \/ RecordDeadLetter(w) \/ PauseOnFailure(w)
  \/ LoseRace(w) \/ Release(w)

Next ==
  \/ \E w \in Workers : Drive(w) \/ Crash(w)
  \/ LeaseLapses \/ Tick
  \/ SweepRead
  \/ \E e \in Escs : DeskRead(e) \/ Resolve(e) \/ ResolveRejected(e) \/ SweepFire(e)
  \/ \E to \in Targets : Control(to)
  \/ \E k \in 1 .. Len(dlq) : Requeue(k)
  \/ MarkResolved \/ RequeueCutShort

Spec == Init /\ [][Next]_vars

(***************************************************************************)
(* Fairness: live workers keep claiming and driving, runners return (every *)
(* step has a timeout), time passes, the sweep loop runs.  Nothing is      *)
(* assumed of operators, crashes or lost leases.                           *)
(***************************************************************************)
Fairness ==
  /\ \A w \in Workers : WF_vars(Drive(w))
  /\ WF_vars(Tick) /\ WF_vars(SweepRead) /\ WF_vars(\E e \in Escs : SweepFire(e))

FairSpec == Spec /\ Fairness
-----------------------------------------------------------------------------
\* "review" stands for the labels of review requests (low_confidence, ...).
EscalationReasons ==
  {"explicit_approval", "review", "cost_threshold", "max_retries", "compensation_failed"}
EscRefs == [step : 0 .. N, reason : EscalationReasons,
            open : BOOLEAN, deadline : {"none", "set", "passed"},
            action : Answers, answers : SUBSET Answers]
Instances == [defn : Definitions, status : WorkflowStatuses, st : [Steps -> StepStatuses],
              att : [Steps -> Nat], retry : [Steps -> {"none", "later", "due"}],
              out : [Steps -> BOOLEAN],
              err : [Steps -> {"none", "retryable", "fatal", "budget"}],
              escs : Seq(EscRefs), spent : Nat, limit : Nat]
Drives == [pc : {"idle", "recover", "plan", "exec", "retry", "review", "dlq", "release"},
           fresh : BOOLEAN, wave : [Steps -> Nat], retry : SUBSET Steps,
           review : SUBSET Steps]
DeadLetterRows == [step : Steps, resolved : BOOLEAN]

\* The folded instance, the drives and the tables have the shape of the code's.
TypeOK ==
  /\ inst \in Instances
  /\ wk \in [Workers -> Drives]
  /\ holder \in Workers \cup {NoWorker}
  /\ dlq \in Seq(DeadLetterRows)
  /\ desk \subseteq Escs /\ sweep \subseteq Escs
  /\ requeued \in 0 .. Len(dlq)
  /\ asked \subseteq Steps /\ cut \subseteq {"retry", "review", "dlq"}
  /\ redone \subseteq Steps
  /\ faults \in 0 .. MaxFaults /\ ops \in 0 .. MaxOps

\* A result is only ever recorded for the attempt the log says is running: a
\* worker whose append can still succeed is executing exactly the log's RUNNING
\* steps, at the log's attempt numbers, however many workers believe they
\* drive the instance.
ResultsMatchLog ==
  \A w \in Workers :
    wk[w].pc = "exec" /\ wk[w].fresh =>
      /\ StepsIn({"running"}) = InWave(w)
      /\ \A s \in InWave(w) : inst.att[s] = wk[w].wave[s]

\* No step runs before everything it depends on is done, across retries,
\* recoveries, requeues and human answers; unless a requeue has reset the
\* dependency after it was done: a retry that was scheduled before does not look
\* at its dependencies again.
DepsBeforeRun ==
  \A s \in StepsIn({"running"}) : \A d \in inst.defn.deps[s] :
    inst.st[d] \in Done \/ d \in redone

\* Never more RUNNING steps than max_concurrent_steps, also when a crashed
\* worker's steps are still RUNNING in the log.
ConcurrencyBounded == Cardinality(StepsIn({"running"})) <= inst.defn.max_concurrent_steps

\* A step with requires_approval never starts unless somebody (or its
\* auto-action) has answered an escalation of it with approve.
ApprovalGate ==
  \A s \in inst.defn.requires_approval :
    inst.att[s] > 0 =>
      \E e \in Escs : inst.escs[e].step = s /\ "approve" \in inst.escs[e].answers

RetriesAreScheduled ==
  "retry" \notin cut =>
    \A s \in TerminalFailures :
      inst.err[s] = "retryable" /\ inst.att[s] <= inst.defn.max_retries =>
        \E w \in Workers : wk[w].pc = "retry" /\ s \in wk[w].retry

ReviewsAreRaised ==
  "review" \notin cut =>
    \A s \in asked : \E w \in Workers : wk[w].pc \in {"retry", "review"} /\ s \in wk[w].review

DeadLettersAreRecorded ==
  "dlq" \notin cut /\ inst.status = "dead_lettered" =>
    \/ \E k \in DOMAIN dlq : ~dlq[k].resolved
    \/ \E w \in Workers : wk[w].pc = "dlq"

\* What an append promises for a later one is kept: a failure that may be retried
\* is never taken for a final one, a requested review is raised, and a
\* DEAD_LETTERED instance has a row an operator can requeue; unless the worker
\* crashed, or lost the race, exactly between the two appends.
FollowUpsAreMade == RetriesAreScheduled /\ ReviewsAreRaised /\ DeadLettersAreRecorded

\* COMPLETED and ROLLED_BACK are final: no late append of a driver, a sweep or
\* an operator changes such an instance.
TerminalIsFinal ==
  [][inst.status \in TerminalWorkflowStatuses =>
       inst'.status = inst.status /\ inst'.st = inst.st /\ inst'.att = inst.att]_vars

\* Work that was done is not done again: a step that has an output never
\* starts another attempt, whoever recovers, resolves or requeues; unless a
\* stale dead-letter row (left by a requeue that was cut short, or doubled by a
\* resume), which resets its step whatever has become of it, is requeued.
NoRerun ==
  [][\A s \in Steps :
       inst.out[s] /\ s \notin redone' =>
         inst'.att[s] = inst.att[s] /\ inst'.st[s] # "running"]_vars

\* Spending stops at the limit but for the wave in flight: what a result append
\* brings the instance to is less than one wave above budget_limit_usd, however
\* humans raise or lower the limit and whoever takes over the drive.
OverspendBounded ==
  [][inst'.spent > inst.spent =>
       inst'.spent < inst.limit + Cost * inst.defn.max_concurrent_steps]_vars

Resting == WorkflowStatuses \ RunnableStatuses

\* A step waits for an approval, or has an open escalation.
LeftBehind == StepsIn({"waiting_approval"}) \cup Held # {}

\* However workers crash, lose leases and retry, and whatever humans answer, the
\* instance comes to rest: completed, rolled back, or waiting for a human or an
\* operator.  The exception is a RUNNING instance with a step nobody can approve
\* any more, whose drive returns IDLE and is claimed again without end: the step
\* was left behind by the answer to another escalation, by a second answer to an
\* earlier one, or by the resume of an instance that an answer had failed.
ComesToRest == <>[](inst.status \in Resting \/ LeftBehind)

\* ARCHITECTURE.md: "An unanswered escalation past its deadline fires the
\* step's auto-action via the worker's sweep loop", unless the instance has been
\* paused or failed.  The code does not keep this when several escalations of an
\* instance are open: expire_due passes over an instance that is not
\* WAITING_APPROVAL, and firing the first makes it RUNNING.
DeadlineFires ==
  \A e \in 1 .. N :
    (e \in Escs /\ inst.escs[e].deadline = "passed")
      ~> (e \notin OpenEscs \/ inst.status \in {"paused", "failed"})
=============================================================================
