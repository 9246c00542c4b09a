---------------------------- MODULE SideEffects -----------------------------
(***************************************************************************)
(* External effects: the guard (core/side_effects.py), its outbox          *)
(* (core/outbox.py), the action providers (integrations/actions), a step   *)
(* attempt with its timeout (core/executor.py, core/runners.py) and the    *)
(* rollback that undoes what was done (core/driver.py), for one instance   *)
(* whose steps run one after the other and perform one effect each.        *)
(*                                                                         *)
(* A request to a provider is a message: it lands some time after it was   *)
(* sent, also after the attempt that sent it has timed out or its worker   *)
(* has died.  As in module Engine a worker holds a bit, fresh, that says   *)
(* whether its version is still the log's, and a worker that lost its      *)
(* lease keeps running until it notices.  The recovery of a step that was  *)
(* left RUNNING is part of the claim, and the schedule of a retry part of  *)
(* the append of its failure (Engine has them apart).                      *)
(***************************************************************************)
EXTENDS Naturals, FiniteSets, Sequences, SequencesExt, FiniteSetsExt, Orders

CONSTANTS
  N,           \* number of steps; step s performs effect s
  Keyed,       \* effects whose provider honours the idempotency key
  Reconciled,  \* effects whose provider can be asked whether a request landed
  Undoable,    \* effects whose provider has a compensation
  Workers,     \* worker processes
  NoWorker,    \* holder of a free lease
  MaxRetries,  \* max_retries of every step
  MaxFaults    \* bound: crashes, lapses, timeouts, failing calls and runners

Steps == 1 .. N

ASSUME EffectsAssumption ==
  /\ N \in Nat \ {0}
  /\ Keyed \subseteq Steps /\ Reconciled \subseteq Steps
  /\ Undoable \subseteq Steps
  /\ NoWorker \notin Workers
  /\ MaxRetries \in Nat /\ MaxFaults \in Nat

VARIABLES
  inst,      \* the folded instance: statuses, attempts, side-effect references
  outbox,    \* side_effect_outbox rows
  provider,  \* the outside world: what each effect has done and undone
  net,       \* requests that have not landed
  wk,        \* what each worker's drive is doing
  holder,    \* whose lease on the instance is live
  blind,     \* history: effects requested while another request was unaccounted for
  stray,     \* history: effects whose row a worker without the lease has written
  faults     \* used of MaxFaults

vars == <<inst, outbox, provider, net, wk, holder, blind, stray, faults>>

IdleWorker ==
  [pc |-> "idle", fresh |-> FALSE, step |-> 0, try |-> 0, sure |-> TRUE,
   eff |-> "none", out |-> "ok", todo |-> <<>>, undone |-> {}]

NoRow == [status |-> "absent", attempts |-> 0]

Init ==
  /\ inst = [status |-> "running", st |-> [s \in Steps |-> "ready"],
             att |-> [s \in Steps |-> 0], refs |-> [s \in Steps |-> "none"],
             human |-> FALSE]
  /\ outbox = [s \in Steps |-> NoRow]
  /\ provider = [s \in Steps |-> [seen |-> {}, done |-> 0, undo |-> "none"]]
  /\ net = {}
  /\ wk = [w \in Workers |-> IdleWorker]
  /\ holder = NoWorker
  /\ blind = {} /\ stray = {}
  /\ faults = 0
-----------------------------------------------------------------------------
UseFault == faults < MaxFaults /\ faults' = faults + 1

At(w, pc) == [wk EXCEPT ![w].pc = pc]

\* An append by w, which then is as rec says; everyone else's version is stale.
DriverAppend(w, new, rec) ==
  /\ inst' = new
  /\ wk' = [v \in Workers |-> IF v = w THEN rec ELSE [wk[v] EXCEPT !.fresh = FALSE]]

Planning == [IdleWorker EXCEPT !.pc = "plan", !.fresh = TRUE]

\* A row is written without looking at the lease or at the row.
Write(w, s, status) ==
  /\ outbox' = [outbox EXCEPT ![s].status = status]
  /\ stray' = IF holder = w THEN stray ELSE stray \cup {s}
-----------------------------------------------------------------------------
(***************************************************************************)
(* The drive around an attempt.                                            *)
(***************************************************************************)
Running == {s \in Steps : inst.st[s] = "running"}
Unfinished == {s \in Steps : inst.st[s] # "completed"}
Failed == {s \in Steps : inst.st[s] = "failed"}

\* The claim, the first read, and _recover_in_flight.
Claim(w) ==
  /\ wk[w].pc = "idle" /\ holder = NoWorker /\ inst.status = "running"
  /\ holder' = w
  /\ IF Running = {}
     THEN wk' = [wk EXCEPT ![w] = Planning] /\ UNCHANGED inst
     ELSE DriverAppend(w, [inst EXCEPT !.st = [s \in Steps |->
            IF s \in Running THEN "ready" ELSE inst.st[s]]], Planning)
  /\ UNCHANGED <<outbox, provider, net, blind, stray, faults>>

Plans(w) == wk[w].pc = "plan" /\ wk[w].fresh /\ inst.status = "running"

\* StepStarted of the next step.
Dispatch(w) ==
  /\ Plans(w) /\ Failed = {} /\ Unfinished # {}
  /\ LET s == Min(Unfinished) IN
       DriverAppend(w, [inst EXCEPT !.st[s] = "running", !.att[s] = @ + 1],
                    [Planning EXCEPT !.pc = "claim", !.step = s])
  /\ UNCHANGED <<outbox, provider, net, holder, blind, stray, faults>>

Complete(w) ==
  /\ Plans(w) /\ Unfinished = {}
  /\ DriverAppend(w, [inst EXCEPT !.status = "completed"], IdleWorker)
  /\ holder' = IF holder = w THEN NoWorker ELSE holder
  /\ UNCHANGED <<outbox, provider, net, blind, stray, faults>>

\* ConflictError or LeaseLostError from an append: the drive ends.
LoseRace(w) ==
  /\ wk[w].pc \in {"plan", "report", "undo", "escalate"}
  /\ ~wk[w].fresh \/ holder # w \/ inst.status # "running"
  /\ wk' = [wk EXCEPT ![w] = IdleWorker]
  /\ holder' = IF holder = w THEN NoWorker ELSE holder
  /\ UNCHANGED <<inst, outbox, provider, net, blind, stray, faults>>

Crash(w) ==
  /\ wk[w].pc # "idle"
  /\ UseFault
  /\ wk' = [wk EXCEPT ![w] = IdleWorker]
  /\ holder' = IF holder = w THEN NoWorker ELSE holder
  /\ UNCHANGED <<inst, outbox, provider, net, blind, stray>>

\* The lease expires while its owner keeps working.
LeaseLapses ==
  /\ holder # NoWorker
  /\ UseFault
  /\ holder' = NoWorker
  /\ UNCHANGED <<inst, outbox, provider, net, wk, blind, stray>>
-----------------------------------------------------------------------------
(***************************************************************************)
(* SideEffectGuard.execute.                                                *)
(***************************************************************************)

\* Mutant: the attempt number is part of the key.
IdempotencyKeyOfAttempt(w) == <<wk[w].step, wk[w].try>>

\* A digest of instance, step, effect and parameters.  The parameters are taken
\* to be the same in every attempt of a step; when an agent chooses other ones in
\* a re-run, the code derives another key and row, and that is another effect.
IdempotencyKey(w) == wk[w].step

\* Mutant: a new row starts with the default of OutboxEntry.
ClaimedRowFromZero(row) ==
  [status |-> IF row.status = "absent" THEN "pending" ELSE row.status,
   attempts |-> IF row.status = "absent" THEN 0 ELSE row.attempts + 1]

\* INSERT ... ON CONFLICT DO UPDATE SET attempts = attempts + 1 RETURNING *
ClaimedRow(row) ==
  [status |-> IF row.status = "absent" THEN "pending" ELSE row.status,
   attempts |-> row.attempts + 1]

\* Mutant: whatever was tried before is taken for done.
DeduplicatesTried(row) == row.status \in {"executed", "failed"}

Deduplicates(row) == row.status = "executed"

\* Mutant: the second attempt does not count as a resumed one.
ResumingLate(row) == row.attempts > 2

Resuming(row) == row.attempts > 1

\* PgOutboxStore.claim, and what execute does with the row it returns.
ClaimRow(w) ==
  LET s == wk[w].step
      row == ClaimedRow(outbox[s])
      next == IF Deduplicates(row) \/ row.status = "compensated" THEN "report"
              ELSE IF Resuming(row) /\ s \notin Keyed THEN "reconcile" ELSE "execute"
  IN /\ wk[w].pc = "claim"
     /\ outbox' = [outbox EXCEPT ![s] = row]
     /\ wk' = [wk EXCEPT ![w].pc = next, ![w].try = row.attempts,
                         ![w].eff = IF Deduplicates(row) THEN "dedup" ELSE "none",
                         ![w].out = IF row.status = "compensated" THEN "fatal" ELSE "ok"]
     /\ UNCHANGED <<inst, provider, net, holder, blind, stray, faults>>

\* Another request for the effect may still land, or is about to be made.
Overlapped(w) ==
  \/ \E r \in net : r.step = wk[w].step
  \/ \E v \in Workers \ {w} :
       wk[v].step = wk[w].step /\ wk[v].pc \in {"reconcile", "execute", "sent"}

\* provider.reconcile: found, not found (or a provider that cannot tell).
Reconcile(w) ==
  LET s == wk[w].step
      found == s \in Reconciled /\ provider[s].done > 0
  IN /\ wk[w].pc = "reconcile"
     /\ wk' = [wk EXCEPT ![w].pc = IF found THEN "mark" ELSE "execute",
                         ![w].sure = ~Overlapped(w)]
     /\ UNCHANGED <<inst, outbox, provider, net, holder, blind, stray, faults>>

\* The status call fails: a connection error is taken for "not found", an
\* error status is raised.
ReconcileFails(w) ==
  /\ wk[w].pc = "reconcile" /\ wk[w].step \in Reconciled
  /\ UseFault
  /\ wk' \in {[wk EXCEPT ![w].pc = "execute", ![w].sure = FALSE],
              [wk EXCEPT ![w].pc = "mark", ![w].out = "fatal"]}
  /\ UNCHANGED <<inst, outbox, provider, net, holder, blind, stray>>

Request(w) == [step |-> wk[w].step, key |-> IdempotencyKey(w), try |-> wk[w].try]

\* provider.execute posts the request ...
Send(w) ==
  /\ wk[w].pc = "execute"
  /\ net' = net \cup {Request(w)}
  /\ blind' = IF ~wk[w].sure \/ Overlapped(w) THEN blind \cup {wk[w].step} ELSE blind
  /\ wk' = At(w, "sent")
  /\ UNCHANGED <<inst, outbox, provider, holder, stray, faults>>

\* ... which lands; a provider that honours keys remembers them.
Land(r) ==
  /\ r \in net
  /\ net' = net \ {r}
  /\ provider' = [provider EXCEPT
       ![r.step].done = IF r.step \in Keyed /\ r.key \in provider[r.step].seen
                        THEN @ ELSE @ + 1,
       ![r.step].seen = @ \cup {r.key}]
  /\ UNCHANGED <<inst, outbox, wk, holder, blind, stray, faults>>

Answer(w) ==
  /\ wk[w].pc = "sent" /\ Request(w) \notin net
  /\ wk' = At(w, "mark")
  /\ UNCHANGED <<inst, outbox, provider, net, holder, blind, stray, faults>>

\* The request is refused, or its answer is lost: execute raises or is not ok.
ExecuteFails(w) ==
  /\ wk[w].pc = "sent"
  /\ UseFault
  /\ net' \in {net, net \ {Request(w)}}
  /\ wk' = [wk EXCEPT ![w].pc = "mark", ![w].out = "fatal"]
  /\ UNCHANGED <<inst, outbox, provider, holder, blind, stray>>

MarkedStatus(w) == IF wk[w].out = "ok" THEN "executed" ELSE "failed"

\* OutboxStore.mark: EXECUTED, and the outcome joins the attempt's effects; or
\* FAILED, and SideEffectError, which is not retryable.
Mark(w) ==
  /\ wk[w].pc = "mark"
  /\ Write(w, wk[w].step, MarkedStatus(w))
  /\ wk' = [wk EXCEPT ![w].pc = "report",
                      ![w].eff = IF wk[w].out = "ok" THEN "executed" ELSE "none"]
  /\ UNCHANGED <<inst, provider, net, holder, blind, faults>>
-----------------------------------------------------------------------------
(***************************************************************************)
(* The end of the attempt (run_attempt) and the append of its result.      *)
(***************************************************************************)

\* wait_for cancels the runner, wherever it is; a row that is being marked may
\* or may not get its status.
Timeout(w) ==
  /\ \/ wk[w].pc \in {"claim", "reconcile", "execute", "sent", "mark"}
     \/ wk[w].pc = "report" /\ wk[w].out = "ok"
  /\ UseFault
  /\ \/ UNCHANGED <<outbox, stray>>
     \/ wk[w].pc = "mark" /\ Write(w, wk[w].step, MarkedStatus(w))
  /\ wk' = [wk EXCEPT ![w].pc = "report", ![w].out = "retryable"]
  /\ UNCHANGED <<inst, provider, net, holder, blind>>

\* What a runner may raise after its effect.
RunnerErrors ==
  {"RateLimitError", "LLMTimeoutError", "MalformedOutputError", "ConflictError",
   "NoEligibleModelError", "BudgetExceededError", "StepExecutionError",
   "ConnectionError", "ConnectionResetError"}

RetryableByName ==
  {"LLMTimeoutError", "RateLimitError", "MalformedOutputError", "StepTimeoutError",
   "ConflictError", "ConnectionError", "TimeoutError"}

\* By the exact name: of a subclass it does not know it says fatal.
Classify(error) == IF error \in RetryableByName THEN "retryable" ELSE "fatal"

\* The runner fails after its effect, whose outcome is reported all the same.
RunnerFails(w) ==
  /\ wk[w].pc = "report" /\ wk[w].out = "ok"
  /\ UseFault
  /\ \E error \in RunnerErrors : wk' = [wk EXCEPT ![w].out = Classify(error)]
  /\ UNCHANGED <<inst, outbox, provider, net, holder, blind, stray>>

OnEffectIntent(ref) == IF ref = "none" THEN "pending" ELSE ref

OnEffectExecuted(ref) == "executed"

OnEffectCompensated(ref) == IF ref = "none" THEN ref ELSE "compensated"

\* The events an outcome of the guard becomes: an effect that was found done
\* already has no intent of its own.
RefAfter(ref, eff) ==
  CASE eff = "none" -> ref
    [] eff = "dedup" -> OnEffectExecuted(ref)
    [] eff = "executed" -> OnEffectExecuted(OnEffectIntent(ref))

\* The result append.  A timeout is retryable.  A step that ends as failed is
\* rolled back here also after BudgetExceededError, which the driver escalates
\* (module Engine has that).
Report(w) ==
  LET s == wk[w].step
      after == IF wk[w].out = "ok" THEN "completed"
               ELSE IF wk[w].out = "retryable" /\ inst.att[s] <= MaxRetries THEN "retry"
               ELSE "failed"
  IN /\ wk[w].pc = "report" /\ wk[w].fresh
     /\ DriverAppend(w, [inst EXCEPT !.st[s] = after,
                                     !.refs[s] = RefAfter(@, wk[w].eff)], Planning)
     /\ UNCHANGED <<outbox, provider, net, holder, blind, stray, faults>>
-----------------------------------------------------------------------------
(***************************************************************************)
(* Rollback: compensate_instance and the append that records it.           *)
(***************************************************************************)

\* Mutant: only the effect of the failed step is looked for.
ToUndoOfFailed == {s \in Failed : outbox[s].status = "executed"}

\* list_for_instance(status=EXECUTED)
ToUndo == {s \in Steps : outbox[s].status = "executed"}

\* Newest first.
StartRollback(w) ==
  /\ Plans(w) /\ Failed # {}
  /\ wk' = [wk EXCEPT ![w].pc = "undo", ![w].todo = Reverse(InOrder(ToUndo))]
  /\ UNCHANGED <<inst, outbox, provider, net, holder, blind, stray, faults>>

\* provider.compensate returns.  A provider without a compensation for the
\* effect answers None and undoes nothing.
Compensate(w) ==
  LET s == Head(wk[w].todo)
  IN /\ wk[w].pc = "undo" /\ wk[w].todo # <<>>
     /\ provider' = [provider EXCEPT ![s].undo = IF s \in Undoable THEN "done" ELSE "kept"]
     /\ wk' = At(w, "undone")
     /\ UNCHANGED <<inst, outbox, net, holder, blind, stray, faults>>

\* The result is not ok: nothing is undone, and nobody looks at it.
CompensateNotOk(w) ==
  LET s == Head(wk[w].todo)
  IN /\ wk[w].pc = "undo" /\ wk[w].todo # <<>> /\ s \in Undoable
     /\ UseFault
     /\ provider' = [provider EXCEPT ![s].undo = IF @ = "done" THEN @ ELSE "refused"]
     /\ wk' = At(w, "undone")
     /\ UNCHANGED <<inst, outbox, net, holder, blind, stray>>

\* CompensationError; the row keeps its status.
CompensateFails(w) ==
  /\ wk[w].pc = "undo" /\ wk[w].todo # <<>>
  /\ UseFault
  /\ wk' = At(w, "escalate")
  /\ UNCHANGED <<inst, outbox, provider, net, holder, blind, stray>>

\* COMPENSATED, whatever the provider has answered.
MarkCompensated(w) ==
  LET s == Head(wk[w].todo)
  IN /\ wk[w].pc = "undone"
     /\ Write(w, s, "compensated")
     /\ wk' = [wk EXCEPT ![w].pc = "undo", ![w].todo = Tail(@), ![w].undone = @ \cup {s}]
     /\ UNCHANGED <<inst, provider, net, holder, blind, faults>>

\* SideEffectCompensated for what this drive has undone, then ROLLED_BACK.  The
\* steps of this module have no compensation_action (those are in Engine).
RecordRollback(w) ==
  /\ wk[w].pc = "undo" /\ wk[w].todo = <<>> /\ wk[w].fresh
  /\ DriverAppend(w, [inst EXCEPT !.status = "rolled_back",
       !.refs = [s \in Steps |-> IF s \in wk[w].undone THEN OnEffectCompensated(inst.refs[s])
                                 ELSE inst.refs[s]]], IdleWorker)
  /\ holder' = IF holder = w THEN NoWorker ELSE holder
  /\ UNCHANGED <<outbox, provider, net, blind, stray, faults>>

\* _escalate_compensation_failure
EscalateCompensation(w) ==
  /\ wk[w].pc = "escalate" /\ wk[w].fresh
  /\ DriverAppend(w, [inst EXCEPT !.status = "waiting_approval"], IdleWorker)
  /\ holder' = IF holder = w THEN NoWorker ELSE holder
  /\ UNCHANGED <<outbox, provider, net, blind, stray, faults>>

\* The human answers: abort, or the rollback is accepted as it is.
AnswerEscalation ==
  /\ inst.status = "waiting_approval"
  /\ \E to \in {"failed", "rolled_back"} : inst' = [inst EXCEPT !.status = to, !.human = TRUE]
  /\ wk' = [w \in Workers |-> [wk[w] EXCEPT !.fresh = FALSE]]
  /\ UNCHANGED <<outbox, provider, net, holder, blind, stray, faults>>
-----------------------------------------------------------------------------
Drive(w) ==
  \/ Claim(w) \/ Dispatch(w) \/ Complete(w) \/ LoseRace(w) \/ Crash(w)
  \/ ClaimRow(w) \/ Reconcile(w) \/ ReconcileFails(w) \/ Send(w) \/ Answer(w)
  \/ ExecuteFails(w) \/ Mark(w) \/ Timeout(w) \/ RunnerFails(w) \/ Report(w)
  \/ StartRollback(w) \/ Compensate(w) \/ CompensateNotOk(w) \/ CompensateFails(w)
  \/ MarkCompensated(w) \/ RecordRollback(w) \/ EscalateCompensation(w)

Next ==
  \/ \E w \in Workers : Drive(w)
  \/ \E r \in net : Land(r)
  \/ LeaseLapses \/ AnswerEscalation

Spec == Init /\ [][Next]_vars
-----------------------------------------------------------------------------
Rows == [status : {"pending", "executed", "failed", "compensated"}, attempts : Nat \ {0}]

\* The instance, the outbox and the drives have the shape of the code's; a row
\* that exists has been tried at least once.
TypeOK ==
  /\ inst.status \in {"running", "waiting_approval", "rolled_back", "failed", "completed"}
  /\ inst.st \in [Steps -> {"ready", "running", "retry", "failed", "completed"}]
  /\ inst.att \in [Steps -> Nat] /\ inst.human \in BOOLEAN
  /\ inst.refs \in [Steps -> {"none", "executed", "compensated"}]
  /\ outbox \in [Steps -> Rows \cup {NoRow}]
  /\ \A s \in Steps : /\ provider[s].done \in Nat
                       /\ provider[s].undo \in {"none", "done", "refused", "kept"}
  /\ \A w \in Workers :
       /\ wk[w].pc \in {"idle", "plan", "claim", "reconcile", "execute", "sent", "mark",
                        "report", "undo", "undone", "escalate"}
       /\ wk[w].step \in 0 .. N
       /\ wk[w].eff \in {"none", "dedup", "executed"}
       /\ wk[w].out \in {"ok", "retryable", "fatal"}
  /\ holder \in Workers \cup {NoWorker}
  /\ blind \subseteq Steps /\ stray \subseteq Steps
  /\ faults \in 0 .. MaxFaults

\* ADR-0003, "exactly_once": with a provider that honours idempotency keys an
\* effect happens once, whatever crashes, times out, is retried or runs on
\* without its lease.
KeyedOnce == \A s \in Keyed : provider[s].done <= 1

\* ADR-0003, "at_least_once_dedup": a provider that can be asked is made to do
\* an effect twice only if two requests overlapped or the question failed.
ReconciledOnce ==
  \A s \in Reconciled \ Keyed : provider[s].done > 1 => s \in blind

\* What the log or the outbox calls executed has really happened: an attempt
\* is never credited with the effect of one that failed.
RecordIsTrue ==
  \A s \in Steps :
    inst.refs[s] # "none" \/ outbox[s].status \in {"executed", "compensated"}
      => provider[s].done > 0

\* The provider of effect s, in state p, has been asked to undo it.
UndoAnswered(s, p) == p.undo \in (IF s \in Undoable THEN {"done", "refused"} ELSE {"kept"})

\* ROLLED_BACK means that every effect the log knows of has been put to its
\* provider, across crashes in the middle of the rollback: it is undone if the
\* provider has a compensation for it, unless the answer was not ok, which
\* compensate_instance does not look at; and unless a human accepted less, or a
\* worker without the lease has overwritten the outbox row.
RollbackUndoes ==
  inst.status = "rolled_back" /\ ~inst.human =>
    \A s \in Steps \ stray : inst.refs[s] # "none" => UndoAnswered(s, provider[s])
=============================================================================
