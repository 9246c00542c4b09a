------------------------------ MODULE Spending ------------------------------
(***************************************************************************)
(* What LLM calls cost, and who pays: the budget view a wave is given      *)
(* (core/driver.py, core/cost/budget.py), the calls its steps make under   *)
(* it (core/runners.py, core/llm_client.py, module Router), the charges    *)
(* and recordings that the result append brings into the log, and the      *)
(* tenant's ledger, which is charged in a transaction of its own.          *)
(*                                                                         *)
(* The steps of an instance have no dependencies and run in one wave.  A   *)
(* worker that lost its lease keeps calling models until its append fails; *)
(* fresh says whether its version is still the log's, as in Engine.  Claim,*)
(* recovery, StepStarted are one action here, and so are the result append *)
(* and the retry it schedules.                                             *)
(***************************************************************************)
EXTENDS Router

CONSTANTS
  Insts,        \* instances of one tenant
  N,            \* steps of an instance
  Calls,        \* LLM calls a step makes
  Request,      \* the shape of the calls of each step
  Registry,     \* the model registry
  Probes,       \* sequence of route requests that the selection is checked for
  Usage,        \* token counts a provider may report: <<input, output>>
  Workers,
  NoWorker,
  Limits,       \* what budget_limit_usd of an instance may be
  RaisedLimit,  \* new_budget_usd of an answer
  DailyLimit,   \* org_daily_budget_usd
  MaxRetries,
  MaxFaults,    \* bound: crashes, lapses, timeouts, models that fail
  Days          \* bound: days that are looked at

Steps == 1 .. N

ASSUME SpendingAssumption ==
  /\ N \in Nat \ {0} /\ Calls \in Nat \ {0} /\ Days \in Nat \ {0}
  /\ IsFiniteSet(Insts) /\ IsFiniteSet(Workers) /\ NoWorker \notin Workers
  /\ Limits \cup {RaisedLimit, DailyLimit, MaxRetries, MaxFaults} \subseteq Nat
  /\ Usage \subseteq Nat \X Nat /\ Usage # {} /\ IsFiniteSet(Usage)
  /\ ValidRegistry(Registry)
  /\ \A s \in Steps : ValidCall(Request[s]) /\ Request[s].tier \in DOMAIN Registry.chains
  /\ \A n \in DOMAIN Probes : Probes[n].input \in Nat /\ Probes[n].output \in Nat

VARIABLES
  inst,    \* the folded instances
  wk,      \* what each worker's drive is doing
  holder,  \* whose lease on each instance is live
  ledger,  \* tenant_cost_ledger: cost_usd of each day
  today,
  bill,    \* history: what the providers have charged
  lost,    \* history: billed, and in no log: dropped answers, charges of dead drives
  missed,  \* history: in a log, and in no ledger
  paid,    \* history: how often each call of a step was paid since the step failed
  faults

vars == <<inst, wk, holder, ledger, today, bill, lost, missed, paid, faults>>

NoAttempt == [replay |-> 0, made |-> 0, charges |-> 0, recordings |-> 0, res |-> "none"]
NoView == [workflow |-> 0, daily |-> 0]
IdleWorker ==
  [pc |-> "idle", on |-> "none", fresh |-> FALSE, view |-> NoView,
   at |-> [s \in Steps |-> NoAttempt], due |-> 0]

Init ==
  /\ \E limit \in [Insts -> Limits] :
       inst = [i \in Insts |->
         [status |-> "running", st |-> [s \in Steps |-> "ready"],
          att |-> [s \in Steps |-> 0], err |-> [s \in Steps |-> "none"],
          recorded |-> [s \in Steps |-> 0], spent |-> 0, limit |-> limit[i]]]
  /\ wk = [w \in Workers |-> IdleWorker]
  /\ holder = [i \in Insts |-> NoWorker]
  /\ ledger = [d \in 1 .. Days |-> 0] /\ today = 1
  /\ bill = 0 /\ lost = 0 /\ missed = 0
  /\ paid = [i \in Insts |-> [s \in Steps |-> [k \in 1 .. Calls |-> 0]]]
  /\ faults = 0
-----------------------------------------------------------------------------
UseFault == faults < MaxFaults /\ faults' = faults + 1

\* An append by w to the log of instance i.
DriverAppend(w, i, new, rec) ==
  /\ inst' = [inst EXCEPT ![i] = new]
  /\ wk' = [v \in Workers |-> IF v = w THEN rec
                              ELSE IF wk[v].on = i THEN [wk[v] EXCEPT !.fresh = FALSE]
                              ELSE wk[v]]

Released(w, i) == [holder EXCEPT ![i] = IF @ = w THEN NoWorker ELSE @]

Charges(w) == SumOver(Steps, [s \in Steps |-> wk[w].at[s].charges])

Money == <<ledger, bill, lost, missed, paid>>
-----------------------------------------------------------------------------
Wave(i) == {s \in Steps : inst[i].st[s] \in {"ready", "running"}}

\* BudgetExceeded and PAUSED: nothing is dispatched once the budget is spent.
BlockOnBudget(w, i) ==
  /\ wk[w].pc = "idle" /\ holder[i] = NoWorker
  /\ inst[i].status = "running" /\ inst[i].spent >= inst[i].limit
  /\ DriverAppend(w, i, [inst[i] EXCEPT !.status = "paused"], IdleWorker)
  /\ UNCHANGED <<holder, today, Money, faults>>

\* The claim, _recover_in_flight and StepStarted for the wave.
Dispatch(w, i) ==
  /\ wk[w].pc = "idle" /\ holder[i] = NoWorker
  /\ inst[i].status = "running" /\ inst[i].spent < inst[i].limit
  /\ holder' = [holder EXCEPT ![i] = w]
  /\ DriverAppend(w, i,
       [inst[i] EXCEPT
          !.st = [s \in Steps |-> IF s \in Wave(i) THEN "running" ELSE @[s]],
          !.att = [s \in Steps |-> IF s \in Wave(i) THEN @[s] + 1 ELSE @[s]]],
       [IdleWorker EXCEPT !.pc = "view", !.on = i, !.fresh = TRUE,
          !.view.workflow = inst[i].limit - inst[i].spent,
          !.at = [s \in Steps |->
            IF s \in Wave(i)
            THEN [NoAttempt EXCEPT !.replay = inst[i].recorded[s], !.res = "run"]
            ELSE NoAttempt]])
  /\ UNCHANGED <<today, Money, faults>>

\* Mutant: what others have spent today is not looked at.
DailyLeftIgnoringLedger == DailyLimit

DailyLeft == DailyLimit - ledger[today]

\* BudgetService.view, once for the wave.
TakeView(w) ==
  /\ wk[w].pc = "view"
  /\ wk' = [wk EXCEPT ![w].pc = "exec", ![w].view.daily = DailyLeft]
  /\ UNCHANGED <<inst, holder, today, Money, faults>>
-----------------------------------------------------------------------------
(***************************************************************************)
(* StepContext.llm.                                                        *)
(***************************************************************************)
Runs(w, s) == wk[w].pc = "exec" /\ wk[w].at[s].res = "run"

Asks(w, s) == Runs(w, s) /\ wk[w].at[s].made < Calls

Finish(w, s, res) == [wk EXCEPT ![w].at[s].res = res]

\* replay_llm holds a response for the next call.
Replays(w, s) == wk[w].at[s].made < wk[w].at[s].replay

Route == [s \in Steps |-> RouteRequest(Request[s])]
Tried == [s \in Steps |-> ModelsToTry(Registry, Route[s])]
Quotes == [s \in Steps |-> Quote(Registry, Route[s])]

VerdictFor(w, s) == Verdict(Quotes[s], wk[w].view)

\* The places in the chain, of models that registry.get knows.
Answering(s) == {n \in DOMAIN Tried[s] : Tried[s][n] \in Keys(Registry)}

PriceOf(s, n, u) == CostUsd(Registry.models[Tried[s][n]], u[1], u[2])

NoUsage == <<0, 0>>

\* What the models at the places P may have billed although LLMClient.complete
\* got no response from them.  An answer without content is billed; then the
\* provider raises MalformedOutputError, which leaves its usage out, and the next
\* model is tried.
Dropped(s, P) ==
  {SumOver(P, [n \in P |-> PriceOf(s, n, u[n])]) : u \in [P -> Usage \cup {NoUsage}]}

TriedBefore(s, n) == {k \in Answering(s) : k < n}

\* The next call goes to a provider.
Calling(w, s) == Asks(w, s) /\ ~Replays(w, s) /\ VerdictFor(w, s) = "route"

\* charge, and the recording of the next call.  The provider has billed its cost;
\* the models that failed before it, the waste.
Charge(w, s, cost, waste) ==
  LET a == wk[w].at[s]
  IN /\ bill' = bill + cost + waste /\ lost' = lost + waste
     /\ paid' = [paid EXCEPT ![wk[w].on][s][a.made + 1] = @ + 1]
     /\ wk' = [wk EXCEPT ![w].at[s] = [a EXCEPT !.made = a.made + 1,
                                                !.charges = a.charges + cost,
                                                !.recordings = a.recordings + 1]]

\* Replayed from the log; or routed, answered by a model of the chain (unless it
\* is the first, others have failed), charged and recorded.
CallAnswered(w, s) ==
  /\ Asks(w, s)
  /\ IF Replays(w, s)
     THEN /\ wk' = [wk EXCEPT ![w].at[s].made = @ + 1]
          /\ UNCHANGED <<bill, lost, paid, faults>>
     ELSE /\ VerdictFor(w, s) = "route"
          /\ \E n \in Answering(s), u \in Usage :
               /\ IF n = 1 THEN UNCHANGED faults ELSE UseFault
               /\ \E waste \in Dropped(s, TriedBefore(s, n)) :
                    Charge(w, s, PriceOf(s, n, u), waste)
  /\ UNCHANGED <<inst, holder, ledger, today, missed>>

\* BudgetExceededError or NoEligibleModelError: neither is retryable.
CallRefused(w, s) ==
  /\ Asks(w, s) /\ ~Replays(w, s) /\ VerdictFor(w, s) # "route"
  /\ wk' = Finish(w, s, IF VerdictFor(w, s) = "budget_exceeded" THEN "budget" ELSE "fatal")
  /\ UNCHANGED <<inst, holder, today, Money, faults>>

\* What is billed and dropped.
Waste(cost) == bill' = bill + cost /\ lost' = lost + cost

\* Every model of the chain fails with a retryable error, or those before the
\* n-th do, and that one fails with another.
CallFails(w, s) ==
  /\ Calling(w, s)
  /\ UseFault
  /\ \/ /\ wk' = Finish(w, s, "retryable")
        /\ \E waste \in Dropped(s, Answering(s)) : Waste(waste)
     \/ /\ wk' = Finish(w, s, "fatal")
        /\ \E n \in Answering(s) : \E waste \in Dropped(s, TriedBefore(s, n)) : Waste(waste)
  /\ UNCHANGED <<inst, holder, ledger, today, missed, paid>>

\* The runner returns, or raises after its calls.
RunnerReturns(w, s) ==
  /\ Runs(w, s) /\ wk[w].at[s].made = Calls
  /\ \E res \in {"ok", "retryable"} : wk' = Finish(w, s, res)
  /\ UNCHANGED <<inst, holder, today, Money, faults>>

\* wait_for cancels the runner.  The charges are kept, the recordings are not;
\* a call in flight may be billed all the same, and models tried before it.
Timeout(w, s) ==
  /\ Runs(w, s)
  /\ UseFault
  /\ wk' = [wk EXCEPT ![w].at[s] = [@ EXCEPT !.res = "retryable", !.recordings = 0]]
  /\ \/ UNCHANGED <<bill, lost>>
     \/ Calling(w, s) /\ \E waste \in Dropped(s, Answering(s)) : Waste(waste)
  /\ UNCHANGED <<inst, holder, ledger, today, missed, paid>>
-----------------------------------------------------------------------------
(***************************************************************************)
(* The result append, and the ledger.                                      *)
(***************************************************************************)
InWave(w) == {s \in Steps : wk[w].at[s].res # "none"}
Ended(w) == wk[w].pc = "exec" /\ \A s \in Steps : wk[w].at[s].res # "run"

\* Mutant: a failed attempt costs nothing.
ChargedOnlyIfOk(w) ==
  SumOver({s \in Steps : wk[w].at[s].res = "ok"}, [s \in Steps |-> wk[w].at[s].charges])

\* CostCharged for every charge of every outcome, ok or not.
Charged(w) == Charges(w)

\* Mutant: the recordings come after StepFailed in the batch, and stay.
RecordedAfterFailure(w, s) == inst[wk[w].on].recorded[s] + wk[w].at[s].recordings

\* LLMCallRecorded for every recording, then StepCompleted, or StepFailed,
\* whose fold clears them.
Recorded(w, s) ==
  IF wk[w].at[s].res = "ok" THEN inst[wk[w].on].recorded[s] + wk[w].at[s].recordings ELSE 0

StepAfter(w, s) ==
  LET res == wk[w].at[s].res
  IN IF res = "none" THEN inst[wk[w].on].st[s]
     ELSE IF res = "ok" THEN "completed"
     ELSE IF res = "retryable" /\ inst[wk[w].on].att[s] <= MaxRetries THEN "ready"
     ELSE "failed"

\* The first failed step decides what becomes of the instance: a cost_threshold
\* escalation, or the failure policy.
StatusAfter(new) ==
  LET failures == {s \in Steps : new.st[s] = "failed"}
  IN IF failures # {} THEN IF new.err[Min(failures)] = "budget" THEN "waiting" ELSE "failed"
     ELSE IF \A s \in Steps : new.st[s] = "completed" THEN "completed" ELSE "running"

AppendResults(w) ==
  LET i == wk[w].on
      new == [inst[i] EXCEPT
        !.st = [s \in Steps |-> StepAfter(w, s)],
        !.err = [s \in Steps |-> IF s \in InWave(w) THEN wk[w].at[s].res ELSE @[s]],
        !.recorded = [s \in Steps |-> IF s \in InWave(w) THEN Recorded(w, s) ELSE @[s]],
        !.spent = @ + Charged(w)]
  IN /\ Ended(w) /\ wk[w].fresh
     /\ DriverAppend(w, i, [new EXCEPT !.status = StatusAfter(new)],
          [IdleWorker EXCEPT !.pc = "ledger", !.on = i, !.fresh = TRUE, !.due = Charges(w)])
     /\ paid' = [paid EXCEPT ![i] = [s \in Steps |->
          IF s \in InWave(w) /\ wk[w].at[s].res # "ok" THEN [k \in 1 .. Calls |-> 0] ELSE @[s]]]
     /\ UNCHANGED <<holder, ledger, today, bill, lost, missed, faults>>

\* Mutant: the row keeps what is left of the day's budget, not what is spent.
LedgerRemaining(w) == ledger[today] - wk[w].due

\* Mutant: the row is set from a total read earlier.
LedgerFromZero(w) == wk[w].due

\* ON CONFLICT DO UPDATE SET cost_usd = cost_usd + amount
LedgerAfter(w) == ledger[today] + wk[w].due

\* record_spend, on the day it is by now; the drive goes on (or ends).
RecordSpend(w) ==
  /\ wk[w].pc = "ledger"
  /\ ledger' = [ledger EXCEPT ![today] = LedgerAfter(w)]
  /\ wk' = [wk EXCEPT ![w] = IdleWorker]
  /\ holder' = Released(w, wk[w].on)
  /\ UNCHANGED <<inst, today, bill, lost, missed, paid, faults>>
-----------------------------------------------------------------------------
\* ConflictError or LeaseLostError: the wave's charges go with its results.
LoseRace(w) ==
  /\ Ended(w)
  /\ ~wk[w].fresh \/ holder[wk[w].on] # w
  /\ lost' = lost + Charges(w)
  /\ wk' = [wk EXCEPT ![w] = IdleWorker]
  /\ holder' = Released(w, wk[w].on)
  /\ UNCHANGED <<inst, ledger, today, bill, missed, paid, faults>>

Crash(w) ==
  /\ wk[w].pc # "idle"
  /\ UseFault
  /\ lost' = lost + Charges(w)
  /\ missed' = missed + wk[w].due
  /\ wk' = [wk EXCEPT ![w] = IdleWorker]
  /\ holder' = Released(w, wk[w].on)
  /\ UNCHANGED <<inst, ledger, today, bill, paid>>

LeaseLapses(i) ==
  /\ holder[i] # NoWorker
  /\ UseFault
  /\ holder' = [holder EXCEPT ![i] = NoWorker]
  /\ UNCHANGED <<inst, wk, today, Money>>

Midnight ==
  /\ today < Days
  /\ today' = today + 1
  /\ UNCHANGED <<inst, wk, holder, Money, faults>>

\* The cost_threshold escalation of a step is approved with a larger budget;
\* the other failed steps still are.
RaiseBudget(i) ==
  LET s == Min({t \in Steps : inst[i].st[t] = "failed"})
      new == [inst[i] EXCEPT !.limit = RaisedLimit, !.st[s] = "ready"]
  IN /\ inst[i].status = "waiting" /\ inst[i].limit < RaisedLimit
     /\ inst' = [inst EXCEPT ![i] = [new EXCEPT !.status = StatusAfter(new)]]
     /\ wk' = [w \in Workers |-> IF wk[w].on = i THEN [wk[w] EXCEPT !.fresh = FALSE]
                                 ELSE wk[w]]
     /\ UNCHANGED <<holder, today, Money, faults>>
-----------------------------------------------------------------------------
Next ==
  \/ \E w \in Workers :
       \/ TakeView(w) \/ AppendResults(w) \/ RecordSpend(w) \/ LoseRace(w) \/ Crash(w)
       \/ \E i \in Insts : BlockOnBudget(w, i) \/ Dispatch(w, i)
       \/ \E s \in Steps : CallAnswered(w, s) \/ CallRefused(w, s) \/ CallFails(w, s)
                           \/ RunnerReturns(w, s) \/ Timeout(w, s)
  \/ \E i \in Insts : LeaseLapses(i) \/ RaiseBudget(i)
  \/ Midnight

Spec == Init /\ [][Next]_vars
-----------------------------------------------------------------------------
Attempts == [replay : 0 .. Calls, made : 0 .. Calls, charges : Nat, recordings : 0 .. Calls,
             res : {"none", "run", "ok", "retryable", "fatal", "budget"}]

\* Instances, drives and the ledger have the shape of the code's; a step has at
\* most one attempt's recordings.
TypeOK ==
  /\ \A i \in Insts :
       /\ inst[i].status \in {"running", "paused", "waiting", "failed", "completed"}
       /\ inst[i].st \in [Steps -> {"ready", "running", "failed", "completed"}]
       /\ inst[i].att \in [Steps -> 0 .. MaxRetries + MaxFaults + 2]
       /\ inst[i].err \in [Steps -> {"none", "ok", "retryable", "fatal", "budget"}]
       /\ inst[i].recorded \in [Steps -> 0 .. Calls]
       /\ inst[i].spent \in Nat /\ inst[i].limit \in Limits \cup {RaisedLimit}
  /\ \A w \in Workers :
       /\ wk[w].pc \in {"idle", "view", "exec", "ledger"}
       /\ wk[w].on \in Insts \cup {"none"}
       /\ wk[w].at \in [Steps -> Attempts]
       /\ {wk[w].view.workflow, wk[w].view.daily} \subseteq Int /\ wk[w].due \in Nat
  /\ holder \in [Insts -> Workers \cup {NoWorker}]
  /\ ledger \in [1 .. Days -> Nat] /\ today \in 1 .. Days
  /\ {bill, lost, missed} \subseteq Nat
  /\ paid \in [Insts -> [Steps -> [1 .. Calls -> Nat]]]
  /\ faults \in 0 .. MaxFaults

\* The cost of every response that LLMClient.complete returned is in the log of an
\* instance, attempts that failed included, or in the hands of a drive that is
\* going to append it, unless it went with a drive that crashed or lost the race:
\* what the providers charged beyond that is for answers the client never
\* returned, malformed ones and those of a call that was cut off.
BillIsLogged ==
  bill = SumOver(Insts, [i \in Insts |-> inst[i].spent])
           + SumOver(Workers, [w \in Workers |-> Charges(w)]) + lost

\* Every cent in a log is in the tenant's ledger, or about to be, or was lost
\* with a drive that died between the two transactions; concurrent drives do
\* not overwrite each other's spend.
LedgerIsComplete ==
  SumOver(Insts, [i \in Insts |-> inst[i].spent]) =
    SumOver(1 .. Days, ledger) + SumOver(Workers, [w \in Workers |-> wk[w].due]) + missed

MaxCallCost ==
  Max({CostUsd(Registry.models[c[1]], c[2][1], c[2][2]) : c \in Keys(Registry) \X Usage})
MaxWaveCost == N * Calls * MaxCallCost

\* ADR-0008, "Budgets are never silently blown": a day's ledger exceeds the
\* tenant's limit by no more than the waves that can be in flight at once, however
\* old the views are under which they call.
TenantOverspendBounded ==
  \A d \in 1 .. Days : ledger[d] <= DailyLimit + Cardinality(Workers) * MaxWaveCost

\* A retry calls the models afresh: only a step that completed has recordings,
\* one for every call it made.
OnlyResultsAreReplayed ==
  \A i \in Insts, s \in Steps :
    inst[i].recorded[s] = IF inst[i].st[s] = "completed" THEN Calls ELSE 0

ProbeQuotes == [n \in DOMAIN Probes |-> Quote(Registry, Probes[n])]
CapableCosts == [n \in DOMAIN Probes |-> CostsOfCapable(Registry, Probes[n])]

\* The router refuses a call exactly when no model that could serve it fits what
\* is left of both budgets, and else takes the cheapest one: with the views that
\* waves really get, for requests at the models' limits.
RoutingCorrect ==
  \A w \in Workers :
    wk[w].pc = "exec" /\ (\A s \in Steps : wk[w].at[s].made = 0) =>
      \A n \in DOMAIN Probes :
        /\ Verdict(ProbeQuotes[n], wk[w].view) = "route" <=>
             \E c \in CapableCosts[n] : Allows(wk[w].view, c)
        /\ \A c \in CapableCosts[n] : ProbeQuotes[n].cost <= c

\* ADR-0005: "When a crashed step re-runs ... its recorded responses are
\* replayed in order (provider not called, nothing re-charged)".
PaidOnce == \A i \in Insts, s \in Steps, k \in 1 .. Calls : paid[i][s][k] <= 1
=============================================================================
