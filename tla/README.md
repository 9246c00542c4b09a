# AgentForge in TLA+

TLA+ modules for the durable execution engine of AgentForge (`src/src/agentforge`), the TLC
configurations that check them on small instances, and TLAPS proofs of what matters most about the
worker leases, the event store, the driver, side effects, spending, the definition repository and live
streams. `PROJECT.json` is the index: components, runs, mutants, the map from
definitions to source lines, findings, hazards and theorems.

## The system

AgentForge runs workflows (DAGs of steps) for tenants. An instance of a workflow is an event log in
PostgreSQL. Workers lease instances, fold their log into a state, decide what to do next, run steps
and append what happened. Steps call models and perform external effects. People answer escalations,
operators pause, resume, abort and requeue. Nobody talks to anybody directly: everything goes through the
tables, mostly through optimistic appends.

| Component | State | Operations | What makes it hard |
|---|---|---|---|
| Worker (`worker.py`) | `_active`, three coroutines | claim, heartbeat, drive, sweep, stop/drain | every await interleaves the coroutines; cancellation inside `finally`; crashes |
| Lease store (`core/leasing.py`) | `instance_leases`: owner, fence, expiry | acquire_runnable, heartbeat, release, guard | statement snapshot older than the row locks; rows matched without the fence |
| Event store (`core/persistence/event_store.py`) | `workflow_events`, `instance_index`, `instance_snapshots`, `escalations` | append, append_new, get_instance, state_at | concurrent transactions at READ COMMITTED; projections inside the append |
| Fold (`core/events/fold.py`) | the `WorkflowInstance` | one handler per event | transition tables that refuse a whole append; resuming from a snapshot |
| Driver (`core/driver.py`) | none between drives | plan, dispatch, results, retries, reviews, failure policies, rollback, recovery | several appends per handler with a possible crash, lost lease or conflict between any two |
| Escalations (`core/escalation.py`) | escalation rows | resolve, expire_due | a row is checked before the instance is read; several rows of one instance |
| Dead letters (`core/dead_letter.py`) | `dead_letters` | record, requeue, mark_resolved | two transactions per operation |
| Control (`core/control.py`) | - | pause, resume, abort | races a drive |
| Side effects (`core/side_effects.py`, `core/outbox.py`, `integrations/actions`) | outbox rows, the outside world | execute, reconcile, compensate | the effect is neither in the log's nor in the outbox's transaction; requests land late |
| Executor and runners (`core/executor.py`, `core/runners.py`) | one attempt | run_attempt, llm, execute_effect, request_review | timeouts cut an attempt anywhere |
| Cost (`core/cost/*`, `core/llm_client.py`) | `tenant_cost_ledger`, model registry | view, route, fall back, charge, record_spend | views are old when they are used; the ledger is charged in a transaction of its own |
| Definitions (`core/persistence/definition_repo.py`, `core/instances.py`, `core/domain/dag.py`) | `workflow_definitions` | register, resolve, create_instance, validate | two registrations of one name; versions pinned by running instances |
| Streams (`core/pubsub.py`, `api/routes/instances.py`) | Redis channels, WebSockets | publish, connect, subscribe, relay | published after the commit, at most once; snapshot before subscription |

Agents, evaluation harness, use cases, observability and configuration are prompting, I/O, formatting or
wiring and keep no workflow state of their own.

What makes it correct: the log is a sequence of atomic appends, each by somebody who had seen all of it;
projections equal the fold of the log; of all the drives ever started for an instance at most one can
still write; a step runs only after its dependencies and its approval; results are recorded for the attempt
that is running; finished work is neither changed nor repeated; every runnable instance is driven until
it comes to rest; an effect happens once where the provider allows it and is undone by a rollback; what
the providers bill is in the log and in the ledger but for named losses; and an instance keeps the
definition it was started with.

## The modules

| Module | Models | Composed with |
|---|---|---|
| `Statuses` | status sets and the two transition tables (`core/domain/enums.py`) | extended by `Engine` and `Fold` |
| `Leasing` | the lease table with the claim, heartbeat and drive loops of several workers | - |
| `LeasingProofs` | theorems about `Leasing` | extends it |
| `Journal` | abstract: what the store promises its callers | implemented by `EventStore` |
| `EventStore` | the append transaction of several writers, statement by statement; index and snapshot | instances `Journal` |
| `EventStoreProofs` | theorems about `EventStore`, the refinement of `Journal` included | extends it |
| `Orders` | the order in which code walks through a set: `Before`, `InOrder`, `FirstOf` | extended by `Engine`, `SideEffects`, `Router` |
| `OrdersProofs` | lemmas about `Orders` | extends it |
| `Engine` | driver, escalations, sweep, dead letters and control on one instance, under crashes and lost leases | uses the store as `Journal` describes it |
| `EngineProofs` | theorems about `Engine` | extends it |
| `Fold` | the event handlers and the fold | used by `Drafts` |
| `Drafts` | the events of every append that `Engine` makes | extends `Engine` and `Fold` |
| `SideEffects` | guard, outbox, providers, attempts with timeouts, rollback | a drive of its own, cut down to what effects see |
| `SideEffectsProofs` | theorems about `SideEffects` | extends it and `OrdersProofs` |
| `Router` | token estimate, model registry, choice of a model, fallback chain: operators without state | used by `Spending` |
| `Spending` | model calls of several instances, budget views, charges, recordings, the tenant's ledger | extends `Router` |
| `SpendingProofs` | theorems about `Router` and `Spending`, and about sums over finite sets | extends `Spending` and `OrdersProofs` |
| `Dag` | dependency check, Kahn layers, validation of a definition: operators without state | used by `Catalog` |
| `Catalog` | registering definitions and starting instances through the API, statement by statement | extends `Dag` |
| `CatalogProofs` | theorems about `Catalog` | extends it |
| `Streams` | publication after the commit, and the WebSocket of a viewer | - |
| `StreamsProofs` | theorems about `Streams` | extends it |
| `MC...` | symmetry, definitions, registries and submissions for TLC | extend the above |

A definition marked "Mutant" in a module is a plausible wrong version of the definition next to it.
PROJECT.json names, for every property of a passing run, a mutant under which TLC finds that property
violated.

### Leasing

Each operation is cut at its awaits. `acquire_runnable` is three steps: `ClaimSelect` (the statement takes
its snapshot, with the number of free slots computed before), `ClaimLock` (`FOR UPDATE OF i SKIP LOCKED`
locks index rows and re-checks the index columns, not the lease columns), `ClaimCommit` (the upserts commit
and drives are spawned for instances not in `_active`). A heartbeat is `HeartbeatSend` (the UPDATE) and
`HeartbeatReply` (the answer is applied, cancelling drives). A drive goes through `driving`, `releasing`,
`released` and is popped; a cancellation inside the `finally` block leaves it `leaked`. Time is relative:
`left` is the number of ticks until `expires_at`, and stays 0 once it has come: the code only asks whether
`expires_at` has passed. All workers read one clock; skew is not modelled.

### EventStore and Journal

`_commit` is `Open`, `Guard`, `Check`, `Flush`, `ProjectRows`, `Commit`; any of them may be followed by
`Rollback`, and `Claim` moves the lease between any two. `Flush` is where PostgreSQL's unique index blocks
or refuses. The folded instance is reduced to its version, the steps it knows and the number of events
applied per step: enough to notice an event lost, doubled or hidden. The refinement maps the committed rows
to the log and the version each transaction was opened with to `seen`.

### Engine, Fold and Drafts

One instance, whose definition is any of `Definitions`. `inst` is the fold of the log. Versions are
abstracted to a bit per worker, `fresh`: an append by anybody else clears it and a worker that is not
fresh loses its next append. That is sound because of `NoLostUpdate` and the refinement above. `_plan` is
a set of operators on `inst` (`Candidates`, `Held`, `ApprovalNeeded`, `Wave`, ...), and each branch of `_run`
is an action with the plan's pre-emption order as its guard. Handlers with several appends are several
actions: `Dispatch`, `Results`, `ScheduleRetries`, `RaiseReviews`; `DeadLetter`, `RecordDeadLetter`;
`Requeue`, `MarkResolved`. The human's and the sweep's read of the escalation row are actions of their own.
An attempt is its outcome: success, success with a review request, retryable or fatal failure, refusal for
lack of budget. Every attempt costs the same, one refused for its budget too, since it may have made calls before
the one that was refused. Requeue requests come one at a time, and the dead-letter row is read together with the
instance; a request that read a row which another one then resolves acts like one after a requeue that was cut
short, which is modelled. The answer "modify" acts as "approve". The cut-off of a drive after 1000 iterations is left
out. `Engine` takes the instance to know all its steps; the run `definition` shows that the store as written
does not deliver that. Two variables are histories: `cut` holds the pairs of appends that a crash or a lost race has
separated, `redone` the steps that a requeue has reset although they had not failed.

`Engine` says what an append does to the instance; `Drafts` says which events it consists of, in the order in
which the code builds the list, and `Fold` what the handlers make of them, with the transition tables in force.
`AppendsFold` puts the two together: for every step of `Engine` that appends, folding the drafts, one after
the other, onto the old instance is never rejected and gives the new one. So `Engine` and the event handlers
are two independent readings of the code, checked against each other.

### SideEffects

One instance whose steps run one after the other, with one effect each. The guard's `execute` is `ClaimRow` (the
upsert that counts attempts), `Reconcile`, `Send`, `Answer`, `Mark`. A request is a message in `net` that lands some
time later (`Land`), also when the attempt that sent it has timed out, its worker has died or its lease has gone. A
provider honours idempotency keys (`Keyed`), or can be asked whether a request landed (`Reconciled`), or neither. The
key is that of the step: the code's digest also contains the parameters (`core/side_effects.py:68`), and the module
takes an attempt that is repeated to ask for the same effect with the same parameters. An agent that picks others when
it is run again gets another key and another row, and nothing here is promised about it. A compensation (`Compensate`)
undoes an effect that its provider can undo (`Undoable`); of one it cannot, it returns nothing (`base.py:67`,
`n8n.py:114`), and it may return a result that is not ok (`CompensateNotOk`). `compensate_instance` marks the row
COMPENSATED in all three cases, and so does `MarkCompensated`; only an exception escalates. Two things are left to
`Engine`: a refusal for lack of budget, which escalates instead of rolling back, and compensation actions of steps.
`blind` and `stray` are histories of the two situations in which less is promised: a request made while another was
unaccounted for, and a row written by a worker that no longer holds the lease.

### Router and Spending

`Router` has the arithmetic of a choice with the source's comparisons: who can serve a request, the projected
cost, the order, the budgets, the chain of models to try. `Spending` lets two instances of one tenant
dispatch waves whose steps make model calls under one budget view per wave. Money is in integers. `bill` is
what the providers have charged; `lost` and `missed` are what is in no log and in no ledger, so that the other
cents can be accounted for exactly. A model that fails may have billed: an answer without content raises
`MalformedOutputError` after the fact (`anthropic_provider.py:79`, `openai_provider.py:74`), and
`LLMClient.complete` drops its usage and tries the next model. `Dropped` is what the models tried in vain may
have cost, each of them nothing or the price of an answer; it goes to `bill` and to `lost`, whether
a later model answers (`CallAnswered`), none does (`CallFails`) or the attempt is cut off (`Timeout`). `paid` counts
how often a call of the current attempt was paid; an attempt that failed in the log starts again from zero.

### Dag and Catalog

`Dag` is Kahn's algorithm as in `topological_layers`, with a reference definition beside it: a graph is
`Runnable` if every set of steps has one whose dependencies are outside of it. `Catalog` has
clients of two tenants, with scopes, that post definitions and start instances. `register` is the read,
the UPDATE that deactivates other versions (a snapshot, then row locks), and the INSERT with its unique
constraints; a transaction can be aborted at any of them.

### Streams

An appender commits, then publishes; the publication may fail, and another append may commit and publish first. A
viewer authenticates, reads the instance, is sent it, subscribes, and is relayed what arrives from then on.
`gap` is a history of what was published between the snapshot and the subscription.

## The runs

| Run | Result | Question |
|---|---|---|
| `fleet` | holds | fences distinct and monotonic, slots bounded, no release under a drive that passes its guard |
| `recovery` | violated | every runnable instance is driven in the end, without an operator (ADR-0004) |
| `commit` | holds | no lost update, index and snapshot are folds of the log, `EventStore` implements `Journal` |
| `definition` | violated | an instance read with its definition knows its steps (`test_event_store.py`) |
| `drive` | holds | all four failure policies: dependencies, concurrency, results match attempts, follow-up appends, terminal states |
| `approval` | holds | approvals gate steps, finished steps are not run again, overspending is less than a wave, every append folds; under fairness every instance comes to rest, or has a step left behind |
| `deadline` | violated | an escalation past its deadline fires (`ARCHITECTURE.md`) |
| `effects` | holds | once per key, twice only blindly, records are true, a rollback puts every effect to its provider |
| `spend` | holds | bill, logs and ledger agree; a day's overspending is bounded; only results are replayed; the router's choice is right |
| `replay` | violated | a repeated step replays the calls of the crashed attempt (README, ADR-0005) |
| `catalog` | holds | active versions, pinned definitions, validation against the reference |
| `stream` | holds | no update is ahead of the log; open streams catch up |

The violated ones are disagreements between the code and the sentence quoted in PROJECT.json under `findings`.
`recovery`: a claim that decided on an older snapshot takes an instance over while the former owner's drive awaits
`release()` in its `finally` block; the next heartbeat's answer cancels it there (`worker.py:190`), the pop from
`_active` is skipped, and when that worker claims the instance again it spawns no drive, but renews the lease for
ever. `deadline`: of two escalations open side by side the first to fire makes the instance RUNNING, and `expire_due`
passes over instances that are not WAITING_APPROVAL. `LESSONS_LEARNED.md` says that PostgreSQL was not available where
the code was developed and that in-memory doubles stood in for the store; the finding of `definition` is in the real
store only.

### What the properties except

Several properties hold only with an exception, and each exception is a behaviour of the code worth knowing:

- Two claims that overlap can both take an instance: the lease columns are read in the statement's snapshot and
  only index rows are locked (`core/leasing.py:73`). Two drives run; `FencesDistinct` says that one can write.
- The fence guard is read, not locked: a worker may commit an append just after its lease went
  (`core/persistence/event_store.py:134`). `NoLostUpdate` says that this is harmless to the log.
- A retry, a review and a dead-letter row are written after the append that calls for them; a crash exactly
  between the two turns a retryable failure into a final one, loses the review or parks an instance that no
  list shows. `FollowUpsAreMade` says that nothing else does.
- A step can be left behind: WAITING_APPROVAL, or with an open escalation, in an instance that is RUNNING. Its drive
  returns IDLE (`core/driver.py:233`) and is claimed again at every poll, without end. Three ways lead there. With two
  escalations open, the first answer makes the instance RUNNING, and the others can neither be answered nor expire
  (`core/escalation.py:221`; the run `deadline`). An answer to an escalation that the sweep has answered meanwhile,
  given while a later one is open, does the same (`core/escalation.py:257`). And an instance that the answer "abort"
  has failed, which `resume` accepts, still has the step of its escalation waiting. `ComesToRest` excepts these
  (`LeftBehind`) and nothing else: a RUNNING instance in which no step is left behind does come to rest, a resumed
  pause-on-failure by pausing again.
- ROLLED_BACK does not mean that the world is as before: an effect without a compensation is recorded as COMPENSATED, and so
  is one whose compensation came back not ok, although ADR-0003 says that "a failed compensation raises
  `CompensationError` and escalates to a human". `RollbackUndoes` says that every effect was put to its provider, and undone
  unless one of the two was the answer.
- Answers that are billed and dropped, malformed ones or those of a call that was cut off, are in no log and in no ledger;
  `BillIsLogged` says that nothing else is missing but the charges of drives that crashed or lost the race.
- A dead-letter row can be stale: `requeue` is cut short before `mark_resolved`, or `resume`, which accepts a
  DEAD_LETTERED instance (`core/control.py`), lets the step be dead-lettered a second time and so doubles its row. To requeue
  the stale row later resets a step that has completed since (`core/dead_letter.py:149`); `NoRerun` and
  `DepsBeforeRun` except exactly those steps (`redone`). The second way was found by the proof of `NoRerun`: it takes
  more requests than the runs allow.
- Two registrations of one name whose UPDATEs overlap leave two active versions until the next one; `ActiveVersion`
  excepts that, and `get_active` then returns either.
- An update published between a viewer's snapshot and its subscription reaches it only with the next one.
- A worker that lost its lease can overwrite an outbox row of its successor (`core/outbox.py:100`).

### Bounds

`MaxFaults` counts crashes, stops, lapses, timeouts and failing calls, `MaxOps` the requests of people, `MaxFence` the
claims, `MaxVersion` and `MaxBatch` the log, `MaxInsts` the instances started. Two workers are enough for every race
of a holder with a successor; `fleet` has two instances and gives one worker two slots (`Wide`), the other one, so
that a worker drives two instances at once, a claim returns several rows and a claim can find no slot. `recovery` has
two workers, one with two slots, and one instance; its liveness is stated up to `MaxFence`, an instance is driven to
rest or has changed hands that often, so a counterexample is never one of the bound. `commit` has three writers, so
that a transaction can be overtaken while it waits for another, a lease that moves once, under any of their
transactions, and `SnapshotEvery = 2` with four versions, so that a snapshot is replaced and folded from. `drive` has
three steps (two side by side and a join), one retry, two faults (a crash and a crash during the recovery from it) and
one operator request. `approval` has two steps, in a chain and side by side, gates without a deadline in both, gates
with one in a chain, and definitions without gates that pause, dead-letter and roll back; a budget that runs out after
two attempts, answers that raise or lower it, and two requests of people (an answer, a resume or a requeue each), so
that a row is answered twice, a paused instance resumed twice, an aborted one resumed and a dead letter requeued
twice. `deadline` has two gates side by side, both with a deadline. `effects` has one keyed and one reconciled effect,
the first of which can be undone, one retry and four faults: a timeout, a crash of the retry, a failing question and a
lapsed lease fit into one behaviour. `spend` has two instances of two steps, so that a wave has two calls under one
view, a chain of two models, of which the first may fail with or without a bill, a limit that stops an instance and
one that does not, a day's limit that two waves exceed, and a change of day; `replay` has one instance and two calls.
`catalog` has two clients that may register, one of another tenant, and one without credentials; the submissions
collide in id, in name and in version, and five of them are invalid; `MCCatalog` also compares `Dag` with its
reference on all graphs of three steps. `stream` has two appenders, two viewers and four versions, so that updates
overtake each other. Symmetry (workers, instances, registering clients) is used in safety runs only. Deadlock is not
checked: an instance at rest and a store at its bounds really stop.

### Fairness

`Leasing!Fairness`: the event loop schedules every coroutine of a live process (weak fairness of claim,
heartbeat, release, pop), a drive that holds its lease ends (every step has a timeout), the orchestrator
restarts dead workers, time passes. Nothing is assumed of faults, which are bounded, and heartbeats may be late.
`Engine!Fairness`: weak fairness of each worker's drive, of the clock and of the sweep loop; none of
people. `Streams!FairSpec`: a process that has committed publishes, or loses the publication, and an open stream
is served; nobody has to append or to connect.

## What is proved

`LeasingProofs`, for every set of workers, finite set of instances, TTL, concurrency and bound (the named
assumptions of `Leasing`):

- `TypeCorrect`: `Spec => []TypeOK`. `TypeOK` is inductive; the proof has one step per action.
- `FencingCorrect`: `Spec => []FencesDistinct`. Inductive together with `TypeOK`: the only action that
  gives a drive a fence is `ClaimCommit`, and it hands out one more than the lease row, which bounds all others.
- `SlotsCorrect`: `Spec => []SlotsBounded`. Not inductive: a claim computes its slots and spawns later.
  `SlotsReserved` says that while a claim is open the drives and the slots it may still fill are together at
  most `Concurrency`, and that the rows it has locked are no more than its slots. No other action adds a drive.
- `FencesGrow`: `Spec => FenceMonotonic`, and `ReleaseSafe`: `Spec => NoReleaseUnderDrive`. Both follow from the
  lemma `LeaseStep`, which says what a step can do to a lease row: a claim takes it with the next fence,
  everything else keeps owner and fence, and only the release of a drive of the owner cuts the time that is
  left by more than a tick. `release` checks only the owner;
  that this is enough rests on the rule that a worker has at most one drive of an instance.

`EventStoreProofs`, for every set of writers, set of batches, snapshot interval and bound:

- `StoreTypeCorrect`, `LogCorrect`, `NoUpdateLost`: `Spec => []TypeOK`, `[]LogContiguous`, `[]NoLostUpdate`. Neither of the
  last two is inductive: `_commit` compares versions in one statement and inserts in a later one. The
  invariant `IInv` adds what connects them (`TxnsOK`): the version an open transaction started from is never
  ahead of the log, at most one transaction has flushed rows, because its rows keep every other insert of those
  sequence numbers waiting, and the version of that one is still the log's. So its commit extends the log
  without a gap and from the version its writer had seen.
- `ProjectionsCorrect`: `Spec => []ProjectionsMatchLog`. The invariant `PInv` adds `ProjectionsOK`: the index is the
  fold of the rows, the snapshot the fold of the rows up to its version, which is never ahead of the log, and what a
  transaction has projected and not yet committed is the fold of the log its commit will leave; the last holds because
  `IInv` allows one flushed transaction at a time. The lemma `FoldSplits` says that folding the beginning of a log and
  then, from what that gives, the rest loses nothing and counts nothing twice; it needs the log to be contiguous.
- `StoreImplementsJournal`: `Spec => ImplementsJournal`. `Open` maps to `Journal`'s read, `Commit` to its append,
  `Rollback` and a refusal by `Guard`, `Check` or `Flush` to its `Fail`; all other steps stutter. The append needs
  `IInv` for the equality of versions.

`OrdersProofs`: `InOrder` of a subset is a sequence of its elements, each once, in the order of `Before`; `FirstOf` is its
prefix of a length. Both are choices, so the lemmas also prove that there is something to choose.

`EngineProofs`, for every set of workers, steps and definitions and every bound:

- `EngineTypeCorrect`, `ResultsCorrect`, `DependenciesCorrect`, `ConcurrencyCorrect`, `ApprovalCorrect`, `FollowUpsCorrect`:
  `[]TypeOK`, `[]ResultsMatchLog`, `[]DepsBeforeRun`, `[]ConcurrencyBounded`, `[]ApprovalGate`, `[]FollowUpsAreMade`.
- `TerminalCorrect`, `NoRerunCorrect`, `OverspendCorrect`: the action properties `TerminalIsFinal`, `NoRerun`,
  `OverspendBounded`.

None of these but `TypeOK` is inductive, for one reason: a handler decides in one step and appends in a
later one. The invariant `IInv` (theorem `EngineInvariant`) says what makes the decision still right. Its heart is
`FreshView`: what a worker whose view is fresh may conclude about the instance from where in the handler it
stands (that the steps of its wave are RUNNING on its behalf, that the failures it is about to retry or to
escalate are the ones it recorded, and so on). Any append by another clears `fresh`, and a worker that is not fresh
appends nothing, so each action has to keep `FreshView` only for its own worker. The other parts relate the instance to
its past: a step that failed had its dependencies met (`DepsBeforeFailure`), a step with an output has ended or waits for
its review (`OutputStays`), a step nobody approved has never run (`UnclearedIdle`), a step somebody was asked about is not
PENDING (`EscalatedMoved`), and what `requeue` needs of the dead-letter rows: which steps they may be about
(`DeadLettersCleared`), and that the row that keeps an instance requeueable is not the one whose requeue is under
way (`RowLeft`).

`SideEffectsProofs`, for every set of workers, sequence of steps, set of keyed and of reconciled effects and every
bound:

- `EffectsTypeCorrect`: `[]TypeOK`. Part of `Base`, with the facts that no two attempts drew the same number from a row
  (`Tries`) and that what is to be undone has a row (`ListedRows`).
- `KeyedOnceCorrect`: `[]KeyedOnce`. `KeyInv`: every request carries the key of its effect, whichever attempt sent it, and a
  provider that honours keys and has not seen the key has done nothing.
- `RecordCorrect`: `[]RecordIsTrue`. `TruthInv`: a request that was sent is on its way or has landed, and what is about to be
  recorded or undone has happened.
- `ReconciledOnceCorrect`: `[]ReconciledOnce`. `OnceInv`: before a row exists nothing was requested, and a worker that may
  request knows that it has not happened, unless the request is a blind one.
- `RollbackCorrect`: `[]RollbackUndoes`, with the answers the code does not look at as part of the statement.
  `UndoInv`: the holder of the lease is the only one that can still append, the rows know of every effect that
  happened, and so does the list of what is to be undone, from its start to its end; strays excepted.

`SpendingProofs`, for every registry, request, finite set of instances and of workers, number of steps and of calls, and
every bound:

- `SpendingTypeCorrect`, `BillLogged`, `LedgerComplete`, `OverspendBounded`, `ResultsReplayed`: `[]TypeOK`,
  `[]BillIsLogged`, `[]LedgerIsComplete`, `[]TenantOverspendBounded`, `[]OnlyResultsAreReplayed`. Of the registry they
  assume that a chain is a list of its models, so that what a chain of failing models has billed is a finite sum
  (`ChainFinite`, `DroppedNat`).
- `RoutesCorrectly`: `[]RoutingCorrect`.

The accounts are sums over sets, which `MapThenSumSet` computes by taking one element out after the other. The
library's induction over finite sets has an operator as its parameter, so the module proves an induction of its own
(`FoldInduction`, by a least counterexample), that the function the fold is defined by exists (`SumsExist`), and from
the two that a sum changes as much as the one term that does (`SumChange`) and is bounded by its terms (`SumBound`).
`SortedByCost` and `Keep` are defined by ranks; `SortedIn` and `KeepIn` show, by counting, that they keep the elements
they should, and `QuoteBest` that the first of the sorted list is the cheapest model able to serve the request. The
invariant has two parts. `Control`: at most one drive of an instance can still append (`Alone`), it runs exactly the
steps that are RUNNING in the log (`FreshOK`), the holder of the lease is such a drive (`Held`), an attempt has
replayed nothing and has a recording for every call until it fails (`AttemptOK`), and a step was tried no more often
than retries, faults and a raised budget allow (`Tries`). `Accounts`: the two balances, and `Overspend`, which makes
the bound inductive: as long as the day's limit is not passed nothing need be known, and once it is, the ledger and a
full wave for everybody who may have spent without the ledger's knowledge still fit under the bound; a view taken from
then on leaves nothing of the day's budget, so nobody joins them.

`CatalogProofs`, for every set of clients, tenants and submissions:

- `CatalogTypeCorrect`, `ActiveVersionCorrect`, `PinnedCorrect`: `[]TypeOK`, `[]ActiveVersion`,
  `[]PinnedDefinitionStays`. The invariant says that ids, and versions of a name, are unique (`Unique`), that the rows
  a registration has read are versions of its name, and all of them unless another registration of that name has
  committed since, and that a row an instance request has resolved is still there (`RequestOK`). Every name then has
  an active version, and one only unless registrations overlapped (`OneActive`).
- `ValidationCorrect`: `[]ValidationIsExact`. `Resolved`, the variable of the loop in `topological_layers`, is a
  recursive function of the round. That there is such a function (`ResolvedRounds`) and what it computes is shown by
  an induction over sets of naturals (`Inductive`, by a least counterexample): steps stay resolved (`RoundsGrow`), a
  round that resolves nothing is the last that could (`RoundsStop`), so as many rounds as there are steps are enough
  (`RoundsSuffice`, by counting). Of any set of steps the first to be resolved waits for none of it (`ValidRuns`); the
  steps that are never resolved wait for one another (`InvalidWaits`); and the layer of a step is the first after all
  its dependencies (`LayersRight`). It assumes of a submission only that its steps are a list
  (`SubmissionsAssumption`).

`StreamsProofs`, for every set of appenders and viewers:

- `StreamsTypeCorrect`, `StreamsCorrect`: `[]TypeOK`, `[]NeverAheadOfLog`. The invariant adds that what an appender is
  about to publish is committed (`NotAhead`), and that what a connection was sent, what is queued for it and what it
  read are no newer than the log (`Behind`).

Only model-checked, and why:

- Liveness (`ComesToRest`, `StreamCatchesUp`) is beyond the prover. `RunnableIsDriven` and `DeadlineFires`, which the code
  does not keep, are liveness too.
- `AppendsFold` folds a sequence of events, one or more for each step of a wave of any size, onto the instance. It
  needs an induction over what the community modules' folds compute for every action that appends.

## Not modelled, and the plan

The plan has one proof left: `AppendsFold` of `Drafts`, with an induction by least counterexample like those of
`SpendingProofs` and `CatalogProofs`, first for the appends of a fixed number of events, then for those that go
through a wave.

Not modelled, and why:

- Agents (`agents/`): prompting and parsing of model answers; to the engine they are runners, whose calls,
  charges, reviews and errors `Engine`, `SideEffects` and `Spending` leave open.
- Rate limiter (`api/middleware/rate_limit.py`): it refuses requests, and no client of `Catalog` or `Engine` has to
  make any; what the modules show does not depend on it.
- Issuing API keys and tokens (`core/auth.py`): hashing and encoding. What `authenticate` decides is in `Catalog`.
- Reads: listings, the recovery report, the dead-letter and escalation lists, effect lists.
- Events that nothing in the engine writes: `StepSkipped`, `InstanceFailed`, `ToolCallRecorded`.
- Notifications, LLM providers, evaluation harness, use cases, metrics, tracing, logging, configuration, wiring.
