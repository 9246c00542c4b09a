------------------------- MODULE SideEffectsProofs --------------------------
(***************************************************************************)
(* What the side-effect guard and its outbox guarantee for every number of *)
(* steps and workers, every choice of providers and every bound on the     *)
(* faults.                                                                 *)
(*                                                                         *)
(* Each property has an inductive invariant of its own, on top of Base:    *)
(* KeyInv for keyed providers, TruthInv for what is recorded, OnceInv for  *)
(* providers that can be asked, UndoInv for rollbacks.                     *)
(***************************************************************************)
EXTENDS SideEffects, OrdersProofs, SequenceTheorems

Instances ==
  [status : {"running", "waiting_approval", "rolled_back", "failed", "completed"},
   st : [Steps -> {"ready", "running", "retry", "failed", "completed"}],
   att : [Steps -> Nat], refs : [Steps -> {"none", "executed", "compensated"}],
   human : BOOLEAN]
Undos == {"none", "done", "refused", "kept"}
Providers == [seen : SUBSET Steps, done : Nat, undo : Undos]
Requests == [step : Steps, key : Steps, try : Nat]
Pcs == {"idle", "plan", "claim", "reconcile", "execute", "sent", "mark", "report",
        "undo", "undone", "escalate"}
Drives == [pc : Pcs, fresh : BOOLEAN, step : 0 .. N, try : Nat, sure : BOOLEAN,
           eff : {"none", "dedup", "executed"}, out : {"ok", "retryable", "fatal"},
           todo : Seq(Steps), undone : SUBSET Steps]

\* Where a worker is in the middle of an attempt.
Attempting == {"claim", "reconcile", "execute", "sent", "mark", "report"}

\* The types of everything; an attempt is one of a step, and a compensation that
\* has happened is that of the first effect on the list.
Shape ==
  /\ inst \in Instances
  /\ outbox \in [Steps -> Rows \cup {NoRow}]
  /\ provider \in [Steps -> Providers]
  /\ net \subseteq Requests
  /\ wk \in [Workers -> Drives]
  /\ holder \in Workers \cup {NoWorker}
  /\ blind \subseteq Steps /\ stray \subseteq Steps
  /\ faults \in 0 .. MaxFaults
  /\ \A w \in Workers : wk[w].pc \in Attempting => wk[w].step \in Steps
  /\ \A w \in Workers : wk[w].pc = "undone" => wk[w].todo # <<>>

\* Every request carries its effect's key, and a keyed provider that has not seen
\* the key has done nothing.
KeyInv ==
  /\ \A r \in net : r.key = r.step
  /\ \A s \in Keyed : /\ provider[s].done <= 1
                      /\ s \notin provider[s].seen => provider[s].done = 0

\* No two attempts have drawn the same number from the outbox row.
Tries ==
  /\ \A w, v \in Workers : w # v /\ wk[w].step = wk[v].step /\ wk[w].try = wk[v].try
                            => wk[w].try = 0
  /\ \A w \in Workers : wk[w].step \in Steps => wk[w].try <= outbox[wk[w].step].attempts
  /\ \A w \in Workers : wk[w].pc \in {"reconcile", "execute", "sent", "mark"} => wk[w].try > 0

\* What is to be undone has a row.
ListedRows ==
  \A w \in Workers : \A k \in 1 .. Len(wk[w].todo) : outbox[wk[w].todo[k]].attempts # 0

Base == Shape /\ Tries /\ ListedRows

\* A request that was sent is on its way or has landed; what a worker is about to
\* record, to report or to undo has happened.
TruthInv ==
  /\ \A w \in Workers : wk[w].pc = "sent" =>
       Request(w) \in net \/ provider[wk[w].step].done > 0
  /\ \A w \in Workers : wk[w].pc = "mark" /\ wk[w].out = "ok" => provider[wk[w].step].done > 0
  /\ \A w \in Workers : wk[w].eff # "none" =>
       wk[w].pc = "report" /\ provider[wk[w].step].done > 0
  /\ \A w \in Workers : \A k \in 1 .. Len(wk[w].todo) : provider[wk[w].todo[k]].done > 0
  /\ \A s \in Steps : provider[s].seen # {} => provider[s].done > 0
  /\ RecordIsTrue

\* No request for s is under way.
NoneOnTheWay(s) == \A r \in net : r.step # s

\* Before a row exists nothing has been requested; an effect that was never
\* requested blindly has happened once or is about to, and a worker that may
\* request it knows that it has not happened.
OnceInv ==
  /\ \A s \in Steps : outbox[s].attempts = 0 => provider[s].done = 0 /\ NoneOnTheWay(s)
  /\ \A s \in (Reconciled \ Keyed) \ blind :
       /\ provider[s].done <= 1
       /\ provider[s].done = 1 => NoneOnTheWay(s)
       /\ \A r, q \in net : r.step = s /\ q.step = s => r = q
  /\ \A w \in Workers :
       wk[w].pc = "execute" /\ wk[w].sure /\ wk[w].step \in (Reconciled \ Keyed) \ blind =>
         provider[wk[w].step].done = 0 /\ NoneOnTheWay(wk[w].step)

\* The row says that the effect has happened.
RowDone(s) == outbox[s].status \in {"executed", "compensated"}

\* While the lease holder is in an attempt nobody else can append.
HolderAlone ==
  \A u, w \in Workers :
    u # w /\ holder = u /\ wk[u].pc \in Attempting => ~wk[w].fresh

\* What the log knows of, its row knows of too, and the row is not marked again.
RowsKnow ==
  /\ \A s \in Steps \ stray : inst.refs[s] # "none" => RowDone(s)
  /\ \A w \in Workers : wk[w].eff # "none" /\ wk[w].step \in Steps \ stray => RowDone(wk[w].step)
  /\ \A w \in Workers :
       holder = w /\ wk[w].pc \in {"reconcile", "execute", "sent", "mark"}
         /\ wk[w].step \in Steps \ stray => ~RowDone(wk[w].step)

\* The list of a worker whose rollback can still be recorded is complete, and a
\* row is only called compensated when its provider has been asked to undo it.
ListsKnow ==
  /\ \A w \in Workers : wk[w].fresh /\ wk[w].pc \in {"undo", "undone"} =>
       \A s \in Steps \ stray : outbox[s].status = "executed" =>
         \E k \in 1 .. Len(wk[w].todo) : wk[w].todo[k] = s
  /\ \A w \in Workers : wk[w].pc = "undone" => UndoAnswered(Head(wk[w].todo), provider[Head(wk[w].todo)])
  /\ \A s \in Steps : outbox[s].status = "compensated" => UndoAnswered(s, provider[s])

\* Whoever can append has read that the instance is running.
FreshRuns == \A w \in Workers : wk[w].fresh => inst.status = "running"

UndoInv ==
  /\ FreshRuns
  /\ HolderAlone /\ RowsKnow /\ ListsKnow
  /\ RollbackUndoes
-----------------------------------------------------------------------------
(***************************************************************************)
(* What the actions do, field by field.                                    *)
(***************************************************************************)

\* Fields of a drive.
LEMMA DriveFields ==
  ASSUME NEW r \in Drives
  PROVE  /\ r.pc \in Pcs /\ r.fresh \in BOOLEAN /\ r.step \in 0 .. N /\ r.try \in Nat
         /\ r.sure \in BOOLEAN /\ r.eff \in {"none", "dedup", "executed"}
         /\ r.out \in {"ok", "retryable", "fatal"} /\ r.todo \in Seq(Steps)
         /\ r.undone \in SUBSET Steps
BY DEF Drives

\* Fields of a row.
LEMMA RowFields ==
  ASSUME NEW r \in Rows \cup {NoRow}
  PROVE  /\ r.status \in {"absent", "pending", "executed", "failed", "compensated"}
         /\ r.attempts \in Nat
         /\ r.status = "absent" <=> r.attempts = 0
BY DEF Rows, NoRow

\* Fields of the world behind an effect.
LEMMA ProviderFields ==
  ASSUME NEW r \in Providers
  PROVE  r.seen \in SUBSET Steps /\ r.done \in Nat /\ r.undo \in Undos
BY DEF Providers

\* Nobody but w has moved, although versions may have become stale.
Others(w) ==
  \A v \in Workers \ {w} :
    /\ wk'[v].pc = wk[v].pc /\ wk'[v].step = wk[v].step /\ wk'[v].try = wk[v].try
    /\ wk'[v].sure = wk[v].sure /\ wk'[v].eff = wk[v].eff /\ wk'[v].out = wk[v].out
    /\ wk'[v].todo = wk[v].todo /\ wk'[v].undone = wk[v].undone
    /\ wk'[v].fresh => wk[v].fresh

\* What w goes on with is what it had, but for pc, try, sure, eff and out.
SameTask(w) ==
  /\ wk'[w].step = wk[w].step /\ wk'[w].fresh = wk[w].fresh
  /\ wk'[w].todo = wk[w].todo /\ wk'[w].undone = wk[w].undone

\* w starts from nothing.
FromScratch(w) ==
  /\ wk'[w].pc \in {"idle", "plan", "claim"}
  /\ wk'[w].try = 0 /\ wk'[w].eff = "none" /\ wk'[w].out = "ok" /\ wk'[w].todo = <<>>

\* The two records that workers start with.
LEMMA DriveFacts ==
  /\ N \in Nat
  /\ IdleWorker \in Drives /\ IdleWorker.pc = "idle" /\ ~IdleWorker.fresh
  /\ IdleWorker.try = 0 /\ IdleWorker.eff = "none" /\ IdleWorker.out = "ok"
  /\ IdleWorker.todo = <<>> /\ IdleWorker.step = 0
  /\ Planning \in Drives /\ Planning.pc = "plan" /\ Planning.fresh
  /\ Planning.try = 0 /\ Planning.eff = "none" /\ Planning.out = "ok"
  /\ Planning.todo = <<>> /\ Planning.step = 0
<1>1. N \in Nat /\ 0 \in 0 .. N
  BY EffectsAssumption
<1>2. <<>> \in Seq(Steps) /\ {} \in SUBSET Steps
  OBVIOUS
<1>3. /\ IdleWorker \in Drives /\ IdleWorker.pc = "idle" /\ ~IdleWorker.fresh
      /\ IdleWorker.try = 0 /\ IdleWorker.eff = "none" /\ IdleWorker.out = "ok"
      /\ IdleWorker.todo = <<>> /\ IdleWorker.step = 0
  BY <1>1, <1>2 DEF IdleWorker, Drives, Pcs
<1>4. /\ Planning \in Drives /\ Planning.pc = "plan" /\ Planning.fresh
      /\ Planning.try = 0 /\ Planning.eff = "none" /\ Planning.out = "ok"
      /\ Planning.todo = <<>> /\ Planning.step = 0
  BY <1>3 DEF Planning, Drives, Pcs
<1> QED
  BY <1>1, <1>3, <1>4

\* A worker moves without an append.
LEMMA LocalFacts ==
  ASSUME wk \in [Workers -> Drives], NEW w \in Workers, NEW rec \in Drives,
         wk' = [wk EXCEPT ![w] = rec]
  PROVE  /\ wk' \in [Workers -> Drives] /\ wk'[w] = rec /\ Others(w)
         /\ \A v \in Workers \ {w} : wk'[v] = wk[v]
BY DEF Others

\* A worker moves with an append: everyone else is stale.
LEMMA AppendFacts ==
  ASSUME wk \in [Workers -> Drives], NEW w \in Workers, NEW new, NEW rec \in Drives,
         DriverAppend(w, new, rec)
  PROVE  /\ inst' = new /\ wk' \in [Workers -> Drives] /\ wk'[w] = rec /\ Others(w)
         /\ \A v \in Workers \ {w} : ~wk'[v].fresh
<1>1. \A v \in Workers : LET r == [wk[v] EXCEPT !.fresh = FALSE]
                         IN /\ r \in Drives /\ ~r.fresh /\ r.pc = wk[v].pc
                            /\ r.step = wk[v].step /\ r.try = wk[v].try /\ r.sure = wk[v].sure
                            /\ r.eff = wk[v].eff /\ r.out = wk[v].out
                            /\ r.todo = wk[v].todo /\ r.undone = wk[v].undone
  BY DEF Drives
<1>2. /\ wk' = [v \in Workers |-> IF v = w THEN rec ELSE [wk[v] EXCEPT !.fresh = FALSE]]
      /\ inst' = new
  BY DEF DriverAppend
<1>3. wk'[w] = rec /\ \A v \in Workers \ {w} : wk'[v] = [wk[v] EXCEPT !.fresh = FALSE]
  BY <1>2
<1>4. wk' \in [Workers -> Drives]
  BY <1>1, <1>2
<1>5. Others(w) /\ \A v \in Workers \ {w} : ~wk'[v].fresh
  BY <1>1, <1>3 DEF Others
<1> QED
  BY <1>2, <1>3, <1>4, <1>5

\* What starting over leaves alone; a reference is new only if the attempt that
\* was reported had an effect.
StartOver(w) ==
  /\ FromScratch(w) /\ Others(w)
  /\ UNCHANGED <<outbox, provider, net, blind, stray>>
  /\ \A s \in Steps : inst'.refs[s] # "none" =>
       inst.refs[s] # "none" \/ (s = wk[w].step /\ wk[w].eff # "none")

\* The first step of a non-empty set of steps is one of it.
LEMMA FirstStep ==
  ASSUME NEW S \in SUBSET Steps, S # {}
  PROVE  Min(S) \in S
<1>1. S \in SUBSET Nat
  BY DEF Steps
<1> QED
  BY <1>1, MinIn

\* Claim, LoseRace and Crash do not append, unless something has to be recovered.
LEMMA ClaimFacts ==
  ASSUME Shape, NEW w \in Workers, Claim(w)
  PROVE  /\ Shape' /\ StartOver(w) /\ wk'[w] = Planning
         /\ inst'.status = "running" /\ inst'.refs = inst.refs /\ inst.status = "running"
<1>1. Planning \in Drives /\ wk \in [Workers -> Drives] /\ inst \in Instances
  BY DriveFacts DEF Shape
<1> DEFINE st == [s \in Steps |-> IF s \in Running THEN "ready" ELSE inst.st[s]]
           new == [inst EXCEPT !.st = st]
<1>2. new \in Instances /\ new.refs = inst.refs /\ new.status = inst.status
  BY <1>1 DEF Instances
<1>3. /\ inst' \in Instances /\ inst'.refs = inst.refs /\ inst'.status = inst.status
      /\ wk' \in [Workers -> Drives] /\ wk'[w] = Planning /\ Others(w)
  <2>1. CASE Running = {}
    BY <1>1, <2>1, LocalFacts DEF Claim
  <2>2. CASE Running # {}
    <3>1. DriverAppend(w, new, Planning)
      BY <2>2 DEF Claim
    <3> HIDE DEF new
    <3> QED
      BY <1>1, <1>2, <3>1, AppendFacts
  <2> QED
    BY <2>1, <2>2
<1>4. FromScratch(w)
  BY <1>3, DriveFacts DEF FromScratch
<1>5. Shape'
  BY <1>3, <1>4, DriveFacts DEF Shape, Claim, Others, Attempting
<1> QED
  BY <1>3, <1>4, <1>5 DEF StartOver, Claim

\* Nor does a drive that has lost the race or dies.
LEMMA QuitFacts ==
  ASSUME Shape, NEW w \in Workers, LoseRace(w) \/ Crash(w)
  PROVE  Shape' /\ StartOver(w) /\ wk'[w] = IdleWorker /\ inst' = inst
<1>1. IdleWorker \in Drives /\ wk \in [Workers -> Drives] /\ inst \in Instances
  BY DriveFacts DEF Shape
<1>2. wk' \in [Workers -> Drives] /\ wk'[w] = IdleWorker /\ Others(w)
  BY <1>1, LocalFacts DEF LoseRace, Crash
<1>3. FromScratch(w)
  BY <1>2, DriveFacts DEF FromScratch
<1>4. faults' \in 0 .. MaxFaults
  BY EffectsAssumption DEF Shape, LoseRace, Crash, UseFault
<1>5. holder' \in Workers \cup {NoWorker}
  BY DEF Shape, LoseRace, Crash
<1>6. Shape'
  BY <1>1, <1>2, <1>4, <1>5, DriveFacts DEF Shape, LoseRace, Crash, Others, Attempting
<1> QED
  BY <1>2, <1>3, <1>6 DEF StartOver, LoseRace, Crash

\* The shape after an append that starts over.
LEMMA AppendShape ==
  ASSUME Shape, NEW w \in Workers, NEW new \in Instances, NEW rec \in Drives,
         DriverAppend(w, new, rec), UNCHANGED <<outbox, provider, net, blind, stray, faults>>,
         holder' \in Workers \cup {NoWorker},
         rec.pc \in {"idle", "plan", "claim"}, rec.pc = "claim" => rec.step \in Steps,
         rec.try = 0, rec.eff = "none", rec.out = "ok", rec.todo = <<>>,
         \A s \in Steps : new.refs[s] # "none" =>
           inst.refs[s] # "none" \/ (s = wk[w].step /\ wk[w].eff # "none")
  PROVE  /\ Shape' /\ StartOver(w) /\ inst' = new /\ wk'[w] = rec
         /\ \A v \in Workers \ {w} : ~wk'[v].fresh
<1>1. wk \in [Workers -> Drives]
  BY DEF Shape
<1>2. /\ inst' = new /\ wk' \in [Workers -> Drives] /\ wk'[w] = rec /\ Others(w)
      /\ \A v \in Workers \ {w} : ~wk'[v].fresh
  BY <1>1, AppendFacts
<1>3. Shape'
  BY <1>2 DEF Shape, Others, Attempting
<1> QED
  BY <1>2, <1>3 DEF StartOver, FromScratch

\* The next step is started.
LEMMA DispatchFacts ==
  ASSUME Shape, NEW w \in Workers, Dispatch(w)
  PROVE  /\ Shape' /\ StartOver(w) /\ wk[w].fresh
         /\ inst'.status = "running" /\ inst'.refs = inst.refs
         /\ \A v \in Workers \ {w} : ~wk'[v].fresh
<1>1. Unfinished \in SUBSET Steps /\ Unfinished # {}
  BY DEF Unfinished, Dispatch
<1>2. PICK s \in Steps : s = Min(Unfinished)
  BY <1>1, FirstStep
<1> DEFINE new == [inst EXCEPT !.st[s] = "running", !.att[s] = @ + 1]
           rec == [Planning EXCEPT !.pc = "claim", !.step = s]
<1>3. /\ DriverAppend(w, new, rec) /\ wk[w].fresh /\ inst.status = "running"
      /\ UNCHANGED <<outbox, provider, net, holder, blind, stray, faults>>
  BY <1>2 DEF Dispatch, Plans
<1>4. new \in Instances /\ new.refs = inst.refs /\ new.status = inst.status
  <2> DEFINE st == [inst.st EXCEPT ![s] = "running"]
             att == [inst.att EXCEPT ![s] = @ + 1]
  <2>1. inst \in Instances
    BY DEF Shape
  <2>2. /\ st \in [Steps -> {"ready", "running", "retry", "failed", "completed"}]
        /\ att \in [Steps -> Nat]
    BY <2>1 DEF Instances
  <2>3. new = [inst EXCEPT !.st = st, !.att = att]
    BY <2>1 DEF Instances
  <2> HIDE DEF st, att, new
  <2> QED
    BY <2>1, <2>2, <2>3 DEF Instances
<1>5. /\ rec \in Drives /\ rec.pc = "claim" /\ rec.step = s
      /\ rec.try = 0 /\ rec.eff = "none" /\ rec.out = "ok" /\ rec.todo = <<>>
  <2>1. s \in 0 .. N
    BY DEF Steps
  <2> QED
    BY <2>1, DriveFacts DEF Drives, Pcs
<1>6. holder' \in Workers \cup {NoWorker}
  BY <1>3 DEF Shape
<1> HIDE DEF new, rec
<1> QED
  BY <1>3, <1>4, <1>5, <1>6, AppendShape

\* Appends that end the drive.
LEMMA EndFacts ==
  ASSUME Shape, NEW w \in Workers, Complete(w) \/ RecordRollback(w) \/ EscalateCompensation(w)
  PROVE  /\ Shape' /\ StartOver(w) /\ wk[w].fresh
         /\ \A v \in Workers : ~wk'[v].fresh
         /\ inst'.human = inst.human
         /\ \A s \in Steps : inst'.refs[s] # "none" => inst.refs[s] # "none"
         /\ Complete(w) => inst'.status = "completed"
         /\ EscalateCompensation(w) => inst'.status = "waiting_approval"
<1> DEFINE refs == [s \in Steps |-> IF s \in wk[w].undone THEN OnEffectCompensated(inst.refs[s])
                                    ELSE inst.refs[s]]
<1>1. /\ refs \in [Steps -> {"none", "executed", "compensated"}]
      /\ \A s \in Steps : refs[s] # "none" => inst.refs[s] # "none"
  BY DEF Shape, Instances, OnEffectCompensated
<1>2. \E new \in Instances :
        /\ DriverAppend(w, new, IdleWorker) /\ new.human = inst.human
        /\ \A s \in Steps : new.refs[s] # "none" => inst.refs[s] # "none"
        /\ Complete(w) => new.status = "completed"
        /\ EscalateCompensation(w) => new.status = "waiting_approval"
  <2>1. CASE Complete(w)
    <3> DEFINE new == [inst EXCEPT !.status = "completed"]
    <3>1. /\ new \in Instances /\ new.human = inst.human /\ new.refs = inst.refs
          /\ new.status = "completed"
      BY DEF Shape, Instances
    <3>2. DriverAppend(w, new, IdleWorker) /\ ~EscalateCompensation(w)
      BY <2>1 DEF Complete, EscalateCompensation, Plans
    <3> HIDE DEF new
    <3> QED
      BY <3>1, <3>2
  <2>2. CASE RecordRollback(w)
    <3> DEFINE new == [inst EXCEPT !.status = "rolled_back", !.refs = refs]
    <3>1. new \in Instances /\ new.human = inst.human /\ new.refs = refs
      <4> HIDE DEF refs
      <4> QED
        BY <1>1 DEF Shape, Instances
    <3>2. DriverAppend(w, new, IdleWorker) /\ ~EscalateCompensation(w) /\ ~Complete(w)
      BY <2>2 DEF Complete, EscalateCompensation, Plans, RecordRollback
    <3> HIDE DEF new, refs
    <3> QED
      BY <1>1, <3>1, <3>2
  <2>3. CASE EscalateCompensation(w)
    <3> DEFINE new == [inst EXCEPT !.status = "waiting_approval"]
    <3>1. /\ new \in Instances /\ new.human = inst.human /\ new.refs = inst.refs
          /\ new.status = "waiting_approval"
      BY DEF Shape, Instances
    <3>2. DriverAppend(w, new, IdleWorker) /\ ~Complete(w)
      BY <2>3 DEF Complete, EscalateCompensation, Plans
    <3> HIDE DEF new
    <3> QED
      BY <3>1, <3>2
  <2> QED
    BY <2>1, <2>2, <2>3
<1>3. PICK new \in Instances :
        /\ DriverAppend(w, new, IdleWorker) /\ new.human = inst.human
        /\ \A s \in Steps : new.refs[s] # "none" => inst.refs[s] # "none"
        /\ Complete(w) => new.status = "completed"
        /\ EscalateCompensation(w) => new.status = "waiting_approval"
  BY <1>2
<1>4. /\ holder' \in Workers \cup {NoWorker} /\ wk[w].fresh
      /\ UNCHANGED <<outbox, provider, net, blind, stray, faults>>
  BY DEF Shape, Complete, RecordRollback, EscalateCompensation, Plans
<1>5. /\ Shape' /\ StartOver(w) /\ inst' = new /\ wk'[w] = IdleWorker
      /\ \A v \in Workers \ {w} : ~wk'[v].fresh
  BY <1>3, <1>4, DriveFacts, AppendShape
<1> QED
  BY <1>3, <1>4, <1>5, DriveFacts

\* The result append: the log learns of the effect that the attempt had.
LEMMA ReportFacts ==
  ASSUME Shape, NEW w \in Workers, Report(w)
  PROVE  /\ Shape' /\ StartOver(w) /\ wk[w].fresh /\ holder' = holder
         /\ inst'.status = inst.status /\ inst'.human = inst.human
         /\ \A v \in Workers \ {w} : ~wk'[v].fresh
         /\ \A s \in Steps : s # wk[w].step => inst'.refs[s] = inst.refs[s]
<1>1. /\ inst \in Instances /\ wk[w] \in Drives /\ wk[w].pc = "report" /\ wk[w].fresh
  BY DEF Shape, Report
<1>2. PICK s \in Steps : s = wk[w].step
  BY <1>1 DEF Shape, Attempting
<1>3. PICK after \in {"ready", "running", "retry", "failed", "completed"} :
        after = IF wk[w].out = "ok" THEN "completed"
                ELSE IF wk[w].out = "retryable" /\ inst.att[s] <= MaxRetries THEN "retry"
                ELSE "failed"
  OBVIOUS
<1>4. PICK ref : ref = RefAfter(inst.refs[s], wk[w].eff)
  OBVIOUS
<1>5. /\ ref \in {"none", "executed", "compensated"}
      /\ ref # "none" => inst.refs[s] # "none" \/ wk[w].eff # "none"
  <2>1. inst.refs[s] \in {"none", "executed", "compensated"}
    BY <1>1 DEF Instances
  <2>2. wk[w].eff \in {"none", "dedup", "executed"}
    BY <1>1, DriveFields
  <2> QED
    BY <1>4, <2>1, <2>2 DEF RefAfter, OnEffectExecuted
<1> DEFINE st == [inst.st EXCEPT ![s] = after]
           refs == [inst.refs EXCEPT ![s] = ref]
           new == [inst EXCEPT !.st = st, !.refs = refs]
<1>6. /\ st \in [Steps -> {"ready", "running", "retry", "failed", "completed"}]
      /\ refs \in [Steps -> {"none", "executed", "compensated"}]
      /\ refs[s] = ref /\ \A t \in Steps \ {s} : refs[t] = inst.refs[t]
  BY <1>1, <1>5 DEF Instances
<1>7. /\ DriverAppend(w, new, Planning)
      /\ UNCHANGED <<outbox, provider, net, holder, blind, stray, faults>>
  BY <1>1, <1>2, <1>3, <1>4 DEF Report, Instances
<1>8. /\ new \in Instances /\ new.refs = refs /\ new.status = inst.status
      /\ new.human = inst.human
  <2> HIDE DEF st, refs
  <2> QED
    BY <1>1, <1>6 DEF Instances
<1> HIDE DEF st, refs, new
<1>9. holder' \in Workers \cup {NoWorker}
  BY <1>7 DEF Shape
<1>10. \A t \in Steps : new.refs[t] # "none" =>
         inst.refs[t] # "none" \/ (t = wk[w].step /\ wk[w].eff # "none")
  BY <1>2, <1>5, <1>6, <1>8
<1>11. /\ Shape' /\ StartOver(w) /\ inst' = new
       /\ \A v \in Workers \ {w} : ~wk'[v].fresh
  BY <1>7, <1>8, <1>9, <1>10, DriveFacts, AppendShape
<1> QED
  BY <1>1, <1>2, <1>6, <1>7, <1>8, <1>11

\* Everyone is where they were, with a version that is out of date.
Stale ==
  \A v \in Workers :
    /\ ~wk'[v].fresh /\ wk'[v].pc = wk[v].pc
    /\ wk'[v].step = wk[v].step /\ wk'[v].try = wk[v].try /\ wk'[v].sure = wk[v].sure
    /\ wk'[v].eff = wk[v].eff /\ wk'[v].out = wk[v].out
    /\ wk'[v].todo = wk[v].todo /\ wk'[v].undone = wk[v].undone

\* A human's answer makes everyone stale.
LEMMA AnswerEscalationFacts ==
  ASSUME Shape, AnswerEscalation
  PROVE  /\ Shape' /\ inst'.refs = inst.refs /\ inst'.human
         /\ inst.status = "waiting_approval"
         /\ Stale
<1>1. inst \in Instances /\ wk \in [Workers -> Drives]
  BY DEF Shape
<1>2. inst' \in Instances /\ inst'.refs = inst.refs /\ inst'.human
  BY <1>1 DEF AnswerEscalation, Instances
<1>3. \A v \in Workers : LET r == [wk[v] EXCEPT !.fresh = FALSE]
                         IN /\ r \in Drives /\ ~r.fresh /\ r.pc = wk[v].pc
                            /\ r.step = wk[v].step /\ r.try = wk[v].try /\ r.sure = wk[v].sure
                            /\ r.eff = wk[v].eff /\ r.out = wk[v].out
                            /\ r.todo = wk[v].todo /\ r.undone = wk[v].undone
  BY <1>1 DEF Drives
<1>4. wk' = [v \in Workers |-> [wk[v] EXCEPT !.fresh = FALSE]]
  BY DEF AnswerEscalation
<1>5. /\ wk' \in [Workers -> Drives]
      /\ \A v \in Workers :
           /\ ~wk'[v].fresh /\ wk'[v].pc = wk[v].pc
           /\ wk'[v].step = wk[v].step /\ wk'[v].try = wk[v].try /\ wk'[v].sure = wk[v].sure
           /\ wk'[v].eff = wk[v].eff /\ wk'[v].out = wk[v].out
           /\ wk'[v].todo = wk[v].todo /\ wk'[v].undone = wk[v].undone
  BY <1>3, <1>4
<1>6. Shape'
  BY <1>2, <1>5 DEF Shape, AnswerEscalation
<1> QED
  BY <1>2, <1>5, <1>6 DEF Stale, AnswerEscalation

\* A step of an attempt or of a rollback: w goes on with what it has.
GoesOn(w) ==
  /\ wk' \in [Workers -> Drives] /\ SameTask(w) /\ Others(w)
  /\ \A v \in Workers \ {w} : wk'[v] = wk[v]

\* PgOutboxStore.claim draws the next number of the row.
LEMMA ClaimRowFacts ==
  ASSUME Shape, NEW w \in Workers, ClaimRow(w), NEW s, s = wk[w].step
  PROVE  /\ Shape' /\ GoesOn(w) /\ s \in Steps
         /\ wk'[w].sure = wk[w].sure /\ wk'[w].try = outbox[s].attempts + 1
         /\ wk'[w].pc \in {"report", "reconcile", "execute"}
         /\ wk'[w].pc = "execute" /\ s \notin Keyed => outbox[s].attempts = 0
         /\ wk'[w].pc # "report" => outbox[s].status \notin {"executed", "compensated"}
         /\ wk'[w].eff # "none" => wk'[w].pc = "report" /\ outbox[s].status = "executed"
         /\ outbox'[s].attempts = outbox[s].attempts + 1
         /\ outbox'[s].status =
              IF outbox[s].status = "absent" THEN "pending" ELSE outbox[s].status
         /\ \A t \in Steps \ {s} : outbox'[t] = outbox[t]
         /\ UNCHANGED <<inst, provider, net, holder, blind, stray, faults>>
<1>1. wk \in [Workers -> Drives] /\ wk[w] \in Drives /\ s \in Steps
  BY DEF Shape, ClaimRow, Attempting
<1>2. outbox[s] \in Rows \cup {NoRow}
  BY <1>1 DEF Shape
<1>3. /\ outbox[s].status \in {"absent", "pending", "executed", "failed", "compensated"}
      /\ outbox[s].attempts \in Nat /\ (outbox[s].status = "absent" <=> outbox[s].attempts = 0)
  BY <1>2, RowFields
<1>4. PICK row : row = ClaimedRow(outbox[s])
  OBVIOUS
<1>5. /\ row \in Rows /\ row.attempts = outbox[s].attempts + 1
      /\ row.status = IF outbox[s].status = "absent" THEN "pending" ELSE outbox[s].status
  BY <1>3, <1>4 DEF ClaimedRow, Rows
<1>6. PICK pc \in {"report", "reconcile", "execute"} :
        pc = IF Deduplicates(row) \/ row.status = "compensated" THEN "report"
             ELSE IF Resuming(row) /\ s \notin Keyed THEN "reconcile" ELSE "execute"
  OBVIOUS
<1>7. PICK eff \in {"none", "dedup"} : eff = IF Deduplicates(row) THEN "dedup" ELSE "none"
  OBVIOUS
<1>8. PICK out \in {"ok", "fatal"} : out = IF row.status = "compensated" THEN "fatal" ELSE "ok"
  OBVIOUS
<1> DEFINE rec == [wk[w] EXCEPT !.pc = pc, !.try = row.attempts, !.eff = eff, !.out = out]
<1>9. wk' = [wk EXCEPT ![w] = rec]
  BY <1>1, <1>4, <1>6, <1>7, <1>8 DEF ClaimRow, Drives
<1>10. /\ rec \in Drives /\ rec.pc = pc /\ rec.try = row.attempts /\ rec.eff = eff
       /\ rec.step = s /\ rec.sure = wk[w].sure /\ rec.fresh = wk[w].fresh
       /\ rec.todo = wk[w].todo /\ rec.undone = wk[w].undone
  <2>1. row.attempts \in Nat /\ pc \in Pcs
    BY <1>5, <1>6 DEF Rows, Pcs
  <2> QED
    BY <1>1, <2>1 DEF Drives
<1> HIDE DEF rec
<1>11. /\ wk' \in [Workers -> Drives] /\ wk'[w] = rec /\ Others(w)
       /\ \A v \in Workers \ {w} : wk'[v] = wk[v]
  BY <1>1, <1>9, <1>10, LocalFacts
<1>12. outbox' = [outbox EXCEPT ![s] = row]
       /\ UNCHANGED <<inst, provider, net, holder, blind, stray, faults>>
  BY <1>4 DEF ClaimRow
<1>13. /\ outbox' \in [Steps -> Rows \cup {NoRow}] /\ outbox'[s] = row
       /\ \A t \in Steps \ {s} : outbox'[t] = outbox[t]
  BY <1>1, <1>5, <1>12 DEF Shape
<1>14. GoesOn(w)
  BY <1>10, <1>11 DEF GoesOn, SameTask
<1>15. Shape'
  BY <1>1, <1>6, <1>10, <1>11, <1>12, <1>13 DEF Shape, Others, Attempting
<1>16. /\ pc = "execute" /\ s \notin Keyed => outbox[s].attempts = 0
       /\ pc # "report" => outbox[s].status \notin {"executed", "compensated"}
       /\ eff # "none" => pc = "report" /\ outbox[s].status = "executed"
  BY <1>3, <1>5, <1>6, <1>7 DEF Deduplicates, Resuming
<1>17. /\ wk'[w].sure = wk[w].sure /\ wk'[w].try = outbox[s].attempts + 1
       /\ wk'[w].pc = pc /\ wk'[w].eff = eff
  BY <1>5, <1>10, <1>11
<1>18. /\ outbox'[s].attempts = outbox[s].attempts + 1
       /\ outbox'[s].status = IF outbox[s].status = "absent" THEN "pending" ELSE outbox[s].status
  BY <1>5, <1>13
<1> QED
  BY <1>1, <1>6, <1>12, <1>13, <1>14, <1>15, <1>16, <1>17, <1>18

\* w with another pc, sure, eff and out.
To(w, pc, sure, eff, out) ==
  [wk EXCEPT ![w] = [wk[w] EXCEPT !.pc = pc, !.sure = sure, !.eff = eff, !.out = out]]

\* Most steps of an attempt are of that form.
LEMMA ToFacts ==
  ASSUME Shape, NEW w \in Workers, NEW pc \in Pcs, NEW sure \in BOOLEAN,
         NEW eff \in {"none", "dedup", "executed"}, NEW out \in {"ok", "retryable", "fatal"},
         wk' = To(w, pc, sure, eff, out),
         pc \in Attempting => wk[w].pc \in Attempting,
         pc = "undone" => wk[w].todo # <<>>,
         inst' = inst, outbox' \in [Steps -> Rows \cup {NoRow}],
         provider' \in [Steps -> Providers], net' \subseteq Requests, holder' = holder,
         blind' \subseteq Steps, stray' \subseteq Steps, faults' \in 0 .. MaxFaults
  PROVE  /\ Shape' /\ GoesOn(w)
         /\ wk'[w].pc = pc /\ wk'[w].sure = sure /\ wk'[w].eff = eff /\ wk'[w].out = out
         /\ wk'[w].try = wk[w].try
<1> DEFINE rec == [wk[w] EXCEPT !.pc = pc, !.sure = sure, !.eff = eff, !.out = out]
<1>1. wk \in [Workers -> Drives] /\ wk[w] \in Drives
  BY DEF Shape
<1>2. /\ rec \in Drives /\ rec.pc = pc /\ rec.sure = sure /\ rec.eff = eff /\ rec.out = out
      /\ rec.try = wk[w].try /\ rec.step = wk[w].step /\ rec.fresh = wk[w].fresh
      /\ rec.todo = wk[w].todo /\ rec.undone = wk[w].undone
  BY <1>1 DEF Drives
<1>3. wk' = [wk EXCEPT ![w] = rec]
  BY DEF To
<1> HIDE DEF rec
<1>4. /\ wk' \in [Workers -> Drives] /\ wk'[w] = rec /\ Others(w)
      /\ \A v \in Workers \ {w} : wk'[v] = wk[v]
  BY <1>1, <1>2, <1>3, LocalFacts
<1>5. Shape'
  BY <1>2, <1>4 DEF Shape
<1> QED
  BY <1>2, <1>4, <1>5 DEF GoesOn, SameTask

\* provider.reconcile, answered or not.
LEMMA ReconcileFacts ==
  ASSUME Shape, NEW w \in Workers, Reconcile(w) \/ ReconcileFails(w)
  PROVE  /\ Shape' /\ GoesOn(w) /\ wk[w].pc = "reconcile" /\ wk[w].step \in Steps
         /\ wk'[w].try = wk[w].try /\ wk'[w].eff = wk[w].eff
         /\ wk'[w].pc \in {"mark", "execute"}
         /\ wk'[w].pc = "mark" /\ wk'[w].out = "ok" => provider[wk[w].step].done > 0
         /\ wk'[w].pc = "execute" /\ wk'[w].sure =>
              ~Overlapped(w) /\ (wk[w].step \in Reconciled => ~(provider[wk[w].step].done > 0))
         /\ UNCHANGED <<inst, outbox, provider, net, holder, blind, stray>>
<1>1. wk \in [Workers -> Drives] /\ wk[w] \in Drives /\ wk[w].pc = "reconcile"
  BY DEF Shape, Reconcile, ReconcileFails
<1>2. wk[w].step \in Steps /\ faults' \in 0 .. MaxFaults
  BY <1>1, EffectsAssumption DEF Shape, Attempting, Reconcile, ReconcileFails, UseFault
<1>3. UNCHANGED <<inst, outbox, provider, net, holder, blind, stray>>
  BY DEF Reconcile, ReconcileFails
<1>4. wk[w].sure \in BOOLEAN /\ wk[w].eff \in {"none", "dedup", "executed"}
      /\ wk[w].out \in {"ok", "retryable", "fatal"}
  BY <1>1, DriveFields
<1>5. \E pc \in {"mark", "execute"}, sure \in BOOLEAN, out \in {"ok", "retryable", "fatal"} :
        /\ wk' = To(w, pc, sure, wk[w].eff, out)
        /\ pc = "mark" /\ out = "ok" => provider[wk[w].step].done > 0
        /\ pc = "execute" /\ sure =>
             ~Overlapped(w) /\ (wk[w].step \in Reconciled => ~(provider[wk[w].step].done > 0))
  <2>1. CASE Reconcile(w)
    <3> DEFINE found == wk[w].step \in Reconciled /\ provider[wk[w].step].done > 0
    <3>1. wk' = To(w, IF found THEN "mark" ELSE "execute", ~Overlapped(w), wk[w].eff, wk[w].out)
      BY <1>1, <2>1 DEF Reconcile, To, Drives
    <3>2. PICK pc \in {"mark", "execute"} : pc = IF found THEN "mark" ELSE "execute"
      OBVIOUS
    <3>3. PICK sure \in BOOLEAN : sure = ~Overlapped(w)
      OBVIOUS
    <3>4. wk' = To(w, pc, sure, wk[w].eff, wk[w].out)
      BY <3>1, <3>2, <3>3
    <3> QED
      BY <1>4, <3>2, <3>3, <3>4
  <2>2. CASE ReconcileFails(w)
    <3>1. \/ wk' = To(w, "execute", FALSE, wk[w].eff, wk[w].out)
          \/ wk' = To(w, "mark", wk[w].sure, wk[w].eff, "fatal")
      BY <1>1, <2>2 DEF ReconcileFails, To, Drives
    <3> QED
      BY <1>4, <3>1
  <2> QED
    BY <2>1, <2>2
<1>6. PICK pc \in {"mark", "execute"}, sure \in BOOLEAN, out \in {"ok", "retryable", "fatal"} :
        /\ wk' = To(w, pc, sure, wk[w].eff, out)
        /\ pc = "mark" /\ out = "ok" => provider[wk[w].step].done > 0
        /\ pc = "execute" /\ sure =>
             ~Overlapped(w) /\ (wk[w].step \in Reconciled => ~(provider[wk[w].step].done > 0))
  BY <1>5
<1>7. /\ pc \in Pcs /\ pc # "undone" /\ wk[w].pc \in Attempting
      /\ outbox' \in [Steps -> Rows \cup {NoRow}] /\ provider' \in [Steps -> Providers]
      /\ net' \subseteq Requests /\ blind' \subseteq Steps /\ stray' \subseteq Steps
  BY <1>1, <1>3 DEF Shape, Pcs, Attempting
<1>8. /\ Shape' /\ GoesOn(w) /\ wk'[w].pc = pc /\ wk'[w].sure = sure /\ wk'[w].eff = wk[w].eff
      /\ wk'[w].out = out /\ wk'[w].try = wk[w].try
  BY <1>2, <1>3, <1>4, <1>6, <1>7, ToFacts
<1> QED
  BY <1>1, <1>2, <1>3, <1>6, <1>8

\* A request goes out.
LEMMA SendFacts ==
  ASSUME Shape, NEW w \in Workers, Send(w)
  PROVE  /\ Shape' /\ GoesOn(w) /\ wk[w].pc = "execute" /\ wk[w].step \in Steps
         /\ wk'[w].pc = "sent" /\ wk'[w].try = wk[w].try /\ wk'[w].eff = wk[w].eff
         /\ Request(w) \in Requests /\ Request(w).step = wk[w].step
         /\ Request(w).key = wk[w].step /\ Request(w)' = Request(w)
         /\ net' = net \cup {Request(w)}
         /\ blind' = IF ~wk[w].sure \/ Overlapped(w) THEN blind \cup {wk[w].step} ELSE blind
         /\ UNCHANGED <<inst, outbox, provider, holder, stray, faults>>
<1>1. wk \in [Workers -> Drives] /\ wk[w] \in Drives /\ wk[w].pc = "execute"
  BY DEF Shape, Send
<1>2. wk[w].step \in Steps /\ wk[w].try \in Nat
  BY <1>1, DriveFields DEF Shape, Attempting
<1>3. /\ UNCHANGED <<inst, outbox, provider, holder, stray, faults>>
      /\ net' = net \cup {Request(w)}
      /\ blind' = IF ~wk[w].sure \/ Overlapped(w) THEN blind \cup {wk[w].step} ELSE blind
  BY DEF Send
<1>4. /\ Request(w) \in Requests /\ Request(w).step = wk[w].step
      /\ Request(w).key = wk[w].step
  BY <1>2 DEF Request, Requests, IdempotencyKey
<1>5. wk' = To(w, "sent", wk[w].sure, wk[w].eff, wk[w].out)
  BY <1>1 DEF Send, At, To, Drives
<1>6. /\ wk[w].sure \in BOOLEAN /\ wk[w].eff \in {"none", "dedup", "executed"}
      /\ wk[w].out \in {"ok", "retryable", "fatal"}
  BY <1>1, DriveFields
<1>7. /\ "sent" \in Pcs /\ wk[w].pc \in Attempting
      /\ outbox' \in [Steps -> Rows \cup {NoRow}] /\ provider' \in [Steps -> Providers]
      /\ net' \subseteq Requests /\ blind' \subseteq Steps /\ stray' \subseteq Steps
      /\ faults' \in 0 .. MaxFaults
  BY <1>1, <1>2, <1>3, <1>4 DEF Shape, Pcs, Attempting
<1>8. /\ Shape' /\ GoesOn(w) /\ wk'[w].pc = "sent" /\ wk'[w].eff = wk[w].eff
      /\ wk'[w].try = wk[w].try
  BY <1>3, <1>5, <1>6, <1>7, ToFacts
<1>9. Request(w)' = Request(w)
  BY <1>8 DEF Request, IdempotencyKey, GoesOn, SameTask
<1> QED
  BY <1>1, <1>2, <1>3, <1>4, <1>8, <1>9

\* A request lands.
LEMMA LandFacts ==
  ASSUME Shape, NEW r \in net, Land(r)
  PROVE  /\ Shape' /\ r.step \in Steps /\ net' = net \ {r}
         /\ provider'[r.step].done =
              IF r.step \in Keyed /\ r.key \in provider[r.step].seen
              THEN provider[r.step].done ELSE provider[r.step].done + 1
         /\ provider'[r.step].seen = provider[r.step].seen \cup {r.key}
         /\ provider'[r.step].undo = provider[r.step].undo
         /\ \A t \in Steps \ {r.step} : provider'[t] = provider[t]
         /\ UNCHANGED <<inst, outbox, wk, holder, blind, stray, faults>>
<1>1. r \in Requests /\ provider \in [Steps -> Providers]
  BY DEF Shape
<1>2. PICK s \in Steps : s = r.step
  BY <1>1 DEF Requests
<1>3. PICK k \in Steps : k = r.key
  BY <1>1 DEF Requests
<1>4. provider[s] \in Providers
  BY <1>1
<1> DEFINE old == provider[s]
<1>5a. /\ old.done \in Nat /\ old.seen \in SUBSET Steps
  BY <1>4, ProviderFields
<1>5b. PICK d \in Nat : d = IF s \in Keyed /\ k \in old.seen THEN old.done ELSE old.done + 1
  BY <1>5a
<1>5c. PICK seen \in SUBSET Steps : seen = old.seen \cup {k}
  BY <1>5a
<1> DEFINE new == [old EXCEPT !.done = d, !.seen = seen]
<1>5. new \in Providers /\ new.undo = old.undo /\ new.seen = seen /\ new.done = d
  BY <1>4 DEF Providers
<1>6. provider' = [provider EXCEPT ![s] = new]
  BY <1>1, <1>2, <1>3, <1>4, <1>5b, <1>5c DEF Land, Providers
<1> HIDE DEF new
<1>7. /\ provider' \in [Steps -> Providers] /\ provider'[s] = new
      /\ \A t \in Steps \ {s} : provider'[t] = provider[t]
  BY <1>1, <1>5, <1>6
<1>8. net' = net \ {r} /\ UNCHANGED <<inst, outbox, wk, holder, blind, stray, faults>>
  BY DEF Land
<1>9. Shape'
  BY <1>7, <1>8 DEF Shape
<1> QED
  BY <1>2, <1>3, <1>5, <1>5b, <1>5c, <1>7, <1>8, <1>9

\* The answer comes, or the request fails, perhaps without having landed.
LEMMA AnswerFacts ==
  ASSUME Shape, NEW w \in Workers, Answer(w) \/ ExecuteFails(w)
  PROVE  /\ Shape' /\ GoesOn(w) /\ wk[w].pc = "sent" /\ wk[w].step \in Steps
         /\ wk'[w].pc = "mark" /\ wk'[w].try = wk[w].try /\ wk'[w].eff = wk[w].eff
         /\ wk'[w].out = "ok" => Request(w) \notin net
         /\ net' \in {net, net \ {Request(w)}}
         /\ UNCHANGED <<inst, outbox, provider, holder, blind, stray>>
<1>1. wk \in [Workers -> Drives] /\ wk[w] \in Drives /\ wk[w].pc = "sent"
  BY DEF Shape, Answer, ExecuteFails
<1>2. wk[w].step \in Steps /\ faults' \in 0 .. MaxFaults
  BY <1>1, EffectsAssumption DEF Shape, Attempting, Answer, ExecuteFails, UseFault
<1>3. /\ UNCHANGED <<inst, outbox, provider, holder, blind, stray>>
      /\ net' \in {net, net \ {Request(w)}}
  BY DEF Answer, ExecuteFails
<1>4. /\ wk[w].sure \in BOOLEAN /\ wk[w].eff \in {"none", "dedup", "executed"}
      /\ wk[w].out \in {"ok", "retryable", "fatal"}
  BY <1>1, DriveFields
<1>5. PICK out \in {"ok", "retryable", "fatal"} :
        /\ wk' = To(w, "mark", wk[w].sure, wk[w].eff, out)
        /\ out = "ok" => Request(w) \notin net
  <2>1. CASE Answer(w)
    <3>1. wk' = To(w, "mark", wk[w].sure, wk[w].eff, wk[w].out)
      BY <1>1, <2>1 DEF Answer, At, To, Drives
    <3> QED
      BY <1>4, <2>1, <3>1 DEF Answer
  <2>2. CASE ExecuteFails(w)
    <3>1. wk' = To(w, "mark", wk[w].sure, wk[w].eff, "fatal")
      BY <1>1, <2>2 DEF ExecuteFails, To, Drives
    <3> QED
      BY <3>1
  <2> QED
    BY <2>1, <2>2
<1>6. /\ "mark" \in Pcs /\ wk[w].pc \in Attempting
      /\ outbox' \in [Steps -> Rows \cup {NoRow}] /\ provider' \in [Steps -> Providers]
      /\ net' \subseteq Requests /\ blind' \subseteq Steps /\ stray' \subseteq Steps
  BY <1>1, <1>3, Zenon DEF Shape, Pcs, Attempting
<1>7. /\ Shape' /\ GoesOn(w) /\ wk'[w].pc = "mark" /\ wk'[w].eff = wk[w].eff
      /\ wk'[w].out = out /\ wk'[w].try = wk[w].try
  BY <1>2, <1>3, <1>4, <1>5, <1>6, ToFacts
<1> QED
  BY <1>1, <1>2, <1>3, <1>5, <1>7

\* What the write of a row changes: its status, and who has written without the
\* lease.
Written(w, s, status) ==
  /\ outbox' \in [Steps -> Rows \cup {NoRow}]
  /\ outbox'[s].status = status /\ outbox'[s].attempts = outbox[s].attempts
  /\ \A t \in Steps \ {s} : outbox'[t] = outbox[t]
  /\ stray' \subseteq Steps /\ stray \subseteq stray'
  /\ s \notin stray' => holder = w

\* A row that has been claimed is written.
LEMMA WriteFacts ==
  ASSUME Shape, NEW w \in Workers, NEW s \in Steps, outbox[s].attempts # 0,
         NEW status \in {"executed", "failed", "compensated"}, Write(w, s, status)
  PROVE  Written(w, s, status)
<1>1. outbox \in [Steps -> Rows \cup {NoRow}] /\ outbox[s] \in Rows \cup {NoRow}
  BY DEF Shape
<1>2. outbox[s] \in Rows
  BY <1>1 DEF NoRow
<1> DEFINE row == [outbox[s] EXCEPT !.status = status]
<1>3. row \in Rows /\ row.status = status /\ row.attempts = outbox[s].attempts
  BY <1>2 DEF Rows
<1>4. outbox' = [outbox EXCEPT ![s] = row]
  BY DEF Write
<1> HIDE DEF row
<1>5. /\ outbox' \in [Steps -> Rows \cup {NoRow}] /\ outbox'[s] = row
      /\ \A t \in Steps \ {s} : outbox'[t] = outbox[t]
  BY <1>1, <1>3, <1>4
<1>6. stray' \subseteq Steps /\ stray \subseteq stray' /\ (s \notin stray' => holder = w)
  BY DEF Write, Shape
<1> QED
  BY <1>3, <1>5, <1>6 DEF Written

\* The row is marked, and the attempt goes to its report with what it may claim.
\* A timeout may come in between, also before the row is written.
LEMMA MarkFacts ==
  ASSUME Shape, NEW w \in Workers, Mark(w) \/ Timeout(w) \/ RunnerFails(w),
         wk[w].pc = "mark" => outbox[wk[w].step].attempts # 0
  PROVE  /\ Shape' /\ GoesOn(w) /\ wk[w].pc \in Attempting /\ wk[w].step \in Steps
         /\ wk'[w].pc = "report" /\ wk'[w].try = wk[w].try
         /\ \/ /\ UNCHANGED <<outbox, stray>> /\ wk'[w].eff = wk[w].eff
            \/ /\ wk[w].pc = "mark" /\ Written(w, wk[w].step, MarkedStatus(w))
               /\ wk'[w].eff # "none" => wk[w].out = "ok" \/ wk[w].eff # "none"
         /\ UNCHANGED <<inst, provider, net, holder, blind>>
<1>1. /\ wk \in [Workers -> Drives] /\ wk[w] \in Drives /\ wk[w].pc \in Attempting
      /\ (Mark(w) => wk[w].pc = "mark") /\ (RunnerFails(w) => wk[w].pc = "report")
  BY DEF Shape, Mark, Timeout, RunnerFails, Attempting
<1>2. wk[w].step \in Steps /\ faults' \in 0 .. MaxFaults
  BY <1>1, EffectsAssumption DEF Shape, Mark, Timeout, RunnerFails, UseFault
<1>3. UNCHANGED <<inst, provider, net, holder, blind>>
  BY DEF Mark, Timeout, RunnerFails
<1>4. /\ wk[w].sure \in BOOLEAN /\ wk[w].eff \in {"none", "dedup", "executed"}
      /\ wk[w].out \in {"ok", "retryable", "fatal"}
  BY <1>1, DriveFields
<1>5. MarkedStatus(w) \in {"executed", "failed", "compensated"}
  BY DEF MarkedStatus
<1>6. \E eff \in {"none", "dedup", "executed"}, out \in {"ok", "retryable", "fatal"} :
        /\ wk' = To(w, "report", wk[w].sure, eff, out)
        /\ \/ UNCHANGED <<outbox, stray>> /\ eff = wk[w].eff
           \/ /\ wk[w].pc = "mark" /\ Written(w, wk[w].step, MarkedStatus(w))
              /\ eff # "none" => wk[w].out = "ok" \/ wk[w].eff # "none"
  <2>1. CASE Mark(w)
    <3>1. PICK eff \in {"none", "executed"} : eff = IF wk[w].out = "ok" THEN "executed" ELSE "none"
      OBVIOUS
    <3>2. wk' = To(w, "report", wk[w].sure, eff, wk[w].out)
      BY <1>1, <2>1, <3>1 DEF Mark, To, Drives
    <3>3. Written(w, wk[w].step, MarkedStatus(w))
      BY <1>1, <1>2, <1>5, <2>1, WriteFacts DEF Mark
    <3> QED
      BY <1>1, <1>4, <2>1, <3>1, <3>2, <3>3
  <2>2. CASE Timeout(w)
    <3>1. wk' = To(w, "report", wk[w].sure, wk[w].eff, "retryable")
      BY <1>1, <2>2 DEF Timeout, To, Drives
    <3>2. \/ UNCHANGED <<outbox, stray>>
          \/ wk[w].pc = "mark" /\ Written(w, wk[w].step, MarkedStatus(w))
      BY <1>2, <1>5, <2>2, WriteFacts DEF Timeout
    <3> QED
      BY <1>4, <3>1, <3>2
  <2>3. CASE RunnerFails(w)
    <3>1. PICK error \in RunnerErrors : wk' = [wk EXCEPT ![w].out = Classify(error)]
      BY <2>3 DEF RunnerFails
    <3>2. PICK out \in {"retryable", "fatal"} : out = Classify(error)
      BY DEF Classify
    <3>3. wk' = To(w, "report", wk[w].sure, wk[w].eff, out)
      BY <1>1, <2>3, <3>1, <3>2 DEF To, Drives
    <3> QED
      BY <1>4, <2>3, <3>3 DEF RunnerFails
  <2> QED
    BY <2>1, <2>2, <2>3
<1>7. PICK eff \in {"none", "dedup", "executed"}, out \in {"ok", "retryable", "fatal"} :
        /\ wk' = To(w, "report", wk[w].sure, eff, out)
        /\ \/ UNCHANGED <<outbox, stray>> /\ eff = wk[w].eff
           \/ /\ wk[w].pc = "mark" /\ Written(w, wk[w].step, MarkedStatus(w))
              /\ eff # "none" => wk[w].out = "ok" \/ wk[w].eff # "none"
  BY <1>6
<1>8. /\ "report" \in Pcs
      /\ outbox' \in [Steps -> Rows \cup {NoRow}] /\ provider' \in [Steps -> Providers]
      /\ net' \subseteq Requests /\ blind' \subseteq Steps /\ stray' \subseteq Steps
  BY <1>3, <1>7 DEF Shape, Pcs, Written
<1>9. /\ Shape' /\ GoesOn(w) /\ wk'[w].pc = "report" /\ wk'[w].eff = eff
      /\ wk'[w].try = wk[w].try
  BY <1>1, <1>2, <1>3, <1>4, <1>7, <1>8, ToFacts
<1> QED
  BY <1>1, <1>2, <1>3, <1>7, <1>9

\* The list of what is to be undone: the effects whose rows are EXECUTED.
LEMMA UndoList ==
  LET todo == Reverse(InOrder(ToUndo))
  IN /\ todo \in Seq(Steps)
     /\ \A k \in 1 .. Len(todo) : outbox[todo[k]].status = "executed"
     /\ \A s \in ToUndo : \E k \in 1 .. Len(todo) : todo[k] = s
<1>1. N \in Nat /\ Steps \in SUBSET Nat /\ IsFiniteSet(Steps) /\ ToUndo \in SUBSET Steps
  BY EffectsAssumption, FS_Interval DEF Steps, ToUndo
<1>2. IsFiniteSet(ToUndo) /\ ToUndo \in SUBSET Nat
  BY <1>1, FS_Subset
<1> DEFINE n == Cardinality(ToUndo)
           order == InOrder(ToUndo)
           todo == Reverse(order)
<1>3. n \in Nat /\ order \in [1 .. n -> ToUndo]
  BY <1>2, InOrderIn
<1>4. \A s \in ToUndo : \E k \in 1 .. n : order[k] = s
  <2> TAKE s \in ToUndo
  <2>1. Before(ToUndo, s) + 1 \in 1 .. n /\ order[Before(ToUndo, s) + 1] = s
    BY <1>2, InOrderOnto
  <2> QED
    BY <2>1
<1> HIDE DEF n, order
<1>5. Len(order) = n
  BY <1>3
<1>6. todo = [i \in 1 .. n |-> order[(n - i) + 1]]
  BY <1>5 DEF Reverse
<1>7. \A i \in 1 .. n : (n - i) + 1 \in 1 .. n
  BY <1>3
<1>8. todo \in [1 .. n -> ToUndo]
  BY <1>3, <1>6, <1>7
<1>9. todo \in Seq(Steps) /\ Len(todo) = n
  <2>1. todo \in [1 .. n -> Steps]
    BY <1>1, <1>8
  <2> HIDE DEF todo
  <2>2. todo \in UNION {[1 .. m -> Steps] : m \in Nat}
    BY <1>3, <2>1
  <2> QED
    BY <1>3, <2>1, <2>2
<1>10. \A s \in ToUndo : \E k \in 1 .. n : todo[k] = s
  <2> TAKE s \in ToUndo
  <2>1. PICK k \in 1 .. n : order[k] = s
    BY <1>4
  <2>2. (n - k) + 1 \in 1 .. n /\ (n - ((n - k) + 1)) + 1 = k
    BY <1>3
  <2>3. todo[(n - k) + 1] = s
    BY <1>6, <2>1, <2>2
  <2> QED
    BY <2>2, <2>3
<1>11. \A k \in 1 .. n : outbox[todo[k]].status = "executed"
  BY <1>8 DEF ToUndo
<1> QED
  BY <1>9, <1>10, <1>11 DEF order

\* The rollback begins with that list.
LEMMA StartRollbackFacts ==
  ASSUME Shape, NEW w \in Workers, StartRollback(w)
  PROVE  /\ Shape' /\ Others(w) /\ wk[w].pc = "plan"
         /\ wk'[w].pc = "undo" /\ wk'[w].step = wk[w].step /\ wk'[w].try = wk[w].try
         /\ wk'[w].eff = wk[w].eff /\ wk'[w].fresh = wk[w].fresh
         /\ \A k \in 1 .. Len(wk'[w].todo) : outbox[wk'[w].todo[k]].status = "executed"
         /\ \A s \in ToUndo : \E k \in 1 .. Len(wk'[w].todo) : wk'[w].todo[k] = s
         /\ wk'[w].todo \in Seq(Steps)
         /\ UNCHANGED <<inst, outbox, provider, net, holder, blind, stray>>
<1>1. wk \in [Workers -> Drives] /\ wk[w] \in Drives /\ wk[w].pc = "plan"
  BY DEF Shape, StartRollback, Plans
<1>2. PICK todo \in Seq(Steps) :
        /\ todo = Reverse(InOrder(ToUndo))
        /\ \A k \in 1 .. Len(todo) : outbox[todo[k]].status = "executed"
        /\ \A s \in ToUndo : \E k \in 1 .. Len(todo) : todo[k] = s
  BY UndoList
<1> DEFINE rec == [wk[w] EXCEPT !.pc = "undo", !.todo = todo]
<1>3. wk' = [wk EXCEPT ![w] = rec]
  BY <1>1, <1>2 DEF StartRollback, Drives
<1>4. /\ rec \in Drives /\ rec.pc = "undo" /\ rec.todo = todo /\ rec.step = wk[w].step
      /\ rec.try = wk[w].try /\ rec.eff = wk[w].eff /\ rec.fresh = wk[w].fresh
  BY <1>1 DEF Drives, Pcs
<1> HIDE DEF rec
<1>5. wk' \in [Workers -> Drives] /\ wk'[w] = rec /\ Others(w)
  BY <1>1, <1>3, <1>4, LocalFacts
<1>6. UNCHANGED <<inst, outbox, provider, net, holder, blind, stray, faults>>
  BY DEF StartRollback
<1>7. Shape'
  BY <1>4, <1>5, <1>6 DEF Shape, Others, Attempting
<1> QED
  BY <1>1, <1>2, <1>4, <1>5, <1>6, <1>7

\* An effect is undone, or cannot be.
LEMMA CompensateFacts ==
  ASSUME Shape, NEW w \in Workers, Compensate(w) \/ CompensateNotOk(w) \/ CompensateFails(w)
  PROVE  /\ Shape' /\ GoesOn(w) /\ wk[w].pc = "undo" /\ wk[w].todo # <<>>
         /\ wk'[w].pc \in {"undone", "escalate"}
         /\ wk'[w].try = wk[w].try /\ wk'[w].eff = wk[w].eff
         /\ \A s \in Steps : /\ provider'[s].done = provider[s].done
                             /\ provider'[s].seen = provider[s].seen
                             /\ UndoAnswered(s, provider[s]) => UndoAnswered(s, provider'[s])
         /\ wk'[w].pc = "undone" => UndoAnswered(Head(wk[w].todo), provider'[Head(wk[w].todo)])
         /\ UNCHANGED <<inst, outbox, net, holder, blind, stray>>
<1>1. /\ wk \in [Workers -> Drives] /\ wk[w] \in Drives /\ wk[w].pc = "undo" /\ wk[w].todo # <<>>
      /\ faults' \in 0 .. MaxFaults
  BY EffectsAssumption DEF Shape, Compensate, CompensateNotOk, CompensateFails, UseFault
<1>2. /\ wk[w].sure \in BOOLEAN /\ wk[w].eff \in {"none", "dedup", "executed"}
      /\ wk[w].out \in {"ok", "retryable", "fatal"} /\ wk[w].todo \in Seq(Steps)
  BY <1>1, DriveFields
<1>3. PICK s \in Steps : s = Head(wk[w].todo)
  BY <1>1, <1>2
<1>4. UNCHANGED <<inst, outbox, net, holder, blind, stray>>
  BY DEF Compensate, CompensateNotOk, CompensateFails
<1>5. provider \in [Steps -> Providers] /\ provider[s] \in Providers
  BY DEF Shape
<1>6. PICK pc \in {"undone", "escalate"} :
        /\ wk' = To(w, pc, wk[w].sure, wk[w].eff, wk[w].out)
        /\ provider' \in [Steps -> Providers]
        /\ \A t \in Steps : /\ provider'[t].done = provider[t].done
                            /\ provider'[t].seen = provider[t].seen
                            /\ UndoAnswered(t, provider[t]) => UndoAnswered(t, provider'[t])
        /\ pc = "undone" => UndoAnswered(s, provider'[s])
  <2>1. CASE Compensate(w) \/ CompensateNotOk(w)
    <3>1. wk' = To(w, "undone", wk[w].sure, wk[w].eff, wk[w].out)
      BY <1>1, <2>1 DEF Compensate, CompensateNotOk, At, To, Drives
    <3>2. PICK u \in Undos : /\ provider' = [provider EXCEPT ![s].undo = u]
                             /\ u \in (IF s \in Undoable THEN {"done", "refused"} ELSE {"kept"})
      <4>1. CASE Compensate(w)
        BY <1>3, <4>1 DEF Compensate, Undos
      <4>2. CASE CompensateNotOk(w)
        <5>1. PICK u \in {"done", "refused"} :
                u = IF provider[s].undo = "done" THEN provider[s].undo ELSE "refused"
          OBVIOUS
        <5>2. provider' = [provider EXCEPT ![s].undo = u] /\ s \in Undoable
          BY <1>3, <1>5, <4>2, <5>1 DEF CompensateNotOk, Providers
        <5> QED
          BY <5>1, <5>2 DEF Undos
      <4> QED
        BY <2>1, <4>1, <4>2
    <3> DEFINE new == [provider[s] EXCEPT !.undo = u]
    <3>3. /\ new \in Providers /\ new.done = provider[s].done /\ new.seen = provider[s].seen
          /\ new.undo = u
      BY <1>5 DEF Providers
    <3>4. provider' = [provider EXCEPT ![s] = new]
      BY <3>2
    <3>5. UndoAnswered(s, new)
      BY <3>2, <3>3 DEF UndoAnswered
    <3> HIDE DEF new
    <3>6. /\ provider' \in [Steps -> Providers] /\ provider'[s] = new
          /\ \A t \in Steps \ {s} : provider'[t] = provider[t]
      BY <1>5, <3>3, <3>4
    <3> QED
      BY <3>1, <3>3, <3>5, <3>6
  <2>2. CASE CompensateFails(w)
    <3>1. wk' = To(w, "escalate", wk[w].sure, wk[w].eff, wk[w].out)
      BY <1>1, <2>2 DEF CompensateFails, At, To, Drives
    <3> QED
      BY <1>5, <2>2, <3>1 DEF CompensateFails
  <2> QED
    BY <2>1, <2>2
<1>7. /\ pc \in Pcs /\ pc \notin Attempting
      /\ outbox' \in [Steps -> Rows \cup {NoRow}]
      /\ net' \subseteq Requests /\ blind' \subseteq Steps /\ stray' \subseteq Steps
  BY <1>4 DEF Shape, Pcs, Attempting
<1>8. /\ Shape' /\ GoesOn(w) /\ wk'[w].pc = pc /\ wk'[w].eff = wk[w].eff
      /\ wk'[w].try = wk[w].try
  BY <1>1, <1>2, <1>4, <1>6, <1>7, ToFacts
<1> QED
  BY <1>1, <1>3, <1>4, <1>6, <1>8

\* The row of an undone effect is marked, and the next one is taken up.
LEMMA MarkCompensatedFacts ==
  ASSUME Base, NEW w \in Workers, MarkCompensated(w)
  PROVE  \E s \in Steps :
           /\ Shape' /\ Others(w) /\ wk[w].pc = "undone" /\ s = Head(wk[w].todo)
           /\ wk'[w].pc = "undo" /\ wk'[w].step = wk[w].step /\ wk'[w].try = wk[w].try
           /\ wk'[w].eff = wk[w].eff /\ wk'[w].fresh = wk[w].fresh
           /\ Written(w, s, "compensated") /\ wk'[w].todo = Tail(wk[w].todo)
           /\ \A k \in 1 .. Len(wk'[w].todo) :
                k + 1 \in 1 .. Len(wk[w].todo) /\ wk'[w].todo[k] = wk[w].todo[k + 1]
           /\ \A k \in 1 .. Len(wk[w].todo) :
                wk[w].todo[k] = s \/ \E j \in 1 .. Len(wk'[w].todo) : wk'[w].todo[j] = wk[w].todo[k]
           /\ UNCHANGED <<inst, provider, net, holder, blind>>
<1>1. /\ Shape /\ wk \in [Workers -> Drives] /\ wk[w] \in Drives /\ wk[w].pc = "undone"
      /\ wk[w].todo # <<>>
  BY DEF Base, Shape, MarkCompensated
<1>2. wk[w].todo \in Seq(Steps) /\ wk[w].undone \in SUBSET Steps
  BY <1>1, DriveFields
<1>3. PICK old \in Seq(Steps) : old = wk[w].todo /\ old # <<>>
  BY <1>1, <1>2
<1>4. Len(old) \in Nat /\ 1 \in 1 .. Len(old) /\ Head(old) = old[1] /\ old[1] \in Steps
  BY <1>3
<1>5. PICK s \in Steps : s = Head(old)
  BY <1>4
<1>6. PICK todo \in Seq(Steps) :
        /\ todo = Tail(old) /\ Len(todo) = Len(old) - 1
        /\ \A k \in 1 .. Len(todo) : todo[k] = old[k + 1]
  BY <1>3, HeadTailProperties
<1>7. PICK undone \in SUBSET Steps : undone = wk[w].undone \cup {s}
  BY <1>2
<1>8. /\ \A k \in 1 .. Len(todo) : k + 1 \in 1 .. Len(old) /\ todo[k] = old[k + 1]
      /\ Len(todo) = Len(old) - 1
  BY <1>4, <1>6
<1>9. \A k \in 1 .. Len(old) : old[k] = s \/ \E j \in 1 .. Len(todo) : todo[j] = old[k]
  <2> TAKE k \in 1 .. Len(old)
  <2>1. CASE k = 1
    BY <2>1, <1>4, <1>5
  <2>2. CASE k # 1
    <3>1. k - 1 \in 1 .. Len(todo) /\ (k - 1) + 1 = k
      BY <2>2, <1>4, <1>8
    <3> QED
      BY <3>1, <1>8
  <2> QED
    BY <2>1, <2>2
<1> DEFINE rec == [wk[w] EXCEPT !.pc = "undo", !.todo = todo, !.undone = undone]
<1>10. wk' = [wk EXCEPT ![w] = rec]
  BY <1>1, <1>3, <1>5, <1>6, <1>7 DEF MarkCompensated, Drives
<1>11. /\ rec \in Drives /\ rec.pc = "undo" /\ rec.todo = todo /\ rec.step = wk[w].step
       /\ rec.try = wk[w].try /\ rec.eff = wk[w].eff /\ rec.fresh = wk[w].fresh
  BY <1>1 DEF Drives, Pcs
<1> HIDE DEF rec
<1>12. wk' \in [Workers -> Drives] /\ wk'[w] = rec /\ Others(w)
  BY <1>1, <1>10, <1>11, LocalFacts
<1>13. outbox[s].attempts # 0
  BY <1>3, <1>4, <1>5 DEF Base, ListedRows
<1>14. Written(w, s, "compensated") /\ UNCHANGED <<inst, provider, net, holder, blind, faults>>
  BY <1>1, <1>3, <1>5, <1>13, WriteFacts DEF MarkCompensated
<1>15. Shape'
  BY <1>1, <1>11, <1>12, <1>14 DEF Shape, Others, Attempting, Written
<1>16. /\ \A k \in 1 .. Len(wk'[w].todo) :
            k + 1 \in 1 .. Len(wk[w].todo) /\ wk'[w].todo[k] = wk[w].todo[k + 1]
       /\ \A k \in 1 .. Len(wk[w].todo) :
            wk[w].todo[k] = s \/ \E j \in 1 .. Len(wk'[w].todo) : wk'[w].todo[j] = wk[w].todo[k]
  BY <1>3, <1>8, <1>9, <1>11, <1>12
<1> QED
  BY <1>1, <1>3, <1>5, <1>6, <1>11, <1>12, <1>14, <1>15, <1>16
-----------------------------------------------------------------------------
(***************************************************************************)
(* Shapes, numbers of attempts, lists of what is to be undone.             *)
(***************************************************************************)

\* The lease expires.
LEMMA LapseFacts ==
  ASSUME Shape, LeaseLapses
  PROVE  /\ Shape' /\ holder' = NoWorker
         /\ UNCHANGED <<inst, outbox, provider, net, wk, blind, stray>>
<1>1. faults' \in 0 .. MaxFaults
  BY EffectsAssumption DEF Shape, LeaseLapses, UseFault
<1> QED
  BY <1>1 DEF Shape, LeaseLapses

\* Rows count in Nat.
LEMMA RowCounts ==
  ASSUME Shape
  PROVE  \A s \in Steps : /\ outbox[s].attempts \in Nat
                          /\ outbox[s].status = "absent" <=> outbox[s].attempts = 0
BY RowFields DEF Shape

\* Unless a number is drawn, the numbers and the lists stay as they are or go.
LEMMA BaseKept ==
  ASSUME Base, Shape',
         \A s \in Steps : outbox'[s].attempts = outbox[s].attempts,
         \A v \in Workers : \/ wk'[v].step = wk[v].step /\ wk'[v].try = wk[v].try
                            \/ wk'[v].try = 0,
         \A v \in Workers : wk'[v].pc \in {"reconcile", "execute", "sent", "mark"} =>
           /\ wk[v].pc \in {"reconcile", "execute", "sent", "mark"}
           /\ wk'[v].try = wk[v].try,
         \A v \in Workers : \A k \in 1 .. Len(wk'[v].todo) :
           outbox[wk'[v].todo[k]].attempts # 0
  PROVE  Base'
<1>1. \A s \in Steps : outbox[s].attempts \in Nat
  BY RowCounts DEF Base
<1>2. \A v \in Workers : wk[v].try \in Nat /\ wk'[v].try \in Nat
  BY DriveFields DEF Base, Shape
<1>3. Tries'
  BY <1>1, <1>2 DEF Base, Tries
<1>4. ListedRows'
  <2>1. \A v \in Workers : wk'[v].todo \in Seq(Steps)
    BY DriveFields DEF Shape
  <2>2. \A v \in Workers : \A k \in 1 .. Len(wk'[v].todo) : wk'[v].todo[k] \in Steps
    BY <2>1
  <2> QED
    BY <2>2 DEF ListedRows
<1> QED
  BY <1>3, <1>4 DEF Base

\* Starting over forgets the number and the list.
LEMMA StartOverBase ==
  ASSUME Base, Shape', NEW w \in Workers, StartOver(w)
  PROVE  Base'
<1>1. \A v \in Workers : \/ wk'[v].step = wk[v].step /\ wk'[v].try = wk[v].try
                         \/ wk'[v].try = 0
  BY DEF StartOver, FromScratch, Others
<1>2. \A v \in Workers : wk'[v].pc \in {"reconcile", "execute", "sent", "mark"} =>
        /\ wk[v].pc \in {"reconcile", "execute", "sent", "mark"}
        /\ wk'[v].try = wk[v].try
  BY DEF StartOver, FromScratch, Others
<1>3. \A v \in Workers : \A k \in 1 .. Len(wk'[v].todo) : outbox[wk'[v].todo[k]].attempts # 0
  <2> SUFFICES ASSUME NEW v \in Workers, NEW k \in 1 .. Len(wk'[v].todo)
               PROVE  outbox[wk'[v].todo[k]].attempts # 0
    OBVIOUS
  <2>1. CASE v = w
    <3>1. wk'[v].todo = <<>>
      BY <2>1 DEF StartOver, FromScratch
    <3> QED
      BY <3>1
  <2>2. CASE v # w
    <3>1. wk'[v].todo = wk[v].todo
      BY <2>2 DEF StartOver, Others
    <3> QED
      BY <3>1 DEF Base, ListedRows
  <2> QED
    BY <2>1, <2>2
<1>4. outbox' = outbox
  BY DEF StartOver
<1> QED
  BY <1>1, <1>2, <1>3, <1>4, BaseKept

\* A step of an attempt or of a rollback that draws no number.
LEMMA GoesOnBase ==
  ASSUME Base, Shape', NEW w \in Workers, GoesOn(w), wk'[w].try = wk[w].try,
         wk'[w].pc \in {"reconcile", "execute", "sent", "mark"} =>
           wk[w].pc \in {"reconcile", "execute", "sent", "mark"},
         \A s \in Steps : outbox'[s].attempts = outbox[s].attempts
  PROVE  Base'
<1>1. \A v \in Workers : wk'[v].step = wk[v].step /\ wk'[v].try = wk[v].try
                         /\ wk'[v].todo = wk[v].todo
  BY DEF GoesOn, SameTask
<1>2. \A v \in Workers : wk'[v].pc \in {"reconcile", "execute", "sent", "mark"} =>
        wk[v].pc \in {"reconcile", "execute", "sent", "mark"}
  BY DEF GoesOn
<1>3. \A v \in Workers : \A k \in 1 .. Len(wk'[v].todo) : outbox[wk'[v].todo[k]].attempts # 0
  BY <1>1 DEF Base, ListedRows
<1> QED
  BY <1>1, <1>2, <1>3, BaseKept

\* The number that is drawn is larger than everyone else's.
LEMMA ClaimRowBase ==
  ASSUME Base, NEW w \in Workers, ClaimRow(w)
  PROVE  Base'
<1>1. PICK s : s = wk[w].step
  OBVIOUS
<1>2. /\ Shape' /\ GoesOn(w) /\ s \in Steps
      /\ wk'[w].try = outbox[s].attempts + 1
      /\ outbox'[s].attempts = outbox[s].attempts + 1
      /\ \A t \in Steps \ {s} : outbox'[t] = outbox[t]
  BY <1>1, ClaimRowFacts DEF Base
<1>3. \A t \in Steps : outbox[t].attempts \in Nat
  BY RowCounts DEF Base
<1>4. /\ \A t \in Steps : /\ outbox'[t].attempts \in Nat
                          /\ outbox[t].attempts <= outbox'[t].attempts
      /\ \A t \in Steps : outbox[t].attempts # 0 => outbox'[t].attempts # 0
  BY <1>2, <1>3
<1>5. \A v \in Workers : /\ wk[v].try \in Nat /\ wk'[v].step = wk[v].step
                         /\ v # w => wk'[v] = wk[v]
                         /\ wk'[v].todo = wk[v].todo /\ wk[v].todo \in Seq(Steps)
  BY <1>2, DriveFields DEF Base, Shape, GoesOn, SameTask
<1>6. \A v \in Workers : wk[v].step \in Steps => wk[v].try <= outbox[wk[v].step].attempts
  BY DEF Base, Tries
<1>7. \A u, v \in Workers : u # v /\ wk'[u].step = wk'[v].step /\ wk'[u].try = wk'[v].try
                            => wk'[u].try = 0
  <2> SUFFICES ASSUME NEW u \in Workers, NEW v \in Workers, u # v,
                      wk'[u].step = wk'[v].step, wk'[u].try = wk'[v].try
               PROVE  wk'[u].try = 0
    OBVIOUS
  <2>1. ASSUME NEW x \in Workers, x # w, wk[x].step = s PROVE wk[x].try # wk'[w].try
    <3>1. wk[x].try <= outbox[s].attempts
      BY <1>2, <1>6, <2>1
    <3>2. wk[x].try \in Nat /\ outbox[s].attempts \in Nat /\ wk'[w].try = outbox[s].attempts + 1
      BY <1>2, <1>3, <1>5
    <3> QED
      BY <3>1, <3>2
  <2>2. \A x \in Workers : wk'[x].step = wk[x].step /\ (x # w => wk'[x].try = wk[x].try)
    BY <1>5
  <2>3. u # w /\ v # w
    BY <1>1, <2>1, <2>2
  <2> QED
    BY <1>5, <2>3 DEF Base, Tries
<1>8. \A v \in Workers : wk'[v].step \in Steps => wk'[v].try <= outbox'[wk'[v].step].attempts
  <2> SUFFICES ASSUME NEW v \in Workers, wk'[v].step \in Steps
               PROVE  wk'[v].try <= outbox'[wk'[v].step].attempts
    OBVIOUS
  <2>1. CASE v = w
    <3>1. wk'[v].step = s /\ wk'[v].try = outbox'[s].attempts /\ outbox'[s].attempts \in Nat
      BY <1>1, <1>2, <1>4, <1>5, <2>1
    <3> QED
      BY <3>1
  <2>2. CASE v # w
    BY <1>3, <1>4, <1>5, <1>6, <2>2
  <2> QED
    BY <2>1, <2>2
<1>9. \A v \in Workers : wk'[v].pc \in {"reconcile", "execute", "sent", "mark"} => wk'[v].try > 0
  BY <1>2, <1>3, <1>5 DEF Base, Tries
<1>10. Tries'
  BY <1>7, <1>8, <1>9 DEF Tries
<1>11. ListedRows'
  <2>1. \A v \in Workers : \A k \in 1 .. Len(wk[v].todo) : wk[v].todo[k] \in Steps
    BY <1>5
  <2> QED
    BY <1>4, <1>5, <2>1 DEF Base, ListedRows
<1> QED
  BY <1>2, <1>10, <1>11 DEF Base

\* Whoever marks a row has drawn a number from it.
LEMMA MarksClaimed ==
  ASSUME Base, NEW w \in Workers, wk[w].pc \in {"reconcile", "execute", "sent", "mark"}
  PROVE  wk[w].step \in Steps /\ outbox[wk[w].step].attempts # 0
<1>1. wk[w].step \in Steps
  BY DEF Base, Shape, Attempting
<1>2. outbox[wk[w].step].attempts \in Nat /\ wk[w].try \in Nat
  BY <1>1, RowCounts, DriveFields DEF Base, Shape
<1>3. wk[w].try > 0 /\ wk[w].try <= outbox[wk[w].step].attempts
  BY <1>1 DEF Base, Tries
<1> QED
  BY <1>1, <1>2, <1>3

\* A row that is written keeps its number.
LEMMA WrittenCounts ==
  ASSUME NEW w, NEW s \in Steps, NEW status, Written(w, s, status)
  PROVE  \A t \in Steps : outbox'[t].attempts = outbox[t].attempts
BY DEF Written

\* Nothing has been requested when everything begins.
LEMMA InitBase == Init => Base
<1> SUFFICES ASSUME Init PROVE Base
  OBVIOUS
<1>1. /\ outbox = [s \in Steps |-> NoRow] /\ net = {} /\ holder = NoWorker
      /\ wk = [w \in Workers |-> IdleWorker] /\ blind = {} /\ stray = {} /\ faults = 0
  BY DEF Init
<1>2. inst \in Instances
  BY DEF Init, Instances
<1>3. provider \in [Steps -> Providers]
  BY DEF Init, Providers, Undos
<1>4. faults \in 0 .. MaxFaults
  BY <1>1, EffectsAssumption
<1>5. wk \in [Workers -> Drives] /\ \A w \in Workers : wk[w] = IdleWorker
  BY <1>1, DriveFacts
<1>6. Shape
  BY <1>1, <1>2, <1>3, <1>4, <1>5, DriveFacts DEF Shape, Attempting
<1>7. \A w \in Workers : wk[w].step \notin Steps
  BY <1>5, DriveFacts DEF Steps
<1>8. Tries
  BY <1>5, <1>7, DriveFacts DEF Tries
<1>9. ListedRows
  BY <1>5, DriveFacts DEF ListedRows
<1> QED
  BY <1>6, <1>8, <1>9 DEF Base

\* Every step keeps Base.
LEMMA NextBase == Base /\ [Next]_vars => Base'
<1> SUFFICES ASSUME Base, [Next]_vars PROVE Base'
  OBVIOUS
<1>0. Shape /\ Tries /\ ListedRows
  BY DEF Base
<1>1. ASSUME NEW w \in Workers, Drive(w) PROVE Base'
  <2>1. CASE \/ Claim(w) \/ LoseRace(w) \/ Crash(w) \/ Dispatch(w) \/ Complete(w)
             \/ RecordRollback(w) \/ EscalateCompensation(w) \/ Report(w)
    <3>1. Shape' /\ StartOver(w)
      BY <1>0, <2>1, ClaimFacts, QuitFacts, DispatchFacts, EndFacts, ReportFacts
    <3> QED
      BY <3>1, StartOverBase
  <2>2. CASE ClaimRow(w)
    BY <2>2, ClaimRowBase
  <2>3. CASE Reconcile(w) \/ ReconcileFails(w)
    BY <1>0, <2>3, ReconcileFacts, GoesOnBase
  <2>4. CASE Send(w)
    BY <1>0, <2>4, SendFacts, GoesOnBase
  <2>5. CASE Answer(w) \/ ExecuteFails(w)
    BY <1>0, <2>5, AnswerFacts, GoesOnBase
  <2>6. CASE Mark(w) \/ Timeout(w) \/ RunnerFails(w)
    <3>1. wk[w].pc = "mark" => outbox[wk[w].step].attempts # 0
      BY MarksClaimed
    <3>2. /\ Shape' /\ GoesOn(w) /\ wk[w].step \in Steps
          /\ wk'[w].pc = "report" /\ wk'[w].try = wk[w].try
          /\ outbox' = outbox \/ Written(w, wk[w].step, MarkedStatus(w))
      BY <1>0, <2>6, <3>1, MarkFacts
    <3>3. \A s \in Steps : outbox'[s].attempts = outbox[s].attempts
      BY <3>2, WrittenCounts
    <3> QED
      BY <3>2, <3>3, GoesOnBase
  <2>7. CASE StartRollback(w)
    <3>1. /\ Shape' /\ Others(w) /\ wk'[w].pc = "undo" /\ outbox' = outbox
          /\ wk'[w].step = wk[w].step /\ wk'[w].try = wk[w].try
          /\ \A k \in 1 .. Len(wk'[w].todo) : outbox[wk'[w].todo[k]].status = "executed"
          /\ wk'[w].todo \in Seq(Steps)
      BY <1>0, <2>7, StartRollbackFacts
    <3>2. \A k \in 1 .. Len(wk'[w].todo) : outbox[wk'[w].todo[k]].attempts # 0
      <4>1. \A k \in 1 .. Len(wk'[w].todo) : wk'[w].todo[k] \in Steps
        BY <3>1
      <4> QED
        BY <1>0, <3>1, <4>1, RowCounts
    <3>3. \A v \in Workers : \A k \in 1 .. Len(wk'[v].todo) : outbox[wk'[v].todo[k]].attempts # 0
      BY <1>0, <3>1, <3>2 DEF Others, ListedRows
    <3>4. \A v \in Workers : wk'[v].step = wk[v].step /\ wk'[v].try = wk[v].try
      BY <3>1 DEF Others
    <3>5. \A v \in Workers : wk'[v].pc \in {"reconcile", "execute", "sent", "mark"} =>
            wk[v].pc \in {"reconcile", "execute", "sent", "mark"}
      BY <3>1 DEF Others
    <3> QED
      BY <3>1, <3>3, <3>4, <3>5, BaseKept
  <2>8. CASE Compensate(w) \/ CompensateNotOk(w) \/ CompensateFails(w)
    BY <1>0, <2>8, CompensateFacts, GoesOnBase
  <2>9. CASE MarkCompensated(w)
    <3>1. PICK s \in Steps :
            /\ Shape' /\ Others(w) /\ wk'[w].pc = "undo"
            /\ wk'[w].step = wk[w].step /\ wk'[w].try = wk[w].try
            /\ Written(w, s, "compensated")
            /\ \A k \in 1 .. Len(wk'[w].todo) :
                 k + 1 \in 1 .. Len(wk[w].todo) /\ wk'[w].todo[k] = wk[w].todo[k + 1]
      BY <2>9, MarkCompensatedFacts
    <3>2. \A t \in Steps : outbox'[t].attempts = outbox[t].attempts
      BY <3>1, WrittenCounts
    <3>3. \A v \in Workers : \A k \in 1 .. Len(wk'[v].todo) : outbox[wk'[v].todo[k]].attempts # 0
      <4> SUFFICES ASSUME NEW v \in Workers, NEW k \in 1 .. Len(wk'[v].todo)
                   PROVE  outbox[wk'[v].todo[k]].attempts # 0
        OBVIOUS
      <4>1. \E u \in Workers : \E m \in 1 .. Len(wk[u].todo) : wk'[v].todo[k] = wk[u].todo[m]
        <5>1. CASE v = w
          BY <3>1, <5>1
        <5>2. CASE v # w
          BY <3>1, <5>2 DEF Others
        <5> QED
          BY <5>1, <5>2
      <4> QED
        BY <1>0, <4>1 DEF ListedRows
    <3>4. \A v \in Workers : wk'[v].step = wk[v].step /\ wk'[v].try = wk[v].try
      BY <3>1 DEF Others
    <3>5. \A v \in Workers : wk'[v].pc \in {"reconcile", "execute", "sent", "mark"} =>
            wk[v].pc \in {"reconcile", "execute", "sent", "mark"}
      BY <3>1 DEF Others
    <3> QED
      BY <3>1, <3>2, <3>3, <3>4, <3>5, BaseKept
  <2> QED
    BY <1>1, <2>1, <2>2, <2>3, <2>4, <2>5, <2>6, <2>7, <2>8, <2>9 DEF Drive
<1>2. ASSUME NEW r \in net, Land(r) PROVE Base'
  <2>1. Shape' /\ wk' = wk /\ outbox' = outbox
    BY <1>0, <1>2, LandFacts
  <2> QED
    BY <1>0, <2>1 DEF Base, Tries, ListedRows
<1>3. CASE LeaseLapses
  <2>1. Shape' /\ wk' = wk /\ outbox' = outbox
    BY <1>0, <1>3, LapseFacts
  <2> QED
    BY <1>0, <2>1 DEF Base, Tries, ListedRows
<1>4. CASE AnswerEscalation
  <2>1. Shape' /\ outbox' = outbox
    BY <1>0, <1>4, AnswerEscalationFacts DEF AnswerEscalation
  <2>2. \A v \in Workers : /\ wk'[v].pc = wk[v].pc /\ wk'[v].step = wk[v].step
                           /\ wk'[v].try = wk[v].try /\ wk'[v].todo = wk[v].todo
    BY <1>0, <1>4, AnswerEscalationFacts DEF Stale
  <2>3. \A v \in Workers : \A k \in 1 .. Len(wk'[v].todo) : outbox[wk'[v].todo[k]].attempts # 0
    BY <1>0, <2>2 DEF ListedRows
  <2> QED
    BY <2>1, <2>2, <2>3, BaseKept
<1>5. CASE UNCHANGED vars
  BY <1>0, <1>5 DEF vars, Base, Shape, Tries, ListedRows
<1> QED
  BY <1>1, <1>2, <1>3, <1>4, <1>5 DEF Next

\* Base holds of every run.
LEMMA BaseInvariant == Spec => []Base
BY InitBase, NextBase, PTL DEF Spec
-----------------------------------------------------------------------------
(***************************************************************************)
(* Providers that honour keys.                                             *)
(***************************************************************************)

\* The state is of the declared types.
THEOREM EffectsTypeCorrect == Spec => []TypeOK
<1>1. Base => TypeOK
  <2> SUFFICES ASSUME Base PROVE TypeOK
    OBVIOUS
  <2>1. Shape
    BY DEF Base
  <2>2. \A s \in Steps : provider[s].done \in Nat /\ provider[s].undo \in Undos
    BY <2>1, ProviderFields DEF Shape
  <2>3. \A w \in Workers : /\ wk[w].pc \in Pcs /\ wk[w].step \in 0 .. N
                           /\ wk[w].eff \in {"none", "dedup", "executed"}
                           /\ wk[w].out \in {"ok", "retryable", "fatal"}
    BY <2>1, DriveFields DEF Shape
  <2>4. /\ inst.status \in {"running", "waiting_approval", "rolled_back", "failed", "completed"}
        /\ inst.st \in [Steps -> {"ready", "running", "retry", "failed", "completed"}]
        /\ inst.att \in [Steps -> Nat] /\ inst.human \in BOOLEAN
        /\ inst.refs \in [Steps -> {"none", "executed", "compensated"}]
    BY <2>1 DEF Shape, Instances
  <2>5. /\ outbox \in [Steps -> Rows \cup {NoRow}]
        /\ holder \in Workers \cup {NoWorker} /\ blind \subseteq Steps /\ stray \subseteq Steps
        /\ faults \in 0 .. MaxFaults
    BY <2>1 DEF Shape
  <2> QED
    BY <2>2, <2>3, <2>4, <2>5 DEF TypeOK, Pcs, Undos
<1> QED
  BY <1>1, BaseInvariant, PTL

\* Only a request that lands counts, and only with a key that is new.
LEMMA NextKeyInv == Base /\ KeyInv /\ [Next]_vars => KeyInv'
<1> SUFFICES ASSUME Base, KeyInv, [Next]_vars PROVE KeyInv'
  OBVIOUS
<1>0. Shape
  BY DEF Base
<1>1. Keyed \subseteq Steps
  BY EffectsAssumption, Zenon
<1>2. ASSUME NEW w \in Workers, Drive(w) PROVE KeyInv'
  <2>1. CASE Send(w)
    <3>1. net' = net \cup {Request(w)} /\ Request(w).key = Request(w).step /\ provider' = provider
      BY <1>0, <2>1, SendFacts
    <3> QED
      BY <3>1 DEF KeyInv
  <2>2. CASE Answer(w) \/ ExecuteFails(w)
    <3>1. net' \in {net, net \ {Request(w)}} /\ provider' = provider
      BY <1>0, <2>2, AnswerFacts
    <3> QED
      BY <3>1 DEF KeyInv
  <2>3. CASE Compensate(w) \/ CompensateNotOk(w) \/ CompensateFails(w)
    <3>1. /\ net' = net
          /\ \A s \in Steps : /\ provider'[s].done = provider[s].done
                              /\ provider'[s].seen = provider[s].seen
      BY <1>0, <2>3, CompensateFacts
    <3> QED
      BY <1>1, <3>1 DEF KeyInv
  <2>4. CASE UNCHANGED <<net, provider>>
    BY <2>4 DEF KeyInv
  <2> QED
    BY <1>2, <2>1, <2>2, <2>3, <2>4
       DEF Drive, Claim, Dispatch, Complete, LoseRace, Crash, ClaimRow, Reconcile, ReconcileFails,
           Mark, Timeout, RunnerFails, Report, StartRollback, MarkCompensated, RecordRollback,
           EscalateCompensation
<1>3. ASSUME NEW r \in net, Land(r) PROVE KeyInv'
  <2>1. /\ r.step \in Steps /\ net' = net \ {r}
        /\ provider'[r.step].done =
             IF r.step \in Keyed /\ r.key \in provider[r.step].seen
             THEN provider[r.step].done ELSE provider[r.step].done + 1
        /\ provider'[r.step].seen = provider[r.step].seen \cup {r.key}
        /\ \A t \in Steps \ {r.step} : provider'[t] = provider[t]
    BY <1>0, <1>3, LandFacts
  <2>2. r.key = r.step
    BY DEF KeyInv
  <2>3. \A s \in Steps : provider[s].done \in Nat
    BY <1>0, ProviderFields DEF Shape
  <2>4. ASSUME NEW s \in Keyed
        PROVE  /\ provider'[s].done <= 1
               /\ s \notin provider'[s].seen => provider'[s].done = 0
    <3>1. CASE s = r.step
      BY <2>1, <2>2, <2>3, <3>1, <1>1 DEF KeyInv
    <3>2. CASE s # r.step
      BY <2>1, <3>2, <1>1 DEF KeyInv
    <3> QED
      BY <3>1, <3>2
  <2> QED
    BY <2>1, <2>4 DEF KeyInv
<1>4. CASE LeaseLapses \/ AnswerEscalation \/ UNCHANGED vars
  BY <1>4 DEF LeaseLapses, AnswerEscalation, vars, KeyInv
<1> QED
  BY <1>2, <1>3, <1>4 DEF Next

\* ADR-0003, "exactly_once", for any number of workers, retries, crashes and
\* lapses: the provider sees one key per effect, so it does the effect once.
THEOREM KeyedOnceCorrect == Spec => []KeyedOnce
<1>1. Init => KeyInv
  <2> SUFFICES ASSUME Init PROVE KeyInv
    OBVIOUS
  <2>1. net = {} /\ \A s \in Keyed : provider[s].done = 0
    BY EffectsAssumption DEF Init
  <2> QED
    BY <2>1 DEF KeyInv
<1>2. KeyInv => KeyedOnce
  BY DEF KeyInv, KeyedOnce
<1> QED
  BY <1>1, <1>2, BaseInvariant, NextKeyInv, PTL DEF Spec
-----------------------------------------------------------------------------
(***************************************************************************)
(* What is recorded.                                                       *)
(***************************************************************************)

\* Nobody forgets what the others have done: TruthInv of the workers that do not
\* move, when nothing that has happened is taken back.
LEMMA TruthOfOthers ==
  ASSUME Shape, TruthInv, NEW w \in Workers, Others(w),
         \A s \in Steps : provider[s].done > 0 => provider'[s].done > 0,
         \A v \in Workers \ {w} : wk[v].pc = "sent" /\ Request(v) \in net =>
           Request(v) \in net' \/ provider'[wk[v].step].done > 0
  PROVE  \A v \in Workers \ {w} :
           /\ wk'[v].pc = "sent" => Request(v)' \in net' \/ provider'[wk'[v].step].done > 0
           /\ wk'[v].pc = "mark" /\ wk'[v].out = "ok" => provider'[wk'[v].step].done > 0
           /\ wk'[v].eff # "none" => wk'[v].pc = "report" /\ provider'[wk'[v].step].done > 0
           /\ \A k \in 1 .. Len(wk'[v].todo) : provider'[wk'[v].todo[k]].done > 0
<1> SUFFICES ASSUME NEW v \in Workers \ {w}
             PROVE  /\ wk'[v].pc = "sent" => Request(v)' \in net' \/ provider'[wk'[v].step].done > 0
                    /\ wk'[v].pc = "mark" /\ wk'[v].out = "ok" => provider'[wk'[v].step].done > 0
                    /\ wk'[v].eff # "none" => wk'[v].pc = "report" /\ provider'[wk'[v].step].done > 0
                    /\ \A k \in 1 .. Len(wk'[v].todo) : provider'[wk'[v].todo[k]].done > 0
  OBVIOUS
<1>1. /\ wk'[v].pc = wk[v].pc /\ wk'[v].step = wk[v].step /\ wk'[v].try = wk[v].try
      /\ wk'[v].eff = wk[v].eff /\ wk'[v].out = wk[v].out /\ wk'[v].todo = wk[v].todo
  BY DEF Others
<1>2. Request(v)' = Request(v)
  BY <1>1 DEF Request, IdempotencyKey
<1>3. wk[v].pc \in Attempting => wk[v].step \in Steps
  BY DEF Shape
<1>4. \A k \in 1 .. Len(wk[v].todo) : wk[v].todo[k] \in Steps
  <2>1. wk[v].todo \in Seq(Steps)
    BY DriveFields DEF Shape
  <2> QED
    BY <2>1
<1>5. wk[v].pc = "sent" => Request(v) \in net' \/ provider'[wk[v].step].done > 0
  BY <1>3 DEF TruthInv, Attempting
<1>6. wk[v].pc = "mark" /\ wk[v].out = "ok" => provider'[wk[v].step].done > 0
  BY <1>3 DEF TruthInv, Attempting
<1>7. wk[v].eff # "none" => wk[v].pc = "report" /\ provider'[wk[v].step].done > 0
  BY <1>3 DEF TruthInv, Attempting
<1>8. \A k \in 1 .. Len(wk[v].todo) : provider'[wk[v].todo[k]].done > 0
  BY <1>4 DEF TruthInv
<1> QED
  BY <1>1, <1>2, <1>5, <1>6, <1>7, <1>8

\* The record of what the worker that moves knows, and the rest of TruthInv.
TruthOf(w) ==
  /\ wk'[w].pc = "sent" => Request(w)' \in net' \/ provider'[wk'[w].step].done > 0
  /\ wk'[w].pc = "mark" /\ wk'[w].out = "ok" => provider'[wk'[w].step].done > 0
  /\ wk'[w].eff # "none" => wk'[w].pc = "report" /\ provider'[wk'[w].step].done > 0
  /\ \A k \in 1 .. Len(wk'[w].todo) : provider'[wk'[w].todo[k]].done > 0

\* A step that leaves the providers alone.
LEMMA TruthKept ==
  ASSUME Shape, TruthInv, NEW w \in Workers, Others(w), TruthOf(w), provider' = provider,
         \A v \in Workers \ {w} : wk[v].pc = "sent" /\ Request(v) \in net => Request(v) \in net',
         RecordIsTrue'
  PROVE  TruthInv'
<1>1. \A v \in Workers \ {w} :
           /\ wk'[v].pc = "sent" => Request(v)' \in net' \/ provider'[wk'[v].step].done > 0
           /\ wk'[v].pc = "mark" /\ wk'[v].out = "ok" => provider'[wk'[v].step].done > 0
           /\ wk'[v].eff # "none" => wk'[v].pc = "report" /\ provider'[wk'[v].step].done > 0
           /\ \A k \in 1 .. Len(wk'[v].todo) : provider'[wk'[v].todo[k]].done > 0
  BY TruthOfOthers
<1>2. \A s \in Steps : provider'[s].seen # {} => provider'[s].done > 0
  BY DEF TruthInv
<1> QED
  BY <1>1, <1>2 DEF TruthInv, TruthOf

\* The log and the outbox when the rows stay as they are.
LEMMA RecordKept ==
  ASSUME RecordIsTrue, inst' = inst,
         \A s \in Steps : outbox'[s].status \in {"executed", "compensated"} =>
           outbox[s].status \in {"executed", "compensated"} \/ provider'[s].done > 0,
         \A s \in Steps : provider[s].done > 0 => provider'[s].done > 0
  PROVE  RecordIsTrue'
BY DEF RecordIsTrue

\* A worker that goes on with the list it had and without an effect to report.
LEMMA TruthWithout ==
  ASSUME Shape, TruthInv, NEW w \in Workers, wk'[w].todo = wk[w].todo, provider' = provider,
         wk'[w].eff = "none", wk'[w].pc # "sent",
         wk'[w].pc = "mark" /\ wk'[w].out = "ok" => provider[wk'[w].step].done > 0
  PROVE  TruthOf(w)
BY DEF TruthOf, TruthInv

\* Starting over: the log learns what the report says.
LEMMA StartOverTruth ==
  ASSUME Shape, TruthInv, NEW w \in Workers, StartOver(w)
  PROVE  TruthInv'
<1>1. /\ Others(w) /\ UNCHANGED <<outbox, provider, net>>
      /\ wk'[w].pc \in {"idle", "plan", "claim"} /\ wk'[w].eff = "none" /\ wk'[w].todo = <<>>
  BY DEF StartOver, FromScratch
<1>2. RecordIsTrue'
  <2> SUFFICES ASSUME NEW s \in Steps,
                      inst'.refs[s] # "none" \/ outbox[s].status \in {"executed", "compensated"}
               PROVE  provider[s].done > 0
    BY <1>1 DEF RecordIsTrue
  <2>1. \/ inst.refs[s] # "none" \/ outbox[s].status \in {"executed", "compensated"}
        \/ s = wk[w].step /\ wk[w].eff # "none"
    BY DEF StartOver
  <2> QED
    BY <2>1 DEF TruthInv, RecordIsTrue
<1>3. TruthOf(w)
  BY <1>1 DEF TruthOf
<1> QED
  BY <1>1, <1>2, <1>3, TruthKept

\* A request that lands has happened.
LEMMA LandTruth ==
  ASSUME Shape, TruthInv, NEW r \in net, Land(r)
  PROVE  TruthInv'
<1>1. /\ r.step \in Steps /\ net' = net \ {r}
      /\ provider'[r.step].done =
           IF r.step \in Keyed /\ r.key \in provider[r.step].seen
           THEN provider[r.step].done ELSE provider[r.step].done + 1
      /\ \A t \in Steps \ {r.step} : provider'[t] = provider[t]
      /\ UNCHANGED <<inst, outbox, wk>>
  BY LandFacts
<1>2. \A s \in Steps : provider[s].done \in Nat /\ provider[s].seen \in SUBSET Steps
  BY ProviderFields DEF Shape
<1>3. provider'[r.step].done > 0
  <2>1. CASE r.step \in Keyed /\ r.key \in provider[r.step].seen
    BY <1>1, <1>2, <2>1 DEF TruthInv
  <2>2. CASE ~(r.step \in Keyed /\ r.key \in provider[r.step].seen)
    BY <1>1, <1>2, <2>2
  <2> QED
    BY <2>1, <2>2
<1>4. \A s \in Steps : provider[s].done > 0 => provider'[s].done > 0
  BY <1>1, <1>3
<1>5. \A s \in Steps : provider'[s].seen # {} => provider'[s].done > 0
  BY <1>1, <1>3 DEF TruthInv
<1>6. \A v \in Workers : Request(v)' = Request(v) /\ Request(v).step = wk[v].step
  BY <1>1 DEF Request, IdempotencyKey
<1>7. \A v \in Workers : wk[v].pc \in Attempting => wk[v].step \in Steps
  BY DEF Shape
<1>8. \A v \in Workers : wk[v].pc = "sent" => Request(v) \in net' \/ provider'[wk[v].step].done > 0
  BY <1>1, <1>3, <1>4, <1>6, <1>7 DEF TruthInv, Attempting
<1>9. \A v \in Workers : \A k \in 1 .. Len(wk[v].todo) : wk[v].todo[k] \in Steps
  <2>1. \A v \in Workers : wk[v].todo \in Seq(Steps)
    BY DriveFields DEF Shape
  <2> QED
    BY <2>1
<1>10. \A v \in Workers : \A k \in 1 .. Len(wk[v].todo) : provider'[wk[v].todo[k]].done > 0
  BY <1>4, <1>9 DEF TruthInv
<1>11. RecordIsTrue'
  BY <1>1, <1>4, RecordKept DEF TruthInv
<1>12. /\ \A v \in Workers : wk[v].pc = "mark" /\ wk[v].out = "ok" => provider'[wk[v].step].done > 0
       /\ \A v \in Workers : wk[v].eff # "none" =>
            wk[v].pc = "report" /\ provider'[wk[v].step].done > 0
  BY <1>4, <1>7 DEF TruthInv, Attempting
<1> QED
  BY <1>1, <1>5, <1>6, <1>8, <1>10, <1>11, <1>12 DEF TruthInv

\* Every step keeps TruthInv.
LEMMA NextTruth == Base /\ TruthInv /\ [Next]_vars => TruthInv'
<1> SUFFICES ASSUME Base, TruthInv, [Next]_vars PROVE TruthInv'
  OBVIOUS
<1>0. Shape /\ RecordIsTrue
  BY DEF Base, TruthInv
<1>1. ASSUME NEW w \in Workers, Drive(w) PROVE TruthInv'
  <2>0. wk[w].pc # "report" => wk[w].eff = "none"
    BY DEF TruthInv
  <2>1. CASE \/ Claim(w) \/ LoseRace(w) \/ Crash(w) \/ Dispatch(w) \/ Complete(w)
             \/ RecordRollback(w) \/ EscalateCompensation(w) \/ Report(w)
    <3>1. StartOver(w)
      BY <1>0, <2>1, ClaimFacts, QuitFacts, DispatchFacts, EndFacts, ReportFacts
    <3> QED
      BY <1>0, <3>1, StartOverTruth
  <2>2. CASE ClaimRow(w)
    <3>1. PICK s : s = wk[w].step
      OBVIOUS
    <3>2. /\ GoesOn(w) /\ s \in Steps
          /\ wk'[w].pc \in {"report", "reconcile", "execute"}
          /\ wk'[w].eff # "none" => wk'[w].pc = "report" /\ outbox[s].status = "executed"
          /\ outbox'[s].status = IF outbox[s].status = "absent" THEN "pending" ELSE outbox[s].status
          /\ \A t \in Steps \ {s} : outbox'[t] = outbox[t]
          /\ UNCHANGED <<inst, provider, net>>
      BY <1>0, <2>2, <3>1, ClaimRowFacts
    <3>3. wk'[w].todo = wk[w].todo /\ wk'[w].step = s /\ Others(w)
      BY <3>1, <3>2 DEF GoesOn, SameTask
    <3>4. TruthOf(w)
      BY <1>0, <3>2, <3>3 DEF TruthOf, TruthInv, RecordIsTrue
    <3>5. RecordIsTrue'
      BY <1>0, <3>2, RecordKept
    <3> QED
      BY <1>0, <3>2, <3>3, <3>4, <3>5, TruthKept
  <2>3. CASE Reconcile(w) \/ ReconcileFails(w)
    <3>1. /\ GoesOn(w) /\ wk[w].pc = "reconcile" /\ wk'[w].eff = wk[w].eff
          /\ wk'[w].pc \in {"mark", "execute"}
          /\ wk'[w].pc = "mark" /\ wk'[w].out = "ok" => provider[wk[w].step].done > 0
          /\ UNCHANGED <<inst, outbox, provider, net>>
      BY <1>0, <2>3, ReconcileFacts
    <3>2. wk'[w].todo = wk[w].todo /\ wk'[w].step = wk[w].step /\ Others(w)
      BY <3>1 DEF GoesOn, SameTask
    <3>3. TruthOf(w)
      BY <1>0, <2>0, <3>1, <3>2, TruthWithout
    <3>4. RecordIsTrue'
      BY <1>0, <3>1, RecordKept
    <3> QED
      BY <1>0, <3>1, <3>2, <3>3, <3>4, TruthKept
  <2>4. CASE Send(w)
    <3>1. /\ GoesOn(w) /\ wk[w].pc = "execute" /\ wk'[w].eff = wk[w].eff
          /\ wk'[w].pc = "sent" /\ Request(w)' = Request(w) /\ net' = net \cup {Request(w)}
          /\ UNCHANGED <<inst, outbox, provider>>
      BY <1>0, <2>4, SendFacts
    <3>2. wk'[w].todo = wk[w].todo /\ Others(w)
      BY <3>1 DEF GoesOn, SameTask
    <3>3. TruthOf(w)
      BY <2>0, <3>1, <3>2 DEF TruthOf, TruthInv
    <3>4. RecordIsTrue'
      BY <1>0, <3>1, RecordKept
    <3> QED
      BY <1>0, <3>1, <3>2, <3>3, <3>4, TruthKept
  <2>5. CASE Answer(w) \/ ExecuteFails(w)
    <3>1. /\ GoesOn(w) /\ wk[w].pc = "sent" /\ wk'[w].eff = wk[w].eff /\ wk[w].step \in Steps
          /\ wk'[w].pc = "mark" /\ (wk'[w].out = "ok" => Request(w) \notin net)
          /\ net' \in {net, net \ {Request(w)}}
          /\ UNCHANGED <<inst, outbox, provider>>
      BY <1>0, <2>5, AnswerFacts
    <3>2. wk'[w].todo = wk[w].todo /\ wk'[w].step = wk[w].step /\ Others(w)
      BY <3>1 DEF GoesOn, SameTask
    <3>3. wk'[w].out = "ok" => provider[wk[w].step].done > 0
      BY <3>1 DEF TruthInv
    <3>4. TruthOf(w)
      BY <1>0, <2>0, <3>1, <3>2, <3>3, TruthWithout
    <3>5. ASSUME NEW v \in Workers \ {w}, wk[v].pc = "sent" PROVE Request(v) # Request(w)
      <4>1. /\ Request(v).step = wk[v].step /\ Request(v).try = wk[v].try
            /\ Request(w).step = wk[w].step /\ Request(w).try = wk[w].try
        BY DEF Request
      <4>2. wk[v].try > 0 /\ wk[v].try \in Nat
        BY <3>5, DriveFields DEF Base, Tries, Shape
      <4>3. wk[v].step = wk[w].step /\ wk[v].try = wk[w].try => wk[v].try = 0
        BY DEF Base, Tries
      <4> QED
        BY <4>1, <4>2, <4>3
    <3>6. \A v \in Workers \ {w} : wk[v].pc = "sent" /\ Request(v) \in net => Request(v) \in net'
      BY <3>1, <3>5
    <3>7. RecordIsTrue'
      BY <1>0, <3>1, RecordKept
    <3> QED
      BY <1>0, <3>1, <3>2, <3>4, <3>6, <3>7, TruthKept
  <2>6. CASE Mark(w) \/ Timeout(w) \/ RunnerFails(w)
    <3>1. wk[w].pc = "mark" => outbox[wk[w].step].attempts # 0
      BY MarksClaimed
    <3>2. PICK s : s = wk[w].step
      OBVIOUS
    <3>3. /\ GoesOn(w) /\ s \in Steps /\ wk'[w].pc = "report"
          /\ \/ /\ UNCHANGED <<outbox, stray>> /\ wk'[w].eff = wk[w].eff
             \/ /\ wk[w].pc = "mark" /\ Written(w, s, MarkedStatus(w))
                /\ wk'[w].eff # "none" => wk[w].out = "ok" \/ wk[w].eff # "none"
          /\ UNCHANGED <<inst, provider, net, holder, blind>>
      BY <1>0, <2>6, <3>1, <3>2, MarkFacts
    <3>4. wk'[w].todo = wk[w].todo /\ wk'[w].step = s /\ Others(w)
      BY <3>2, <3>3 DEF GoesOn, SameTask
    <3>5. /\ wk[w].pc = "mark" /\ wk[w].out = "ok" => provider[s].done > 0
          /\ wk[w].eff # "none" => provider[s].done > 0
      BY <3>2 DEF TruthInv
    <3>6. TruthOf(w)
      BY <3>3, <3>4, <3>5 DEF TruthOf, TruthInv
    <3>7. \A t \in Steps : outbox'[t].status \in {"executed", "compensated"} =>
            outbox[t].status \in {"executed", "compensated"} \/ provider'[t].done > 0
      BY <3>3, <3>5 DEF Written, MarkedStatus
    <3>8. RecordIsTrue'
      BY <1>0, <3>3, <3>7, RecordKept
    <3> QED
      BY <1>0, <3>3, <3>4, <3>6, <3>8, TruthKept
  <2>7. CASE StartRollback(w)
    <3>1. /\ Others(w) /\ wk[w].pc = "plan" /\ wk'[w].pc = "undo" /\ wk'[w].eff = wk[w].eff
          /\ \A k \in 1 .. Len(wk'[w].todo) : outbox[wk'[w].todo[k]].status = "executed"
          /\ wk'[w].todo \in Seq(Steps)
          /\ UNCHANGED <<inst, outbox, provider, net>>
      BY <1>0, <2>7, StartRollbackFacts
    <3>2. \A k \in 1 .. Len(wk'[w].todo) : wk'[w].todo[k] \in Steps
      BY <3>1
    <3>3. \A k \in 1 .. Len(wk'[w].todo) : provider[wk'[w].todo[k]].done > 0
      BY <1>0, <3>1, <3>2 DEF RecordIsTrue
    <3>4. TruthOf(w)
      BY <2>0, <3>1, <3>3 DEF TruthOf
    <3>5. RecordIsTrue'
      BY <1>0, <3>1, RecordKept
    <3> QED
      BY <1>0, <3>1, <3>4, <3>5, TruthKept
  <2>8. CASE Compensate(w) \/ CompensateNotOk(w) \/ CompensateFails(w)
    <3>1. /\ GoesOn(w) /\ wk[w].pc = "undo" /\ wk'[w].pc \in {"undone", "escalate"}
          /\ wk'[w].eff = wk[w].eff
          /\ \A s \in Steps : /\ provider'[s].done = provider[s].done
                              /\ provider'[s].seen = provider[s].seen
          /\ UNCHANGED <<inst, outbox, net>>
      BY <1>0, <2>8, CompensateFacts
    <3>2. wk'[w].todo = wk[w].todo /\ Others(w)
      BY <3>1 DEF GoesOn, SameTask
    <3>3. \A k \in 1 .. Len(wk[w].todo) : wk[w].todo[k] \in Steps
      <4>1. wk[w].todo \in Seq(Steps)
        BY <1>0, DriveFields DEF Shape
      <4> QED
        BY <4>1
    <3>4. TruthOf(w)
      BY <2>0, <3>1, <3>2, <3>3 DEF TruthOf, TruthInv
    <3>5. RecordIsTrue'
      BY <1>0, <3>1, RecordKept
    <3>6. \A v \in Workers \ {w} :
           /\ wk'[v].pc = "sent" => Request(v)' \in net' \/ provider'[wk'[v].step].done > 0
           /\ wk'[v].pc = "mark" /\ wk'[v].out = "ok" => provider'[wk'[v].step].done > 0
           /\ wk'[v].eff # "none" => wk'[v].pc = "report" /\ provider'[wk'[v].step].done > 0
           /\ \A k \in 1 .. Len(wk'[v].todo) : provider'[wk'[v].todo[k]].done > 0
      BY <1>0, <3>1, <3>2, TruthOfOthers
    <3>7. \A s \in Steps : provider'[s].seen # {} => provider'[s].done > 0
      BY <3>1 DEF TruthInv
    <3> QED
      BY <3>4, <3>5, <3>6, <3>7 DEF TruthInv, TruthOf
  <2>9. CASE MarkCompensated(w)
    <3>1. PICK s \in Steps :
            /\ Others(w) /\ wk[w].pc = "undone" /\ s = Head(wk[w].todo)
            /\ wk'[w].pc = "undo" /\ wk'[w].eff = wk[w].eff
            /\ Written(w, s, "compensated")
            /\ \A k \in 1 .. Len(wk'[w].todo) :
                 k + 1 \in 1 .. Len(wk[w].todo) /\ wk'[w].todo[k] = wk[w].todo[k + 1]
            /\ UNCHANGED <<inst, provider, net>>
      BY <2>9, MarkCompensatedFacts
    <3>2. s = wk[w].todo[1] /\ 1 \in 1 .. Len(wk[w].todo)
      <4>1. wk[w].todo \in Seq(Steps) /\ wk[w].todo # <<>>
        BY <1>0, <3>1, DriveFields DEF Shape
      <4> QED
        BY <3>1, <4>1
    <3>3. provider[s].done > 0
      BY <3>2 DEF TruthInv
    <3>4. TruthOf(w)
      BY <2>0, <3>1 DEF TruthOf, TruthInv
    <3>5. \A t \in Steps : outbox'[t].status \in {"executed", "compensated"} =>
            outbox[t].status \in {"executed", "compensated"} \/ provider'[t].done > 0
      BY <3>1, <3>3 DEF Written
    <3>6. RecordIsTrue'
      BY <1>0, <3>1, <3>5, RecordKept
    <3> QED
      BY <1>0, <3>1, <3>4, <3>6, TruthKept
  <2> QED
    BY <1>1, <2>1, <2>2, <2>3, <2>4, <2>5, <2>6, <2>7, <2>8, <2>9 DEF Drive
<1>2. ASSUME NEW r \in net, Land(r) PROVE TruthInv'
  BY <1>0, <1>2, LandTruth
<1>3. CASE LeaseLapses \/ UNCHANGED vars
  <2>1. UNCHANGED <<inst, outbox, provider, net, wk>>
    BY <1>3 DEF LeaseLapses, vars
  <2> QED
    BY <2>1 DEF TruthInv, RecordIsTrue, Request, IdempotencyKey
<1>4. CASE AnswerEscalation
  <2>1. /\ inst'.refs = inst.refs /\ UNCHANGED <<outbox, provider, net>>
        /\ \A v \in Workers : /\ wk'[v].pc = wk[v].pc /\ wk'[v].step = wk[v].step
                              /\ wk'[v].try = wk[v].try /\ wk'[v].todo = wk[v].todo
                              /\ wk'[v].eff = wk[v].eff /\ wk'[v].out = wk[v].out
    BY <1>0, <1>4, AnswerEscalationFacts DEF AnswerEscalation, Stale
  <2>2. \A v \in Workers : Request(v)' = Request(v)
    BY <2>1 DEF Request, IdempotencyKey
  <2>3. RecordIsTrue'
    BY <1>0, <2>1 DEF RecordIsTrue
  <2> QED
    BY <2>1, <2>2, <2>3 DEF TruthInv
<1> QED
  BY <1>1, <1>2, <1>3, <1>4 DEF Next

\* What the log or the outbox calls executed has happened: an attempt that timed
\* out, crashed or failed is never credited with an effect that is not there.
THEOREM RecordCorrect == Spec => []RecordIsTrue
<1>1. Init => TruthInv
  <2> SUFFICES ASSUME Init PROVE TruthInv
    OBVIOUS
  <2>1. \A w \in Workers : /\ wk[w].pc = "idle" /\ wk[w].eff = "none" /\ wk[w].todo = <<>>
    BY DriveFacts DEF Init
  <2>2. \A s \in Steps : /\ provider[s].seen = {} /\ inst.refs[s] = "none"
                         /\ outbox[s].status = "absent"
    BY DEF Init, NoRow
  <2> QED
    BY <2>1, <2>2 DEF TruthInv, RecordIsTrue
<1>2. TruthInv => RecordIsTrue
  BY DEF TruthInv
<1> QED
  BY <1>1, <1>2, BaseInvariant, NextTruth, PTL DEF Spec
-----------------------------------------------------------------------------
(***************************************************************************)
(* Providers that can be asked.                                            *)
(***************************************************************************)

\* A step that neither requests nor lands anything, and after which nobody is
\* newly about to.
LEMMA OnceKept ==
  ASSUME OnceInv, net' \subseteq net, blind \subseteq blind',
         \A s \in Steps : outbox'[s].attempts = 0 => outbox[s].attempts = 0,
         \A s \in Steps : provider'[s].done = provider[s].done,
         \A v \in Workers : wk'[v].pc = "execute" /\ wk'[v].sure =>
           /\ wk[v].pc = "execute" /\ wk[v].sure /\ wk'[v].step = wk[v].step
  PROVE  OnceInv'
<1>0. Reconciled \subseteq Steps
  BY EffectsAssumption
<1>1. \A s : NoneOnTheWay(s) => NoneOnTheWay(s)'
  BY DEF NoneOnTheWay
<1>2. \A s \in Steps : outbox'[s].attempts = 0 => provider'[s].done = 0 /\ NoneOnTheWay(s)'
  BY <1>1 DEF OnceInv
<1>3. \A s \in (Reconciled \ Keyed) \ blind' :
        /\ provider'[s].done <= 1
        /\ provider'[s].done = 1 => NoneOnTheWay(s)'
        /\ \A r, q \in net' : r.step = s /\ q.step = s => r = q
  BY <1>0, <1>1 DEF OnceInv
<1>4. \A v \in Workers :
        wk'[v].pc = "execute" /\ wk'[v].sure /\ wk'[v].step \in (Reconciled \ Keyed) \ blind' =>
          provider'[wk'[v].step].done = 0 /\ \A r \in net' : r.step # wk'[v].step
  BY <1>0, <1>1 DEF OnceInv, NoneOnTheWay
<1> QED
  BY <1>2, <1>3, <1>4 DEF OnceInv, NoneOnTheWay

\* When a worker comes to request an effect whose provider can be asked, it is
\* the first one or it has asked: nothing has happened and nothing is under way.
LEMMA OnceAbout ==
  ASSUME Shape, OnceInv, NEW w \in Workers, ClaimRow(w) \/ Reconcile(w) \/ ReconcileFails(w)
  PROVE  OnceInv'
<1>0. Reconciled \subseteq Steps
  BY EffectsAssumption
<1>1. PICK s : s = wk[w].step
  OBVIOUS
<1>2. /\ GoesOn(w) /\ s \in Steps /\ UNCHANGED <<provider, net, blind>>
      /\ \A t \in Steps : outbox'[t].attempts = 0 => outbox[t].attempts = 0
      /\ wk'[w].pc = "execute" /\ wk'[w].sure /\ s \in Reconciled \ Keyed =>
           provider[s].done = 0 /\ NoneOnTheWay(s)
  <2>1. CASE ClaimRow(w)
    <3>1. /\ GoesOn(w) /\ s \in Steps /\ UNCHANGED <<provider, net, blind>>
          /\ wk'[w].pc = "execute" /\ s \notin Keyed => outbox[s].attempts = 0
          /\ outbox'[s].attempts = outbox[s].attempts + 1
          /\ \A t \in Steps \ {s} : outbox'[t] = outbox[t]
      BY <1>1, <2>1, ClaimRowFacts
    <3>2. outbox[s].attempts \in Nat
      BY <3>1, RowCounts
    <3>3. \A t \in Steps : outbox'[t].attempts = 0 => outbox[t].attempts = 0
      BY <3>1, <3>2
    <3>4. wk'[w].pc = "execute" /\ s \notin Keyed => provider[s].done = 0 /\ NoneOnTheWay(s)
      BY <3>1 DEF OnceInv
    <3> QED
      BY <3>1, <3>3, <3>4
  <2>2. CASE Reconcile(w) \/ ReconcileFails(w)
    <3>1. /\ GoesOn(w) /\ s \in Steps /\ UNCHANGED <<outbox, provider, net, blind>>
          /\ wk'[w].pc = "execute" /\ wk'[w].sure =>
              ~Overlapped(w) /\ (s \in Reconciled => ~(provider[s].done > 0))
      BY <1>1, <2>2, ReconcileFacts
    <3>2. provider[s].done \in Nat
      BY <3>1, ProviderFields DEF Shape
    <3>3. ~Overlapped(w) => NoneOnTheWay(s)
      BY <1>1 DEF Overlapped, NoneOnTheWay
    <3> QED
      BY <3>1, <3>2, <3>3
  <2> QED
    BY <2>1, <2>2
<1>3. \A v \in Workers \ {w} : wk'[v] = wk[v]
  BY <1>2 DEF GoesOn
<1>4. wk'[w].step = s
  BY <1>1, <1>2 DEF GoesOn, SameTask
<1>5. \A t : NoneOnTheWay(t)' <=> NoneOnTheWay(t)
  BY <1>2 DEF NoneOnTheWay
<1>6. \A v \in Workers :
        wk'[v].pc = "execute" /\ wk'[v].sure /\ wk'[v].step \in (Reconciled \ Keyed) \ blind =>
          provider[wk'[v].step].done = 0 /\ NoneOnTheWay(wk'[v].step)
  BY <1>2, <1>3, <1>4 DEF OnceInv
<1>7. /\ \A t \in Steps : outbox'[t].attempts = 0 => provider[t].done = 0 /\ NoneOnTheWay(t)
      /\ \A t \in (Reconciled \ Keyed) \ blind :
           /\ provider[t].done <= 1
           /\ provider[t].done = 1 => NoneOnTheWay(t)
           /\ \A r, q \in net : r.step = t /\ q.step = t => r = q
  BY <1>2 DEF OnceInv
<1> QED
  BY <1>2, <1>6, <1>7 DEF OnceInv, NoneOnTheWay

\* A request that is not blind is the only one.
LEMMA OnceSend ==
  ASSUME Base, OnceInv, NEW w \in Workers, Send(w)
  PROVE  OnceInv'
<1>0. Shape /\ Reconciled \subseteq Steps
  BY EffectsAssumption DEF Base
<1>1. PICK s \in Steps : s = wk[w].step
  BY <1>0, SendFacts
<1>2. PICK q \in Requests : q = Request(w)
  BY <1>0, SendFacts
<1>3. /\ GoesOn(w) /\ wk[w].pc = "execute" /\ wk'[w].pc = "sent" /\ q.step = s
      /\ net' = net \cup {q} /\ UNCHANGED <<outbox, provider>>
      /\ blind' = IF ~wk[w].sure \/ Overlapped(w) THEN blind \cup {s} ELSE blind
  BY <1>0, <1>1, <1>2, SendFacts
<1>4. outbox[s].attempts # 0
  BY <1>1, <1>3, MarksClaimed
<1>5. \A t \in Steps \ {s} : NoneOnTheWay(t) => NoneOnTheWay(t)'
  BY <1>3 DEF NoneOnTheWay
<1>6. \A t \in Steps : outbox'[t].attempts = 0 => provider'[t].done = 0 /\ NoneOnTheWay(t)'
  BY <1>3, <1>4, <1>5 DEF OnceInv
<1>7. ASSUME s \in (Reconciled \ Keyed) \ blind'
      PROVE  /\ provider[s].done = 0 /\ NoneOnTheWay(s)
             /\ \A v \in Workers : wk'[v].pc = "execute" => wk'[v].step # s
  <2>1. wk[w].sure /\ ~Overlapped(w) /\ s \notin blind
    BY <1>3, <1>7
  <2>2. provider[s].done = 0 /\ NoneOnTheWay(s)
    BY <1>1, <1>3, <1>7, <2>1 DEF OnceInv
  <2>3. \A v \in Workers : wk'[v].pc = "execute" => wk'[v].step # s
    BY <1>1, <1>3, <2>1 DEF Overlapped, GoesOn
  <2> QED
    BY <2>2, <2>3
<1>8. \A t \in (Reconciled \ Keyed) \ blind' :
        /\ provider'[t].done <= 1
        /\ provider'[t].done = 1 => NoneOnTheWay(t)'
        /\ \A r, p \in net' : r.step = t /\ p.step = t => r = p
  <2> SUFFICES ASSUME NEW t \in (Reconciled \ Keyed) \ blind'
               PROVE  /\ provider'[t].done <= 1
                      /\ provider'[t].done = 1 => NoneOnTheWay(t)'
                      /\ \A r, p \in net' : r.step = t /\ p.step = t => r = p
    OBVIOUS
  <2>1. CASE t = s
    BY <1>3, <1>7, <2>1 DEF NoneOnTheWay
  <2>2. CASE t # s
    BY <1>0, <1>3, <1>5, <2>2 DEF OnceInv
  <2> QED
    BY <2>1, <2>2
<1>9. ASSUME NEW v \in Workers, wk'[v].pc = "execute", wk'[v].sure,
             wk'[v].step \in (Reconciled \ Keyed) \ blind'
      PROVE  provider'[wk'[v].step].done = 0 /\ \A r \in net' : r.step # wk'[v].step
  <2>1. v # w /\ wk'[v] = wk[v]
    BY <1>3, <1>9 DEF GoesOn
  <2>2. PICK t \in Steps : t = wk[v].step
    BY <1>0, <1>9, <2>1
  <2>3. t # s
    BY <1>7, <1>9, <2>1, <2>2
  <2>4. t \notin blind
    BY <1>3, <1>9, <2>1, <2>2
  <2>5. provider[t].done = 0 /\ NoneOnTheWay(t)
    BY <1>9, <2>1, <2>2, <2>4 DEF OnceInv
  <2>6. NoneOnTheWay(t)'
    BY <1>5, <2>3, <2>5
  <2> QED
    BY <1>3, <2>1, <2>2, <2>5, <2>6 DEF NoneOnTheWay
<1> QED
  BY <1>6, <1>8, <1>9 DEF OnceInv, NoneOnTheWay

\* The only one lands.
LEMMA OnceLand ==
  ASSUME Shape, OnceInv, NEW r \in net, Land(r)
  PROVE  OnceInv'
<1>0. Reconciled \subseteq Steps
  BY EffectsAssumption
<1>1. PICK s \in Steps : s = r.step
  BY LandFacts
<1>2. /\ net' = net \ {r} /\ UNCHANGED <<outbox, wk, blind>>
      /\ s \notin Keyed => provider'[s].done = provider[s].done + 1
      /\ \A t \in Steps \ {s} : provider'[t] = provider[t]
  BY <1>1, LandFacts
<1>3. ~NoneOnTheWay(s)
  BY <1>1 DEF NoneOnTheWay
<1>4. \A t : NoneOnTheWay(t) => NoneOnTheWay(t)'
  BY <1>2 DEF NoneOnTheWay
<1>5. \A t \in Steps : outbox'[t].attempts = 0 => provider'[t].done = 0 /\ NoneOnTheWay(t)'
  BY <1>2, <1>3, <1>4 DEF OnceInv
<1>6. \A t \in Steps : provider[t].done \in Nat
  BY ProviderFields DEF Shape
<1>7. \A t \in (Reconciled \ Keyed) \ blind' :
        /\ provider'[t].done <= 1
        /\ provider'[t].done = 1 => NoneOnTheWay(t)'
        /\ \A p, q \in net' : p.step = t /\ q.step = t => p = q
  <2> SUFFICES ASSUME NEW t \in (Reconciled \ Keyed) \ blind
               PROVE  /\ provider'[t].done <= 1
                      /\ provider'[t].done = 1 => NoneOnTheWay(t)'
                      /\ \A p, q \in net' : p.step = t /\ q.step = t => p = q
    BY <1>2
  <2>1. CASE t = s
    <3>1. provider[s].done = 0
      BY <1>3, <1>6, <2>1 DEF OnceInv
    <3>2. \A p \in net : p.step = s => p = r
      BY <1>1, <2>1 DEF OnceInv
    <3>3. NoneOnTheWay(s)'
      BY <1>2, <3>2 DEF NoneOnTheWay
    <3> QED
      BY <1>2, <2>1, <3>1, <3>2, <3>3
  <2>2. CASE t # s
    BY <1>0, <1>2, <1>4, <2>2 DEF OnceInv
  <2> QED
    BY <2>1, <2>2
<1>8. ASSUME NEW v \in Workers, wk'[v].pc = "execute", wk'[v].sure,
             wk'[v].step \in (Reconciled \ Keyed) \ blind'
      PROVE  provider'[wk'[v].step].done = 0 /\ \A p \in net' : p.step # wk'[v].step
  <2>1. PICK t \in Steps : t = wk[v].step
    BY <1>0, <1>2, <1>8
  <2>2. provider[t].done = 0 /\ NoneOnTheWay(t)
    BY <1>2, <1>8, <2>1 DEF OnceInv
  <2>3. NoneOnTheWay(t)' /\ t # s
    BY <1>3, <1>4, <2>2
  <2> QED
    BY <1>2, <2>1, <2>2, <2>3 DEF NoneOnTheWay
<1> QED
  BY <1>5, <1>7, <1>8 DEF OnceInv, NoneOnTheWay

\* Every step keeps OnceInv.
LEMMA NextOnce == Base /\ OnceInv /\ [Next]_vars => OnceInv'
<1> SUFFICES ASSUME Base, OnceInv, [Next]_vars PROVE OnceInv'
  OBVIOUS
<1>0. Shape
  BY DEF Base
<1>1. ASSUME NEW w \in Workers, Drive(w) PROVE OnceInv'
  <2>1. CASE \/ Claim(w) \/ LoseRace(w) \/ Crash(w) \/ Dispatch(w) \/ Complete(w)
             \/ RecordRollback(w) \/ EscalateCompensation(w) \/ Report(w)
    <3>1. StartOver(w)
      BY <1>0, <2>1, ClaimFacts, QuitFacts, DispatchFacts, EndFacts, ReportFacts
    <3>2. UNCHANGED <<outbox, provider, net, blind>>
      BY <3>1 DEF StartOver
    <3>3. \A v \in Workers : wk'[v].pc = "execute" /\ wk'[v].sure =>
            /\ wk[v].pc = "execute" /\ wk[v].sure /\ wk'[v].step = wk[v].step
      BY <3>1 DEF StartOver, FromScratch, Others
    <3> QED
      BY <3>2, <3>3, OnceKept
  <2>2. CASE ClaimRow(w) \/ Reconcile(w) \/ ReconcileFails(w)
    BY <1>0, <2>2, OnceAbout
  <2>3. CASE Send(w)
    BY <2>3, OnceSend
  <2>4. CASE \/ Answer(w) \/ ExecuteFails(w) \/ Mark(w) \/ Timeout(w) \/ RunnerFails(w)
             \/ Compensate(w) \/ CompensateNotOk(w) \/ CompensateFails(w)
    <3>1. /\ GoesOn(w) /\ net' \subseteq net /\ blind' = blind /\ wk'[w].pc # "execute"
          /\ \A s \in Steps : outbox'[s].attempts = outbox[s].attempts
          /\ \A s \in Steps : provider'[s].done = provider[s].done
      <4>1. CASE Answer(w) \/ ExecuteFails(w)
        <5>1. /\ GoesOn(w) /\ wk'[w].pc = "mark" /\ net' \in {net, net \ {Request(w)}}
              /\ UNCHANGED <<outbox, provider, blind>>
          BY <1>0, <4>1, AnswerFacts
        <5> QED
          BY <5>1
      <4>2. CASE Mark(w) \/ Timeout(w) \/ RunnerFails(w)
        <5>1. wk[w].pc = "mark" => outbox[wk[w].step].attempts # 0
          BY MarksClaimed
        <5>2. /\ GoesOn(w) /\ wk[w].step \in Steps /\ wk'[w].pc = "report"
              /\ outbox' = outbox \/ Written(w, wk[w].step, MarkedStatus(w))
              /\ UNCHANGED <<provider, net, blind>>
          BY <1>0, <4>2, <5>1, MarkFacts
        <5>3. \A s \in Steps : outbox'[s].attempts = outbox[s].attempts
          BY <5>2, WrittenCounts
        <5> QED
          BY <5>2, <5>3
      <4>3. CASE Compensate(w) \/ CompensateNotOk(w) \/ CompensateFails(w)
        <5>1. /\ GoesOn(w) /\ wk'[w].pc \in {"undone", "escalate"}
              /\ \A s \in Steps : provider'[s].done = provider[s].done
              /\ UNCHANGED <<outbox, net, blind>>
          BY <1>0, <4>3, CompensateFacts
        <5> QED
          BY <5>1
      <4> QED
        BY <2>4, <4>1, <4>2, <4>3
    <3>2. \A v \in Workers : wk'[v].pc = "execute" /\ wk'[v].sure =>
            /\ wk[v].pc = "execute" /\ wk[v].sure /\ wk'[v].step = wk[v].step
      BY <3>1 DEF GoesOn
    <3> QED
      BY <3>1, <3>2, OnceKept
  <2>5. CASE StartRollback(w) \/ MarkCompensated(w)
    <3>1. /\ Others(w) /\ wk'[w].pc = "undo" /\ UNCHANGED <<provider, net, blind>>
          /\ \A s \in Steps : outbox'[s].attempts = outbox[s].attempts
      <4>1. CASE StartRollback(w)
        BY <1>0, <4>1, StartRollbackFacts
      <4>2. CASE MarkCompensated(w)
        <5>1. PICK s \in Steps : /\ Others(w) /\ wk'[w].pc = "undo" /\ Written(w, s, "compensated")
                                 /\ UNCHANGED <<provider, net, blind>>
          BY <4>2, MarkCompensatedFacts
        <5> QED
          BY <5>1, WrittenCounts
      <4> QED
        BY <2>5, <4>1, <4>2
    <3>2. \A v \in Workers : wk'[v].pc = "execute" /\ wk'[v].sure =>
            /\ wk[v].pc = "execute" /\ wk[v].sure /\ wk'[v].step = wk[v].step
      BY <3>1 DEF Others
    <3> QED
      BY <3>1, <3>2, OnceKept
  <2> QED
    BY <1>1, <2>1, <2>2, <2>3, <2>4, <2>5 DEF Drive
<1>2. ASSUME NEW r \in net, Land(r) PROVE OnceInv'
  BY <1>0, <1>2, OnceLand
<1>3. CASE LeaseLapses \/ UNCHANGED vars
  <2>1. UNCHANGED <<outbox, provider, net, wk, blind>>
    BY <1>3 DEF LeaseLapses, vars
  <2> QED
    BY <2>1, OnceKept
<1>4. CASE AnswerEscalation
  <2>1. /\ UNCHANGED <<outbox, provider, net, blind>>
        /\ \A v \in Workers : /\ wk'[v].pc = wk[v].pc /\ wk'[v].step = wk[v].step
                              /\ wk'[v].sure = wk[v].sure
    BY <1>0, <1>4, AnswerEscalationFacts DEF AnswerEscalation, Stale
  <2> QED
    BY <2>1, OnceKept
<1> QED
  BY <1>1, <1>2, <1>3, <1>4 DEF Next

\* ADR-0003, "at_least_once_dedup": when no two requests overlapped and every
\* question was answered, a provider that can be asked has done an effect once,
\* whatever crashed or timed out in between.
THEOREM ReconciledOnceCorrect == Spec => []ReconciledOnce
<1>1. Init => OnceInv
  <2> SUFFICES ASSUME Init PROVE OnceInv
    OBVIOUS
  <2>1. net = {} /\ \A s \in Steps : provider[s].done = 0
    BY DEF Init
  <2>2. \A w \in Workers : wk[w].pc = "idle"
    BY DriveFacts DEF Init
  <2>3. Reconciled \subseteq Steps
    BY EffectsAssumption
  <2> QED
    BY <2>1, <2>2, <2>3 DEF OnceInv, NoneOnTheWay
<1>2. Base /\ OnceInv => ReconciledOnce
  <2> SUFFICES ASSUME Base, OnceInv, NEW s \in Reconciled \ Keyed, provider[s].done > 1
               PROVE  s \in blind
    BY DEF ReconciledOnce
  <2>1. provider[s].done \in Nat
    BY EffectsAssumption, ProviderFields DEF Base, Shape
  <2> QED
    BY <2>1 DEF OnceInv
<1> QED
  BY <1>1, <1>2, BaseInvariant, NextOnce, PTL DEF Spec
-----------------------------------------------------------------------------
(***************************************************************************)
(* Rollbacks.                                                              *)
(***************************************************************************)

\* Nobody becomes fresh, and nobody begins an attempt with the lease.
LEMMA FreshKept ==
  ASSUME FreshRuns, HolderAlone, inst'.status = inst.status,
         holder' \in {holder, NoWorker},
         \A v \in Workers : wk'[v].fresh => wk[v].fresh,
         \A v \in Workers : holder' = v /\ wk'[v].pc \in Attempting => wk[v].pc \in Attempting
  PROVE  FreshRuns' /\ HolderAlone'
<1>1. FreshRuns'
  BY DEF FreshRuns
<1>2. HolderAlone'
  BY EffectsAssumption DEF HolderAlone
<1> QED
  BY <1>1, <1>2

\* Steps of an attempt or of a rollback leave the versions and the lease alone.
LEMMA GoesOnFresh ==
  ASSUME FreshRuns, HolderAlone, NEW w \in Workers, GoesOn(w), inst' = inst, holder' = holder,
         wk'[w].pc \in Attempting => wk[w].pc \in Attempting
  PROVE  FreshRuns' /\ HolderAlone'
<1>1. \A v \in Workers : wk'[v].fresh => wk[v].fresh
  BY DEF GoesOn, SameTask
<1>2. \A v \in Workers : holder' = v /\ wk'[v].pc \in Attempting => wk[v].pc \in Attempting
  BY DEF GoesOn
<1> QED
  BY <1>1, <1>2, FreshKept

\* At most one version is up to date while the lease holder is in an attempt.
LEMMA NextFresh == Base /\ UndoInv /\ [Next]_vars => FreshRuns' /\ HolderAlone'
<1> SUFFICES ASSUME Base, UndoInv, [Next]_vars PROVE FreshRuns' /\ HolderAlone'
  OBVIOUS
<1>0. Shape /\ FreshRuns /\ HolderAlone
  BY DEF Base, UndoInv
<1>1. ASSUME NEW w \in Workers, Drive(w) PROVE FreshRuns' /\ HolderAlone'
  <2>1. CASE Claim(w)
    <3>1. /\ Others(w) /\ wk'[w] = Planning /\ inst'.status = "running" /\ holder' = w
      BY <1>0, <2>1, ClaimFacts DEF StartOver, Claim
    <3>2. FreshRuns'
      BY <3>1 DEF FreshRuns
    <3>3. HolderAlone'
      BY <3>1, DriveFacts DEF HolderAlone, Attempting
    <3> QED
      BY <3>2, <3>3
  <2>2. CASE LoseRace(w) \/ Crash(w)
    <3>1. /\ Others(w) /\ wk'[w] = IdleWorker /\ inst' = inst
      BY <1>0, <2>2, QuitFacts DEF StartOver
    <3>2. holder' \in {holder, NoWorker}
      BY <2>2 DEF LoseRace, Crash
    <3>3. \A v \in Workers : wk'[v].fresh => wk[v].fresh
      BY <3>1, DriveFacts DEF Others
    <3>4. \A v \in Workers : wk'[v].pc \in Attempting => wk[v].pc \in Attempting
      BY <3>1, DriveFacts DEF Others, Attempting
    <3> QED
      BY <1>0, <3>1, <3>2, <3>3, <3>4, FreshKept
  <2>3. CASE Dispatch(w) \/ Report(w)
    <3>1. /\ StartOver(w) /\ wk[w].fresh /\ inst'.status = "running" /\ holder' = holder
          /\ \A v \in Workers \ {w} : ~wk'[v].fresh
      BY <1>0, <2>3, DispatchFacts, ReportFacts DEF Dispatch, FreshRuns
    <3>2. FreshRuns'
      BY <3>1 DEF FreshRuns
    <3>3. ASSUME NEW u \in Workers, NEW v \in Workers, u # v, holder' = u,
                 wk'[u].pc \in Attempting
          PROVE  ~wk'[v].fresh
      <4>1. CASE v # w
        BY <3>1, <4>1
      <4>2. CASE v = w
        <5>1. wk[u].pc \in Attempting
          BY <3>1, <3>3, <4>2 DEF StartOver, Others
        <5> QED
          BY <1>0, <3>1, <3>3, <4>2, <5>1 DEF HolderAlone
      <4> QED
        BY <4>1, <4>2
    <3> QED
      BY <3>2, <3>3 DEF HolderAlone
  <2>4. CASE Complete(w) \/ RecordRollback(w) \/ EscalateCompensation(w)
    <3>1. \A v \in Workers : ~wk'[v].fresh
      BY <1>0, <2>4, EndFacts
    <3> QED
      BY <3>1 DEF FreshRuns, HolderAlone
  <2>5. CASE ClaimRow(w)
    <3>1. GoesOn(w) /\ inst' = inst /\ holder' = holder /\ wk[w].pc \in Attempting
      BY <1>0, <2>5, ClaimRowFacts DEF ClaimRow, Attempting
    <3> QED
      BY <1>0, <3>1, GoesOnFresh, Zenon
  <2>6. CASE Reconcile(w) \/ ReconcileFails(w)
    <3>1. GoesOn(w) /\ inst' = inst /\ holder' = holder /\ wk[w].pc \in Attempting
      BY <1>0, <2>6, ReconcileFacts DEF Attempting
    <3> QED
      BY <1>0, <3>1, GoesOnFresh
  <2>7. CASE Send(w)
    <3>1. GoesOn(w) /\ inst' = inst /\ holder' = holder /\ wk[w].pc \in Attempting
      BY <1>0, <2>7, SendFacts DEF Attempting
    <3> QED
      BY <1>0, <3>1, GoesOnFresh
  <2>8. CASE Answer(w) \/ ExecuteFails(w)
    <3>1. GoesOn(w) /\ inst' = inst /\ holder' = holder /\ wk[w].pc \in Attempting
      BY <1>0, <2>8, AnswerFacts DEF Attempting
    <3> QED
      BY <1>0, <3>1, GoesOnFresh
  <2>9. CASE Mark(w) \/ Timeout(w) \/ RunnerFails(w)
    <3>1. wk[w].pc = "mark" => outbox[wk[w].step].attempts # 0
      BY MarksClaimed
    <3>2. GoesOn(w) /\ inst' = inst /\ holder' = holder /\ wk[w].pc \in Attempting
      BY <1>0, <2>9, <3>1, MarkFacts
    <3> QED
      BY <1>0, <3>2, GoesOnFresh
  <2>10. CASE Compensate(w) \/ CompensateNotOk(w) \/ CompensateFails(w)
    <3>1. /\ GoesOn(w) /\ inst' = inst /\ holder' = holder
          /\ wk'[w].pc \in {"undone", "escalate"}
      BY <1>0, <2>10, CompensateFacts
    <3>2. wk'[w].pc \notin Attempting
      BY <3>1 DEF Attempting
    <3> QED
      BY <1>0, <3>1, <3>2, GoesOnFresh
  <2>11. CASE StartRollback(w) \/ MarkCompensated(w)
    <3>1. /\ Others(w) /\ wk'[w].pc = "undo" /\ wk'[w].fresh = wk[w].fresh
          /\ inst' = inst /\ holder' = holder
      BY <1>0, <2>11, StartRollbackFacts, MarkCompensatedFacts
    <3>2. \A v \in Workers : wk'[v].fresh => wk[v].fresh
      BY <3>1 DEF Others
    <3>3. \A v \in Workers : wk'[v].pc \in Attempting => wk[v].pc \in Attempting
      BY <3>1 DEF Others, Attempting
    <3> QED
      BY <1>0, <3>1, <3>2, <3>3, FreshKept
  <2> QED
    BY <1>1, <2>1, <2>2, <2>3, <2>4, <2>5, <2>6, <2>7, <2>8, <2>9, <2>10, <2>11 DEF Drive
<1>2. ASSUME NEW r \in net, Land(r) PROVE FreshRuns' /\ HolderAlone'
  BY <1>0, <1>2, FreshKept DEF Land
<1>3. CASE LeaseLapses \/ UNCHANGED vars
  <2>1. UNCHANGED <<inst, wk>> /\ holder' \in {holder, NoWorker}
    BY <1>3 DEF LeaseLapses, vars
  <2> QED
    BY <1>0, <2>1, FreshKept
<1>4. CASE AnswerEscalation
  <2>1. \A v \in Workers : ~wk'[v].fresh
    BY <1>0, <1>4, AnswerEscalationFacts DEF Stale
  <2> QED
    BY <2>1 DEF FreshRuns, HolderAlone
<1> QED
  BY <1>1, <1>2, <1>3, <1>4 DEF Next

\* Where the row of the attempt's effect may still be marked.
Marking == {"reconcile", "execute", "sent", "mark"}

\* The rows outside stray say what they said; the log, the reports and the attempts
\* under the lease have nothing new.
LEMMA RowsKept ==
  ASSUME RowsKnow, stray \subseteq stray',
         \A s \in Steps \ stray' : outbox'[s].status \in {"executed", "compensated"}
                                     <=> outbox[s].status \in {"executed", "compensated"},
         \A s \in Steps : inst'.refs[s] # "none" =>
           inst.refs[s] # "none" \/ \E v \in Workers : s = wk[v].step /\ wk[v].eff # "none",
         \A v \in Workers : wk'[v].eff # "none" => wk[v].eff # "none" /\ wk'[v].step = wk[v].step,
         \A v \in Workers : holder' = v /\ wk'[v].pc \in Marking =>
           holder = v /\ wk[v].pc \in Marking /\ wk'[v].step = wk[v].step
  PROVE  RowsKnow'
<1>1. \A s \in Steps \ stray' :
        inst'.refs[s] # "none" => outbox'[s].status \in {"executed", "compensated"}
  BY DEF RowsKnow, RowDone
<1>2. \A v \in Workers : wk'[v].eff # "none" /\ wk'[v].step \in Steps \ stray' =>
        outbox'[wk'[v].step].status \in {"executed", "compensated"}
  BY DEF RowsKnow, RowDone
<1>3. \A v \in Workers : holder' = v /\ wk'[v].pc \in Marking /\ wk'[v].step \in Steps \ stray' =>
        outbox'[wk'[v].step].status \notin {"executed", "compensated"}
  BY DEF RowsKnow, RowDone, Marking
<1> QED
  BY <1>1, <1>2, <1>3 DEF RowsKnow, RowDone, Marking

\* A step of an attempt that writes no row.
LEMMA GoesOnRows ==
  ASSUME RowsKnow, NEW w \in Workers, GoesOn(w), UNCHANGED <<inst, outbox, stray, holder>>,
         wk'[w].eff = wk[w].eff, wk'[w].pc \in Marking => wk[w].pc \in Marking
  PROVE  RowsKnow'
<1>1. \A v \in Workers : wk'[v].eff = wk[v].eff /\ wk'[v].step = wk[v].step
  BY DEF GoesOn, SameTask
<1>2. \A v \in Workers : wk'[v].pc \in Marking => wk[v].pc \in Marking
  BY DEF GoesOn
<1> QED
  BY <1>1, <1>2, RowsKept

\* A claim changes no row that says that the effect has happened.
LEMMA ClaimRowRows ==
  ASSUME Shape, RowsKnow, NEW w \in Workers, ClaimRow(w)
  PROVE  RowsKnow'
<1>1. PICK s : s = wk[w].step
  OBVIOUS
<1>2. /\ GoesOn(w) /\ s \in Steps /\ UNCHANGED <<inst, holder, stray>>
      /\ wk'[w].pc \in {"report", "reconcile", "execute"}
      /\ wk'[w].pc # "report" => outbox[s].status \notin {"executed", "compensated"}
      /\ wk'[w].eff # "none" => wk'[w].pc = "report" /\ outbox[s].status = "executed"
      /\ outbox'[s].status = IF outbox[s].status = "absent" THEN "pending" ELSE outbox[s].status
      /\ \A t \in Steps \ {s} : outbox'[t] = outbox[t]
  BY <1>1, ClaimRowFacts
<1>3. \A t \in Steps : outbox'[t].status \in {"executed", "compensated"}
                         <=> outbox[t].status \in {"executed", "compensated"}
  BY <1>2
<1>4. wk'[w].step = s /\ \A v \in Workers \ {w} : wk'[v] = wk[v]
  BY <1>1, <1>2 DEF GoesOn, SameTask
<1>5. \A t \in Steps \ stray : inst.refs[t] # "none" =>
        outbox'[t].status \in {"executed", "compensated"}
  BY <1>3 DEF RowsKnow, RowDone
<1>6. \A v \in Workers : wk'[v].eff # "none" /\ wk'[v].step \in Steps \ stray =>
        outbox'[wk'[v].step].status \in {"executed", "compensated"}
  BY <1>2, <1>3, <1>4 DEF RowsKnow, RowDone
<1>7. \A v \in Workers : holder = v /\ wk'[v].pc \in Marking /\ wk'[v].step \in Steps \ stray =>
        outbox'[wk'[v].step].status \notin {"executed", "compensated"}
  BY <1>2, <1>3, <1>4 DEF RowsKnow, RowDone, Marking
<1> QED
  BY <1>2, <1>5, <1>6, <1>7 DEF RowsKnow, RowDone, Marking

\* Under the lease a row is marked once: nobody had reported its effect.
LEMMA MarkRows ==
  ASSUME Base, RowsKnow, NEW w \in Workers, Mark(w) \/ Timeout(w) \/ RunnerFails(w)
  PROVE  RowsKnow'
<1>1. Shape /\ (wk[w].pc = "mark" => outbox[wk[w].step].attempts # 0)
  BY MarksClaimed DEF Base
<1>2. PICK s : s = wk[w].step
  OBVIOUS
<1>3. /\ GoesOn(w) /\ s \in Steps /\ wk'[w].pc = "report"
      /\ \/ UNCHANGED <<outbox, stray>> /\ wk'[w].eff = wk[w].eff
         \/ /\ wk[w].pc = "mark" /\ Written(w, s, MarkedStatus(w))
            /\ wk'[w].eff # "none" => wk[w].out = "ok" \/ wk[w].eff # "none"
      /\ UNCHANGED <<inst, holder>>
  BY <1>1, <1>2, MarkFacts
<1>4. wk'[w].pc \notin Marking
  BY <1>3 DEF Marking
<1>5. CASE UNCHANGED <<outbox, stray>> /\ wk'[w].eff = wk[w].eff
  BY <1>3, <1>4, <1>5, GoesOnRows
<1>6. CASE /\ wk[w].pc = "mark" /\ Written(w, s, MarkedStatus(w))
           /\ wk'[w].eff # "none" => wk[w].out = "ok" \/ wk[w].eff # "none"
  <2>1. /\ outbox'[s].status = MarkedStatus(w) /\ \A t \in Steps \ {s} : outbox'[t] = outbox[t]
        /\ stray \subseteq stray' /\ (s \notin stray' => holder = w)
    BY <1>6 DEF Written
  <2>2. wk'[w].step = s /\ \A v \in Workers \ {w} : wk'[v] = wk[v]
    BY <1>2, <1>3 DEF GoesOn, SameTask
  <2>3. s \notin stray' => ~RowDone(s) /\ holder = w
    BY <1>2, <1>3, <1>6, <2>1 DEF RowsKnow
  <2>4. \A t \in Steps \ stray' : inst.refs[t] # "none" =>
          outbox'[t].status \in {"executed", "compensated"}
    BY <2>1, <2>3 DEF RowsKnow, RowDone
  <2>5. ASSUME NEW v \in Workers, wk'[v].eff # "none", wk'[v].step \in Steps \ stray'
        PROVE  outbox'[wk'[v].step].status \in {"executed", "compensated"}
    <3>1. CASE v = w
      <4>1. s \notin stray /\ ~RowDone(s)
        BY <2>1, <2>2, <2>3, <2>5, <3>1
      <4>2. wk[w].eff = "none"
        BY <1>2, <1>3, <4>1 DEF RowsKnow
      <4>3. wk[w].out = "ok"
        BY <1>6, <2>5, <3>1, <4>2
      <4> QED
        BY <2>1, <2>2, <3>1, <4>3 DEF MarkedStatus
    <3>2. CASE v # w
      BY <2>1, <2>2, <2>3, <2>5, <3>2 DEF RowsKnow, RowDone
    <3> QED
      BY <3>1, <3>2
  <2>6. \A v \in Workers : holder = v /\ wk'[v].pc \in Marking /\ wk'[v].step \in Steps \ stray' =>
          outbox'[wk'[v].step].status \notin {"executed", "compensated"}
    BY <1>4, <2>1, <2>2 DEF RowsKnow, RowDone, Marking
  <2> QED
    BY <1>3, <2>4, <2>5, <2>6 DEF RowsKnow, RowDone, Marking
<1> QED
  BY <1>3, <1>5, <1>6

\* A compensated row still says that the effect had happened.
LEMMA CompensatedRows ==
  ASSUME Base, RowsKnow, NEW w \in Workers, MarkCompensated(w)
  PROVE  RowsKnow'
<1>1. PICK s \in Steps :
        /\ Others(w) /\ wk'[w].pc = "undo" /\ wk'[w].step = wk[w].step /\ wk'[w].eff = wk[w].eff
        /\ Written(w, s, "compensated") /\ UNCHANGED <<inst, holder>>
  BY MarkCompensatedFacts
<1>2. /\ outbox'[s].status = "compensated" /\ \A t \in Steps \ {s} : outbox'[t] = outbox[t]
      /\ stray \subseteq stray' /\ (s \notin stray' => holder = w)
  BY <1>1 DEF Written
<1>3. \A v \in Workers : /\ wk'[v].eff = wk[v].eff /\ wk'[v].step = wk[v].step
                         /\ v # w => wk'[v].pc = wk[v].pc
  BY <1>1 DEF Others
<1>4. \A t \in Steps \ stray' : inst.refs[t] # "none" =>
        outbox'[t].status \in {"executed", "compensated"}
  BY <1>2 DEF RowsKnow, RowDone
<1>5. \A v \in Workers : wk'[v].eff # "none" /\ wk'[v].step \in Steps \ stray' =>
        outbox'[wk'[v].step].status \in {"executed", "compensated"}
  BY <1>2, <1>3 DEF RowsKnow, RowDone
<1>6. \A v \in Workers : holder = v /\ wk'[v].pc \in Marking /\ wk'[v].step \in Steps \ stray' =>
        outbox'[wk'[v].step].status \notin {"executed", "compensated"}
  BY <1>1, <1>2, <1>3 DEF RowsKnow, RowDone, Marking
<1> QED
  BY <1>1, <1>4, <1>5, <1>6 DEF RowsKnow, RowDone, Marking

\* What the log knows of, the rows know of.
LEMMA NextRows == Base /\ UndoInv /\ [Next]_vars => RowsKnow'
<1> SUFFICES ASSUME Base, UndoInv, [Next]_vars PROVE RowsKnow'
  OBVIOUS
<1>0. Shape /\ RowsKnow
  BY DEF Base, UndoInv
<1>1. ASSUME NEW w \in Workers, Drive(w) PROVE RowsKnow'
  <2>1. CASE \/ Claim(w) \/ LoseRace(w) \/ Crash(w) \/ Dispatch(w) \/ Complete(w)
             \/ RecordRollback(w) \/ EscalateCompensation(w) \/ Report(w)
    <3>1. StartOver(w)
      BY <1>0, <2>1, ClaimFacts, QuitFacts, DispatchFacts, EndFacts, ReportFacts
    <3>2. /\ UNCHANGED <<outbox, stray>>
          /\ \A s \in Steps : inst'.refs[s] # "none" =>
               inst.refs[s] # "none" \/ (s = wk[w].step /\ wk[w].eff # "none")
      BY <3>1 DEF StartOver
    <3>3. \A v \in Workers : wk'[v].eff # "none" => wk[v].eff # "none" /\ wk'[v].step = wk[v].step
      BY <3>1 DEF StartOver, FromScratch, Others
    <3>4. \A v \in Workers : wk'[v].pc \in Marking =>
            v # w /\ wk[v].pc \in Marking /\ wk'[v].step = wk[v].step
      BY <3>1 DEF StartOver, FromScratch, Others, Marking
    <3>5. \A v \in Workers \ {w} : holder' = v => holder = v
      BY <2>1, EffectsAssumption
         DEF Claim, LoseRace, Crash, Dispatch, Complete, RecordRollback, EscalateCompensation, Report
    <3> QED
      BY <1>0, <3>2, <3>3, <3>4, <3>5, RowsKept
  <2>2. CASE ClaimRow(w)
    BY <1>0, <2>2, ClaimRowRows
  <2>3. CASE Reconcile(w) \/ ReconcileFails(w)
    <3>1. /\ GoesOn(w) /\ wk[w].pc \in Marking /\ wk'[w].eff = wk[w].eff
          /\ UNCHANGED <<inst, outbox, stray, holder>>
      BY <1>0, <2>3, ReconcileFacts DEF Marking
    <3> QED
      BY <1>0, <3>1, GoesOnRows
  <2>4. CASE Send(w)
    <3>1. /\ GoesOn(w) /\ wk[w].pc \in Marking /\ wk'[w].eff = wk[w].eff
          /\ UNCHANGED <<inst, outbox, stray, holder>>
      BY <1>0, <2>4, SendFacts DEF Marking
    <3> QED
      BY <1>0, <3>1, GoesOnRows
  <2>5. CASE Answer(w) \/ ExecuteFails(w)
    <3>1. /\ GoesOn(w) /\ wk[w].pc \in Marking /\ wk'[w].eff = wk[w].eff
          /\ UNCHANGED <<inst, outbox, stray, holder>>
      BY <1>0, <2>5, AnswerFacts DEF Marking
    <3> QED
      BY <1>0, <3>1, GoesOnRows
  <2>6. CASE Mark(w) \/ Timeout(w) \/ RunnerFails(w)
    BY <1>0, <2>6, MarkRows
  <2>7. CASE Compensate(w) \/ CompensateNotOk(w) \/ CompensateFails(w)
    <3>1. /\ GoesOn(w) /\ wk'[w].pc \notin Marking /\ wk'[w].eff = wk[w].eff
          /\ UNCHANGED <<inst, outbox, stray, holder>>
      BY <1>0, <2>7, CompensateFacts DEF Marking
    <3> QED
      BY <1>0, <3>1, GoesOnRows
  <2>8. CASE StartRollback(w)
    <3>1. /\ Others(w) /\ wk'[w].pc = "undo" /\ wk'[w].step = wk[w].step /\ wk'[w].eff = wk[w].eff
          /\ UNCHANGED <<inst, outbox, stray, holder>>
      BY <1>0, <2>8, StartRollbackFacts
    <3>2. \A v \in Workers : wk'[v].eff = wk[v].eff /\ wk'[v].step = wk[v].step
      BY <3>1 DEF Others
    <3>3. \A v \in Workers : wk'[v].pc \in Marking => wk[v].pc \in Marking
      BY <3>1 DEF Others, Marking
    <3> QED
      BY <1>0, <3>1, <3>2, <3>3, RowsKept
  <2>9. CASE MarkCompensated(w)
    BY <1>0, <2>9, CompensatedRows
  <2> QED
    BY <1>1, <2>1, <2>2, <2>3, <2>4, <2>5, <2>6, <2>7, <2>8, <2>9 DEF Drive
<1>2. ASSUME NEW r \in net, Land(r) PROVE RowsKnow'
  <2>1. UNCHANGED <<inst, outbox, wk, holder, stray>>
    BY <1>2 DEF Land
  <2> QED
    BY <1>0, <2>1 DEF RowsKnow, RowDone
<1>3. CASE LeaseLapses \/ UNCHANGED vars
  <2>1. UNCHANGED <<inst, outbox, wk, stray>> /\ \A v \in Workers : holder' = v => holder = v
    BY <1>3, EffectsAssumption DEF LeaseLapses, vars
  <2> QED
    BY <1>0, <2>1 DEF RowsKnow, RowDone
<1>4. CASE AnswerEscalation
  <2>1. /\ inst'.refs = inst.refs /\ UNCHANGED <<outbox, stray, holder>>
        /\ \A v \in Workers : /\ wk'[v].pc = wk[v].pc /\ wk'[v].step = wk[v].step
                              /\ wk'[v].eff = wk[v].eff
    BY <1>0, <1>4, AnswerEscalationFacts DEF AnswerEscalation, Stale
  <2> QED
    BY <1>0, <2>1, RowsKept
<1> QED
  BY <1>1, <1>2, <1>3, <1>4 DEF Next

\* No row is newly executed or compensated, no rollback begins or goes on.
LEMMA ListsKept ==
  ASSUME Shape, ListsKnow, stray \subseteq stray',
         \A s \in Steps \ stray' : outbox'[s].status = "executed" => outbox[s].status = "executed",
         \A s \in Steps : outbox'[s].status = "compensated" => outbox[s].status = "compensated",
         \A s \in Steps : UndoAnswered(s, provider[s]) => UndoAnswered(s, provider'[s]),
         \A v \in Workers : wk'[v].fresh /\ wk'[v].pc \in {"undo", "undone"} =>
           wk[v].fresh /\ wk[v].pc \in {"undo", "undone"} /\ wk'[v].todo = wk[v].todo,
         \A v \in Workers : wk'[v].pc = "undone" => wk[v].pc = "undone" /\ wk'[v].todo = wk[v].todo
  PROVE  ListsKnow'
<1>1. \A v \in Workers : wk[v].pc = "undone" => Head(wk[v].todo) \in Steps
  <2>1. \A v \in Workers : wk[v].todo \in Seq(Steps)
    BY DriveFields DEF Shape
  <2>2. \A v \in Workers : wk[v].pc = "undone" => wk[v].todo # <<>>
    BY DEF Shape
  <2> QED
    BY <2>1, <2>2, HeadTailProperties
<1>2. \A v \in Workers : wk'[v].fresh /\ wk'[v].pc \in {"undo", "undone"} =>
        \A s \in Steps \ stray' : outbox'[s].status = "executed" =>
          \E k \in 1 .. Len(wk'[v].todo) : wk'[v].todo[k] = s
  BY DEF ListsKnow
<1>3. \A v \in Workers : wk'[v].pc = "undone" => UndoAnswered(Head(wk'[v].todo), provider'[Head(wk'[v].todo)])
  BY <1>1 DEF ListsKnow
<1>4. \A s \in Steps : outbox'[s].status = "compensated" => UndoAnswered(s, provider'[s])
  BY DEF ListsKnow
<1> QED
  BY <1>2, <1>3, <1>4 DEF ListsKnow

\* A step of an attempt that writes no row.
LEMMA GoesOnLists ==
  ASSUME Shape, ListsKnow, NEW w \in Workers, GoesOn(w), UNCHANGED <<outbox, stray, provider>>,
         wk'[w].pc \notin {"undo", "undone"}
  PROVE  ListsKnow'
<1>1. \A v \in Workers : wk'[v].pc \in {"undo", "undone"} => wk'[v] = wk[v]
  BY DEF GoesOn
<1> QED
  BY <1>1, ListsKept

\* A row is marked under the lease only while no fresh rollback is under way.
LEMMA MarkLists ==
  ASSUME Base, UndoInv, NEW w \in Workers, Mark(w) \/ Timeout(w) \/ RunnerFails(w)
  PROVE  ListsKnow'
<1>1. /\ Shape /\ ListsKnow /\ HolderAlone
      /\ (wk[w].pc = "mark" => outbox[wk[w].step].attempts # 0)
  BY MarksClaimed DEF Base, UndoInv
<1>2. PICK s : s = wk[w].step
  OBVIOUS
<1>3. /\ GoesOn(w) /\ s \in Steps /\ wk'[w].pc = "report" /\ wk[w].pc \in Attempting
      /\ UNCHANGED <<outbox, stray>> \/ Written(w, s, MarkedStatus(w))
      /\ UNCHANGED <<inst, provider, holder>>
  BY <1>1, <1>2, MarkFacts
<1>4. CASE UNCHANGED <<outbox, stray>>
  BY <1>1, <1>3, <1>4, GoesOnLists
<1>5. CASE Written(w, s, MarkedStatus(w))
  <2>1. /\ outbox'[s].status = MarkedStatus(w) /\ \A t \in Steps \ {s} : outbox'[t] = outbox[t]
        /\ stray \subseteq stray' /\ (s \notin stray' => holder = w)
    BY <1>5 DEF Written
  <2>2. \A v \in Workers \ {w} : wk'[v] = wk[v]
    BY <1>3 DEF GoesOn
  <2>3. MarkedStatus(w) # "compensated"
    BY DEF MarkedStatus
  <2>4. CASE s \in stray'
    <3>1. \A t \in Steps \ stray' : outbox'[t] = outbox[t]
      BY <2>1, <2>4
    <3>2. \A t \in Steps : outbox'[t].status = "compensated" => outbox[t].status = "compensated"
      BY <2>1, <2>3
    <3>3. \A v \in Workers : wk'[v].pc \in {"undo", "undone"} => wk'[v] = wk[v]
      BY <1>3, <2>2
    <3> QED
      BY <1>1, <1>3, <2>1, <3>1, <3>2, <3>3, ListsKept
  <2>5. CASE s \notin stray'
    <3>1. \A v \in Workers \ {w} : ~wk[v].fresh
      BY <1>1, <1>3, <2>1, <2>5 DEF HolderAlone
    <3>2. \A v \in Workers : ~(wk'[v].fresh /\ wk'[v].pc \in {"undo", "undone"})
      BY <1>3, <2>2, <3>1
    <3>3. \A v \in Workers : wk'[v].pc = "undone" => UndoAnswered(Head(wk'[v].todo), provider'[Head(wk'[v].todo)])
      BY <1>1, <1>3, <2>2 DEF ListsKnow
    <3>4. \A t \in Steps : outbox'[t].status = "compensated" => UndoAnswered(t, provider'[t])
      BY <1>1, <1>3, <2>1, <2>3 DEF ListsKnow
    <3> QED
      BY <3>2, <3>3, <3>4 DEF ListsKnow
  <2> QED
    BY <2>4, <2>5
<1> QED
  BY <1>3, <1>4, <1>5

\* A rollback lists every EXECUTED row.
LEMMA StartLists ==
  ASSUME Shape, ListsKnow, NEW w \in Workers, StartRollback(w)
  PROVE  ListsKnow'
<1>1. /\ Others(w) /\ wk'[w].pc = "undo"
      /\ \A s \in ToUndo : \E k \in 1 .. Len(wk'[w].todo) : wk'[w].todo[k] = s
      /\ UNCHANGED <<outbox, provider, stray>>
  BY StartRollbackFacts
<1>2. \A v \in Workers \ {w} : /\ wk'[v].pc = wk[v].pc /\ wk'[v].todo = wk[v].todo
                               /\ wk'[v].fresh => wk[v].fresh
  BY <1>1 DEF Others
<1>3. \A s \in Steps : outbox[s].status = "executed" =>
        \E k \in 1 .. Len(wk'[w].todo) : wk'[w].todo[k] = s
  BY <1>1 DEF ToUndo
<1>4. \A v \in Workers : wk'[v].fresh /\ wk'[v].pc \in {"undo", "undone"} =>
        \A s \in Steps \ stray : outbox[s].status = "executed" =>
          \E k \in 1 .. Len(wk'[v].todo) : wk'[v].todo[k] = s
  BY <1>2, <1>3 DEF ListsKnow
<1>5. \A v \in Workers : wk'[v].pc = "undone" => UndoAnswered(Head(wk'[v].todo), provider[Head(wk'[v].todo)])
  BY <1>1, <1>2 DEF ListsKnow
<1>6. \A s \in Steps : outbox[s].status = "compensated" => UndoAnswered(s, provider[s])
  BY DEF ListsKnow
<1> QED
  BY <1>1, <1>4, <1>5, <1>6 DEF ListsKnow

\* The effect on top is undone, or the rollback is given up.
LEMMA CompensateLists ==
  ASSUME Shape, ListsKnow, NEW w \in Workers, Compensate(w) \/ CompensateNotOk(w) \/ CompensateFails(w)
  PROVE  ListsKnow'
<1>1. /\ GoesOn(w) /\ wk[w].pc = "undo" /\ wk[w].todo # <<>>
      /\ wk'[w].pc \in {"undone", "escalate"}
      /\ \A s \in Steps : UndoAnswered(s, provider[s]) => UndoAnswered(s, provider'[s])
      /\ wk'[w].pc = "undone" => UndoAnswered(Head(wk[w].todo), provider'[Head(wk[w].todo)])
      /\ UNCHANGED <<outbox, stray>> /\ Shape'
  BY CompensateFacts
<1>4. /\ wk'[w].todo = wk[w].todo /\ wk'[w].fresh = wk[w].fresh
      /\ \A v \in Workers \ {w} : wk'[v] = wk[v]
  BY <1>1 DEF GoesOn, SameTask
<1>5. \A v \in Workers : wk'[v].fresh /\ wk'[v].pc \in {"undo", "undone"} =>
        \A s \in Steps \ stray : outbox[s].status = "executed" =>
          \E k \in 1 .. Len(wk'[v].todo) : wk'[v].todo[k] = s
  BY <1>1, <1>4 DEF ListsKnow
<1>6. \A v \in Workers : wk[v].pc = "undone" => Head(wk[v].todo) \in Steps
  <2>1. \A v \in Workers : wk[v].todo \in Seq(Steps)
    BY DriveFields DEF Shape
  <2>2. \A v \in Workers : wk[v].pc = "undone" => wk[v].todo # <<>>
    BY DEF Shape
  <2> QED
    BY <2>1, <2>2, HeadTailProperties
<1>7. \A v \in Workers : wk'[v].pc = "undone" => UndoAnswered(Head(wk'[v].todo), provider'[Head(wk'[v].todo)])
  BY <1>1, <1>4, <1>6 DEF ListsKnow
<1>8. \A s \in Steps : outbox[s].status = "compensated" => UndoAnswered(s, provider'[s])
  BY <1>1 DEF ListsKnow
<1> QED
  BY <1>1, <1>5, <1>7, <1>8 DEF ListsKnow

\* What leaves the list is compensated.
LEMMA CompensatedLists ==
  ASSUME Base, ListsKnow, NEW w \in Workers, MarkCompensated(w)
  PROVE  ListsKnow'
<1>1. PICK s \in Steps :
        /\ Others(w) /\ wk[w].pc = "undone" /\ s = Head(wk[w].todo)
        /\ wk'[w].pc = "undo" /\ wk'[w].fresh = wk[w].fresh
        /\ Written(w, s, "compensated")
        /\ \A k \in 1 .. Len(wk[w].todo) :
             wk[w].todo[k] = s \/ \E j \in 1 .. Len(wk'[w].todo) : wk'[w].todo[j] = wk[w].todo[k]
        /\ provider' = provider
  BY MarkCompensatedFacts
<1>2. /\ outbox'[s].status = "compensated" /\ \A t \in Steps \ {s} : outbox'[t] = outbox[t]
      /\ stray \subseteq stray'
  BY <1>1 DEF Written
<1>3. \A v \in Workers \ {w} : /\ wk'[v].pc = wk[v].pc /\ wk'[v].todo = wk[v].todo
                               /\ wk'[v].fresh => wk[v].fresh
  BY <1>1 DEF Others
<1>4. ASSUME NEW v \in Workers, wk'[v].fresh, wk'[v].pc \in {"undo", "undone"},
             NEW t \in Steps \ stray', outbox'[t].status = "executed"
      PROVE  \E k \in 1 .. Len(wk'[v].todo) : wk'[v].todo[k] = t
  <2>1. t # s /\ outbox[t].status = "executed" /\ t \notin stray
    BY <1>2, <1>4
  <2>2. wk[v].fresh /\ wk[v].pc \in {"undo", "undone"}
    BY <1>1, <1>3, <1>4
  <2>3. PICK k \in 1 .. Len(wk[v].todo) : wk[v].todo[k] = t
    BY <2>1, <2>2 DEF ListsKnow
  <2>4. CASE v = w
    BY <1>1, <2>1, <2>3, <2>4
  <2>5. CASE v # w
    BY <1>3, <2>3, <2>5
  <2> QED
    BY <2>4, <2>5
<1>5. \A v \in Workers : wk'[v].pc = "undone" => UndoAnswered(Head(wk'[v].todo), provider'[Head(wk'[v].todo)])
  BY <1>1, <1>3 DEF ListsKnow
<1>6. \A t \in Steps : outbox'[t].status = "compensated" => UndoAnswered(t, provider'[t])
  BY <1>1, <1>2 DEF ListsKnow
<1> QED
  BY <1>4, <1>5, <1>6 DEF ListsKnow

\* The lists of what is to be undone stay complete.
LEMMA NextLists == Base /\ UndoInv /\ [Next]_vars => ListsKnow'
<1> SUFFICES ASSUME Base, UndoInv, [Next]_vars PROVE ListsKnow'
  OBVIOUS
<1>0. Shape /\ ListsKnow
  BY DEF Base, UndoInv
<1>1. ASSUME NEW w \in Workers, Drive(w) PROVE ListsKnow'
  <2>1. CASE \/ Claim(w) \/ LoseRace(w) \/ Crash(w) \/ Dispatch(w) \/ Complete(w)
             \/ RecordRollback(w) \/ EscalateCompensation(w) \/ Report(w)
    <3>1. StartOver(w)
      BY <1>0, <2>1, ClaimFacts, QuitFacts, DispatchFacts, EndFacts, ReportFacts
    <3>2. UNCHANGED <<outbox, stray, provider>>
      BY <3>1 DEF StartOver
    <3>3. \A v \in Workers : wk'[v].pc \in {"undo", "undone"} =>
            /\ wk[v].pc = wk'[v].pc /\ wk'[v].todo = wk[v].todo
            /\ wk'[v].fresh => wk[v].fresh
      BY <3>1 DEF StartOver, FromScratch, Others
    <3> QED
      BY <1>0, <3>2, <3>3, ListsKept
  <2>2. CASE ClaimRow(w)
    <3>1. PICK s : s = wk[w].step
      OBVIOUS
    <3>2. /\ GoesOn(w) /\ s \in Steps /\ UNCHANGED <<provider, stray>>
          /\ wk'[w].pc \in {"report", "reconcile", "execute"}
          /\ outbox'[s].status = IF outbox[s].status = "absent" THEN "pending" ELSE outbox[s].status
          /\ \A t \in Steps \ {s} : outbox'[t] = outbox[t]
      BY <1>0, <2>2, <3>1, ClaimRowFacts
    <3>3. \A v \in Workers : wk'[v].pc \in {"undo", "undone"} => wk'[v] = wk[v]
      BY <3>2 DEF GoesOn
    <3>4. \A t \in Steps : /\ outbox'[t].status = "executed" => outbox[t].status = "executed"
                           /\ outbox'[t].status = "compensated" => outbox[t].status = "compensated"
      BY <3>2
    <3> QED
      BY <1>0, <3>2, <3>3, <3>4, ListsKept
  <2>3. CASE Reconcile(w) \/ ReconcileFails(w)
    <3>1. /\ GoesOn(w) /\ wk'[w].pc \notin {"undo", "undone"}
          /\ UNCHANGED <<outbox, stray, provider>>
      BY <1>0, <2>3, ReconcileFacts
    <3> QED
      BY <1>0, <3>1, GoesOnLists
  <2>4. CASE Send(w)
    <3>1. /\ GoesOn(w) /\ wk'[w].pc \notin {"undo", "undone"}
          /\ UNCHANGED <<outbox, stray, provider>>
      BY <1>0, <2>4, SendFacts
    <3> QED
      BY <1>0, <3>1, GoesOnLists
  <2>5. CASE Answer(w) \/ ExecuteFails(w)
    <3>1. /\ GoesOn(w) /\ wk'[w].pc \notin {"undo", "undone"}
          /\ UNCHANGED <<outbox, stray, provider>>
      BY <1>0, <2>5, AnswerFacts
    <3> QED
      BY <1>0, <3>1, GoesOnLists
  <2>6. CASE Mark(w) \/ Timeout(w) \/ RunnerFails(w)
    BY <2>6, MarkLists
  <2>7. CASE Compensate(w) \/ CompensateNotOk(w) \/ CompensateFails(w)
    BY <1>0, <2>7, CompensateLists
  <2>8. CASE StartRollback(w)
    BY <1>0, <2>8, StartLists
  <2>9. CASE MarkCompensated(w)
    BY <1>0, <2>9, CompensatedLists
  <2> QED
    BY <1>1, <2>1, <2>2, <2>3, <2>4, <2>5, <2>6, <2>7, <2>8, <2>9 DEF Drive
<1>2. ASSUME NEW r \in net, Land(r) PROVE ListsKnow'
  <2>1. /\ r.step \in Steps /\ UNCHANGED <<outbox, wk, stray>>
        /\ provider'[r.step].undo = provider[r.step].undo
        /\ \A t \in Steps \ {r.step} : provider'[t] = provider[t]
    BY <1>0, <1>2, LandFacts
  <2>2. \A t \in Steps : UndoAnswered(t, provider[t]) => UndoAnswered(t, provider'[t])
    BY <2>1 DEF UndoAnswered
  <2> QED
    BY <1>0, <2>1, <2>2, ListsKept
<1>3. CASE LeaseLapses \/ UNCHANGED vars
  <2>1. UNCHANGED <<outbox, wk, stray, provider>>
    BY <1>3 DEF LeaseLapses, vars
  <2> QED
    BY <1>0, <2>1, ListsKept
<1>4. CASE AnswerEscalation
  <2>1. /\ UNCHANGED <<outbox, stray, provider>>
        /\ \A v \in Workers : /\ wk'[v].pc = wk[v].pc /\ wk'[v].todo = wk[v].todo
                              /\ ~wk'[v].fresh
    BY <1>0, <1>4, AnswerEscalationFacts DEF AnswerEscalation, Stale
  <2> QED
    BY <1>0, <2>1, ListsKept
<1> QED
  BY <1>1, <1>2, <1>3, <1>4 DEF Next

\* Nothing is newly called rolled back, and nothing is redone.
LEMMA RollbackKept ==
  ASSUME RollbackUndoes, stray \subseteq stray',
         inst'.status = "rolled_back" /\ ~inst'.human =>
           inst.status = "rolled_back" /\ ~inst.human,
         \A s \in Steps : inst'.refs[s] # "none" => inst.refs[s] # "none",
         \A s \in Steps : UndoAnswered(s, provider[s]) => UndoAnswered(s, provider'[s])
  PROVE  RollbackUndoes'
BY DEF RollbackUndoes

\* When a rollback is recorded its list is empty, so every row outside stray that
\* knows of its effect is COMPENSATED.
LEMMA RecordRollbackUndoes ==
  ASSUME Shape, UndoInv, NEW w \in Workers, RecordRollback(w)
  PROVE  RollbackUndoes'
<1>1. /\ wk[w].pc = "undo" /\ wk[w].todo = <<>> /\ wk[w].fresh
      /\ UNCHANGED <<outbox, provider, stray>>
  BY DEF RecordRollback
<1>2. \A s \in Steps : inst'.refs[s] # "none" => inst.refs[s] # "none"
  BY EndFacts
<1>3. ASSUME NEW s \in Steps \ stray, inst'.refs[s] # "none" PROVE UndoAnswered(s, provider[s])
  <2>1. RowDone(s)
    BY <1>2, <1>3 DEF UndoInv, RowsKnow
  <2>2. outbox[s].status # "executed"
    <3>1. ~ \E k \in 1 .. Len(wk[w].todo) : wk[w].todo[k] = s
      BY <1>1
    <3> QED
      BY <1>1, <3>1 DEF UndoInv, ListsKnow
  <2> QED
    BY <2>1, <2>2 DEF RowDone, UndoInv, ListsKnow
<1> QED
  BY <1>1, <1>3 DEF RollbackUndoes

\* Every step keeps the promise of a rollback.
LEMMA NextRollback == Base /\ UndoInv /\ [Next]_vars => RollbackUndoes'
<1> SUFFICES ASSUME Base, UndoInv, [Next]_vars PROVE RollbackUndoes'
  OBVIOUS
<1>0. Shape /\ RollbackUndoes /\ FreshRuns
  BY Zenon DEF Base, UndoInv
<1>1. ASSUME NEW w \in Workers, Drive(w) PROVE RollbackUndoes'
  <2>1. CASE RecordRollback(w)
    BY <1>0, <2>1, RecordRollbackUndoes
  <2>2. CASE Claim(w) \/ Dispatch(w) \/ Report(w) \/ Complete(w) \/ EscalateCompensation(w)
    <3>1. inst'.status # "rolled_back"
      BY <1>0, <2>2, ClaimFacts, DispatchFacts, ReportFacts, EndFacts DEF FreshRuns
    <3> QED
      BY <3>1 DEF RollbackUndoes
  <2>3. CASE Compensate(w) \/ CompensateNotOk(w) \/ CompensateFails(w)
    <3>1. /\ \A s \in Steps : UndoAnswered(s, provider[s]) => UndoAnswered(s, provider'[s])
          /\ UNCHANGED <<inst, stray>> /\ Shape'
      BY <1>0, <2>3, CompensateFacts
    <3> QED
      BY <1>0, <3>1, RollbackKept
  <2>4. CASE /\ UNCHANGED <<inst, provider>> /\ stray \subseteq stray'
    BY <1>0, <2>4, RollbackKept
  <2> QED
    BY <1>1, <2>1, <2>2, <2>3, <2>4
       DEF Drive, LoseRace, Crash, ClaimRow, Reconcile, ReconcileFails, Send, Answer, ExecuteFails,
           Mark, Timeout, RunnerFails, StartRollback, MarkCompensated, Write
<1>2. ASSUME NEW r \in net, Land(r) PROVE RollbackUndoes'
  <2>1. /\ r.step \in Steps /\ UNCHANGED <<inst, stray>>
        /\ provider'[r.step].undo = provider[r.step].undo
        /\ \A t \in Steps \ {r.step} : provider'[t] = provider[t]
    BY <1>0, <1>2, LandFacts
  <2>2. \A t \in Steps : UndoAnswered(t, provider[t]) => UndoAnswered(t, provider'[t])
    BY <2>1 DEF UndoAnswered
  <2> QED
    BY <1>0, <2>1, <2>2, RollbackKept
<1>3. CASE LeaseLapses \/ UNCHANGED vars
  <2>1. UNCHANGED <<inst, stray, provider>>
    BY <1>3 DEF LeaseLapses, vars
  <2> QED
    BY <1>0, <2>1, RollbackKept
<1>4. CASE AnswerEscalation
  <2>1. inst'.human
    BY <1>0, <1>4, AnswerEscalationFacts
  <2> QED
    BY <2>1 DEF RollbackUndoes
<1> QED
  BY <1>1, <1>2, <1>3, <1>4 DEF Next

\* ROLLED_BACK means that every effect the log knows of has been put to its
\* provider, which has undone it if it can and did not refuse, for any number of
\* workers and crashes, unless a human has accepted less or a worker without the
\* lease has written over the row.
THEOREM RollbackCorrect == Spec => []RollbackUndoes
<1>1. Init => UndoInv
  <2> SUFFICES ASSUME Init PROVE UndoInv
    OBVIOUS
  <2>1. \A w \in Workers : wk[w].pc = "idle" /\ ~wk[w].fresh /\ wk[w].eff = "none"
    BY DriveFacts DEF Init
  <2>2. /\ inst.status = "running"
        /\ \A s \in Steps : inst.refs[s] = "none" /\ outbox[s].status = "absent"
    BY DEF Init, NoRow
  <2> QED
    BY <2>1, <2>2 DEF UndoInv, FreshRuns, HolderAlone, RowsKnow, ListsKnow, RollbackUndoes
<1>2. Base /\ UndoInv /\ [Next]_vars => UndoInv'
  BY NextFresh, NextRows, NextLists, NextRollback DEF UndoInv
<1>3. UndoInv => RollbackUndoes
  BY DEF UndoInv
<1> QED
  BY <1>1, <1>2, <1>3, BaseInvariant, PTL DEF Spec
=============================================================================
