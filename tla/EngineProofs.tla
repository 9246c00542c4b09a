---------------------------- MODULE EngineProofs ----------------------------
(***************************************************************************)
(* What the driver, its humans and its operators guarantee for every set   *)
(* of workers, every workflow definition and every bound.                  *)
(*                                                                         *)
(* The properties of Engine are not inductive by themselves: they rest on  *)
(* what a worker with a fresh version may conclude from where it is in its *)
(* drive (FreshView), because only such a worker's append succeeds.        *)
(***************************************************************************)
EXTENDS Engine, OrdersProofs

(***************************************************************************)
(* The inductive invariant.                                                *)
(***************************************************************************)

\* What a fresh worker at pc knows of the log.
ViewOf(w) ==
  /\ wk[w].pc \in {"plan", "retry", "review", "dlq", "release"} => StepsIn({"running"}) = {}
  /\ wk[w].pc = "recover" => inst.status \in RunnableStatuses
  /\ wk[w].pc \in {"exec", "retry", "review"} => inst.status = "running"
  /\ wk[w].pc = "exec" =>
       /\ StepsIn({"running"}) = InWave(w)
       /\ \A s \in InWave(w) : inst.att[s] = wk[w].wave[s]
       /\ inst.spent < inst.limit
  /\ wk[w].pc \in {"retry", "review"} =>
       /\ wk[w].review \subseteq StepsIn({"completed"})
       /\ \A s \in StepsIn({"failed"}) : inst.defn.deps[s] \cap wk[w].review \subseteq redone
  /\ wk[w].pc = "retry" => wk[w].retry \subseteq StepsIn({"failed"})

FreshView == \A w \in Workers : wk[w].fresh => ViewOf(w)

\* A step that failed, too, had everything it depends on: its retry will not ask.
DepsBeforeFailure ==
  inst.status # "rolled_back" =>
    \A s \in StepsIn({"failed"}) : \A d \in inst.defn.deps[s] :
      inst.st[d] \in Done \/ d \in redone

\* A step with an output has come to an end, or waits for its review.
OutputStays ==
  \A s \in Steps : inst.out[s] /\ s \notin redone =>
    inst.st[s] \in {"completed", "waiting_approval", "skipped", "compensated"}

\* Somebody has approved s, if it has to be approved.
Cleared(s) ==
  s \in inst.defn.requires_approval =>
    \E e \in Escs : inst.escs[e].step = s /\ "approve" \in inst.escs[e].answers

\* A step nobody has approved has never run.
UnclearedIdle ==
  \A s \in Steps : ~Cleared(s) =>
    /\ inst.att[s] = 0 /\ ~inst.out[s]
    /\ inst.st[s] \in {"pending", "waiting_approval", "skipped"}

\* A step somebody was asked about is no longer PENDING, whatever the answer.
EscalatedMoved == \A e \in Escs : \A s \in Steps : inst.escs[e].step = s => inst.st[s] # "pending"

\* A dead letter of s is recorded, or about to be.
DeadLettered(s) ==
  \/ \E k \in DOMAIN dlq : dlq[k].step = s
  \/ \E w \in Workers : wk[w].pc = "dlq" /\ s \in wk[w].retry

\* A dead letter names no step that nobody has approved.
DeadLettersCleared == \A s \in Steps : DeadLettered(s) => Cleared(s)

\* A worker about to record a dead letter knows of which step.
DeadLetterNamed == \A w \in Workers : wk[w].pc = "dlq" => wk[w].retry # {}

\* The row that keeps a dead-lettered instance requeueable is not the one
\* whose requeue is still under way.
RowLeft ==
  "dlq" \notin cut /\ inst.status = "dead_lettered" =>
    \/ \E k \in DOMAIN dlq : ~dlq[k].resolved /\ k # requeued
    \/ \E w \in Workers : wk[w].pc = "dlq"

InstanceOK ==
  /\ ConcurrencyBounded
  /\ DepsBeforeRun /\ DepsBeforeFailure
  /\ OutputStays
  /\ UnclearedIdle /\ EscalatedMoved

IInv ==
  /\ TypeOK
  /\ FreshView
  /\ InstanceOK
  /\ DeadLetterNamed /\ DeadLettersCleared
  /\ RetriesAreScheduled /\ ReviewsAreRaised /\ RowLeft
-----------------------------------------------------------------------------
(***************************************************************************)
(* What the fold's operators do to an instance.                            *)
(***************************************************************************)

\* Fields of an instance.
LEMMA InstanceFields ==
  ASSUME NEW i \in Instances
  PROVE  /\ i.defn \in Definitions /\ i.status \in WorkflowStatuses
         /\ i.st \in [Steps -> StepStatuses] /\ i.att \in [Steps -> Nat]
         /\ i.retry \in [Steps -> {"none", "later", "due"}]
         /\ i.out \in [Steps -> BOOLEAN]
         /\ i.err \in [Steps -> {"none", "retryable", "fatal", "budget"}]
         /\ i.escs \in Seq(EscRefs) /\ i.spent \in Nat /\ i.limit \in Nat
BY DEF Instances

\* Fields of a definition.
LEMMA DefinitionFields ==
  ASSUME NEW d \in Definitions
  PROVE  /\ d.deps \in [Steps -> SUBSET Steps] /\ d.max_retries \in Nat
         /\ d.requires_approval \in SUBSET Steps /\ d.compensable \in SUBSET Steps
         /\ d.max_concurrent_steps \in Nat \ {0} /\ d.auto_action \in Answers
<1>1. d \in DefinitionRecords
  BY DefinitionAssumption
<1> QED
  BY <1>1 DEF DefinitionRecords

\* The fields that hardly any append changes.
Kept(i, j) ==
  /\ j.defn = i.defn /\ j.att = i.att /\ j.retry = i.retry /\ j.out = i.out /\ j.err = i.err
  /\ j.spent = i.spent /\ j.limit = i.limit

\* A change of status changes nothing else.
LEMMA SetStatusFacts ==
  ASSUME NEW i \in Instances, NEW to \in WorkflowStatuses
  PROVE  /\ SetStatus(i, to) \in Instances
         /\ SetStatus(i, to).status = to
         /\ SetStatus(i, to).st = i.st /\ SetStatus(i, to).escs = i.escs
         /\ Kept(i, SetStatus(i, to))
BY DEF SetStatus, Instances, Kept

\* Steps are moved, and nothing else.
LEMMA SetStepsFacts ==
  ASSUME NEW i \in Instances, NEW S, NEW to \in StepStatuses
  PROVE  LET j == SetSteps(i, S, to)
         IN /\ j \in Instances
            /\ j.st = [s \in Steps |-> IF s \in S THEN to ELSE i.st[s]]
            /\ j.status = i.status /\ j.escs = i.escs
            /\ Kept(i, j)
BY DEF SetSteps, Instances, Kept

\* j is i with escalations of the steps of S, and the steps waiting.
Escalated(i, j, S) ==
  /\ j \in Instances
  /\ j.status = "waiting_approval"
  /\ j.st = [s \in Steps |-> IF s \in S THEN "waiting_approval" ELSE i.st[s]]
  /\ Len(j.escs) \in Nat /\ Len(i.escs) <= Len(j.escs)
  /\ \A e \in 1 .. Len(i.escs) : j.escs[e] = i.escs[e]
  /\ \A e \in 1 .. Len(j.escs) : e \notin 1 .. Len(i.escs) => j.escs[e].step \in S
  /\ Kept(i, j)

\* Raising escalations is no more than that.
LEMMA RaiseFacts ==
  ASSUME NEW i \in Instances, NEW S \in SUBSET (0 .. N), NEW reason \in EscalationReasons,
         NEW deadline \in {"none", "set"}, NEW action \in Answers
  PROVE  Escalated(i, Raise(i, S, reason, deadline, action), S)
<1>1. N \in Nat /\ S \in SUBSET Nat /\ IsFiniteSet(S)
  <2>1. N \in Nat /\ IsFiniteSet(0 .. N) /\ 0 .. N \in SUBSET Nat
    BY DefinitionAssumption, FS_Interval
  <2> QED
    BY <2>1, FS_Subset
<1> DEFINE n == Cardinality(S)
           order == InOrder(S)
           ref(s) == [step |-> s, reason |-> reason, open |-> TRUE, deadline |-> deadline,
                      action |-> action, answers |-> {}]
           new == [k \in 1 .. Len(order) |-> ref(order[k])]
           base == SetSteps(i, S \ {0}, "waiting_approval")
           j == [base EXCEPT !.escs = @ \o new, !.status = "waiting_approval"]
<1>2. n \in Nat /\ order \in [1 .. n -> S] /\ Len(order) = n
  <2>1. n \in Nat /\ order \in [1 .. n -> S]
    BY <1>1, InOrderIn
  <2> HIDE DEF n, order
  <2> QED
    BY <2>1
<1>3. \A k \in 1 .. n : ref(order[k]) \in EscRefs
  <2> TAKE k \in 1 .. n
  <2>1. order[k] \in 0 .. N
    BY <1>2
  <2> HIDE DEF order
  <2> QED
    BY <2>1 DEF EscRefs
<1>4. new \in Seq(EscRefs) /\ Len(new) = n /\ \A k \in 1 .. n : new[k].step \in S
  <2>1. new = [k \in 1 .. n |-> ref(order[k])]
    BY <1>2
  <2>2. \A k \in 1 .. n : ref(order[k]).step \in S
    BY <1>2
  <2> HIDE DEF n, order, ref, new
  <2> QED
    BY <1>2, <1>3, <2>1, <2>2
<1>5. /\ base \in Instances /\ base.escs = i.escs /\ Kept(i, base)
      /\ base.st = [s \in Steps |-> IF s \in S THEN "waiting_approval" ELSE i.st[s]]
  <2>1. "waiting_approval" \in StepStatuses
    BY DEF StepStatuses
  <2>2. \A s \in Steps : s \in S \ {0} <=> s \in S
    BY DefinitionAssumption DEF Steps
  <2>3. /\ base \in Instances /\ base.escs = i.escs /\ Kept(i, base)
        /\ base.st = [s \in Steps |-> IF s \in S \ {0} THEN "waiting_approval" ELSE i.st[s]]
    BY <2>1, SetStepsFacts
  <2> HIDE DEF base
  <2> QED
    BY <2>2, <2>3
<1>6. j = Raise(i, S, reason, deadline, action)
  BY DEF Raise
<1>7. /\ j.escs = i.escs \o new /\ j.status = "waiting_approval" /\ j.st = base.st
      /\ Kept(base, j)
  <2> HIDE DEF base, new
  <2> QED
    BY <1>5 DEF Instances, Kept
<1>8. i.escs \in Seq(EscRefs)
  BY InstanceFields
<1>9. /\ i.escs \o new \in Seq(EscRefs)
      /\ Len(i.escs) \in Nat /\ Len(i.escs \o new) = Len(i.escs) + n
      /\ \A e \in 1 .. Len(i.escs) : (i.escs \o new)[e] = i.escs[e]
      /\ \A e \in 1 .. Len(i.escs) + n : e \notin 1 .. Len(i.escs) =>
           (i.escs \o new)[e].step \in S
  <2> HIDE DEF new, n
  <2>1. /\ i.escs \o new \in Seq(EscRefs)
        /\ Len(i.escs) \in Nat /\ Len(i.escs \o new) = Len(i.escs) + n
    <3>1. i.escs \o new \in Seq(EscRefs)
      BY <1>4, <1>8
    <3>2. Len(i.escs) \in Nat /\ Len(i.escs \o new) = Len(i.escs) + Len(new)
      BY <1>4, <1>8
    <3> QED
      BY <1>4, <3>1, <3>2
  <2>2. \A e \in 1 .. Len(i.escs) : (i.escs \o new)[e] = i.escs[e]
    BY <1>2, <1>4, <1>8
  <2>3. ASSUME NEW e \in 1 .. Len(i.escs) + n, e \notin 1 .. Len(i.escs)
        PROVE  (i.escs \o new)[e].step \in S
    <3>1. e - Len(i.escs) \in 1 .. n /\ (i.escs \o new)[e] = new[e - Len(i.escs)]
      BY <1>2, <1>4, <1>8, <2>3
    <3> QED
      BY <1>4, <3>1
  <2> QED
    BY <2>1, <2>2, <2>3
<1>10. j \in Instances
  <2>1. "waiting_approval" \in WorkflowStatuses
    BY DEF WorkflowStatuses
  <2> HIDE DEF base, new
  <2> QED
    BY <1>5, <1>9, <2>1 DEF Instances
<1> HIDE DEF j, base, new, n
<1> QED
  BY <1>2, <1>5, <1>6, <1>7, <1>9, <1>10 DEF Kept, Escalated

\* An answer closes its escalation and moves at most the step of it.
LEMMA ResolvedFacts ==
  ASSUME NEW i \in Instances, NEW e \in 1 .. Len(i.escs), NEW answer \in Answers
  PROVE  LET j == Resolved(i, e, answer)
             s == i.escs[e].step
             to == IF answer = "skip" THEN "skipped"
                   ELSE IF i.out[s] THEN "completed" ELSE "ready"
         IN /\ j \in Instances
            /\ j.status \in {"failed", "rolled_back", "running"}
            /\ j.st = IF s = 0 \/ answer = "abort" THEN i.st
                      ELSE [t \in Steps |-> IF t = s THEN to ELSE i.st[t]]
            /\ Len(j.escs) = Len(i.escs) /\ Len(i.escs) \in Nat
            /\ \A k \in 1 .. Len(i.escs) :
                 /\ j.escs[k].step = i.escs[k].step
                 /\ k # e => j.escs[k] = i.escs[k]
            /\ ~j.escs[e].open /\ j.escs[e].answers = i.escs[e].answers \cup {answer}
            /\ Kept(i, j)
<1> DEFINE s == i.escs[e].step
           closed == [i EXCEPT !.escs[e].open = FALSE, !.escs[e].answers = @ \cup {answer}]
           ce == [i.escs[e] EXCEPT !.open = FALSE, !.answers = @ \cup {answer}]
           to == IF answer = "skip" THEN "skipped"
                 ELSE IF i.out[s] THEN "completed" ELSE "ready"
<1>1. i.escs \in Seq(EscRefs) /\ Len(i.escs) \in Nat /\ i.escs[e] \in EscRefs
  BY InstanceFields
<1>2. /\ ce \in EscRefs /\ ce.step = s /\ ~ce.open
      /\ ce.answers = i.escs[e].answers \cup {answer}
  BY <1>1 DEF EscRefs
<1>3. closed.escs = [i.escs EXCEPT ![e] = ce]
  BY <1>1 DEF Instances, EscRefs
<1>4. [i.escs EXCEPT ![e] = ce] \in Seq(EscRefs)
  <2> HIDE DEF ce
  <2> QED
    BY <1>1, <1>2
<1>5. /\ closed \in Instances /\ closed.st = i.st /\ closed.status = i.status
      /\ Kept(i, closed)
  <2>1. closed = [i EXCEPT !.escs = [i.escs EXCEPT ![e] = ce]]
    BY <1>1, <1>3 DEF Instances
  <2> HIDE DEF closed, ce
  <2> QED
    BY <2>1, <1>4 DEF Instances, Kept
<1>6. /\ Len(closed.escs) = Len(i.escs)
      /\ closed.escs[e] = ce
      /\ \A k \in 1 .. Len(i.escs) : k # e => closed.escs[k] = i.escs[k]
  <2> HIDE DEF closed, ce
  <2> QED
    BY <1>1, <1>3
<1>7. to \in StepStatuses
  BY DEF StepStatuses
<1>8. {"failed", "rolled_back", "running"} \in SUBSET WorkflowStatuses
  BY DEF WorkflowStatuses
<1>9. CASE s = 0 \/ answer = "abort"
  <2>1. \E x \in {"failed", "rolled_back"} : Resolved(i, e, answer) = SetStatus(closed, x)
    BY <1>9 DEF Resolved
  <2>2. PICK x \in {"failed", "rolled_back"} : Resolved(i, e, answer) = SetStatus(closed, x)
    BY <2>1
  <2>3. /\ SetStatus(closed, x) \in Instances
        /\ SetStatus(closed, x).status = x
        /\ SetStatus(closed, x).st = i.st /\ SetStatus(closed, x).escs = closed.escs
        /\ Kept(closed, SetStatus(closed, x))
    <3> HIDE DEF closed
    <3> QED
      BY <1>5, <1>8, SetStatusFacts
  <2> HIDE DEF closed, ce, to
  <2> QED
    BY <1>1, <1>2, <1>5, <1>6, <1>9, <2>2, <2>3 DEF Kept
<1>10. CASE ~(s = 0 \/ answer = "abort")
  <2> DEFINE moved == SetSteps(closed, {s}, to)
  <2>1. Resolved(i, e, answer) = SetStatus(moved, "running")
    BY <1>10 DEF Resolved
  <2>2. /\ moved \in Instances /\ moved.escs = closed.escs /\ Kept(closed, moved)
        /\ moved.st = [t \in Steps |-> IF t \in {s} THEN to ELSE closed.st[t]]
    <3> HIDE DEF closed, to
    <3> QED
      BY <1>5, <1>7, SetStepsFacts
  <2>3. /\ SetStatus(moved, "running") \in Instances
        /\ SetStatus(moved, "running").status = "running"
        /\ SetStatus(moved, "running").st = moved.st
        /\ SetStatus(moved, "running").escs = closed.escs
        /\ Kept(moved, SetStatus(moved, "running"))
    <3> HIDE DEF moved, closed
    <3> QED
      BY <1>8, <2>2, SetStatusFacts
  <2>4. moved.st = [t \in Steps |-> IF t = s THEN to ELSE i.st[t]]
    <3> HIDE DEF moved, closed, to
    <3> QED
      BY <1>5, <2>2
  <2> HIDE DEF closed, ce, moved
  <2> QED
    BY <1>1, <1>2, <1>5, <1>6, <1>10, <2>1, <2>2, <2>3, <2>4 DEF Kept
<1> QED
  BY <1>9, <1>10
-----------------------------------------------------------------------------
(***************************************************************************)
(* Most steps change little of the instance: no step starts or fails, and  *)
(* no dependency of one that has is taken back.  They keep InstanceOK.     *)
(***************************************************************************)
Ended == {"completed", "waiting_approval", "skipped", "compensated"}
Unstarted == {"pending", "waiting_approval", "skipped"}

EscsGrow ==
  \A e \in Escs :
    /\ e \in Escs' /\ inst'.escs[e].step = inst.escs[e].step
    /\ inst.escs[e].answers \subseteq inst'.escs[e].answers

QuietStep ==
  /\ inst'.defn = inst.defn /\ inst'.att = inst.att /\ inst'.out = inst.out
  /\ redone' = redone
  /\ inst.status = "rolled_back" => inst'.status = "rolled_back"
  /\ EscsGrow
  /\ \A s \in Steps :
       /\ inst'.st[s] \in {"running", "failed"} => inst.st[s] = inst'.st[s]
       /\ inst.st[s] \in Ended /\ inst.out[s] => inst'.st[s] \in Ended
       /\ inst.st[s] \in Unstarted /\ ~Cleared(s)' => inst'.st[s] \in Unstarted
       /\ inst'.st[s] = "pending" =>
            inst.st[s] = "pending" /\ \A e \in Escs' \ Escs : inst'.escs[e].step # s
       /\ \A d \in inst.defn.deps[s] \ redone : inst.st[d] \in Done /\ inst'.st[d] \notin Done =>
            /\ inst'.st[s] # "running"
            /\ inst'.st[s] = "failed" => inst'.status = "rolled_back"

\* An approval is never taken back.
LEMMA ClearedStays ==
  ASSUME EscsGrow, inst'.defn = inst.defn, NEW s, Cleared(s)
  PROVE  Cleared(s)'
BY DEF EscsGrow, Cleared

\* The steps of a definition are finitely many, and RUNNING ones are counted.
LEMMA RunningFinite ==
  /\ N \in Nat /\ Steps \in SUBSET Nat /\ IsFiniteSet(Steps)
  /\ IsFiniteSet(StepsIn({"running"})) /\ Cardinality(StepsIn({"running"})) \in Nat
<1>1. N \in Nat /\ Steps \in SUBSET Nat /\ IsFiniteSet(Steps)
  BY DefinitionAssumption, FS_Interval DEF Steps
<1>2. StepsIn({"running"}) \in SUBSET Steps
  BY DEF StepsIn
<1> QED
  BY <1>1, <1>2, FS_Subset, FS_CardinalityType

\* A step that starts nothing keeps the number of RUNNING steps within bounds.
LEMMA FewerRunning ==
  ASSUME inst.defn \in Definitions, ConcurrencyBounded, inst'.defn = inst.defn,
         \A s \in Steps : inst'.st[s] = "running" => inst.st[s] = "running"
  PROVE  ConcurrencyBounded'
<1> DEFINE old == StepsIn({"running"})
           new == StepsIn({"running"})'
<1>1. new \in SUBSET old
  BY DEF StepsIn
<1>2. IsFiniteSet(old) /\ Cardinality(old) \in Nat
  BY RunningFinite
<1>3. Cardinality(new) <= Cardinality(old) /\ Cardinality(new) \in Nat
  <2> HIDE DEF old, new
  <2> QED
    BY <1>1, <1>2, FS_Subset, FS_CardinalityType
<1>4. inst.defn.max_concurrent_steps \in Nat
  BY DefinitionFields
<1> QED
  BY <1>2, <1>3, <1>4 DEF ConcurrencyBounded

\* Quiet steps keep what the log says of steps, dependencies and approvals.
LEMMA QuietKeeps ==
  ASSUME TypeOK, InstanceOK, QuietStep
  PROVE  InstanceOK'
<1> USE DEF QuietStep
<1>1. inst \in Instances /\ inst.defn \in Definitions /\ inst.defn.deps \in [Steps -> SUBSET Steps]
  BY InstanceFields, DefinitionFields DEF TypeOK
<1>2. ConcurrencyBounded'
  BY <1>1, FewerRunning DEF InstanceOK
<1>3. DepsBeforeRun'
  BY <1>1 DEF InstanceOK, DepsBeforeRun, StepsIn
<1>4. DepsBeforeFailure'
  BY <1>1 DEF InstanceOK, DepsBeforeFailure, StepsIn
<1>5. OutputStays'
  BY DEF InstanceOK, OutputStays, Ended
<1>6. UnclearedIdle'
  <2> SUFFICES ASSUME NEW s \in Steps, ~Cleared(s)'
               PROVE  /\ inst'.att[s] = 0 /\ ~inst'.out[s]
                      /\ inst'.st[s] \in {"pending", "waiting_approval", "skipped"}
    BY DEF UnclearedIdle
  <2>1. ~Cleared(s)
    BY ClearedStays
  <2> QED
    BY <2>1 DEF InstanceOK, UnclearedIdle, Unstarted
<1>7. EscalatedMoved'
  BY DEF InstanceOK, EscalatedMoved, EscsGrow
<1> QED
  BY <1>2, <1>3, <1>4, <1>5, <1>6, <1>7 DEF InstanceOK
-----------------------------------------------------------------------------
(***************************************************************************)
(* Drives.                                                                 *)
(***************************************************************************)
Pcs == {"idle", "recover", "plan", "exec", "retry", "review", "dlq", "release"}

\* The records an action may leave its worker with.
LEMMA DriveFacts ==
  /\ IdleWorker \in Drives /\ IdleWorker.pc = "idle" /\ ~IdleWorker.fresh
  /\ \A pc \in Pcs : /\ At(pc) \in Drives /\ At(pc).pc = pc /\ At(pc).fresh
                     /\ At(pc).retry = {} /\ At(pc).review = {}
  /\ \A pc \in Pcs : LET r == [IdleWorker EXCEPT !.pc = pc]
                     IN /\ r \in Drives /\ r.pc = pc /\ ~r.fresh
BY DEF IdleWorker, At, Drives, Pcs

\* Fields of a drive.
LEMMA DriveFields ==
  ASSUME NEW r \in Drives
  PROVE  /\ r.pc \in Pcs /\ r.fresh \in BOOLEAN /\ r.wave \in [Steps -> Nat]
         /\ r.retry \in SUBSET Steps /\ r.review \in SUBSET Steps
BY DEF Drives, Pcs

\* Nobody but w has moved.
Others(w) ==
  \A v \in Workers \ {w} :
    /\ wk'[v].pc = wk[v].pc /\ wk'[v].wave = wk[v].wave
    /\ wk'[v].retry = wk[v].retry /\ wk'[v].review = wk[v].review

\* After an append only its author is fresh.
LEMMA DriverAppendFacts ==
  ASSUME TypeOK, NEW w \in Workers, NEW new, NEW rec \in Drives, DriverAppend(w, new, rec)
  PROVE  /\ inst' = new /\ wk' \in [Workers -> Drives] /\ wk'[w] = rec /\ Others(w)
         /\ \A v \in Workers \ {w} : ~wk'[v].fresh
<1>1. \A v \in Workers : LET r == [wk[v] EXCEPT !.fresh = FALSE]
                         IN /\ r \in Drives /\ ~r.fresh /\ r.pc = wk[v].pc
                            /\ r.wave = wk[v].wave /\ r.retry = wk[v].retry
                            /\ r.review = wk[v].review
  BY DEF TypeOK, Drives
<1>2. wk' = [v \in Workers |-> IF v = w THEN rec ELSE [wk[v] EXCEPT !.fresh = FALSE]]
  BY DEF DriverAppend
<1> QED
  BY <1>1, <1>2 DEF DriverAppend, Others

\* After an operator's append nobody is.
LEMMA OperatorAppendFacts ==
  ASSUME TypeOK, NEW new, OperatorAppend(new)
  PROVE  /\ inst' = new /\ wk' \in [Workers -> Drives]
         /\ \A v \in Workers : /\ ~wk'[v].fresh
                               /\ wk'[v].pc = wk[v].pc /\ wk'[v].wave = wk[v].wave
                               /\ wk'[v].retry = wk[v].retry /\ wk'[v].review = wk[v].review
<1>1. \A v \in Workers : LET r == [wk[v] EXCEPT !.fresh = FALSE]
                         IN /\ r \in Drives /\ ~r.fresh /\ r.pc = wk[v].pc
                            /\ r.wave = wk[v].wave /\ r.retry = wk[v].retry
                            /\ r.review = wk[v].review
  BY DEF TypeOK, Drives
<1>2. wk' = [v \in Workers |-> [wk[v] EXCEPT !.fresh = FALSE]]
  BY DEF OperatorAppend
<1> QED
  BY <1>1, <1>2 DEF OperatorAppend

(***************************************************************************)
(* Follow-ups: who has promised one still does.                            *)
(***************************************************************************)
\* No failure without a retry is new.
NoNewFailure ==
  \A s \in Steps :
    inst'.st[s] = "failed" /\ inst'.retry[s] = "none" =>
      /\ inst.st[s] = "failed" /\ inst.retry[s] = "none"
      /\ inst'.err[s] = inst.err[s] /\ inst'.att[s] = inst.att[s]

\* Promised retries are kept when no failure is new and whoever promised one has
\* not moved, has made it, or is known to have been stopped.
LEMMA RetriesKept ==
  ASSUME RetriesAreScheduled, cut \subseteq cut', NoNewFailure, inst'.defn = inst.defn,
         \A v \in Workers : wk[v].pc = "retry" =>
           \/ wk'[v].pc = "retry" /\ wk'[v].retry = wk[v].retry
           \/ "retry" \in cut'
           \/ \A s \in wk[v].retry : inst'.st[s] # "failed" \/ inst'.retry[s] # "none"
  PROVE  RetriesAreScheduled'
BY DEF RetriesAreScheduled, TerminalFailures, StepsIn, NoNewFailure

\* Likewise for reviews.
LEMMA ReviewsKept ==
  ASSUME ReviewsAreRaised, cut \subseteq cut', asked' \subseteq asked,
         \A v \in Workers : wk[v].pc \in {"retry", "review"} =>
           \/ wk'[v].pc \in {"retry", "review"} /\ wk'[v].review = wk[v].review
           \/ "review" \in cut'
           \/ wk[v].review \cap asked' = {}
  PROVE  ReviewsAreRaised'
BY DEF ReviewsAreRaised

\* Likewise for the dead-letter row.
LEMMA RowKept ==
  ASSUME RowLeft, cut \subseteq cut', inst'.status = "dead_lettered" => inst.status = "dead_lettered",
         dlq' = dlq, requeued' = requeued,
         \A v \in Workers : wk[v].pc = "dlq" => wk'[v].pc = "dlq" \/ "dlq" \in cut'
  PROVE  RowLeft'
BY DEF RowLeft
-----------------------------------------------------------------------------
(***************************************************************************)
(* Steps that have much in common.                                         *)
(***************************************************************************)

\* TypeOK from the parts a step may change.
LEMMA TypeKept ==
  ASSUME TypeOK, inst' \in Instances, Len(inst.escs) <= Len(inst'.escs),
         wk' \in [Workers -> Drives], UNCHANGED <<dlq, human>>,
         holder' \in Workers \cup {NoWorker}, asked' \subseteq Steps,
         cut' \subseteq {"retry", "review", "dlq"}, redone' = redone,
         faults' \in 0 .. MaxFaults
  PROVE  TypeOK'
<1>1. Len(inst.escs) \in Nat /\ Len(inst'.escs) \in Nat
  BY InstanceFields DEF TypeOK
<1>2. Escs \subseteq Escs'
  BY <1>1 DEF Escs
<1> QED
  BY <1>2 DEF TypeOK, human

\* What an append can name stays approved.
LEMMA ClearedKept ==
  ASSUME DeadLettersCleared, EscsGrow, inst'.defn = inst.defn, dlq' = dlq,
         \A v \in Workers : wk'[v].pc = "dlq" => wk[v].pc = "dlq" /\ wk'[v].retry = wk[v].retry
  PROVE  DeadLettersCleared'
BY ClearedStays DEF DeadLettersCleared, DeadLettered

\* An append from the plan or the recovery that leaves nothing RUNNING, starts
\* and fails nothing, and either goes on planning or ends the drive.
LEMMA PlanAppend ==
  ASSUME IInv, NEW w \in Workers, wk[w].pc \in {"plan", "recover"},
         NEW new \in Instances, NEW pc \in {"plan", "release"},
         DriverAppend(w, new, At(pc)), UNCHANGED <<holder, dlq, history, faults, human>>,
         QuietStep, NoNewFailure,
         \A s \in Steps : new.st[s] # "running",
         new.status = "dead_lettered" => inst.status = "dead_lettered",
         Len(inst.escs) <= Len(new.escs)
  PROVE  IInv'
<1>1. At(pc) \in Drives /\ At(pc).pc = pc /\ At(pc).fresh
  BY DriveFacts DEF Pcs
<1>2. TypeOK
  BY DEF IInv
<1>3. /\ inst' = new /\ wk' \in [Workers -> Drives] /\ wk'[w] = At(pc) /\ Others(w)
      /\ \A v \in Workers \ {w} : ~wk'[v].fresh
  BY <1>1, <1>2, DriverAppendFacts
<1>4. inst'.defn = inst.defn /\ EscsGrow
  BY DEF QuietStep
<1>5. dlq' = dlq /\ requeued' = requeued /\ cut' = cut /\ asked' = asked /\ redone' = redone
  BY DEF human, history
<1>6. TypeOK'
  <2>1. /\ holder' \in Workers \cup {NoWorker} /\ asked' \subseteq Steps
        /\ cut' \subseteq {"retry", "review", "dlq"} /\ faults' \in 0 .. MaxFaults
    BY <1>2, <1>5 DEF TypeOK
  <2> QED
    BY <1>2, <1>3, <1>5, <2>1, TypeKept
<1>7. FreshView'
  <2>1. StepsIn({"running"})' = {}
    BY <1>3 DEF StepsIn
  <2> QED
    BY <1>1, <1>3, <2>1 DEF FreshView, ViewOf
<1>8. InstanceOK'
  BY <1>2, QuietKeeps DEF IInv
<1>9. DeadLetterNamed'
  BY <1>1, <1>3 DEF IInv, DeadLetterNamed, Others
<1>10. DeadLettersCleared'
  BY <1>1, <1>3, <1>4, <1>5, ClearedKept DEF IInv, Others
<1>11. RetriesAreScheduled'
  BY <1>1, <1>3, <1>4, <1>5, RetriesKept DEF IInv, Others
<1>12. ReviewsAreRaised'
  BY <1>1, <1>3, <1>5, ReviewsKept DEF IInv, Others
<1>13. RowLeft'
  BY <1>1, <1>3, <1>5, RowKept DEF IInv, Others
<1> QED
  BY <1>6, <1>7, <1>8, <1>9, <1>10, <1>11, <1>12, <1>13 DEF IInv

\* An append of an operator, a human or the sweep that starts and fails nothing.
LEMMA HumanAppend ==
  ASSUME IInv, NEW new \in Instances, OperatorAppend(new),
         UNCHANGED <<holder, dlq, requeued, history, faults>>,
         desk' \subseteq desk, sweep' \subseteq sweep, ops' \in 0 .. MaxOps,
         QuietStep, NoNewFailure,
         new.status = "dead_lettered" => inst.status = "dead_lettered",
         Len(inst.escs) <= Len(new.escs)
  PROVE  IInv'
<1>2. TypeOK
  BY DEF IInv
<1>3. /\ inst' = new /\ wk' \in [Workers -> Drives]
      /\ \A v \in Workers : /\ ~wk'[v].fresh
                            /\ wk'[v].pc = wk[v].pc /\ wk'[v].wave = wk[v].wave
                            /\ wk'[v].retry = wk[v].retry /\ wk'[v].review = wk[v].review
  BY <1>2, OperatorAppendFacts
<1>4. inst'.defn = inst.defn /\ EscsGrow
  BY DEF QuietStep
<1>5. dlq' = dlq /\ requeued' = requeued /\ cut' = cut /\ asked' = asked /\ redone' = redone
  BY DEF history
<1>6. TypeOK'
  <2>1. Len(inst.escs) \in Nat /\ Len(inst'.escs) \in Nat
    BY <1>2, <1>3, InstanceFields DEF TypeOK
  <2>2. Escs \subseteq Escs'
    BY <1>3, <2>1 DEF Escs
  <2> QED
    BY <1>2, <1>3, <1>5, <2>2 DEF TypeOK
<1>7. FreshView'
  BY <1>3 DEF FreshView
<1>8. InstanceOK'
  BY <1>2, QuietKeeps DEF IInv
<1>9. DeadLetterNamed'
  BY <1>3 DEF IInv, DeadLetterNamed
<1>10. DeadLettersCleared'
  BY <1>3, <1>4, <1>5, ClearedKept DEF IInv
<1>11. RetriesAreScheduled'
  BY <1>3, <1>4, <1>5, RetriesKept DEF IInv
<1>12. ReviewsAreRaised'
  BY <1>3, <1>5, ReviewsKept DEF IInv
<1>13. RowLeft'
  BY <1>3, <1>5, RowKept DEF IInv
<1> QED
  BY <1>6, <1>7, <1>8, <1>9, <1>10, <1>11, <1>12, <1>13 DEF IInv

\* A step that leaves the instance alone is quiet.
LEMMA StillQuiet ==
  ASSUME TypeOK, inst' = inst, redone' = redone
  PROVE  QuietStep /\ NoNewFailure /\ EscsGrow
<1>1. EscsGrow
  BY DEF EscsGrow, Escs
<1> QED
  BY <1>1 DEF QuietStep, NoNewFailure, Escs

\* A worker moves on by itself, or dies, without an append.
LEMMA LocalStep ==
  ASSUME IInv, NEW w \in Workers, NEW rec \in Drives, wk' = [wk EXCEPT ![w] = rec],
         inst' = inst, UNCHANGED <<dlq, asked, redone, human>>,
         holder' \in Workers \cup {NoWorker}, faults' \in 0 .. MaxFaults,
         cut' \in {cut, cut \cup FollowUps(w)},
         wk[w].pc \in {"retry", "review", "dlq"} => cut' = cut \cup FollowUps(w),
         rec.pc \in {"idle", "plan", "recover", "release"},
         rec.fresh /\ rec.pc \in {"plan", "release"} => StepsIn({"running"}) = {},
         rec.fresh /\ rec.pc = "recover" => inst.status \in RunnableStatuses
  PROVE  IInv'
<1>1. TypeOK
  BY DEF IInv
<1>2. /\ wk' \in [Workers -> Drives] /\ wk'[w] = rec
      /\ \A v \in Workers \ {w} : wk'[v] = wk[v]
  BY <1>1 DEF TypeOK
<1>3. QuietStep /\ NoNewFailure /\ EscsGrow
  BY <1>1, StillQuiet
<1>4. FollowUps(w) \subseteq {"retry", "review", "dlq"}
  BY DEF FollowUps
<1>5. cut' \subseteq {"retry", "review", "dlq"} /\ cut \subseteq cut'
  BY <1>1, <1>4 DEF TypeOK
<1>6. TypeOK'
  <2>1. Len(inst.escs) <= Len(inst'.escs)
    BY <1>1, InstanceFields DEF TypeOK
  <2>2. inst' \in Instances /\ asked' \subseteq Steps
    BY <1>1 DEF TypeOK
  <2> QED
    BY <1>1, <1>2, <1>5, <2>1, <2>2, TypeKept
<1>7. FreshView'
  <2> SUFFICES ASSUME NEW v \in Workers, wk'[v].fresh
               PROVE  ViewOf(v)'
    BY DEF FreshView
  <2>1. CASE v = w
    BY <2>1, <1>2 DEF ViewOf, StepsIn
  <2>2. CASE v # w
    <3>1. ViewOf(v)
      BY <2>2, <1>2 DEF IInv, FreshView
    <3> QED
      BY <2>2, <3>1, <1>2 DEF ViewOf, StepsIn, InWave
  <2> QED
    BY <2>1, <2>2
<1>8. InstanceOK'
  BY <1>1, <1>3, QuietKeeps DEF IInv
<1>9. DeadLetterNamed'
  BY <1>2 DEF IInv, DeadLetterNamed
<1>10. DeadLettersCleared'
  BY <1>2, <1>3, ClearedKept DEF IInv
<1>11. RetriesAreScheduled'
  <2>1. wk[w].pc = "retry" => "retry" \in cut'
    BY DEF FollowUps
  <2> QED
    BY <1>2, <1>3, <1>5, <2>1, RetriesKept DEF IInv
<1>12. ReviewsAreRaised'
  <2>1. wk[w].pc \in {"retry", "review"} => "review" \in cut' \/ wk[w].review = {}
    BY DEF FollowUps
  <2> QED
    BY <1>2, <1>5, <2>1, ReviewsKept DEF IInv
<1>13. RowLeft'
  <2>1. wk[w].pc = "dlq" => "dlq" \in cut'
    BY DEF FollowUps
  <2>2. requeued' = requeued
    BY DEF human
  <2> QED
    BY <1>2, <1>5, <2>1, <2>2, RowKept DEF IInv
<1> QED
  BY <1>6, <1>7, <1>8, <1>9, <1>10, <1>11, <1>12, <1>13 DEF IInv
-----------------------------------------------------------------------------
(***************************************************************************)
(* The kinds of append are quiet.                                          *)
(***************************************************************************)

\* A change of the workflow's status.
LEMMA StatusQuiet ==
  ASSUME TypeOK, NEW to \in WorkflowStatuses, inst' = SetStatus(inst, to), redone' = redone,
         inst.status # "rolled_back"
  PROVE  QuietStep /\ NoNewFailure /\ Len(inst.escs) <= Len(inst'.escs)
<1>1. inst \in Instances /\ Len(inst.escs) \in Nat
  BY InstanceFields DEF TypeOK
<1>2. inst'.st = inst.st /\ inst'.escs = inst.escs /\ Kept(inst, inst')
  BY <1>1, SetStatusFacts
<1>3. EscsGrow
  BY <1>2 DEF EscsGrow, Escs
<1> QED
  BY <1>1, <1>2, <1>3 DEF QuietStep, NoNewFailure, Kept, Escs

\* Escalations, when no dependency of a started step is made to wait.
LEMMA RaiseQuiet ==
  ASSUME TypeOK, NEW S \in SUBSET (0 .. N), NEW reason \in EscalationReasons,
         NEW deadline \in {"none", "set"}, NEW action \in Answers,
         inst' = Raise(inst, S, reason, deadline, action), redone' = redone,
         inst.status # "rolled_back",
         \A s \in Steps : inst.st[s] \in {"running", "failed"} =>
           \A d \in inst.defn.deps[s] \ redone : d \in S => inst.st[d] \notin Done
  PROVE  /\ QuietStep /\ NoNewFailure /\ Len(inst.escs) <= Len(inst'.escs)
         /\ inst' \in Instances /\ inst'.status = "waiting_approval"
         /\ \A s \in Steps : inst'.st[s] = IF s \in S THEN "waiting_approval" ELSE inst.st[s]
<1>1. inst \in Instances
  BY DEF TypeOK
<1>2. /\ inst' \in Instances /\ inst'.status = "waiting_approval"
      /\ inst'.st = [s \in Steps |-> IF s \in S THEN "waiting_approval" ELSE inst.st[s]]
      /\ Len(inst'.escs) \in Nat /\ Len(inst.escs) <= Len(inst'.escs)
      /\ \A e \in 1 .. Len(inst.escs) : inst'.escs[e] = inst.escs[e]
      /\ \A e \in 1 .. Len(inst'.escs) : e \notin 1 .. Len(inst.escs) => inst'.escs[e].step \in S
      /\ Kept(inst, inst')
  <2>1. Escalated(inst, inst', S)
    BY <1>1, RaiseFacts
  <2> QED
    BY <2>1 DEF Escalated
<1>3. Len(inst.escs) \in Nat /\ inst.defn.deps \in [Steps -> SUBSET Steps]
  BY <1>1, InstanceFields, DefinitionFields
<1>4. EscsGrow
  BY <1>2, <1>3 DEF EscsGrow, Escs
<1>5. ASSUME NEW s \in Steps
      PROVE  /\ inst'.st[s] \in {"running", "failed"} => inst.st[s] = inst'.st[s]
             /\ inst.st[s] \in Ended /\ inst.out[s] => inst'.st[s] \in Ended
             /\ inst.st[s] \in Unstarted /\ ~Cleared(s)' => inst'.st[s] \in Unstarted
             /\ inst'.st[s] = "pending" =>
                  inst.st[s] = "pending" /\ \A e \in Escs' \ Escs : inst'.escs[e].step # s
  BY <1>2 DEF Ended, Unstarted, Escs
<1>6. ASSUME NEW s \in Steps, NEW d \in inst.defn.deps[s] \ redone,
             inst.st[d] \in Done, inst'.st[d] \notin Done
      PROVE  inst'.st[s] \notin {"running", "failed"}
  <2>1. d \in Steps
    BY <1>3
  <2>2. d \in S
    BY <1>2, <2>1, <1>6
  <2> QED
    BY <1>2, <2>2, <1>6
<1>7. QuietStep
  BY <1>2, <1>4, <1>5, <1>6 DEF QuietStep, Kept
<1> QED
  BY <1>2, <1>7 DEF NoNewFailure, Kept

\* The transition table keeps a DONE step from being queued again.
LEMMA DoneStays ==
  ASSUME NEW src \in Done, NEW dst \in {"skipped", "completed", "ready"},
         StepTransitionAllowed(src, dst)
  PROVE  dst \in Done
BY DEF Done, StepTransitionAllowed, StepTransitions, StepStatuses

\* An answer the fold accepts, with or without a new budget.
LEMMA ResolvedQuiet ==
  ASSUME TypeOK, NEW e \in Escs, NEW answer \in Answers, ResolveAllowed(inst, e, answer),
         NEW limit \in Nat, inst' = [Resolved(inst, e, answer) EXCEPT !.limit = limit],
         redone' = redone, inst.status # "rolled_back"
  PROVE  /\ QuietStep /\ NoNewFailure /\ Len(inst.escs) <= Len(inst'.escs)
         /\ inst' \in Instances /\ inst'.status # "dead_lettered"
<1> DEFINE j == Resolved(inst, e, answer)
           s == inst.escs[e].step
           to == IF answer = "skip" THEN "skipped"
                 ELSE IF inst.out[s] THEN "completed" ELSE "ready"
<1>1. inst \in Instances
  BY DEF TypeOK
<1>2. /\ j \in Instances
      /\ j.status \in {"failed", "rolled_back", "running"}
      /\ j.st = IF s = 0 \/ answer = "abort" THEN inst.st
                ELSE [t \in Steps |-> IF t = s THEN to ELSE inst.st[t]]
      /\ Len(j.escs) = Len(inst.escs) /\ Len(inst.escs) \in Nat
      /\ \A k \in 1 .. Len(inst.escs) :
           /\ j.escs[k].step = inst.escs[k].step
           /\ k # e => j.escs[k] = inst.escs[k]
      /\ ~j.escs[e].open /\ j.escs[e].answers = inst.escs[e].answers \cup {answer}
      /\ Kept(inst, j)
  BY <1>1, ResolvedFacts DEF Escs
<1>3. /\ inst' \in Instances /\ inst'.status = j.status /\ inst'.st = j.st
      /\ inst'.escs = j.escs /\ inst'.defn = inst.defn /\ inst'.att = inst.att
      /\ inst'.retry = inst.retry /\ inst'.err = inst.err /\ inst'.out = inst.out
  <2>1. inst' = [j EXCEPT !.limit = limit]
    OBVIOUS
  <2> HIDE DEF j
  <2> QED
    BY <1>2, <2>1 DEF Instances, Kept
<1>4. (s # 0 /\ answer # "abort") => StepTransitionAllowed(inst.st[s], j.st[s])
  BY DEF ResolveAllowed
<1> HIDE DEF j
<1>5. inst.defn.deps \in [Steps -> SUBSET Steps] /\ s \in 0 .. N /\ inst.out \in [Steps -> BOOLEAN]
  <2>1. inst.escs \in Seq(EscRefs) /\ inst.escs[e] \in EscRefs
    BY <1>1, InstanceFields DEF Escs
  <2> QED
    BY <1>1, <2>1, InstanceFields, DefinitionFields DEF EscRefs
<1>6. EscsGrow
  BY <1>2, <1>3 DEF EscsGrow, Escs
<1>7. Escs' = Escs
  BY <1>2, <1>3 DEF Escs
<1>8. CASE s = 0 \/ answer = "abort"
  <2>1. inst'.st = inst.st
    BY <1>2, <1>3, <1>8
  <2>2. QuietStep
    BY <1>3, <1>6, <1>7, <2>1 DEF QuietStep
  <2> QED
    BY <1>2, <1>3, <2>1, <2>2 DEF NoNewFailure
<1>9. CASE s # 0 /\ answer # "abort"
  <2>1. s \in Steps
    BY <1>5, <1>9 DEF Steps
  <2>2. inst'.st = [t \in Steps |-> IF t = s THEN to ELSE inst.st[t]]
    BY <1>2, <1>3, <1>9
  <2>3. inst'.st[s] = to /\ \A t \in Steps \ {s} : inst'.st[t] = inst.st[t]
    BY <2>1, <2>2
  <2>4. to \in {"skipped", "completed", "ready"} /\ (inst.out[s] => to # "ready")
    OBVIOUS
  <2>5. inst.st[s] \in Done => to \in Done
    BY <1>3, <1>4, <1>9, <2>3, <2>4, DoneStays
  <2>6. ASSUME NEW t \in Steps, t = s, ~Cleared(t)'
        PROVE  to = "skipped"
    <3> SUFFICES ASSUME answer # "skip"
                 PROVE  Cleared(t)'
      BY <2>6
    <3>1. answer = "approve"
      BY <1>9 DEF Answers
    <3> QED
      BY <1>2, <1>3, <1>7, <2>6, <3>1 DEF Cleared, Escs
  <2> HIDE DEF to
  <2>7. \A t \in Steps :
          /\ inst'.st[t] \in {"running", "failed"} => inst.st[t] = inst'.st[t]
          /\ inst.st[t] \in Ended /\ inst.out[t] => inst'.st[t] \in Ended
          /\ inst.st[t] \in Unstarted /\ ~Cleared(t)' => inst'.st[t] \in Unstarted
          /\ inst'.st[t] = "pending" => inst.st[t] = "pending"
          /\ inst.st[t] \in Done => inst'.st[t] \in Done
    <3> TAKE t \in Steps
    <3>1. CASE t = s
      BY <3>1, <2>3, <2>4, <2>5, <2>6 DEF Ended, Unstarted
    <3>2. CASE t # s
      BY <3>2, <2>3
    <3> QED
      BY <3>1, <3>2
  <2>8. \A t \in Steps : inst.defn.deps[t] \in SUBSET Steps
    BY <1>5
  <2>9. QuietStep
    BY <1>3, <1>6, <1>7, <2>7, <2>8 DEF QuietStep
  <2>10. NoNewFailure
    BY <1>3, <2>7 DEF NoNewFailure
  <2> QED
    BY <1>2, <1>3, <2>9, <2>10
<1> QED
  BY <1>8, <1>9
-----------------------------------------------------------------------------
(***************************************************************************)
(* One lemma per group of actions.                                         *)
(***************************************************************************)

\* What a fresh worker that plans knows.
LEMMA PlanView ==
  ASSUME IInv, NEW w \in Workers, wk[w].pc = "plan", wk[w].fresh
  PROVE  TypeOK /\ inst \in Instances /\ \A s \in Steps : inst.st[s] # "running"
BY DEF IInv, TypeOK, FreshView, ViewOf, StepsIn

\* Claims, returns, lost races, releases and crashes append nothing.
LEMMA LocalActions ==
  ASSUME IInv, NEW w \in Workers,
         Claim(w) \/ Return(w) \/ LoseRace(w) \/ Release(w) \/ Crash(w)
  PROVE  IInv'
<1>1. TypeOK
  BY DEF IInv
<1>2. holder \in Workers \cup {NoWorker} /\ faults \in 0 .. MaxFaults /\ MaxFaults \in Nat
  BY <1>1, WorldAssumption DEF TypeOK
<1>3. /\ IdleWorker \in Drives /\ IdleWorker.pc = "idle" /\ ~IdleWorker.fresh
      /\ \A pc \in {"plan", "recover", "release"} : At(pc) \in Drives /\ At(pc).pc = pc
      /\ [IdleWorker EXCEPT !.pc = "release"] \in Drives
      /\ [IdleWorker EXCEPT !.pc = "release"].pc = "release"
      /\ ~[IdleWorker EXCEPT !.pc = "release"].fresh
  BY DriveFacts DEF Pcs
<1>4. CASE Claim(w)
  <2> DEFINE rec == At(IF StepsIn({"running"}) = {} THEN "plan" ELSE "recover")
  <2>1. rec \in Drives /\ rec.pc \in {"plan", "recover"}
    BY <1>3
  <2>2. rec.pc = "plan" => StepsIn({"running"}) = {}
    BY <1>3
  <2>3. /\ wk' = [wk EXCEPT ![w] = rec] /\ inst' = inst /\ UNCHANGED <<dlq, asked, redone, human>>
        /\ holder' = w /\ faults' = faults /\ cut' = cut /\ wk[w].pc = "idle"
        /\ inst.status \in RunnableStatuses
    BY <1>4 DEF Claim, history
  <2> HIDE DEF rec
  <2> QED
    BY <1>2, <2>1, <2>2, <2>3, LocalStep
<1>5. CASE Return(w)
  <2>1. wk[w].pc = "plan" /\ wk[w].fresh
    BY <1>5 DEF Return
  <2>2. StepsIn({"running"}) = {}
    BY <2>1, PlanView DEF StepsIn
  <2>3. /\ wk' = [wk EXCEPT ![w] = At("release")] /\ inst' = inst
        /\ UNCHANGED <<dlq, asked, redone, human>>
        /\ holder' = holder /\ faults' = faults /\ cut' = cut
    BY <1>5 DEF Return, history
  <2> QED
    BY <1>2, <1>3, <2>1, <2>2, <2>3, LocalStep
<1>6. CASE LoseRace(w)
  <2> DEFINE rec == [IdleWorker EXCEPT !.pc = "release"]
  <2>1. /\ wk' = [wk EXCEPT ![w] = rec] /\ inst' = inst /\ UNCHANGED <<dlq, asked, redone, human>>
        /\ holder' = holder /\ faults' = faults /\ cut' = cut \cup FollowUps(w)
    BY <1>6 DEF LoseRace
  <2>2. rec \in Drives /\ rec.pc = "release" /\ ~rec.fresh
    BY <1>3
  <2> HIDE DEF rec
  <2> QED
    BY <1>2, <2>1, <2>2, LocalStep
<1>7. CASE Release(w)
  <2>1. /\ wk' = [wk EXCEPT ![w] = IdleWorker] /\ inst' = inst
        /\ UNCHANGED <<dlq, asked, redone, human>>
        /\ holder' \in Workers \cup {NoWorker} /\ faults' = faults /\ cut' = cut
        /\ wk[w].pc = "release"
    BY <1>2, <1>7 DEF Release, history
  <2> QED
    BY <1>2, <1>3, <2>1, LocalStep
<1>8. CASE Crash(w)
  <2>1. /\ wk' = [wk EXCEPT ![w] = IdleWorker] /\ inst' = inst
        /\ UNCHANGED <<dlq, asked, redone, human>>
        /\ holder' \in Workers \cup {NoWorker} /\ cut' = cut \cup FollowUps(w)
        /\ faults' \in 0 .. MaxFaults
    BY <1>2, <1>8 DEF Crash, UseFault
  <2> QED
    BY <1>3, <2>1, LocalStep
<1> QED
  BY <1>4, <1>5, <1>6, <1>7, <1>8

\* Appends that change no more than the status of the workflow.
LEMMA StatusActions ==
  ASSUME IInv, NEW w \in Workers,
         Start(w) \/ BlockOnBudget(w) \/ Complete(w) \/ Park(w) \/ PauseOnFailure(w)
  PROVE  IInv'
<1>1. \E to \in {"running", "paused", "completed", "retrying"}, pc \in {"plan", "release"} :
        /\ DriverAppend(w, SetStatus(inst, to), At(pc))
        /\ UNCHANGED <<holder, dlq, history, faults, human>>
  BY DEF Start, BlockOnBudget, Complete, Park, PauseOnFailure, EndDrive
<1>2. wk[w].pc = "plan" /\ wk[w].fresh /\ inst.status # "rolled_back"
  BY DEF Start, BlockOnBudget, Complete, Park, PauseOnFailure, Plans, Fails
<1>3. PICK to \in {"running", "paused", "completed", "retrying"}, pc \in {"plan", "release"} :
        /\ DriverAppend(w, SetStatus(inst, to), At(pc))
        /\ UNCHANGED <<holder, dlq, history, faults, human>>
  BY <1>1
<1> DEFINE new == SetStatus(inst, to)
<1>4. TypeOK /\ inst \in Instances /\ \A s \in Steps : inst.st[s] # "running"
  BY <1>2, PlanView
<1>5. to \in WorkflowStatuses /\ to # "dead_lettered"
  BY DEF WorkflowStatuses
<1>6. new \in Instances /\ new.status = to /\ new.st = inst.st
  BY <1>4, <1>5, SetStatusFacts
<1>7. inst' = new /\ redone' = redone
  BY <1>3 DEF DriverAppend, history
<1>8. QuietStep /\ NoNewFailure /\ Len(inst.escs) <= Len(new.escs)
  BY <1>2, <1>4, <1>5, <1>7, StatusQuiet
<1>9. DriverAppend(w, new, At(pc))
  BY <1>3
<1> HIDE DEF new
<1> QED
  BY <1>2, <1>3, <1>4, <1>5, <1>6, <1>8, <1>9, PlanAppend

\* A failure the plan acts on is that of a step.
LEMMA FailureIn ==
  ASSUME TypeOK, ~NoFailure
  PROVE  Failure \in Steps /\ inst.st[Failure] = "failed" /\ inst.retry[Failure] = "none"
<1>1. TerminalFailures \in SUBSET Nat /\ TerminalFailures # {}
  BY RunningFinite DEF NoFailure, TerminalFailures, StepsIn
<1>2. Failure \in TerminalFailures
  BY <1>1, MinIn DEF Failure
<1> QED
  BY <1>2 DEF TerminalFailures, StepsIn

\* Appends of the plan that ask a human.
LEMMA EscalateActions ==
  ASSUME IInv, NEW w \in Workers,
         \/ EscalateForApproval(w) \/ EscalateCostThreshold(w) \/ EscalateMaxRetries(w)
         \/ Fails(w) /\ EndDrive(w, Raise(inst, {0}, "compensation_failed", "none", "abort"))
  PROVE  IInv'
<1>1. wk[w].pc = "plan" /\ wk[w].fresh /\ inst.status = "running"
  BY DEF EscalateForApproval, EscalateCostThreshold, EscalateMaxRetries, Plans, Fails
<1>2. TypeOK /\ inst \in Instances /\ \A s \in Steps : inst.st[s] # "running"
  BY <1>1, PlanView
<1>3. 0 .. N \in SUBSET Nat /\ 0 \in 0 .. N /\ \A s \in Steps : s \in 0 .. N /\ s # 0
  BY RunningFinite DEF Steps
<1>4. inst.defn \in Definitions /\ inst.defn.auto_action \in Answers /\ "abort" \in Answers
  BY <1>2, InstanceFields, DefinitionFields DEF Answers
<1>5. \E S \in SUBSET (0 .. N), reason \in EscalationReasons, deadline \in {"none", "set"},
         action \in Answers :
        /\ EndDrive(w, Raise(inst, S, reason, deadline, action))
        /\ \A s \in S \cap Steps : inst.st[s] \notin Done
  <2>1. CASE EscalateForApproval(w)
    <3>1. /\ ApprovalNeeded \in SUBSET (0 .. N)
          /\ \A s \in ApprovalNeeded \cap Steps : inst.st[s] \notin Done
      BY <1>3 DEF ApprovalNeeded, Candidates, StepsIn, Done
    <3>2. /\ "explicit_approval" \in EscalationReasons
          /\ (IF inst.defn.timeout THEN "set" ELSE "none") \in {"none", "set"}
      BY DEF EscalationReasons
    <3> QED
      BY <2>1, <1>4, <3>1, <3>2 DEF EscalateForApproval
  <2>2. CASE EscalateCostThreshold(w)
    <3>1. Failure \in Steps /\ inst.st[Failure] \notin Done
      BY <2>2, <1>2, FailureIn DEF EscalateCostThreshold, Fails, Done
    <3>2. "cost_threshold" \in EscalationReasons
      BY DEF EscalationReasons
    <3>3. {Failure} \in SUBSET (0 .. N) /\ \A s \in {Failure} \cap Steps : inst.st[s] \notin Done
      BY <1>3, <3>1
    <3> QED
      BY <2>2, <1>4, <3>2, <3>3 DEF EscalateCostThreshold
  <2>3. CASE EscalateMaxRetries(w)
    <3>1. Failure \in Steps /\ inst.st[Failure] \notin Done
      BY <2>3, <1>2, FailureIn DEF EscalateMaxRetries, Fails, Done
    <3>2. "max_retries" \in EscalationReasons
      BY DEF EscalationReasons
    <3>3. {Failure} \in SUBSET (0 .. N) /\ \A s \in {Failure} \cap Steps : inst.st[s] \notin Done
      BY <1>3, <3>1
    <3> QED
      BY <2>3, <1>4, <3>2, <3>3 DEF EscalateMaxRetries
  <2>4. CASE EndDrive(w, Raise(inst, {0}, "compensation_failed", "none", "abort"))
    <3>1. "compensation_failed" \in EscalationReasons
      BY DEF EscalationReasons
    <3>2. {0} \in SUBSET (0 .. N) /\ \A s \in {0} \cap Steps : inst.st[s] \notin Done
      BY <1>3
    <3> QED
      BY <2>4, <1>4, <3>1, <3>2
  <2> QED
    BY <2>1, <2>2, <2>3, <2>4
<1>6. PICK S \in SUBSET (0 .. N), reason \in EscalationReasons, deadline \in {"none", "set"},
           action \in Answers :
        /\ EndDrive(w, Raise(inst, S, reason, deadline, action))
        /\ \A s \in S \cap Steps : inst.st[s] \notin Done
  BY <1>5
<1> DEFINE new == Raise(inst, S, reason, deadline, action)
<1>7. /\ DriverAppend(w, new, At("release"))
      /\ UNCHANGED <<holder, dlq, history, faults, human>>
      /\ inst' = new /\ redone' = redone
  BY <1>6 DEF EndDrive, DriverAppend, history
<1>8. \A s \in Steps : inst.defn.deps[s] \in SUBSET Steps
  BY <1>4, DefinitionFields
<1>9. /\ QuietStep /\ NoNewFailure /\ Len(inst.escs) <= Len(inst'.escs)
      /\ inst' \in Instances /\ inst'.status = "waiting_approval"
      /\ \A s \in Steps : inst'.st[s] = IF s \in S THEN "waiting_approval" ELSE inst.st[s]
  BY <1>1, <1>2, <1>6, <1>7, <1>8, RaiseQuiet
<1> HIDE DEF new
<1> QED
  BY <1>1, <1>2, <1>7, <1>9, PlanAppend

\* _rollback: only what is COMPLETED is compensated, and the instance is final.
LEMMA RollbackAction ==
  ASSUME IInv, NEW w \in Workers, Rollback(w)
  PROVE  IInv'
<1>1. CASE EndDrive(w, Raise(inst, {0}, "compensation_failed", "none", "abort"))
  BY <1>1, EscalateActions DEF Rollback
<1>2. CASE EndDrive(w, SetStatus(SetSteps(inst, ToCompensate, "compensated"), "rolled_back"))
  <2> DEFINE mid == SetSteps(inst, ToCompensate, "compensated")
             new == SetStatus(mid, "rolled_back")
  <2>1. wk[w].pc = "plan" /\ wk[w].fresh /\ inst.status = "running"
    BY DEF Rollback, Fails, Plans
  <2>2. TypeOK /\ inst \in Instances /\ \A s \in Steps : inst.st[s] # "running"
    BY <2>1, PlanView
  <2>3. "compensated" \in StepStatuses /\ "rolled_back" \in WorkflowStatuses
    BY DEF StepStatuses, WorkflowStatuses
  <2>4. /\ mid \in Instances /\ mid.escs = inst.escs /\ Kept(inst, mid)
        /\ mid.st = [s \in Steps |-> IF s \in ToCompensate THEN "compensated" ELSE inst.st[s]]
    BY <2>2, <2>3, SetStepsFacts
  <2>5. /\ new \in Instances /\ new.status = "rolled_back" /\ new.st = mid.st
        /\ new.escs = mid.escs /\ Kept(mid, new)
    <3> HIDE DEF mid
    <3> QED
      BY <2>3, <2>4, SetStatusFacts
  <2>6. /\ DriverAppend(w, new, At("release"))
        /\ UNCHANGED <<holder, dlq, history, faults, human>>
        /\ inst' = new /\ redone' = redone
    BY <1>2 DEF EndDrive, DriverAppend, history
  <2> HIDE DEF mid, new
  <2>7. inst'.escs = inst.escs /\ Kept(inst, inst')
    BY <2>4, <2>5, <2>6 DEF Kept
  <2>8. \A s \in Steps : \/ inst'.st[s] = inst.st[s]
                         \/ inst.st[s] = "completed" /\ inst'.st[s] = "compensated"
    BY <2>4, <2>5, <2>6 DEF ToCompensate
  <2>9. EscsGrow /\ Escs' = Escs
    BY <2>7 DEF EscsGrow, Escs
  <2>10. QuietStep
    BY <2>1, <2>2, <2>5, <2>6, <2>7, <2>8, <2>9 DEF QuietStep, Kept, Ended, Unstarted
  <2>11. NoNewFailure
    BY <2>7, <2>8 DEF NoNewFailure, Kept
  <2>12. Len(inst.escs) <= Len(new.escs)
    BY <2>2, <2>6, <2>7, InstanceFields
  <2>13. \A s \in Steps : new.st[s] # "running"
    BY <2>2, <2>6, <2>8
  <2> QED
    BY <2>1, <2>5, <2>6, <2>10, <2>11, <2>12, <2>13, PlanAppend
<1> QED
  BY <1>1, <1>2 DEF Rollback

\* _recover_in_flight: what was RUNNING is READY again.
LEMMA RecoverAction ==
  ASSUME IInv, NEW w \in Workers, Recover(w)
  PROVE  IInv'
<1> DEFINE new == SetSteps(inst, StepsIn({"running"}), "ready")
<1>1. wk[w].pc = "recover" /\ wk[w].fresh /\ TypeOK /\ inst \in Instances
  BY DEF Recover, IInv, TypeOK
<1>2. inst.status \in RunnableStatuses
  BY <1>1 DEF IInv, FreshView, ViewOf
<1>3. "ready" \in StepStatuses
  BY DEF StepStatuses
<1>4. /\ new \in Instances /\ new.escs = inst.escs /\ new.status = inst.status
      /\ Kept(inst, new)
      /\ new.st = [s \in Steps |-> IF s \in StepsIn({"running"}) THEN "ready" ELSE inst.st[s]]
  BY <1>1, <1>3, SetStepsFacts
<1>5. /\ DriverAppend(w, new, At("plan"))
      /\ UNCHANGED <<holder, dlq, history, faults, human>>
      /\ inst' = new /\ redone' = redone
  BY DEF Recover, DriverAppend, history
<1> HIDE DEF new
<1>6. \A s \in Steps : IF inst.st[s] = "running" THEN inst'.st[s] = "ready"
                                                 ELSE inst'.st[s] = inst.st[s]
  BY <1>4, <1>5 DEF StepsIn
<1>7. EscsGrow /\ Escs' = Escs
  BY <1>4, <1>5 DEF EscsGrow, Escs
<1>8. \A s \in Steps : inst.defn.deps[s] \in SUBSET Steps
  BY <1>1, InstanceFields, DefinitionFields
<1>9. QuietStep
  BY <1>2, <1>4, <1>5, <1>6, <1>7, <1>8
     DEF QuietStep, Kept, Ended, Unstarted, Done, RunnableStatuses
<1>10. NoNewFailure
  BY <1>4, <1>5, <1>6 DEF NoNewFailure, Kept
<1>11. Len(inst.escs) <= Len(new.escs)
  BY <1>1, <1>4, InstanceFields
<1>12. \A s \in Steps : new.st[s] # "running"
  BY <1>5, <1>6
<1>13. new.status = "dead_lettered" => inst.status = "dead_lettered"
  BY <1>4
<1> QED
  BY <1>1, <1>4, <1>5, <1>9, <1>10, <1>11, <1>12, <1>13, PlanAppend

\* Steps of the world that leave the instance, the drives and the rows alone.
LEMMA WorldStep ==
  ASSUME IInv, UNCHANGED <<inst, wk, history>>, holder' \in Workers \cup {NoWorker},
         desk' \subseteq Escs, sweep' \subseteq Escs, faults' \in 0 .. MaxFaults,
         ops' \in 0 .. MaxOps,
         \/ UNCHANGED <<dlq, requeued>>
         \/ dlq' = dlq /\ requeued' = 0
         \/ /\ requeued \in DOMAIN dlq /\ requeued' = 0
            /\ dlq' = [dlq EXCEPT ![requeued].resolved = TRUE]
  PROVE  IInv'
<1>1. TypeOK
  BY DEF IInv
<1>2. /\ dlq' \in Seq(DeadLetterRows) /\ DOMAIN dlq' = DOMAIN dlq
      /\ requeued' \in 0 .. Len(dlq')
      /\ \A k \in DOMAIN dlq : /\ dlq'[k].step = dlq[k].step
                               /\ k # requeued => dlq'[k] = dlq[k]
  <2>1. dlq \in Seq(DeadLetterRows) /\ requeued \in 0 .. Len(dlq) /\ Len(dlq) \in Nat
    BY <1>1 DEF TypeOK
  <2>2. CASE dlq' = dlq
    BY <2>1, <2>2
  <2>3. CASE /\ requeued \in DOMAIN dlq /\ requeued' = 0
             /\ dlq' = [dlq EXCEPT ![requeued].resolved = TRUE]
    <3> DEFINE row == [dlq[requeued] EXCEPT !.resolved = TRUE]
    <3>1. requeued \in 1 .. Len(dlq)
      BY <2>1, <2>3
    <3>2. dlq[requeued] \in DeadLetterRows
      BY <2>1, <3>1
    <3>3. row \in DeadLetterRows /\ row.step = dlq[requeued].step
      BY <3>2 DEF DeadLetterRows
    <3>4. dlq' = [dlq EXCEPT ![requeued] = row]
      BY <2>3
    <3> HIDE DEF row
    <3>5. dlq' \in Seq(DeadLetterRows) /\ DOMAIN dlq' = DOMAIN dlq /\ Len(dlq') = Len(dlq)
      BY <2>1, <3>1, <3>3, <3>4
    <3>6. \A k \in DOMAIN dlq : /\ dlq'[k].step = dlq[k].step
                                /\ k # requeued => dlq'[k] = dlq[k]
      BY <2>1, <3>3, <3>4
    <3> QED
      BY <2>1, <2>3, <3>5, <3>6
  <2> QED
    BY <2>2, <2>3
<1>3. Escs' = Escs
  BY DEF Escs
<1>4. TypeOK'
  BY <1>1, <1>2, <1>3 DEF TypeOK, history
<1>5. FreshView' /\ DeadLetterNamed' /\ RetriesAreScheduled' /\ ReviewsAreRaised'
  BY DEF IInv, FreshView, ViewOf, StepsIn, InWave, DeadLetterNamed, RetriesAreScheduled,
         ReviewsAreRaised, TerminalFailures, history
<1>6. InstanceOK'
  BY <1>1, StillQuiet, QuietKeeps DEF IInv, history
<1>7. DeadLettersCleared'
  <2>1. \A s \in Steps : DeadLettered(s)' => DeadLettered(s)
    BY <1>2 DEF DeadLettered
  <2>2. \A s \in Steps : Cleared(s)' <=> Cleared(s)
    BY <1>3 DEF Cleared
  <2> QED
    BY <2>1, <2>2 DEF IInv, DeadLettersCleared
<1>8. RowLeft'
  <2>1. ASSUME NEW k \in DOMAIN dlq, ~dlq[k].resolved, k # requeued
        PROVE  k \in DOMAIN dlq' /\ ~dlq'[k].resolved /\ k # requeued'
    <3>1. k # 0
      BY <1>1 DEF TypeOK
    <3> QED
      BY <1>2, <2>1, <3>1
  <2> QED
    BY <2>1 DEF IInv, RowLeft, history
<1> QED
  BY <1>4, <1>5, <1>6, <1>7, <1>8 DEF IInv

\* Leases that lapse, reads of the desk and the sweep, the second half of a requeue.
LEMMA WorldActions ==
  ASSUME IInv,
         \/ LeaseLapses \/ SweepRead \/ MarkResolved \/ RequeueCutShort
         \/ \E e \in Escs : DeskRead(e) \/ ResolveRejected(e)
  PROVE  IInv'
<1>1. TypeOK
  BY DEF IInv
<1>2. /\ holder \in Workers \cup {NoWorker} /\ desk \subseteq Escs /\ sweep \subseteq Escs
      /\ faults \in 0 .. MaxFaults /\ ops \in 0 .. MaxOps /\ MaxFaults \in Nat /\ MaxOps \in Nat
      /\ requeued \in 0 .. Len(dlq) /\ DOMAIN dlq = 1 .. Len(dlq) /\ Len(dlq) \in Nat
  BY <1>1, WorldAssumption DEF TypeOK
<1>3. CASE LeaseLapses
  BY <1>2, <1>3, WorldStep DEF LeaseLapses, UseFault, human, history
<1>4. CASE SweepRead
  <2>1. Due \subseteq Escs
    BY DEF Due, OpenEscs
  <2> QED
    BY <1>2, <1>4, <2>1, WorldStep DEF SweepRead, history
<1>5. CASE MarkResolved
  <2>1. requeued \in DOMAIN dlq
    BY <1>2, <1>5 DEF MarkResolved
  <2> QED
    BY <1>2, <1>5, <2>1, WorldStep DEF MarkResolved, history
<1>6. CASE RequeueCutShort
  BY <1>2, <1>6, WorldStep DEF RequeueCutShort, UseFault, history
<1>7. CASE \E e \in Escs : DeskRead(e)
  BY <1>2, <1>7, WorldStep DEF DeskRead, UseOp, history
<1>8. CASE \E e \in Escs : ResolveRejected(e)
  BY <1>2, <1>8, WorldStep DEF ResolveRejected, history
<1> QED
  BY <1>3, <1>4, <1>5, <1>6, <1>7, <1>8

\* Time passes: a retry falls due, or a deadline is over.  No append.
LEMMA TickAction ==
  ASSUME IInv, Tick
  PROVE  IInv'
<1>1. TypeOK /\ inst \in Instances /\ inst.escs \in Seq(EscRefs)
  BY InstanceFields DEF IInv, TypeOK
<1>2. UNCHANGED <<wk, holder, dlq, faults, desk, sweep, requeued, ops, asked, cut, redone>>
  BY DEF Tick, history, human
<1>3. /\ inst' \in Instances
      /\ inst'.defn = inst.defn /\ inst'.status = inst.status /\ inst'.st = inst.st
      /\ inst'.att = inst.att /\ inst'.out = inst.out /\ inst'.err = inst.err
      /\ inst'.spent = inst.spent /\ inst'.limit = inst.limit
      /\ Len(inst'.escs) = Len(inst.escs) /\ Len(inst.escs) \in Nat
      /\ \A e \in 1 .. Len(inst.escs) : /\ inst'.escs[e].step = inst.escs[e].step
                                        /\ inst'.escs[e].answers = inst.escs[e].answers
      /\ \A s \in Steps : inst'.retry[s] = "none" => inst.retry[s] = "none"
  <2>1. CASE \E s \in Steps : /\ inst.retry[s] = "later"
                              /\ inst' = [inst EXCEPT !.retry[s] = "due"]
    <3>1. PICK s \in Steps : inst' = [inst EXCEPT !.retry[s] = "due"]
      BY <2>1
    <3> DEFINE retry == [inst.retry EXCEPT ![s] = "due"]
    <3>2. inst' = [inst EXCEPT !.retry = retry]
      BY <1>1, <3>1 DEF Instances
    <3>3. inst.retry \in [Steps -> {"none", "later", "due"}] /\ Len(inst.escs) \in Nat
      BY <1>1, InstanceFields
    <3>4. retry \in [Steps -> {"none", "later", "due"}] /\ retry[s] = "due"
          /\ \A u \in Steps : u # s => retry[u] = inst.retry[u]
      BY <3>3
    <3> HIDE DEF retry
    <3>5. /\ inst' \in Instances /\ inst'.retry = retry
          /\ inst'.defn = inst.defn /\ inst'.status = inst.status /\ inst'.st = inst.st
          /\ inst'.att = inst.att /\ inst'.out = inst.out /\ inst'.err = inst.err
          /\ inst'.spent = inst.spent /\ inst'.limit = inst.limit /\ inst'.escs = inst.escs
      BY <1>1, <3>2, <3>4 DEF Instances
    <3>6. \A u \in Steps : inst'.retry[u] = "none" => inst.retry[u] = "none"
      BY <3>4, <3>5
    <3> QED
      BY <3>3, <3>5, <3>6
  <2>2. CASE \E e \in Escs : /\ inst.escs[e].deadline = "set"
                             /\ inst' = [inst EXCEPT !.escs[e].deadline = "passed"]
    <3>1. PICK e \in Escs : inst' = [inst EXCEPT !.escs[e].deadline = "passed"]
      BY <2>2
    <3> DEFINE ref == [inst.escs[e] EXCEPT !.deadline = "passed"]
               escs == [inst.escs EXCEPT ![e] = ref]
    <3>2. inst.escs[e] \in EscRefs
      BY <1>1 DEF Escs
    <3>3. ref \in EscRefs /\ ref.step = inst.escs[e].step /\ ref.answers = inst.escs[e].answers
      BY <3>2 DEF EscRefs
    <3>4. inst' = [inst EXCEPT !.escs = escs]
      BY <1>1, <3>1 DEF Instances
    <3> HIDE DEF ref
    <3>5. escs \in Seq(EscRefs) /\ Len(escs) = Len(inst.escs) /\ Len(inst.escs) \in Nat
      BY <1>1, <3>3 DEF Escs
    <3>6. \A k \in 1 .. Len(inst.escs) : /\ escs[k].step = inst.escs[k].step
                                         /\ escs[k].answers = inst.escs[k].answers
      BY <1>1, <3>3 DEF Escs
    <3> HIDE DEF escs
    <3> QED
      BY <1>1, <3>4, <3>5, <3>6 DEF Instances
  <2> QED
    BY <2>1, <2>2 DEF Tick
<1>4. Escs' = Escs
  BY <1>3 DEF Escs
<1>5. EscsGrow
  BY <1>3, <1>4 DEF EscsGrow, Escs
<1>6. QuietStep
  BY <1>2, <1>3, <1>4, <1>5 DEF QuietStep
<1>7. NoNewFailure
  BY <1>3 DEF NoNewFailure
<1>8. TypeOK'
  BY <1>1, <1>2, <1>3, <1>4 DEF TypeOK
<1>9. FreshView'
  BY <1>2, <1>3 DEF IInv, FreshView, ViewOf, StepsIn, InWave
<1>10. InstanceOK'
  BY <1>1, <1>6, QuietKeeps DEF IInv
<1>11. DeadLetterNamed' /\ ReviewsAreRaised' /\ RowLeft'
  BY <1>2, <1>3 DEF IInv, DeadLetterNamed, ReviewsAreRaised, RowLeft
<1>12. DeadLettersCleared'
  BY <1>2, <1>3, <1>5, ClearedKept DEF IInv
<1>13. RetriesAreScheduled'
  BY <1>2, <1>3, <1>7, RetriesKept DEF IInv
<1> QED
  BY <1>8, <1>9, <1>10, <1>11, <1>12, <1>13 DEF IInv

\* An answer of a human or of the sweep, and the operator's pause, resume, abort.
LEMMA HumanActions ==
  ASSUME IInv,
         \/ \E e \in Escs : Resolve(e) \/ SweepFire(e)
         \/ \E to \in Targets : Control(to)
  PROVE  IInv'
<1>1. TypeOK /\ inst \in Instances /\ ops \in 0 .. MaxOps /\ MaxOps \in Nat
  BY WorldAssumption DEF IInv, TypeOK
<1>2. inst.limit \in Nat /\ NewBudgets \subseteq Nat /\ Resolutions \subseteq Answers
  BY <1>1, InstanceFields, WorldAssumption
<1>3. ASSUME NEW e \in Escs, NEW answer \in Answers, NEW limit \in Nat,
             ResolveAllowed(inst, e, answer), inst.status = "waiting_approval",
             OperatorAppend([Resolved(inst, e, answer) EXCEPT !.limit = limit]),
             UNCHANGED <<holder, dlq, requeued, history, faults, ops>>,
             desk' \subseteq desk, sweep' \subseteq sweep
      PROVE  IInv'
  <2> DEFINE new == [Resolved(inst, e, answer) EXCEPT !.limit = limit]
  <2>1. inst' = new /\ redone' = redone
    BY <1>3 DEF OperatorAppend, history
  <2>2. inst.status # "rolled_back"
    BY <1>3
  <2>3. /\ QuietStep /\ NoNewFailure /\ Len(inst.escs) <= Len(inst'.escs)
        /\ inst' \in Instances /\ inst'.status # "dead_lettered"
    BY <1>1, <1>3, <2>1, <2>2, ResolvedQuiet
  <2>4. OperatorAppend(new) /\ UNCHANGED <<holder, dlq, requeued, history, faults>>
    BY <1>3
  <2> HIDE DEF new
  <2> QED
    BY <1>1, <1>3, <2>1, <2>3, <2>4, HumanAppend
<1>4. ASSUME NEW e \in Escs, Resolve(e)
      PROVE  IInv'
  <2>1. PICK answer \in Resolutions, limit \in NewBudgets \cup {inst.limit} :
          /\ ResolveAllowed(inst, e, answer)
          /\ OperatorAppend([Resolved(inst, e, answer) EXCEPT !.limit = limit])
    BY <1>4 DEF Resolve
  <2>2. answer \in Answers /\ limit \in Nat
    BY <1>2
  <2>3. /\ inst.status = "waiting_approval" /\ desk' \subseteq desk /\ sweep' \subseteq sweep
        /\ UNCHANGED <<holder, dlq, requeued, history, faults, ops>>
    BY <1>4 DEF Resolve
  <2> QED
    BY <1>3, <2>1, <2>2, <2>3
<1>5. ASSUME NEW e \in Escs, SweepFire(e)
      PROVE  IInv'
  <2>1. /\ desk' \subseteq desk /\ sweep' \subseteq sweep
        /\ UNCHANGED <<holder, dlq, requeued, history, faults, ops>>
    BY <1>5 DEF SweepFire
  <2>2. CASE inst.status = "waiting_approval" /\ ResolveAllowed(inst, e, inst.escs[e].action)
    <3> DEFINE answer == inst.escs[e].action
               j == Resolved(inst, e, answer)
    <3>1. answer \in Answers
      <4>1. inst.escs[e] \in EscRefs
        BY <1>1, InstanceFields DEF Escs
      <4> QED
        BY <4>1 DEF EscRefs
    <3>2. j \in Instances /\ j.limit = inst.limit
      <4>1. e \in 1 .. Len(inst.escs)
        BY DEF Escs
      <4> HIDE DEF answer
      <4>2. j \in Instances /\ Kept(inst, j)
        BY <1>1, <3>1, <4>1, ResolvedFacts, Zenon
      <4> HIDE DEF j
      <4> QED
        BY <4>2 DEF Kept
    <3>3. j = [j EXCEPT !.limit = inst.limit]
      <4> HIDE DEF j
      <4> QED
        BY <3>2 DEF Instances
    <3>4. OperatorAppend(j)
      BY <1>5, <2>2 DEF SweepFire
    <3>5. OperatorAppend([Resolved(inst, e, answer) EXCEPT !.limit = inst.limit])
      BY <3>3, <3>4
    <3>6. ResolveAllowed(inst, e, answer)
      BY <2>2
    <3> HIDE DEF answer
    <3> QED
      BY <1>2, <1>3, <2>1, <2>2, <3>1, <3>5, <3>6
  <2>3. CASE ~(inst.status = "waiting_approval" /\ ResolveAllowed(inst, e, inst.escs[e].action))
    <3>1. UNCHANGED <<inst, wk>>
      BY <1>5, <2>3 DEF SweepFire
    <3>2. /\ holder \in Workers \cup {NoWorker} /\ desk \subseteq Escs /\ sweep \subseteq Escs
          /\ faults \in 0 .. MaxFaults
      BY <1>1 DEF TypeOK
    <3> QED
      BY <1>1, <2>1, <3>1, <3>2, WorldStep
  <2> QED
    BY <2>2, <2>3
<1>6. ASSUME NEW to \in Targets, Control(to)
      PROVE  IInv'
  <2> DEFINE new == SetStatus(inst, to)
  <2>1. /\ OperatorAppend(new) /\ inst' = new /\ redone' = redone
        /\ desk' = desk /\ sweep' = sweep
        /\ UNCHANGED <<holder, dlq, requeued, history, faults>>
        /\ ops' \in 0 .. MaxOps
    BY <1>1, <1>6 DEF Control, UseOp, OperatorAppend, history
  <2>2. to \in WorkflowStatuses /\ to # "dead_lettered"
    BY WorldAssumption DEF WorkflowStatuses
  <2>3. inst.status # "rolled_back"
    BY <1>6 DEF Control, TerminalWorkflowStatuses
  <2>4. new \in Instances /\ new.status = to
    BY <1>1, <2>2, SetStatusFacts
  <2>5. QuietStep /\ NoNewFailure /\ Len(inst.escs) <= Len(new.escs)
    BY <1>1, <2>1, <2>2, <2>3, StatusQuiet
  <2> HIDE DEF new
  <2> QED
    BY <2>1, <2>2, <2>4, <2>5, HumanAppend
<1> QED
  BY <1>4, <1>5, <1>6
-----------------------------------------------------------------------------
(***************************************************************************)
(* The actions that start, finish, retry, review and give up on attempts.  *)
(***************************************************************************)

\* What every append of a driver keeps.
LEMMA AppendKept ==
  ASSUME IInv, NEW w \in Workers, NEW new \in Instances, NEW rec \in Drives,
         DriverAppend(w, new, rec), UNCHANGED <<holder, dlq, cut, redone, faults, human>>,
         Len(inst.escs) <= Len(new.escs), asked' \subseteq Steps
  PROVE  /\ TypeOK' /\ inst' = new /\ wk'[w] = rec /\ Others(w)
         /\ ViewOf(w)' => FreshView'
         /\ dlq' = dlq /\ requeued' = requeued /\ cut' = cut
<1>1. TypeOK
  BY DEF IInv
<1>2. /\ inst' = new /\ wk' \in [Workers -> Drives] /\ wk'[w] = rec /\ Others(w)
      /\ \A v \in Workers \ {w} : ~wk'[v].fresh
  BY <1>1, DriverAppendFacts
<1>3. /\ holder' \in Workers \cup {NoWorker} /\ cut' \subseteq {"retry", "review", "dlq"}
      /\ faults' \in 0 .. MaxFaults
  BY <1>1 DEF TypeOK
<1>4. TypeOK'
  BY <1>1, <1>2, <1>3, TypeKept
<1>5. ViewOf(w)' => FreshView'
  BY <1>2 DEF FreshView
<1> QED
  BY <1>2, <1>4, <1>5 DEF human

\* The failing step is known to be approved, and its row is on its way.
LEMMA DeadLetterAction ==
  ASSUME IInv, NEW w \in Workers, DeadLetter(w)
  PROVE  IInv'
<1> DEFINE new == SetStatus(inst, "dead_lettered")
           rec == [At("dlq") EXCEPT !.retry = {Failure}]
<1>1. wk[w].pc = "plan" /\ wk[w].fresh /\ inst.status = "running" /\ ~NoFailure
  BY DEF DeadLetter, Fails, Plans
<1>2. TypeOK /\ inst \in Instances /\ \A s \in Steps : inst.st[s] # "running"
  BY <1>1, PlanView
<1>3. Failure \in Steps /\ inst.st[Failure] = "failed"
  BY <1>1, <1>2, FailureIn
<1>4. PICK f \in Steps : f = Failure /\ inst.st[f] = "failed"
  BY <1>3
<1>5. rec \in Drives /\ rec.pc = "dlq" /\ rec.retry = {f}
  BY <1>4 DEF At, IdleWorker, Drives
<1>6. "dead_lettered" \in WorkflowStatuses
  BY DEF WorkflowStatuses
<1>7. new \in Instances /\ new.status = "dead_lettered" /\ new.st = inst.st
  BY <1>2, <1>6, SetStatusFacts
<1>8. /\ DriverAppend(w, new, rec) /\ UNCHANGED <<holder, dlq, cut, redone, asked, faults, human>>
      /\ inst' = new
  BY DEF DeadLetter, DriverAppend, history
<1>9. QuietStep /\ NoNewFailure /\ Len(inst.escs) <= Len(inst'.escs)
  BY <1>1, <1>2, <1>6, <1>8, StatusQuiet
<1> HIDE DEF new, rec
<1>10. asked' \subseteq Steps
  BY <1>2, <1>8 DEF TypeOK
<1>11. /\ TypeOK' /\ wk'[w] = rec /\ Others(w) /\ (ViewOf(w)' => FreshView')
       /\ dlq' = dlq /\ requeued' = requeued /\ cut' = cut
  BY <1>5, <1>7, <1>8, <1>9, <1>10, AppendKept
<1>12. FreshView'
  <2>1. StepsIn({"running"})' = {}
    BY <1>2, <1>7, <1>8 DEF StepsIn
  <2> QED
    BY <1>5, <1>11, <2>1 DEF ViewOf
<1>13. InstanceOK'
  BY <1>2, <1>9, QuietKeeps DEF IInv
<1>14. DeadLetterNamed'
  BY <1>5, <1>11 DEF IInv, DeadLetterNamed, Others
<1>15. EscsGrow /\ inst'.defn = inst.defn
  BY <1>9 DEF QuietStep
<1>16. DeadLettersCleared'
  <2>1. Cleared(f)
    BY <1>4 DEF IInv, InstanceOK, UnclearedIdle
  <2>2. \A s \in Steps : DeadLettered(s)' => DeadLettered(s) \/ s = f
    BY <1>5, <1>11 DEF DeadLettered, Others
  <2>3. \A s \in Steps : DeadLettered(s)' => Cleared(s)
    BY <2>1, <2>2 DEF IInv, DeadLettersCleared
  <2> QED
    BY <1>15, <2>3, ClearedStays DEF DeadLettersCleared
<1>17. RetriesAreScheduled'
  BY <1>1, <1>9, <1>11, <1>15, RetriesKept DEF IInv, Others
<1>18. ReviewsAreRaised'
  BY <1>1, <1>8, <1>11, ReviewsKept DEF IInv, Others
<1>19. RowLeft'
  BY <1>5, <1>11 DEF RowLeft
<1> QED
  BY <1>11, <1>12, <1>13, <1>14, <1>16, <1>17, <1>18, <1>19 DEF IInv

\* The row is written, also by a worker that is not fresh any more.
LEMMA RecordDeadLetterAction ==
  ASSUME IInv, NEW w \in Workers, RecordDeadLetter(w)
  PROVE  IInv'
<1> DEFINE rec == [IdleWorker EXCEPT !.pc = "release"]
           row == [step |-> Min(wk[w].retry), resolved |-> FALSE]
<1>1. TypeOK /\ wk[w].pc = "dlq" /\ wk[w].retry # {} /\ wk[w] \in Drives
  BY DEF IInv, TypeOK, RecordDeadLetter, DeadLetterNamed
<1>2. wk[w].retry \in SUBSET Steps
  BY <1>1, DriveFields
<1>3. Min(wk[w].retry) \in wk[w].retry
  BY <1>1, <1>2, RunningFinite, MinIn
<1>4. PICK f \in Steps : f = Min(wk[w].retry) /\ f \in wk[w].retry
  BY <1>2, <1>3
<1>5. row \in DeadLetterRows /\ row.step = f /\ ~row.resolved
  BY <1>4 DEF DeadLetterRows
<1>6. rec \in Drives /\ rec.pc = "release" /\ ~rec.fresh
  BY DriveFacts DEF Pcs
<1>7. /\ dlq' = Append(dlq, row) /\ wk' = [wk EXCEPT ![w] = rec]
      /\ inst' = inst /\ UNCHANGED <<holder, asked, cut, redone, faults, human>>
      /\ requeued' = requeued
  BY DEF RecordDeadLetter, history, human
<1> HIDE DEF rec, row
<1>8. /\ wk' \in [Workers -> Drives] /\ wk'[w] = rec
      /\ \A v \in Workers \ {w} : wk'[v] = wk[v]
  BY <1>1, <1>6, <1>7 DEF TypeOK
<1>9. dlq \in Seq(DeadLetterRows) /\ Len(dlq) \in Nat /\ requeued \in 0 .. Len(dlq)
  BY <1>1 DEF TypeOK
<1>10. /\ dlq' \in Seq(DeadLetterRows) /\ Len(dlq') = Len(dlq) + 1
       /\ dlq'[Len(dlq) + 1] = row /\ \A k \in 1 .. Len(dlq) : dlq'[k] = dlq[k]
       /\ DOMAIN dlq' = 1 .. Len(dlq) + 1 /\ DOMAIN dlq = 1 .. Len(dlq)
  BY <1>5, <1>7, <1>9
<1>11. Escs' = Escs
  BY <1>7 DEF Escs
<1>12. TypeOK'
  BY <1>1, <1>7, <1>8, <1>9, <1>10, <1>11 DEF TypeOK, human
<1>13. FreshView'
  <2> SUFFICES ASSUME NEW v \in Workers, wk'[v].fresh
               PROVE  ViewOf(v)'
    BY DEF FreshView
  <2>1. v # w /\ ViewOf(v)
    BY <1>6, <1>8 DEF IInv, FreshView
  <2> QED
    BY <1>7, <1>8, <2>1 DEF ViewOf, StepsIn, InWave
<1>14. QuietStep /\ NoNewFailure /\ EscsGrow
  BY <1>1, <1>7, StillQuiet
<1>15. InstanceOK'
  BY <1>1, <1>14, QuietKeeps DEF IInv
<1>16. DeadLetterNamed'
  BY <1>6, <1>8 DEF IInv, DeadLetterNamed
<1>17. DeadLettersCleared'
  <2>1. \A s \in Steps : Cleared(s)' <=> Cleared(s)
    BY <1>7, <1>11 DEF Cleared
  <2>2. DeadLettered(f)
    BY <1>1, <1>4 DEF DeadLettered
  <2>3. \A s \in Steps : DeadLettered(s)' => DeadLettered(s) \/ s = f
    <3> SUFFICES ASSUME NEW s \in Steps, DeadLettered(s)', s # f
                 PROVE  DeadLettered(s)
      OBVIOUS
    <3>1. CASE \E k \in DOMAIN dlq' : dlq'[k].step = s
      BY <1>5, <1>9, <1>10, <3>1 DEF DeadLettered
    <3>2. CASE \E v \in Workers : wk'[v].pc = "dlq" /\ s \in wk'[v].retry
      BY <1>6, <1>8, <3>2 DEF DeadLettered
    <3> QED
      BY <3>1, <3>2 DEF DeadLettered
  <2> QED
    BY <2>1, <2>2, <2>3 DEF IInv, DeadLettersCleared
<1>18. RetriesAreScheduled'
  BY <1>1, <1>7, <1>8, <1>14, RetriesKept DEF IInv
<1>19. ReviewsAreRaised'
  BY <1>1, <1>7, <1>8, ReviewsKept DEF IInv
<1>20. RowLeft'
  BY <1>5, <1>7, <1>9, <1>10 DEF RowLeft
<1> QED
  BY <1>12, <1>13, <1>15, <1>16, <1>17, <1>18, <1>19, <1>20 DEF IInv

\* A requeue resets one step, which its dead letter shows to be approved.
LEMMA RequeueAction ==
  ASSUME IInv, NEW k \in 1 .. Len(dlq), Requeue(k)
  PROVE  IInv'
<1>1. TypeOK /\ inst \in Instances /\ dlq \in Seq(DeadLetterRows) /\ Len(dlq) \in Nat
  BY DEF IInv, TypeOK
<1>2. dlq[k] \in DeadLetterRows
  BY <1>1
<1>3. PICK s \in Steps : s = dlq[k].step
  BY <1>2 DEF DeadLetterRows
<1> DEFINE new == [inst EXCEPT !.status = "running", !.st[s] = "ready", !.att[s] = 0,
                               !.retry[s] = "none", !.err[s] = "none"]
<1>4. /\ OperatorAppend(new) /\ inst' = new /\ inst.status = "dead_lettered"
      /\ redone' = redone \cup ({s} \ StepsIn({"failed"}))
      /\ requeued' = k /\ UNCHANGED <<holder, dlq, desk, sweep, asked, cut, faults>>
      /\ ops' \in 0 .. MaxOps
  <2>1. ops \in 0 .. MaxOps /\ MaxOps \in Nat
    BY <1>1, WorldAssumption DEF TypeOK
  <2> QED
    BY <1>3, <2>1 DEF Requeue, OperatorAppend, UseOp
<1>5. /\ inst.st \in [Steps -> StepStatuses] /\ inst.att \in [Steps -> Nat]
      /\ inst.retry \in [Steps -> {"none", "later", "due"}]
      /\ inst.err \in [Steps -> {"none", "retryable", "fatal", "budget"}]
      /\ inst.defn \in Definitions /\ inst.escs \in Seq(EscRefs)
  BY <1>1, InstanceFields
<1>6. "ready" \in StepStatuses /\ "running" \in WorkflowStatuses
  BY DEF StepStatuses, WorkflowStatuses
<1>7. /\ inst' \in Instances /\ inst'.defn = inst.defn /\ inst'.status = "running"
      /\ inst'.out = inst.out /\ inst'.escs = inst.escs
      /\ inst'.st = [inst.st EXCEPT ![s] = "ready"] /\ inst'.att = [inst.att EXCEPT ![s] = 0]
      /\ inst'.retry = [inst.retry EXCEPT ![s] = "none"]
      /\ inst'.err = [inst.err EXCEPT ![s] = "none"]
  BY <1>1, <1>4, <1>5, <1>6 DEF Instances
<1> HIDE DEF new
<1>8. /\ inst'.st[s] = "ready"
      /\ \A t \in Steps \ {s} : /\ inst'.st[t] = inst.st[t] /\ inst'.att[t] = inst.att[t]
                                /\ inst'.retry[t] = inst.retry[t] /\ inst'.err[t] = inst.err[t]
  BY <1>5, <1>7
<1>9. /\ wk' \in [Workers -> Drives]
      /\ \A v \in Workers : /\ ~wk'[v].fresh
                            /\ wk'[v].pc = wk[v].pc /\ wk'[v].wave = wk[v].wave
                            /\ wk'[v].retry = wk[v].retry /\ wk'[v].review = wk[v].review
  BY <1>1, <1>4, OperatorAppendFacts
<1>10. Escs' = Escs /\ EscsGrow
  BY <1>7 DEF Escs, EscsGrow
<1>11. TypeOK'
  <2>1. redone' \subseteq Steps /\ requeued' \in 0 .. Len(dlq')
    BY <1>1, <1>4 DEF TypeOK
  <2> QED
    BY <1>1, <1>4, <1>7, <1>9, <1>10, <2>1 DEF TypeOK
<1>12. FreshView'
  BY <1>9 DEF FreshView
<1>13. NoNewFailure
  BY <1>8 DEF NoNewFailure
<1>14. \A t \in Steps : inst.defn.deps[t] \in SUBSET Steps
  BY <1>5, DefinitionFields
<1>15. \A d \in Steps : inst.st[d] \in Done \/ d \in redone => inst'.st[d] \in Done \/ d \in redone'
  BY <1>4, <1>8 DEF StepsIn, Done
<1>16. ConcurrencyBounded'
  BY <1>5, <1>7, <1>8, FewerRunning DEF IInv, InstanceOK
<1>17. DepsBeforeRun'
  BY <1>7, <1>8, <1>14, <1>15 DEF IInv, InstanceOK, DepsBeforeRun, StepsIn
<1>18. DepsBeforeFailure'
  BY <1>4, <1>7, <1>8, <1>14, <1>15 DEF IInv, InstanceOK, DepsBeforeFailure, StepsIn
<1>19. OutputStays'
  BY <1>4, <1>7, <1>8 DEF IInv, InstanceOK, OutputStays, StepsIn
<1>20. DeadLetterNamed'
  BY <1>9 DEF IInv, DeadLetterNamed
<1>21. DeadLettersCleared'
  BY <1>4, <1>7, <1>9, <1>10, ClearedKept DEF IInv
<1>22. UnclearedIdle'
  <2> SUFFICES ASSUME NEW t \in Steps, ~Cleared(t)'
               PROVE  /\ inst'.att[t] = 0 /\ ~inst'.out[t]
                      /\ inst'.st[t] \in {"pending", "waiting_approval", "skipped"}
    BY DEF UnclearedIdle
  <2>1. ~Cleared(t)
    BY <1>7, <1>10, ClearedStays
  <2>2. DeadLettered(s)
    BY <1>1, <1>3 DEF DeadLettered
  <2>3. t # s
    BY <2>1, <2>2 DEF IInv, DeadLettersCleared
  <2> QED
    BY <1>7, <1>8, <2>1, <2>3 DEF IInv, InstanceOK, UnclearedIdle
<1>23. EscalatedMoved'
  BY <1>7, <1>8, <1>10 DEF IInv, InstanceOK, EscalatedMoved
<1>24. RetriesAreScheduled'
  BY <1>4, <1>7, <1>9, <1>13, RetriesKept DEF IInv
<1>25. ReviewsAreRaised'
  BY <1>4, <1>9, ReviewsKept DEF IInv
<1>26. RowLeft'
  BY <1>7 DEF RowLeft
<1>27. InstanceOK'
  BY <1>16, <1>17, <1>18, <1>19, <1>22, <1>23 DEF InstanceOK
<1> QED
  BY <1>11, <1>12, <1>20, <1>21, <1>24, <1>25, <1>26, <1>27 DEF IInv

\* The retry append keeps the promise of the result append.
LEMMA ScheduleRetriesAction ==
  ASSUME IInv, NEW w \in Workers, ScheduleRetries(w)
  PROVE  IInv'
<1> DEFINE retry == [s \in Steps |-> IF s \in wk[w].retry THEN "later" ELSE inst.retry[s]]
           new == [inst EXCEPT !.retry = retry]
           pc == IF wk[w].review # {} THEN "review" ELSE "plan"
           rec == [At(pc) EXCEPT !.review = wk[w].review]
<1>1. TypeOK /\ inst \in Instances /\ wk[w].pc = "retry" /\ wk[w].fresh /\ wk[w] \in Drives
  BY DEF IInv, TypeOK, ScheduleRetries
<1>2. ViewOf(w)
  BY <1>1 DEF IInv, FreshView
<1>3. rec \in Drives /\ rec.pc = pc /\ rec.review = wk[w].review
  BY <1>1, DriveFields DEF At, IdleWorker, Drives
<1>4. retry \in [Steps -> {"none", "later", "due"}]
  BY <1>1, InstanceFields
<1>5. /\ DriverAppend(w, new, rec) /\ UNCHANGED <<holder, dlq, asked, cut, redone, faults, human>>
      /\ inst' = new
  BY DEF ScheduleRetries, DriverAppend, history
<1>6. /\ inst' \in Instances /\ inst'.retry = retry /\ inst'.escs = inst.escs
      /\ inst'.defn = inst.defn /\ inst'.status = inst.status /\ inst'.st = inst.st
      /\ inst'.att = inst.att /\ inst'.out = inst.out /\ inst'.err = inst.err
  <2> HIDE DEF retry
  <2> QED
    BY <1>1, <1>4, <1>5 DEF Instances
<1>7. pc \in {"plan", "review"} /\ (pc = "plan" => wk[w].review = {})
  OBVIOUS
<1>8. \A s \in Steps : inst'.retry[s] = "none" => s \notin wk[w].retry /\ inst.retry[s] = "none"
  BY <1>6
<1> HIDE DEF retry, new, pc, rec
<1>9. Len(inst.escs) <= Len(new.escs) /\ asked' \subseteq Steps
  BY <1>1, <1>5, <1>6, InstanceFields DEF TypeOK
<1>10. /\ TypeOK' /\ wk'[w] = rec /\ Others(w) /\ (ViewOf(w)' => FreshView')
       /\ dlq' = dlq /\ requeued' = requeued /\ cut' = cut
  BY <1>3, <1>5, <1>6, <1>9, AppendKept
<1>11. FreshView'
  BY <1>1, <1>2, <1>3, <1>5, <1>6, <1>7, <1>10 DEF ViewOf, StepsIn
<1>12. EscsGrow /\ Escs' = Escs
  BY <1>6 DEF EscsGrow, Escs
<1>13. QuietStep
  BY <1>5, <1>6, <1>12 DEF QuietStep
<1>14. NoNewFailure
  BY <1>6, <1>8 DEF NoNewFailure
<1>15. InstanceOK'
  BY <1>1, <1>13, QuietKeeps DEF IInv
<1>16. DeadLetterNamed'
  BY <1>3, <1>7, <1>10 DEF IInv, DeadLetterNamed, Others
<1>17. DeadLettersCleared'
  BY <1>3, <1>6, <1>7, <1>10, <1>12, ClearedKept DEF IInv, Others
<1>18. RetriesAreScheduled'
  <2>1. \A s \in wk[w].retry : inst'.retry[s] # "none"
    BY <1>1, <1>8, DriveFields
  <2> QED
    BY <1>6, <1>10, <1>14, <2>1, RetriesKept DEF IInv, Others
<1>19. ReviewsAreRaised'
  BY <1>3, <1>5, <1>7, <1>10, ReviewsKept DEF IInv, Others
<1>20. RowLeft'
  BY <1>1, <1>6, <1>10, RowKept DEF IInv, Others
<1> QED
  BY <1>10, <1>11, <1>15, <1>16, <1>17, <1>18, <1>19, <1>20 DEF IInv

\* The review append keeps the other promise: no step that has failed depends on
\* the steps it makes wait.
LEMMA RaiseReviewsAction ==
  ASSUME IInv, NEW w \in Workers, RaiseReviews(w)
  PROVE  IInv'
<1>1. TypeOK /\ inst \in Instances /\ wk[w].pc = "review" /\ wk[w].fresh /\ wk[w] \in Drives
  BY DEF IInv, TypeOK, RaiseReviews
<1>2. ViewOf(w)
  BY <1>1 DEF IInv, FreshView
<1>3. PICK S \in SUBSET Steps : S = wk[w].review
  BY <1>1, DriveFields
<1>4. /\ inst.defn \in Definitions /\ inst.defn.auto_action \in Answers
      /\ "review" \in EscalationReasons /\ S \in SUBSET (0 .. N)
  BY <1>1, InstanceFields, DefinitionFields, RunningFinite DEF EscalationReasons, Steps
<1>4a. PICK deadline \in {"none", "set"} : deadline = IF inst.defn.timeout THEN "set" ELSE "none"
  OBVIOUS
<1>4b. PICK action \in Answers : action = inst.defn.auto_action
  BY <1>4
<1> DEFINE new == Raise(inst, S, "review", deadline, action)
<1>5. /\ DriverAppend(w, new, At("plan")) /\ UNCHANGED <<holder, dlq, cut, redone, faults, human>>
      /\ inst' = new /\ asked' = asked \ S
  BY <1>3, <1>4a, <1>4b DEF RaiseReviews, DriverAppend
<1>6. /\ inst.status = "running" /\ \A s \in Steps : inst.st[s] # "running"
      /\ \A s \in Steps : inst.st[s] = "failed" => inst.defn.deps[s] \cap S \subseteq redone
  BY <1>1, <1>2, <1>3 DEF ViewOf, StepsIn
<1>7. \A s \in Steps : inst.st[s] \in {"running", "failed"} =>
        \A d \in inst.defn.deps[s] \ redone : d \in S => inst.st[d] \notin Done
  BY <1>6
<1>8. /\ QuietStep /\ NoNewFailure /\ Len(inst.escs) <= Len(inst'.escs)
      /\ inst' \in Instances /\ inst'.status = "waiting_approval"
      /\ \A s \in Steps : inst'.st[s] = IF s \in S THEN "waiting_approval" ELSE inst.st[s]
  BY <1>1, <1>4, <1>5, <1>6, <1>7, RaiseQuiet
<1> HIDE DEF new
<1>9. asked' \subseteq Steps
  BY <1>1, <1>5 DEF TypeOK
<1>10. At("plan") \in Drives /\ At("plan").pc = "plan"
  BY DriveFacts DEF Pcs
<1>11. /\ TypeOK' /\ wk'[w] = At("plan") /\ Others(w) /\ (ViewOf(w)' => FreshView')
       /\ dlq' = dlq /\ requeued' = requeued /\ cut' = cut
  BY <1>5, <1>8, <1>9, <1>10, AppendKept
<1>12. FreshView'
  <2>1. StepsIn({"running"})' = {}
    BY <1>6, <1>8 DEF StepsIn
  <2> QED
    BY <1>10, <1>11, <2>1 DEF ViewOf
<1>13. EscsGrow /\ inst'.defn = inst.defn
  BY <1>8 DEF QuietStep
<1>14. InstanceOK'
  BY <1>1, <1>8, QuietKeeps DEF IInv
<1>15. DeadLetterNamed'
  BY <1>10, <1>11 DEF IInv, DeadLetterNamed, Others
<1>16. DeadLettersCleared'
  BY <1>10, <1>11, <1>13, ClearedKept DEF IInv, Others
<1>17. RetriesAreScheduled'
  BY <1>1, <1>8, <1>11, <1>13, RetriesKept DEF IInv, Others
<1>18. ReviewsAreRaised'
  BY <1>3, <1>5, <1>11, ReviewsKept DEF IInv, Others
<1>19. RowLeft'
  BY <1>8 DEF RowLeft
<1> QED
  BY <1>11, <1>12, <1>14, <1>15, <1>16, <1>17, <1>18, <1>19 DEF IInv

\* What a wave is made of: steps whose turn it is, no more than may run.
LEMMA WaveFacts ==
  ASSUME IInv, \A s \in Steps : inst.st[s] # "running"
  PROVE  /\ Wave \in SUBSET Dispatchable /\ Wave \in SUBSET Steps
         /\ Cardinality(Wave) <= inst.defn.max_concurrent_steps
         /\ \A s \in Wave : /\ s \in Candidates \ Held
                            /\ inst.st[s] \in {"pending", "ready", "failed"}
                            /\ inst.st[s] \in {"pending", "ready"} => DepsDone(s)
<1>1. inst.defn.max_concurrent_steps \in Nat
  BY InstanceFields, DefinitionFields DEF IInv, TypeOK
<1>2. StepsIn({"running"}) = {}
  BY DEF StepsIn
<1>3. Free = inst.defn.max_concurrent_steps
  <2> DEFINE m == inst.defn.max_concurrent_steps
  <2>1. Free = Max({m - 0, 0})
    BY <1>2, FS_EmptySet DEF Free
  <2>2. Max({m - 0, 0}) = m
    <3> HIDE DEF m
    <3>1. m \in Nat
      BY <1>1 DEF m
    <3> QED
      BY <3>1 DEF Max
  <2> QED
    BY <2>1, <2>2
<1>4. Dispatchable \in SUBSET Steps
  BY DEF Dispatchable, Candidates, StepsIn
<1>5. Wave = FirstOf(Dispatchable, Free) /\ Wave \in SUBSET Dispatchable
  BY DEF Wave, FirstOf
<1>6. Cardinality(Wave) <= inst.defn.max_concurrent_steps
  <2>1. N \in Nat /\ Dispatchable \in SUBSET Nat /\ \A x \in Dispatchable : x <= N
    BY <1>4, RunningFinite DEF Steps
  <2> QED
    BY <1>1, <1>3, <1>5, <2>1, FirstOfBound
<1>7. \A s \in Dispatchable : /\ s \in Candidates \ Held
                              /\ inst.st[s] \in {"pending", "ready", "failed"}
                              /\ inst.st[s] \in {"pending", "ready"} => DepsDone(s)
  BY DEF Dispatchable, Candidates, StepsIn
<1> QED
  BY <1>4, <1>5, <1>6, <1>7

\* _dispatch_wave starts the steps of the wave, and the worker that did knows
\* which ones at which attempts.
LEMMA DispatchAction ==
  ASSUME IInv, NEW w \in Workers, Dispatch(w)
  PROVE  IInv'
<1>1. /\ wk[w].pc = "plan" /\ wk[w].fresh /\ inst.status = "running"
      /\ NoBudgetBlock /\ Wave # {}
  BY DEF Dispatch, Plans
<1>2. TypeOK /\ inst \in Instances /\ \A s \in Steps : inst.st[s] # "running"
  BY <1>1, PlanView
<1>3. PICK S \in SUBSET Steps : S = Wave
  BY <1>2, WaveFacts
<1>4. /\ Cardinality(S) <= inst.defn.max_concurrent_steps /\ S # {} /\ Dispatchable # {}
      /\ \A s \in S : /\ s \in Candidates \ Held
                      /\ inst.st[s] \in {"pending", "ready", "failed"}
                      /\ inst.st[s] \in {"pending", "ready"} => DepsDone(s)
  BY <1>1, <1>2, <1>3, WaveFacts
<1>5. /\ inst.st \in [Steps -> StepStatuses] /\ inst.att \in [Steps -> Nat]
      /\ inst.retry \in [Steps -> {"none", "later", "due"}]
      /\ inst.defn \in Definitions /\ inst.escs \in Seq(EscRefs)
      /\ inst.spent \in Nat /\ inst.limit \in Nat
  BY <1>2, InstanceFields
<1> DEFINE st == [s \in Steps |-> IF s \in S THEN "running" ELSE inst.st[s]]
           att == [s \in Steps |-> IF s \in S THEN inst.att[s] + 1 ELSE inst.att[s]]
           retry == [s \in Steps |-> IF s \in S THEN "none" ELSE inst.retry[s]]
           wave == [s \in Steps |-> IF s \in S THEN inst.att[s] + 1 ELSE 0]
           new == [inst EXCEPT !.st = st, !.att = att, !.retry = retry]
           rec == [At("exec") EXCEPT !.wave = wave]
<1>6. /\ DriverAppend(w, new, rec) /\ inst' = new
      /\ UNCHANGED <<holder, dlq, asked, cut, redone, faults, human>>
  BY <1>3 DEF Dispatch, DriverAppend, history
<1>7. /\ st \in [Steps -> StepStatuses] /\ att \in [Steps -> Nat] /\ wave \in [Steps -> Nat]
      /\ retry \in [Steps -> {"none", "later", "due"}]
  BY <1>5 DEF StepStatuses
<1>8. rec \in Drives /\ rec.pc = "exec" /\ rec.wave = wave
  <2> HIDE DEF wave
  <2> QED
    BY <1>7 DEF At, IdleWorker, Drives
<1>9. /\ inst' \in Instances /\ inst'.st = st /\ inst'.att = att /\ inst'.retry = retry
      /\ inst'.defn = inst.defn /\ inst'.status = inst.status /\ inst'.escs = inst.escs
      /\ inst'.out = inst.out /\ inst'.err = inst.err
      /\ inst'.spent = inst.spent /\ inst'.limit = inst.limit
  <2> HIDE DEF st, att, retry
  <2> QED
    BY <1>2, <1>6, <1>7 DEF Instances
<1>10. /\ \A s \in S : /\ inst'.st[s] = "running" /\ inst'.att[s] = inst.att[s] + 1
                       /\ wave[s] = inst.att[s] + 1
       /\ \A s \in Steps \ S : /\ inst'.st[s] = inst.st[s] /\ inst'.att[s] = inst.att[s]
                               /\ inst'.retry[s] = inst.retry[s] /\ wave[s] = 0
  BY <1>9
<1> HIDE DEF st, att, retry, wave, new, rec
<1>11. Len(inst.escs) <= Len(new.escs) /\ asked' \subseteq Steps
  BY <1>2, <1>5, <1>6, <1>9 DEF TypeOK
<1>12. /\ TypeOK' /\ wk'[w] = rec /\ Others(w) /\ (ViewOf(w)' => FreshView')
       /\ dlq' = dlq /\ requeued' = requeued /\ cut' = cut
  BY <1>6, <1>8, <1>9, <1>11, AppendKept
<1>13. StepsIn({"running"})' = S
  BY <1>2, <1>10 DEF StepsIn
<1>14. InWave(w)' = S
  BY <1>5, <1>8, <1>10, <1>12 DEF InWave
<1>15. FreshView'
  <2>1. inst.spent < inst.limit
    BY <1>1, <1>4, <1>5 DEF NoBudgetBlock, BudgetOut
  <2>2. \A s \in S : inst'.att[s] = wk'[w].wave[s]
    BY <1>8, <1>10, <1>12
  <2>3. ViewOf(w)'
    BY <1>1, <1>8, <1>9, <1>12, <1>13, <1>14, <2>1, <2>2 DEF ViewOf
  <2> QED
    BY <1>12, <2>3
<1>16. EscsGrow /\ Escs' = Escs /\ \A s \in Steps : Cleared(s)' <=> Cleared(s)
  BY <1>9 DEF EscsGrow, Escs, Cleared
<1>17. \A s \in Steps : inst.defn.deps[s] \in SUBSET Steps
  BY <1>5, DefinitionFields
<1>18. ConcurrencyBounded'
  BY <1>4, <1>9, <1>13 DEF ConcurrencyBounded
<1>19. \A d \in Steps : inst.st[d] \in Done => inst'.st[d] \in Done
  BY <1>4, <1>10 DEF Done
<1>20. DepsBeforeRun'
  <2> SUFFICES ASSUME NEW s \in S, NEW d \in inst.defn.deps[s]
               PROVE  inst'.st[d] \in Done \/ d \in redone
    BY <1>6, <1>9, <1>13 DEF DepsBeforeRun
  <2>1. inst.st[d] \in Done \/ d \in redone
    BY <1>1, <1>4 DEF DepsDone, IInv, InstanceOK, DepsBeforeFailure, StepsIn
  <2> QED
    BY <1>17, <1>19, <2>1
<1>21. DepsBeforeFailure'
  <2>1. \A s \in Steps : inst'.st[s] = "failed" => inst.st[s] = "failed"
    BY <1>10
  <2> QED
    BY <1>1, <1>6, <1>9, <1>17, <1>19, <2>1 DEF IInv, InstanceOK, DepsBeforeFailure, StepsIn
<1>22. OutputStays'
  <2>1. \A s \in S : inst.out[s] => s \in redone
    BY <1>4 DEF IInv, InstanceOK, OutputStays
  <2> QED
    BY <1>6, <1>9, <1>10, <2>1 DEF IInv, InstanceOK, OutputStays
<1>23. \A s \in S : Cleared(s)
  <2> SUFFICES ASSUME NEW s \in S, ~Cleared(s)
               PROVE  FALSE
    OBVIOUS
  <2>1. inst.st[s] = "pending"
    BY <1>4 DEF IInv, InstanceOK, UnclearedIdle
  <2>2. s \in inst.defn.requires_approval
    BY DEF Cleared
  <2>3. ApprovalGranted(s)
    BY <1>1, <1>4, <2>2 DEF NoBudgetBlock, NoApproval, ApprovalNeeded
  <2> QED
    BY <2>1, <2>3 DEF ApprovalGranted, IInv, InstanceOK, EscalatedMoved
<1>24. UnclearedIdle'
  BY <1>9, <1>10, <1>16, <1>23 DEF IInv, InstanceOK, UnclearedIdle
<1>25. EscalatedMoved'
  BY <1>9, <1>10, <1>16 DEF IInv, InstanceOK, EscalatedMoved
<1>26. InstanceOK'
  BY <1>18, <1>20, <1>21, <1>22, <1>24, <1>25 DEF InstanceOK
<1>27. NoNewFailure
  BY <1>9, <1>10 DEF NoNewFailure
<1>28. DeadLetterNamed'
  BY <1>8, <1>12 DEF IInv, DeadLetterNamed, Others
<1>29. DeadLettersCleared'
  BY <1>8, <1>9, <1>12, <1>16, ClearedKept DEF IInv, Others
<1>30. RetriesAreScheduled'
  BY <1>1, <1>9, <1>12, <1>27, RetriesKept DEF IInv, Others
<1>31. ReviewsAreRaised'
  BY <1>1, <1>6, <1>12, ReviewsKept DEF IInv, Others
<1>32. RowLeft'
  BY <1>1, <1>9 DEF RowLeft
<1> QED
  BY <1>12, <1>15, <1>26, <1>28, <1>29, <1>30, <1>31, <1>32 DEF IInv

\* The result append: it speaks of exactly the attempts that the log says are
\* RUNNING, because its author is fresh.
LEMMA ResultsAction ==
  ASSUME IInv, NEW w \in Workers, Results(w)
  PROVE  IInv'
<1>1. /\ TypeOK /\ inst \in Instances /\ wk[w] \in Drives
      /\ wk[w].pc = "exec" /\ wk[w].fresh
  BY DEF IInv, TypeOK, Results
<1>2. ViewOf(w)
  BY <1>1 DEF IInv, FreshView
<1>3. PICK S \in SUBSET Steps : S = InWave(w)
  BY DEF InWave
<1>4. /\ inst.status = "running" /\ StepsIn({"running"}) = S
      /\ \A s \in S : inst.att[s] = wk[w].wave[s]
  BY <1>1, <1>2, <1>3 DEF ViewOf
<1>5. \A s \in Steps : s \in S <=> inst.st[s] = "running"
  BY <1>4 DEF StepsIn
<1> DEFINE with(r, O) == {s \in S : r[s] \in O}
           okays(r) == with(r, {"ok", "review"})
           again(r) == {s \in with(r, {"retryable"}) : RetriesLeft(w, s)}
           st(r) == [s \in Steps |-> IF s \notin S THEN inst.st[s]
                                     ELSE IF s \in okays(r) THEN "completed" ELSE "failed"]
           out(r) == [s \in Steps |-> inst.out[s] \/ s \in okays(r)]
           err(r) == [s \in Steps |-> IF s \in S \ okays(r) THEN r[s] ELSE inst.err[s]]
           new(r) == [inst EXCEPT !.st = st(r), !.out = out(r), !.err = err(r),
                                  !.spent = @ + Cost * Cardinality(S)]
           pc(r) == IF again(r) # {} THEN "retry"
                    ELSE IF with(r, {"review"}) # {} THEN "review" ELSE "plan"
           rec(r) == [At(pc(r)) EXCEPT !.retry = again(r), !.review = with(r, {"review"})]
<1>6. \E r \in [S -> Outcomes] :
        /\ DriverAppend(w, new(r), rec(r)) /\ asked' = (asked \ S) \cup with(r, {"review"})
        /\ UNCHANGED <<holder, dlq, cut, redone, faults, human>>
  BY <1>3 DEF Results
<1>7. PICK r \in [S -> Outcomes] :
        /\ DriverAppend(w, new(r), rec(r)) /\ asked' = (asked \ S) \cup with(r, {"review"})
        /\ UNCHANGED <<holder, dlq, cut, redone, faults, human>>
  BY <1>6
<1>8. \A s \in S : r[s] \in {"ok", "review", "retryable", "fatal", "budget"}
  BY WorldAssumption DEF AllOutcomes
<1>9. /\ inst.st \in [Steps -> StepStatuses] /\ inst.out \in [Steps -> BOOLEAN]
      /\ inst.err \in [Steps -> {"none", "retryable", "fatal", "budget"}]
      /\ inst.defn \in Definitions /\ inst.escs \in Seq(EscRefs) /\ inst.spent \in Nat
  BY <1>1, InstanceFields
<1>10. PICK K \in SUBSET S : K = okays(r)
  OBVIOUS
<1>11. PICK V \in SUBSET S : V = with(r, {"review"})
  OBVIOUS
<1>12. PICK A \in SUBSET S : A = again(r)
  OBVIOUS
<1>13. /\ V \subseteq K
       /\ \A s \in A : s \notin K /\ r[s] = "retryable"
       /\ \A s \in S \ K : r[s] \in {"retryable", "fatal", "budget"}
       /\ \A s \in S : r[s] = "retryable" /\ inst.att[s] <= inst.defn.max_retries => s \in A
  <2>1. \A s \in S : RetriesLeft(w, s) <=> inst.att[s] <= inst.defn.max_retries
    BY <1>4 DEF RetriesLeft
  <2>2. V \subseteq K
    BY <1>10, <1>11
  <2>3. \A s \in A : s \notin K /\ r[s] = "retryable"
    BY <1>10, <1>12
  <2>4. \A s \in S \ K : r[s] \in {"retryable", "fatal", "budget"}
    BY <1>8, <1>10
  <2>5. \A s \in S : r[s] = "retryable" /\ inst.att[s] <= inst.defn.max_retries => s \in A
    BY <2>1, <1>12
  <2> QED
    BY <2>2, <2>3, <2>4, <2>5
<1>14. PICK p \in {"retry", "review", "plan"} :
         p = IF A # {} THEN "retry" ELSE IF V # {} THEN "review" ELSE "plan"
  OBVIOUS
<1> DEFINE st1 == [s \in Steps |-> IF s \notin S THEN inst.st[s]
                                   ELSE IF s \in K THEN "completed" ELSE "failed"]
           out1 == [s \in Steps |-> inst.out[s] \/ s \in K]
           err1 == [s \in Steps |-> IF s \in S \ K THEN r[s] ELSE inst.err[s]]
           spent1 == inst.spent + Cost * Cardinality(S)
           new1 == [inst EXCEPT !.st = st1, !.out = out1, !.err = err1, !.spent = spent1]
           rec1 == [At(p) EXCEPT !.retry = A, !.review = V]
<1>15. new(r) = new1
  BY <1>10
<1>16. rec(r) = rec1
  <2> HIDE DEF again, with
  <2> QED
    BY <1>11, <1>12, <1>14
<1>17. /\ DriverAppend(w, new1, rec1) /\ asked' = (asked \ S) \cup V
       /\ UNCHANGED <<holder, dlq, cut, redone, faults, human>>
  BY <1>7, <1>11, <1>15, <1>16
<1> HIDE DEF with, okays, again, st, out, err, new, pc, rec
<1>18. inst' = new1
  BY <1>17 DEF DriverAppend
<1>19. /\ st1 \in [Steps -> StepStatuses] /\ out1 \in [Steps -> BOOLEAN]
       /\ err1 \in [Steps -> {"none", "retryable", "fatal", "budget"}]
  <2>1. st1 \in [Steps -> StepStatuses]
    BY <1>9 DEF StepStatuses
  <2>2. out1 \in [Steps -> BOOLEAN]
    BY <1>9
  <2>3. err1 \in [Steps -> {"none", "retryable", "fatal", "budget"}]
    BY <1>9, <1>13
  <2> QED
    BY <2>1, <2>2, <2>3
<1>20. spent1 \in Nat
  <2>1. Cost \in Nat /\ Cardinality(S) \in Nat
    BY <1>4, RunningFinite, WorldAssumption
  <2>2. \A a \in Nat, b \in Nat : a * b \in Nat
    OBVIOUS
  <2>3. Cost * Cardinality(S) \in Nat
    BY <2>1, <2>2
  <2> QED
    BY <1>9, <2>3
<1>21. rec1 \in Drives /\ rec1.pc = p /\ rec1.retry = A /\ rec1.review = V
  BY DEF At, IdleWorker, Drives
<1>22. /\ inst' \in Instances /\ inst'.st = st1 /\ inst'.out = out1 /\ inst'.err = err1
       /\ inst'.defn = inst.defn /\ inst'.status = inst.status /\ inst'.escs = inst.escs
       /\ inst'.att = inst.att /\ inst'.retry = inst.retry
  <2> HIDE DEF st1, out1, err1, spent1
  <2> QED
    BY <1>1, <1>18, <1>19, <1>20 DEF Instances
<1>23. /\ \A s \in K : inst'.st[s] = "completed"
       /\ \A s \in S \ K : inst'.st[s] = "failed" /\ inst'.err[s] = r[s]
       /\ \A s \in Steps \ S : inst'.st[s] = inst.st[s] /\ inst'.err[s] = inst.err[s]
       /\ \A s \in Steps : inst'.out[s] => inst.out[s] \/ s \in K
  BY <1>22, Zenon
<1> HIDE DEF st1, out1, err1, spent1, new1, rec1
<1>24. Len(inst.escs) <= Len(new1.escs) /\ asked' \subseteq Steps
  <2>1. asked \subseteq Steps
    BY <1>1 DEF TypeOK
  <2> QED
    BY <1>9, <1>17, <1>18, <1>22, <2>1
<1>25. /\ TypeOK' /\ wk'[w] = rec1 /\ Others(w) /\ (ViewOf(w)' => FreshView')
       /\ dlq' = dlq /\ requeued' = requeued /\ cut' = cut
  BY <1>17, <1>18, <1>21, <1>22, <1>24, AppendKept
<1>26. \A s \in Steps : inst'.st[s] # "running"
  BY <1>5, <1>23
<1>27. \A s \in Steps : inst.defn.deps[s] \in SUBSET Steps
  BY <1>9, DefinitionFields
<1>28. \A s \in Steps : inst'.st[s] = "failed" =>
         \A d \in inst.defn.deps[s] : inst.st[d] \in Done \/ d \in redone
  <2> TAKE s \in Steps
  <2>1. CASE s \in S
    BY <2>1, <1>4 DEF IInv, InstanceOK, DepsBeforeRun
  <2>2. CASE s \notin S
    BY <2>2, <1>4, <1>23 DEF IInv, InstanceOK, DepsBeforeFailure, StepsIn
  <2> QED
    BY <2>1, <2>2
<1>29. FreshView'
  <2>1. StepsIn({"running"})' = {}
    BY <1>26 DEF StepsIn
  <2>2. V \subseteq StepsIn({"completed"})' /\ A \subseteq StepsIn({"failed"})'
    BY <1>13, <1>23 DEF StepsIn
  <2>3. \A s \in StepsIn({"failed"})' : inst.defn.deps[s] \cap V \subseteq redone
    BY <1>5, <1>28 DEF StepsIn, Done
  <2>4. ViewOf(w)'
    BY <1>4, <1>17, <1>21, <1>22, <1>25, <2>1, <2>2, <2>3 DEF ViewOf
  <2> QED
    BY <1>25, <2>4
<1>30. EscsGrow /\ Escs' = Escs /\ \A s \in Steps : Cleared(s)' <=> Cleared(s)
  BY <1>22 DEF EscsGrow, Escs, Cleared
<1>31. ConcurrencyBounded'
  BY <1>9, <1>22, <1>26, FewerRunning DEF IInv, InstanceOK
<1>32. DepsBeforeRun'
  BY <1>26 DEF DepsBeforeRun, StepsIn
<1>33. DepsBeforeFailure'
  <2>1. \A d \in Steps : inst.st[d] \in Done => inst'.st[d] \in Done
    BY <1>5, <1>23 DEF Done
  <2> QED
    BY <1>17, <1>22, <1>27, <1>28, <2>1 DEF DepsBeforeFailure, StepsIn
<1>34. OutputStays'
  <2> SUFFICES ASSUME NEW s \in Steps, inst'.out[s], s \notin redone
               PROVE  inst'.st[s] \in {"completed", "waiting_approval", "skipped", "compensated"}
    BY <1>17 DEF OutputStays
  <2>1. CASE s \in K
    BY <2>1, <1>23
  <2>2. CASE s \notin K
    <3>1. inst.st[s] \in {"completed", "waiting_approval", "skipped", "compensated"}
      BY <2>2, <1>23 DEF IInv, InstanceOK, OutputStays
    <3> QED
      BY <1>5, <1>23, <3>1
  <2> QED
    BY <2>1, <2>2
<1>35. UnclearedIdle'
  <2> SUFFICES ASSUME NEW s \in Steps, ~Cleared(s)
               PROVE  /\ inst'.att[s] = 0 /\ ~inst'.out[s]
                      /\ inst'.st[s] \in {"pending", "waiting_approval", "skipped"}
    BY <1>30 DEF UnclearedIdle
  <2>1. /\ inst.att[s] = 0 /\ ~inst.out[s]
        /\ inst.st[s] \in {"pending", "waiting_approval", "skipped"}
    BY DEF IInv, InstanceOK, UnclearedIdle
  <2>2. s \notin S
    BY <1>5, <2>1
  <2> QED
    BY <1>22, <1>23, <2>1, <2>2
<1>36. EscalatedMoved'
  BY <1>22, <1>23, <1>30 DEF IInv, InstanceOK, EscalatedMoved
<1>37. InstanceOK'
  BY <1>31, <1>32, <1>33, <1>34, <1>35, <1>36 DEF InstanceOK
<1>38. DeadLetterNamed'
  BY <1>21, <1>25 DEF IInv, DeadLetterNamed, Others
<1>39. DeadLettersCleared'
  BY <1>21, <1>22, <1>25, <1>30, ClearedKept DEF IInv, Others
<1>40. RetriesAreScheduled'
  <2> SUFFICES ASSUME "retry" \notin cut, NEW s \in Steps, inst'.st[s] = "failed",
                      inst'.retry[s] = "none", inst'.err[s] = "retryable",
                      inst.att[s] <= inst.defn.max_retries
               PROVE  \E v \in Workers : wk'[v].pc = "retry" /\ s \in wk'[v].retry
    BY <1>22, <1>25 DEF RetriesAreScheduled, TerminalFailures, StepsIn
  <2>1. CASE s \in S
    <3>1. s \in A
      BY <2>1, <1>13, <1>23
    <3> QED
      BY <3>1, <1>14, <1>21, <1>25
  <2>2. CASE s \notin S
    <3>1. PICK v \in Workers : wk[v].pc = "retry" /\ s \in wk[v].retry
      BY <2>2, <1>22, <1>23 DEF IInv, RetriesAreScheduled, TerminalFailures, StepsIn
    <3> QED
      BY <3>1, <1>1, <1>25 DEF Others
  <2> QED
    BY <2>1, <2>2
<1>41. ReviewsAreRaised'
  <2> SUFFICES ASSUME "review" \notin cut, NEW s \in asked'
               PROVE  \E v \in Workers : wk'[v].pc \in {"retry", "review"} /\ s \in wk'[v].review
    BY <1>25 DEF ReviewsAreRaised
  <2>1. CASE s \in V
    BY <2>1, <1>14, <1>21, <1>25
  <2>2. CASE s \notin V
    <3>1. PICK v \in Workers : wk[v].pc \in {"retry", "review"} /\ s \in wk[v].review
      BY <2>2, <1>17 DEF IInv, ReviewsAreRaised
    <3> QED
      BY <3>1, <1>1, <1>25 DEF Others
  <2> QED
    BY <2>1, <2>2
<1>42. RowLeft'
  BY <1>4, <1>22 DEF RowLeft
<1> QED
  BY <1>25, <1>29, <1>37, <1>38, <1>39, <1>40, <1>41, <1>42 DEF IInv
-----------------------------------------------------------------------------
(***************************************************************************)
(* The invariant.                                                          *)
(***************************************************************************)

\* A new instance has nothing to hide.
LEMMA InitIInv == Init => IInv
<1> SUFFICES ASSUME Init
             PROVE  IInv
  OBVIOUS
<1>1. PICK d \in Definitions :
        inst = [defn |-> d, status |-> "pending", st |-> [s \in Steps |-> "pending"],
                att |-> [s \in Steps |-> 0], retry |-> [s \in Steps |-> "none"],
                out |-> [s \in Steps |-> FALSE], err |-> [s \in Steps |-> "none"],
                escs |-> <<>>, spent |-> 0, limit |-> BudgetLimit]
  BY DEF Init
<1>2. /\ inst.defn = d /\ inst.status = "pending" /\ inst.escs = <<>>
      /\ \A s \in Steps : inst.st[s] = "pending" /\ inst.att[s] = 0 /\ ~inst.out[s]
  BY <1>1
<1>3. inst \in Instances
  <2>1. "pending" \in WorkflowStatuses /\ "pending" \in StepStatuses
    BY DEF WorkflowStatuses, StepStatuses
  <2>2. BudgetLimit \in Nat
    BY WorldAssumption
  <2> QED
    BY <1>1, <2>1, <2>2 DEF Instances
<1>4. Escs = {} /\ Len(dlq) = 0 /\ DOMAIN dlq = {} /\ dlq \in Seq(DeadLetterRows)
  BY <1>2 DEF Escs, Init
<1>5. TypeOK
  BY <1>3, <1>4, DriveFacts, WorldAssumption DEF TypeOK, Init
<1>6. \A w \in Workers : wk[w].pc = "idle" /\ ~wk[w].fresh
  BY DriveFacts DEF Init
<1>7. FreshView /\ DeadLetterNamed
  BY <1>6 DEF FreshView, DeadLetterNamed
<1>8. StepsIn({"running"}) = {} /\ StepsIn({"failed"}) = {}
  BY <1>2 DEF StepsIn
<1>9. InstanceOK
  <2>1. ConcurrencyBounded
    <3>1. inst.defn.max_concurrent_steps \in Nat
      BY <1>2, DefinitionFields
    <3> QED
      BY <1>8, <3>1, FS_EmptySet DEF ConcurrencyBounded
  <2> QED
    BY <1>2, <1>4, <1>8, <2>1
       DEF InstanceOK, DepsBeforeRun, DepsBeforeFailure, OutputStays, UnclearedIdle, EscalatedMoved
<1>10. DeadLettersCleared
  BY <1>4, <1>6 DEF DeadLettersCleared, DeadLettered
<1>11. RetriesAreScheduled /\ ReviewsAreRaised /\ RowLeft
  BY <1>2, <1>8 DEF Init, RetriesAreScheduled, ReviewsAreRaised, RowLeft, TerminalFailures
<1> QED
  BY <1>5, <1>7, <1>9, <1>10, <1>11 DEF IInv

\* Every step keeps it.
LEMMA NextIInv ==
  ASSUME IInv, [Next]_vars
  PROVE  IInv'
<1>1. ASSUME NEW w \in Workers, Drive(w)
      PROVE  IInv'
  <2>1. CASE Claim(w) \/ Return(w) \/ LoseRace(w) \/ Release(w)
    BY <2>1, LocalActions
  <2>2. CASE Start(w) \/ BlockOnBudget(w) \/ Complete(w) \/ Park(w) \/ PauseOnFailure(w)
    BY <2>2, StatusActions
  <2>3. CASE EscalateForApproval(w) \/ EscalateCostThreshold(w) \/ EscalateMaxRetries(w)
    BY <2>3, EscalateActions
  <2>4. CASE Recover(w)
    BY <2>4, RecoverAction
  <2>5. CASE Rollback(w)
    BY <2>5, RollbackAction
  <2>6. CASE Dispatch(w)
    BY <2>6, DispatchAction
  <2>7. CASE Results(w)
    BY <2>7, ResultsAction
  <2>8. CASE ScheduleRetries(w)
    BY <2>8, ScheduleRetriesAction
  <2>9. CASE RaiseReviews(w)
    BY <2>9, RaiseReviewsAction
  <2>10. CASE DeadLetter(w)
    BY <2>10, DeadLetterAction
  <2>11. CASE RecordDeadLetter(w)
    BY <2>11, RecordDeadLetterAction
  <2> QED
    BY <1>1, <2>1, <2>2, <2>3, <2>4, <2>5, <2>6, <2>7, <2>8, <2>9, <2>10, <2>11 DEF Drive
<1>2. CASE \E w \in Workers : Crash(w)
  BY <1>2, LocalActions
<1>3. CASE \/ LeaseLapses \/ SweepRead \/ MarkResolved \/ RequeueCutShort
           \/ \E e \in Escs : DeskRead(e) \/ ResolveRejected(e)
  BY <1>3, WorldActions
<1>4. CASE Tick
  BY <1>4, TickAction
<1>5. CASE \/ \E e \in Escs : Resolve(e) \/ SweepFire(e)
           \/ \E to \in Targets : Control(to)
  BY <1>5, HumanActions
<1>6. CASE \E k \in 1 .. Len(dlq) : Requeue(k)
  BY <1>6, RequeueAction
<1>7. CASE UNCHANGED vars
  <2>1. TypeOK
    BY DEF IInv
  <2>2. Escs' = Escs
    BY <1>7 DEF Escs, vars
  <2> QED
    BY <1>7, <2>1, <2>2, WorldStep DEF vars, history, TypeOK
<1> QED
  BY <1>1, <1>2, <1>3, <1>4, <1>5, <1>6, <1>7 DEF Next

\* The invariant holds in every state of every behaviour.
THEOREM EngineInvariant == Spec => []IInv
<1>1. IInv /\ [Next]_vars => IInv'
  BY NextIInv
<1> QED
  BY InitIInv, <1>1, PTL DEF Spec

\* The instance, the drives and the tables keep their shape.
THEOREM EngineTypeCorrect == Spec => []TypeOK
<1>1. IInv => TypeOK
  BY DEF IInv
<1> QED
  BY EngineInvariant, <1>1, PTL

\* A worker whose result append can still succeed is executing exactly the
\* steps that the log says are RUNNING, at the log's attempt numbers.
THEOREM ResultsCorrect == Spec => []ResultsMatchLog
<1>1. IInv => ResultsMatchLog
  BY DEF IInv, FreshView, ViewOf, ResultsMatchLog
<1> QED
  BY EngineInvariant, <1>1, PTL

\* A step only runs when what it depends on is done, or was and has been reset
\* by a requeue.
THEOREM DependenciesCorrect == Spec => []DepsBeforeRun
<1>1. IInv => DepsBeforeRun
  BY DEF IInv, InstanceOK
<1> QED
  BY EngineInvariant, <1>1, PTL

\* max_concurrent_steps is never exceeded.
THEOREM ConcurrencyCorrect == Spec => []ConcurrencyBounded
<1>1. IInv => ConcurrencyBounded
  BY DEF IInv, InstanceOK
<1> QED
  BY EngineInvariant, <1>1, PTL

\* A step with requires_approval never starts without an answer that approves it.
THEOREM ApprovalCorrect == Spec => []ApprovalGate
<1>1. IInv => ApprovalGate
  <2> SUFFICES ASSUME IInv, NEW s \in inst.defn.requires_approval, inst.att[s] > 0
               PROVE  \E e \in Escs : /\ inst.escs[e].step = s
                                      /\ "approve" \in inst.escs[e].answers
    BY DEF ApprovalGate
  <2>1. s \in Steps
    BY InstanceFields, DefinitionFields DEF IInv, TypeOK
  <2>2. inst.att[s] # 0
    OBVIOUS
  <2>3. Cleared(s)
    BY <2>1, <2>2 DEF IInv, InstanceOK, UnclearedIdle
  <2> QED
    BY <2>3 DEF Cleared
<1> QED
  BY EngineInvariant, <1>1, PTL

\* Unless a worker was stopped between two appends, a failure that may be
\* retried has its retry, a requested review is raised, and a DEAD_LETTERED
\* instance can be requeued.
THEOREM FollowUpsCorrect == Spec => []FollowUpsAreMade
<1>1. IInv => FollowUpsAreMade
  BY DEF IInv, FollowUpsAreMade, RowLeft, DeadLettersAreRecorded
<1> QED
  BY EngineInvariant, <1>1, PTL
-----------------------------------------------------------------------------
(***************************************************************************)
(* What a step never does.                                                 *)
(***************************************************************************)

\* An append that neither counts attempts, nor records outputs, nor charges, and
\* is not made to an instance that has ended.
Uneventful ==
  /\ inst'.att = inst.att /\ inst'.out = inst.out /\ inst'.spent = inst.spent
  /\ inst.status \in TerminalWorkflowStatuses => inst'.status = inst.status /\ inst'.st = inst.st

\* Escalations are.
LEMMA RaiseKeeps ==
  ASSUME NEW i \in Instances, NEW S, NEW reason, NEW deadline, NEW action
  PROVE  Kept(i, Raise(i, S, reason, deadline, action))
BY DEF Raise, SetSteps, Instances, Kept

\* Most of the driver's appends are.
LEMMA DriveUneventful ==
  ASSUME IInv, NEW w \in Workers, Drive(w)
  PROVE  Uneventful \/ Dispatch(w) \/ Results(w)
<1>1. inst \in Instances
  BY DEF IInv, TypeOK
<1>2. CASE Claim(w) \/ Return(w) \/ LoseRace(w) \/ Release(w) \/ RecordDeadLetter(w)
  BY <1>2 DEF Claim, Return, LoseRace, Release, RecordDeadLetter, Uneventful
<1>3. CASE Start(w) \/ BlockOnBudget(w) \/ Complete(w) \/ Park(w) \/ PauseOnFailure(w) \/ DeadLetter(w)
  <2>1. inst.status \notin TerminalWorkflowStatuses
    BY <1>3 DEF Start, BlockOnBudget, Complete, Park, PauseOnFailure, DeadLetter, Plans, Fails,
                TerminalWorkflowStatuses
  <2>2. \E to \in WorkflowStatuses : inst' = SetStatus(inst, to)
    BY <1>3 DEF Start, BlockOnBudget, Complete, Park, PauseOnFailure, DeadLetter, EndDrive,
                DriverAppend, WorkflowStatuses
  <2> QED
    BY <1>1, <2>1, <2>2, SetStatusFacts DEF Uneventful, Kept
<1>4. CASE \/ EscalateForApproval(w) \/ EscalateCostThreshold(w) \/ EscalateMaxRetries(w)
           \/ RaiseReviews(w)
           \/ Fails(w) /\ EndDrive(w, Raise(inst, {0}, "compensation_failed", "none", "abort"))
  <2>1. inst.status = "running"
    BY <1>4 DEF EscalateForApproval, EscalateCostThreshold, EscalateMaxRetries, RaiseReviews,
                Plans, Fails, IInv, FreshView, ViewOf
  <2>2. \E S, reason, deadline, action : inst' = Raise(inst, S, reason, deadline, action)
    BY <1>4 DEF EscalateForApproval, EscalateCostThreshold, EscalateMaxRetries, RaiseReviews,
                EndDrive, DriverAppend
  <2>3. Kept(inst, inst')
    BY <1>1, <2>2, RaiseKeeps
  <2> QED
    BY <2>1, <2>3 DEF Uneventful, Kept, TerminalWorkflowStatuses
<1>5. CASE Recover(w)
  <2>1. inst.status \in RunnableStatuses /\ "ready" \in StepStatuses
    BY <1>5 DEF Recover, IInv, FreshView, ViewOf, StepStatuses
  <2>2. inst' = SetSteps(inst, StepsIn({"running"}), "ready")
    BY <1>5 DEF Recover, DriverAppend
  <2>3. Kept(inst, inst')
    BY <1>1, <2>1, <2>2, SetStepsFacts
  <2> QED
    BY <2>1, <2>3 DEF Uneventful, Kept, TerminalWorkflowStatuses, RunnableStatuses
<1>6. CASE /\ Fails(w)
           /\ EndDrive(w, SetStatus(SetSteps(inst, ToCompensate, "compensated"), "rolled_back"))
  <2>1. inst.status = "running"
    BY <1>6 DEF Fails, Plans
  <2>2. inst' = SetStatus(SetSteps(inst, ToCompensate, "compensated"), "rolled_back")
    BY <1>6 DEF EndDrive, DriverAppend
  <2>3. Kept(inst, inst')
    BY <1>1, <2>2 DEF SetStatus, SetSteps, Instances, Kept
  <2> QED
    BY <2>1, <2>3 DEF Uneventful, Kept, TerminalWorkflowStatuses
<1>7. CASE ScheduleRetries(w)
  <2>1. inst.status = "running"
    BY <1>7 DEF ScheduleRetries, IInv, FreshView, ViewOf
  <2>2. inst'.att = inst.att /\ inst'.out = inst.out /\ inst'.spent = inst.spent
    BY <1>1, <1>7 DEF ScheduleRetries, DriverAppend, Instances
  <2> QED
    BY <2>1, <2>2 DEF Uneventful, TerminalWorkflowStatuses
<1> QED
  BY <1>2, <1>3, <1>4, <1>5, <1>6, <1>7 DEF Drive, Rollback

\* So is everything else but a requeue.
LEMMA OthersUneventful ==
  ASSUME IInv,
         \/ \E w \in Workers : Crash(w)
         \/ LeaseLapses \/ Tick \/ SweepRead \/ MarkResolved \/ RequeueCutShort
         \/ \E e \in Escs : DeskRead(e) \/ Resolve(e) \/ ResolveRejected(e) \/ SweepFire(e)
         \/ \E to \in Targets : Control(to)
         \/ UNCHANGED vars
  PROVE  Uneventful
<1>1. inst \in Instances
  BY DEF IInv, TypeOK
<1>2. CASE inst' = inst
  BY <1>2 DEF Uneventful
<1>3. CASE Tick
  <2>1. /\ inst'.att = inst.att /\ inst'.out = inst.out /\ inst'.spent = inst.spent
        /\ inst'.status = inst.status /\ inst'.st = inst.st
    BY <1>1, <1>3 DEF Tick, Instances
  <2> QED
    BY <2>1 DEF Uneventful
<1>4. ASSUME NEW e \in Escs, Resolve(e)
      PROVE  Uneventful
  <2>1. PICK answer \in Answers, limit \in Nat :
          inst' = [Resolved(inst, e, answer) EXCEPT !.limit = limit]
    BY <1>1, <1>4, WorldAssumption, InstanceFields DEF Resolve, OperatorAppend
  <2>2. Resolved(inst, e, answer) \in Instances /\ Kept(inst, Resolved(inst, e, answer))
    BY <1>1, ResolvedFacts DEF Escs
  <2>3. inst'.att = inst.att /\ inst'.out = inst.out /\ inst'.spent = inst.spent
    BY <2>1, <2>2 DEF Instances, Kept
  <2> QED
    BY <1>4, <2>3 DEF Resolve, Uneventful, TerminalWorkflowStatuses
<1>5. ASSUME NEW e \in Escs, SweepFire(e), inst' # inst
      PROVE  Uneventful
  <2>1. inst.escs[e].action \in Answers
    <3>1. inst.escs \in Seq(EscRefs) /\ e \in 1 .. Len(inst.escs)
      BY <1>1, InstanceFields DEF Escs
    <3>2. inst.escs[e] \in EscRefs
      BY <3>1
    <3> QED
      BY <3>2 DEF EscRefs
  <2>2. /\ inst.status = "waiting_approval"
        /\ inst' = Resolved(inst, e, inst.escs[e].action)
    BY <1>5 DEF SweepFire, OperatorAppend
  <2>3. Kept(inst, inst')
    BY <1>1, <2>1, <2>2, ResolvedFacts DEF Escs
  <2> QED
    BY <2>2, <2>3 DEF Kept, Uneventful, TerminalWorkflowStatuses
<1>6. ASSUME NEW to \in Targets, Control(to)
      PROVE  Uneventful
  <2>1. to \in WorkflowStatuses
    BY WorldAssumption DEF WorkflowStatuses
  <2>2. inst.status \notin TerminalWorkflowStatuses /\ inst' = SetStatus(inst, to)
    BY <1>6 DEF Control, OperatorAppend
  <2> QED
    BY <1>1, <2>1, <2>2, SetStatusFacts DEF Uneventful, Kept
<1> QED
  BY <1>2, <1>3, <1>4, <1>5, <1>6
     DEF Crash, LeaseLapses, SweepRead, MarkResolved, RequeueCutShort, DeskRead,
         ResolveRejected, vars

\* A dispatch counts an attempt for each step of its wave.
LEMMA DispatchCounts ==
  ASSUME IInv, NEW w \in Workers, Dispatch(w)
  PROVE  /\ inst.status = "running" /\ inst'.out = inst.out /\ inst'.spent = inst.spent
         /\ \A s \in Steps : inst'.att[s] # inst.att[s] => s \in Wave
         /\ \A s \in Wave : inst.st[s] \in {"pending", "ready", "failed"}
<1>1. wk[w].pc = "plan" /\ wk[w].fresh /\ inst.status = "running"
  BY DEF Dispatch, Plans
<1>2. inst \in Instances /\ \A s \in Steps : inst.st[s] # "running"
  BY <1>1, PlanView
<1> DEFINE att == [s \in Steps |-> IF s \in Wave THEN inst.att[s] + 1 ELSE inst.att[s]]
<1>3. inst'.out = inst.out /\ inst'.spent = inst.spent /\ inst'.att = att
  <2> HIDE DEF att
  <2>1. att = [s \in Steps |-> IF s \in Wave THEN inst.att[s] + 1 ELSE inst.att[s]]
    BY DEF att
  <2> QED
    BY <1>2, <2>1 DEF Dispatch, DriverAppend, Instances
<1>4. \A s \in Wave : inst.st[s] \in {"pending", "ready", "failed"}
  BY <1>2, WaveFacts
<1> QED
  BY <1>1, <1>3, <1>4

\* A result append charges the wave, and its author had room for it.
LEMMA ResultsCharge ==
  ASSUME IInv, NEW w \in Workers, Results(w)
  PROVE  /\ inst.status = "running" /\ inst'.att = inst.att
         /\ \A s \in Steps : inst.out[s] => inst'.out[s]
         /\ inst'.spent < inst.limit + Cost * inst.defn.max_concurrent_steps
<1>1. inst \in Instances /\ wk[w].pc = "exec" /\ wk[w].fresh
  BY DEF IInv, TypeOK, Results
<1>2. inst.status = "running" /\ StepsIn({"running"}) = InWave(w) /\ inst.spent < inst.limit
  BY <1>1 DEF IInv, FreshView, ViewOf
<1>3. PICK res \in [InWave(w) -> Outcomes] :
        LET succeeded == {s \in InWave(w) : res[s] \in {"ok", "review"}}
        IN /\ inst'.att = inst.att
           /\ inst'.out = [s \in Steps |-> inst.out[s] \/ s \in succeeded]
           /\ inst'.spent = inst.spent + Cost * Cardinality(InWave(w))
  BY <1>1 DEF Results, DriverAppend, Instances
<1>4. Cost * Cardinality(InWave(w)) <= Cost * inst.defn.max_concurrent_steps
  <2>1. /\ Cost \in Nat /\ Cardinality(InWave(w)) \in Nat
        /\ inst.defn.max_concurrent_steps \in Nat
        /\ Cardinality(InWave(w)) <= inst.defn.max_concurrent_steps
    BY <1>1, <1>2, RunningFinite, WorldAssumption, InstanceFields, DefinitionFields
       DEF IInv, InstanceOK, ConcurrencyBounded
  <2>2. \A a \in Nat, b \in Nat, c \in Nat : b <= c => a * b <= a * c
    OBVIOUS
  <2> QED
    BY <2>1, <2>2
<1>5. /\ inst.spent \in Nat /\ inst.limit \in Nat
      /\ Cost * Cardinality(InWave(w)) \in Nat /\ Cost * inst.defn.max_concurrent_steps \in Nat
  <2>1. /\ Cost \in Nat /\ Cardinality(InWave(w)) \in Nat
        /\ inst.defn.max_concurrent_steps \in Nat
    BY <1>1, <1>2, RunningFinite, WorldAssumption, InstanceFields, DefinitionFields
  <2>2. \A a \in Nat, b \in Nat : a * b \in Nat
    OBVIOUS
  <2> QED
    BY <1>1, <2>1, <2>2, InstanceFields
<1>6. inst'.spent < inst.limit + Cost * inst.defn.max_concurrent_steps
  BY <1>2, <1>3, <1>4, <1>5
<1> QED
  BY <1>2, <1>3, <1>6

\* A requeue takes back the attempts of its step, which is one that FAILED or is
\* written down as redone.
LEMMA RequeueResets ==
  ASSUME IInv, NEW k \in 1 .. Len(dlq), Requeue(k)
  PROVE  /\ inst.status = "dead_lettered" /\ inst'.out = inst.out /\ inst'.spent = inst.spent
         /\ \A s \in Steps : inst'.att[s] # inst.att[s] => inst.st[s] = "failed" \/ s \in redone'
<1>1. inst \in Instances /\ inst.att \in [Steps -> Nat]
  BY InstanceFields DEF IInv, TypeOK
<1> DEFINE r == dlq[k].step
<1>2. /\ inst.status = "dead_lettered" /\ inst'.out = inst.out /\ inst'.spent = inst.spent
      /\ inst'.att = [inst.att EXCEPT ![r] = 0]
  <2> HIDE DEF r
  <2>1. r = dlq[k].step
    BY DEF r
  <2> QED
    BY <1>1, <2>1 DEF Requeue, OperatorAppend, Instances
<1>3. redone' = redone \cup ({r} \ StepsIn({"failed"}))
  BY DEF Requeue
<1> HIDE DEF r
<1> QED
  BY <1>1, <1>2, <1>3 DEF StepsIn

\* Every step, from the invariant.
LEMMA StepKinds ==
  ASSUME IInv, [Next]_vars
  PROVE  \/ Uneventful
         \/ \E w \in Workers : Dispatch(w) \/ Results(w)
         \/ \E k \in 1 .. Len(dlq) : Requeue(k)
BY DriveUneventful, OthersUneventful DEF Next

\* COMPLETED and ROLLED_BACK are final.
THEOREM TerminalCorrect == Spec => TerminalIsFinal
<1>1. IInv /\ [Next]_vars =>
        [inst.status \in TerminalWorkflowStatuses =>
           inst'.status = inst.status /\ inst'.st = inst.st /\ inst'.att = inst.att]_vars
  BY StepKinds, DispatchCounts, ResultsCharge, RequeueResets
     DEF Uneventful, TerminalWorkflowStatuses
<1> QED
  BY EngineInvariant, <1>1, PTL DEF Spec, TerminalIsFinal

\* A step with an output starts no further attempt, unless a requeue reset it
\* that was not FAILED.
THEOREM NoRerunCorrect == Spec => NoRerun
<1>1. ASSUME IInv, [Next]_vars, NEW s \in Steps, inst.out[s], s \notin redone'
      PROVE  inst'.att[s] = inst.att[s] /\ inst'.st[s] # "running"
  <2>1. redone \subseteq redone' \/ UNCHANGED vars
    BY <1>1 DEF Next, Drive, Claim, Return, LoseRace, Release, Crash, Recover, Start, BlockOnBudget,
       EscalateForApproval, Dispatch, Results, ScheduleRetries, RaiseReviews, Complete, Park,
       EscalateCostThreshold, EscalateMaxRetries, Rollback, DeadLetter, RecordDeadLetter,
       PauseOnFailure, EndDrive, LeaseLapses, Tick, SweepRead, DeskRead, Resolve,
       ResolveRejected, SweepFire, Control, Requeue, MarkResolved, RequeueCutShort, history, vars
  <2>2. s \notin redone
    BY <1>1, <2>1 DEF vars
  <2>3. inst.st[s] \in {"completed", "waiting_approval", "skipped", "compensated"}
    BY <1>1, <2>2 DEF IInv, InstanceOK, OutputStays
  <2>4. inst'.out[s] /\ inst'.att[s] = inst.att[s]
    <3>1. CASE Uneventful
      BY <1>1, <3>1 DEF Uneventful
    <3>2. CASE \E w \in Workers : Dispatch(w)
      BY <1>1, <2>3, <3>2, DispatchCounts
    <3>3. CASE \E w \in Workers : Results(w)
      BY <1>1, <3>3, ResultsCharge
    <3>4. CASE \E k \in 1 .. Len(dlq) : Requeue(k)
      BY <1>1, <2>3, <3>4, RequeueResets
    <3> QED
      BY <1>1, <3>1, <3>2, <3>3, <3>4, StepKinds
  <2>5. IInv'
    BY <1>1, NextIInv
  <2>6. inst'.st[s] # "running"
    BY <1>1, <2>4, <2>5 DEF IInv, InstanceOK, OutputStays
  <2> QED
    BY <2>4, <2>6, Zenon
<1>2. IInv /\ [Next]_vars =>
        [\A s \in Steps : inst.out[s] /\ s \notin redone' =>
           inst'.att[s] = inst.att[s] /\ inst'.st[s] # "running"]_vars
  BY <1>1
<1> QED
  BY EngineInvariant, <1>2, PTL DEF Spec, NoRerun

\* The instance is never charged to more than a wave above the limit.
THEOREM OverspendCorrect == Spec => OverspendBounded
<1>1. ASSUME IInv, [Next]_vars, inst'.spent > inst.spent
      PROVE  inst'.spent < inst.limit + Cost * inst.defn.max_concurrent_steps
  <2>1. inst.spent \in Nat
    BY <1>1, InstanceFields DEF IInv, TypeOK
  <2>2. inst'.spent # inst.spent
    BY <1>1, <2>1
  <2>3. CASE \E w \in Workers : Results(w)
    BY <1>1, <2>3, ResultsCharge
  <2> QED
    BY <1>1, <2>2, <2>3, StepKinds, DispatchCounts, RequeueResets DEF Uneventful
<1>2. IInv /\ [Next]_vars =>
        [inst'.spent > inst.spent =>
           inst'.spent < inst.limit + Cost * inst.defn.max_concurrent_steps]_vars
  BY <1>1
<1> QED
  BY EngineInvariant, <1>2, PTL DEF Spec, OverspendBounded
=============================================================================
