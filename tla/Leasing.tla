------------------------------ MODULE Leasing -------------------------------
(***************************************************************************)
(* Workers claiming instances: PgLeaseStore (core/leasing.py) together     *)
(* with the claim, heartbeat and drive loops of the worker process         *)
(* (worker.py).                                                            *)
(*                                                                         *)
(* A worker process is three coroutines that share the dictionary _active. *)
(* Every await is a point where the others, and the other workers, run, so *)
(* each operation is split at its awaits:                                  *)
(*   claim      ClaimSelect -> ClaimLock -> ClaimCommit                     *)
(*   heartbeat  HeartbeatSend -> HeartbeatReply                             *)
(*   drive      (spawned) driving -> releasing -> released -> popped        *)
(*                                                                         *)
(* PostgreSQL runs at READ COMMITTED, the engine's default.  The claim     *)
(* statement sees the lease rows of the snapshot taken when it starts;     *)
(* FOR UPDATE OF instance_index SKIP LOCKED then locks the index rows and  *)
(* re-evaluates the index columns alone, so the lease columns may be stale *)
(* by the time of the upsert.                                              *)
(*                                                                         *)
(* Time is kept relative: left is the number of ticks until expires_at, so *)
(* "expires_at < now" is left < 0.  All workers read the same clock.       *)
(***************************************************************************)
EXTENDS Integers, FiniteSets

CONSTANTS
  Workers,      \* worker processes, identified by worker_id
  Instances,    \* workflow instances in instance_index
  NoWorker,     \* worker_id of an instance that has no lease row yet
  TTL,          \* lease_seconds, in ticks
  Concurrency,  \* drives each worker runs at a time
  Timely,       \* TRUE: a running worker's heartbeat always beats the expiry
  MaxFaults,    \* bound: crashes, stops, late heartbeats, failed drives and
                \* releases, wake-ups
  MaxFence      \* bound: no claim statement is started for a higher fence_token

ASSUME NoWorkerAssumption == NoWorker \notin Workers
ASSUME TTLAssumption == TTL \in Nat \ {0}
ASSUME ConcurrencyAssumption == Concurrency \in [Workers -> Nat \ {0}]
ASSUME BoundsAssumption == Timely \in BOOLEAN /\ MaxFaults \in Nat /\ MaxFence \in Nat
ASSUME FiniteAssumption == IsFiniteSet(Instances)

VARIABLES
  runnable,   \* index row: runnable status and next_wakeup_at passed
  lease,      \* instance_leases, one row per instance
  mode,       \* "up", "draining" (run() is in _drain) or "down"
  task,       \* _active: the drive task of each instance, or none
  claim,      \* the claim transaction a worker has open
  beat,       \* the heartbeat statement a worker has outstanding
  faults      \* how many of the MaxFaults have been used

vars == <<runnable, lease, mode, task, claim, beat, faults>>

TaskStates == {"none", "driving", "releasing", "released", "leaked"}
NoTask == [pc |-> "none", fence |-> 0]
NoClaim == [pc |-> "idle", rows |-> {}, free |-> 0]
NoBeat == [sent |-> FALSE, lost |-> {}]

Active(w) == {i \in Instances : task[w][i].pc # "none"}

\* The guard every append of a drive runs: worker_id and fence_token match.
Guarded(w, i) ==
  /\ task[w][i].pc = "driving"
  /\ lease[i].owner = w
  /\ lease[i].fence = task[w][i].fence

Locked(i) == \E w \in Workers : claim[w].pc = "locked" /\ i \in claim[w].rows

UseFault ==
  /\ faults < MaxFaults
  /\ faults' = faults + 1

Init ==
  /\ runnable = [i \in Instances |-> TRUE]
  /\ lease = [i \in Instances |-> [owner |-> NoWorker, fence |-> 0, left |-> -1]]
  /\ mode = [w \in Workers |-> "up"]
  /\ task = [w \in Workers |-> [i \in Instances |-> NoTask]]
  /\ claim = [w \in Workers |-> NoClaim]
  /\ beat = [w \in Workers |-> NoBeat]
  /\ faults = 0
-----------------------------------------------------------------------------
(***************************************************************************)
(* The claim loop.                                                         *)
(***************************************************************************)

\* What the claim statement's snapshot shows as claimable.
Claimable(i) == runnable[i] /\ lease[i].left < 0 /\ lease[i].fence < MaxFence

\* Mutant: every claim asks for Concurrency instances, whatever is active.
ClaimSelectFullBatch(w) ==
  LET rows == {i \in Instances : Claimable(i)}
  IN /\ mode[w] = "up"
     /\ claim[w].pc = "idle"
     /\ Cardinality(Active(w)) <= Concurrency[w]
     /\ rows # {}
     /\ claim' = [claim EXCEPT ![w] =
                    [pc |-> "selected", rows |-> rows, free |-> Concurrency[w]]]
     /\ UNCHANGED <<runnable, lease, mode, task, beat, faults>>

\* _claim_loop computes free and acquire_runnable's statement takes its
\* snapshot.  A poll that finds nothing changes nothing.
ClaimSelect(w) ==
  LET rows == {i \in Instances : Claimable(i)}
      free == Concurrency[w] - Cardinality(Active(w))
  IN /\ mode[w] = "up"
     /\ claim[w].pc = "idle"
     /\ free > 0
     /\ rows # {}
     /\ claim' = [claim EXCEPT ![w] = [pc |-> "selected", rows |-> rows, free |-> free]]
     /\ UNCHANGED <<runnable, lease, mode, task, beat, faults>>

\* The rows that LIMIT and FOR UPDATE OF i SKIP LOCKED leave: at most free of
\* those that nobody has locked and whose index columns still qualify.  The
\* lease columns are not read again.
ClaimLock(w) ==
  LET open == {i \in claim[w].rows : ~Locked(i) /\ runnable[i]}
  IN /\ claim[w].pc = "selected"
     /\ \E R \in SUBSET open :
          /\ Cardinality(R) =
               IF Cardinality(open) < claim[w].free THEN Cardinality(open) ELSE claim[w].free
          /\ claim' = [claim EXCEPT ![w] =
               IF R = {} THEN NoClaim ELSE [@ EXCEPT !.pc = "locked", !.rows = R]]
     /\ UNCHANGED <<runnable, lease, mode, task, beat, faults>>

\* Mutant: ON CONFLICT takes the inserted row's fence_token, 1.
ClaimCommitInsertedFence(w) ==
  LET R == claim[w].rows
  IN /\ claim[w].pc = "locked"
     /\ lease' = [i \in Instances |->
          IF i \in R THEN [owner |-> w, fence |-> 1, left |-> TTL] ELSE lease[i]]
     /\ task' = [task EXCEPT ![w] = [i \in Instances |->
          IF i \in R /\ task[w][i].pc = "none" THEN [pc |-> "driving", fence |-> 1]
                                              ELSE task[w][i]]]
     /\ claim' = [claim EXCEPT ![w] = NoClaim]
     /\ UNCHANGED <<runnable, mode, beat, faults>>

\* The upserts commit and the loop spawns a drive for each lease whose
\* instance is not in _active; a lease for one that is stays without a drive.
ClaimCommit(w) ==
  LET R == claim[w].rows
  IN /\ claim[w].pc = "locked"
     /\ lease' = [i \in Instances |->
          IF i \in R THEN [owner |-> w, fence |-> lease[i].fence + 1, left |-> TTL]
                     ELSE lease[i]]
     /\ task' = [task EXCEPT ![w] = [i \in Instances |->
          IF i \in R /\ task[w][i].pc = "none"
          THEN [pc |-> "driving", fence |-> lease[i].fence + 1]
          ELSE task[w][i]]]
     /\ claim' = [claim EXCEPT ![w] = NoClaim]
     /\ UNCHANGED <<runnable, mode, beat, faults>>
-----------------------------------------------------------------------------
(***************************************************************************)
(* The heartbeat loop.  The statement matches rows by worker_id only, and  *)
(* renews a lease whether or not it has expired.                           *)
(***************************************************************************)

\* Mutant: expires_at is moved on from its old value, not from now.
HeartbeatSendExtends(w) ==
  /\ mode[w] = "up"
  /\ ~beat[w].sent
  /\ Active(w) # {}
  /\ lease' = [i \in Instances |->
       IF i \in Active(w) /\ lease[i].owner = w
       THEN [lease[i] EXCEPT !.left = lease[i].left + TTL] ELSE lease[i]]
  /\ beat' = [beat EXCEPT ![w] =
       [sent |-> TRUE, lost |-> {i \in Active(w) : lease[i].owner # w}]]
  /\ UNCHANGED <<runnable, mode, task, claim, faults>>

\* heartbeat(): one UPDATE that sets expires_at to now + lease_seconds, and
\* tells the rows it matched from those it did not.
HeartbeatSend(w) ==
  /\ mode[w] = "up"
  /\ ~beat[w].sent
  /\ Active(w) # {}
  /\ lease' = [i \in Instances |->
       IF i \in Active(w) /\ lease[i].owner = w THEN [lease[i] EXCEPT !.left = TTL]
                                                 ELSE lease[i]]
  /\ beat' = [beat EXCEPT ![w] =
       [sent |-> TRUE, lost |-> {i \in Active(w) : lease[i].owner # w}]]
  /\ UNCHANGED <<runnable, mode, task, claim, faults>>

\* task.cancel(): CancelledError at the await the drive is suspended in.  In
\* the drive it leads to the finally block; inside the finally block, where
\* only Exception is suppressed, it skips the pop from _active.
Cancelled(t) ==
  CASE t.pc = "driving" -> [t EXCEPT !.pc = "releasing"]
    [] t.pc \in {"releasing", "released"} -> [t EXCEPT !.pc = "leaked"]
    [] OTHER -> t

HeartbeatReply(w) ==
  /\ mode[w] = "up"
  /\ beat[w].sent
  /\ task' = [task EXCEPT ![w] = [i \in Instances |->
       IF i \in beat[w].lost THEN Cancelled(task[w][i]) ELSE task[w][i]]]
  /\ beat' = [beat EXCEPT ![w] = NoBeat]
  /\ UNCHANGED <<runnable, lease, mode, claim, faults>>
-----------------------------------------------------------------------------
(***************************************************************************)
(* A drive and the finally block of _drive_one.                            *)
(***************************************************************************)

\* The drive's last guarded append leaves the instance in a status that is not
\* runnable, or parked until later.  The append updates the index row, so it
\* waits for a claim transaction that has the row locked.
DriveFinish(w, i) ==
  /\ Guarded(w, i)
  /\ ~Locked(i)
  /\ runnable' = [runnable EXCEPT ![i] = FALSE]
  /\ task' = [task EXCEPT ![w][i].pc = "releasing"]
  /\ UNCHANGED <<lease, mode, claim, beat, faults>>

\* An append's guard raises LeaseLostError: DriveResult.LEASE_LOST.
DriveLost(w, i) ==
  /\ task[w][i].pc = "driving"
  /\ ~Guarded(w, i)
  /\ task' = [task EXCEPT ![w][i].pc = "releasing"]
  /\ UNCHANGED <<runnable, lease, mode, claim, beat, faults>>

\* The drive raises, conflicts with an operator, or returns IDLE.
DriveError(w, i) ==
  /\ task[w][i].pc = "driving"
  /\ UseFault
  /\ task' = [task EXCEPT ![w][i].pc = "releasing"]
  /\ UNCHANGED <<runnable, lease, mode, claim, beat>>

\* Mutant: release() matches the row by instance_id alone.
ReleaseAnyOwner(w, i) ==
  /\ task[w][i].pc = "releasing"
  /\ task' = [task EXCEPT ![w][i].pc = "released"]
  /\ lease' = [lease EXCEPT ![i].left = -1]
  /\ UNCHANGED <<runnable, mode, claim, beat, faults>>

\* release() commits.  It matches the row by worker_id, not by fence.
Release(w, i) ==
  /\ task[w][i].pc = "releasing"
  /\ task' = [task EXCEPT ![w][i].pc = "released"]
  /\ lease' = [lease EXCEPT ![i].left = IF lease[i].owner = w THEN -1 ELSE @]
  /\ UNCHANGED <<runnable, mode, claim, beat, faults>>

\* release() raised (suppressed): the lease is left to expire.
ReleaseFails(w, i) ==
  /\ task[w][i].pc = "releasing"
  /\ UseFault
  /\ task' = [task EXCEPT ![w][i].pc = "released"]
  /\ UNCHANGED <<runnable, lease, mode, claim, beat>>

\* self._active.pop
Pop(w, i) ==
  /\ task[w][i].pc = "released"
  /\ task' = [task EXCEPT ![w][i] = NoTask]
  /\ UNCHANGED <<runnable, lease, mode, claim, beat, faults>>
-----------------------------------------------------------------------------
(***************************************************************************)
(* The process's life, and the world around it.                            *)
(***************************************************************************)

\* stop(): the claim loop exits and the background tasks are cancelled before
\* the drives are drained, so heartbeats end while drives still run.
Stop(w) ==
  /\ mode[w] = "up"
  /\ claim[w].pc = "idle"
  /\ UseFault
  /\ mode' = [mode EXCEPT ![w] = "draining"]
  /\ beat' = [beat EXCEPT ![w] = NoBeat]
  /\ UNCHANGED <<runnable, lease, task, claim>>

Drained(w) ==
  /\ mode[w] = "draining"
  /\ \A i \in Instances : task[w][i].pc \in {"none", "leaked"}
  /\ mode' = [mode EXCEPT ![w] = "down"]
  /\ task' = [task EXCEPT ![w] = [i \in Instances |-> NoTask]]
  /\ UNCHANGED <<runnable, lease, claim, beat, faults>>

Crash(w) ==
  /\ mode[w] # "down"
  /\ UseFault
  /\ mode' = [mode EXCEPT ![w] = "down"]
  /\ task' = [task EXCEPT ![w] = [i \in Instances |-> NoTask]]
  /\ claim' = [claim EXCEPT ![w] = NoClaim]
  /\ beat' = [beat EXCEPT ![w] = NoBeat]
  /\ UNCHANGED <<runnable, lease>>

Restart(w) ==
  /\ mode[w] = "down"
  /\ mode' = [mode EXCEPT ![w] = "up"]
  /\ UNCHANGED <<runnable, lease, task, claim, beat, faults>>

\* A running worker's lease would expire under its drive at the next tick.
AboutToLapse(i) ==
  \E w \in Workers :
    mode[w] = "up" /\ task[w][i].pc # "none" /\ lease[i].owner = w /\ lease[i].left = 0

\* A tick of the clock.  What the code tells apart of an expired lease is only
\* that expires_at < now, so left stops at -1.  Letting a renewed lease lapse (two missed beats, a
\* blocked event loop, a partition) counts as a fault, impossible when Timely.
Tick ==
  /\ \E i \in Instances : lease[i].left >= 0
  /\ IF \E i \in Instances : AboutToLapse(i)
     THEN ~Timely /\ UseFault
     ELSE UNCHANGED faults
  /\ lease' = [i \in Instances |->
       [lease[i] EXCEPT !.left = IF @ >= 0 THEN @ - 1 ELSE @]]
  /\ UNCHANGED <<runnable, mode, task, claim, beat>>

\* A parked instance's wake-up time passes, or an operator resumes it.
Wake(i) ==
  /\ ~runnable[i]
  /\ ~Locked(i)
  /\ UseFault
  /\ runnable' = [runnable EXCEPT ![i] = TRUE]
  /\ UNCHANGED <<lease, mode, task, claim, beat>>

Next ==
  \/ \E w \in Workers :
       \/ ClaimSelect(w) \/ ClaimLock(w) \/ ClaimCommit(w)
       \/ HeartbeatSend(w) \/ HeartbeatReply(w)
       \/ Stop(w) \/ Drained(w) \/ Crash(w) \/ Restart(w)
       \/ \E i \in Instances :
            \/ DriveFinish(w, i) \/ DriveLost(w, i) \/ DriveError(w, i)
            \/ Release(w, i) \/ ReleaseFails(w, i) \/ Pop(w, i)
  \/ \E i \in Instances : Wake(i)
  \/ Tick

Spec == Init /\ [][Next]_vars

(***************************************************************************)
(* Fairness: the event loop keeps scheduling every coroutine of a live     *)
(* process, a drive that holds its lease ends, the orchestrator restarts a *)
(* dead worker, and time passes.  Nothing is assumed of faults.            *)
(***************************************************************************)
Fairness ==
  /\ \A w \in Workers :
       /\ WF_vars(ClaimSelect(w)) /\ WF_vars(ClaimLock(w)) /\ WF_vars(ClaimCommit(w))
       /\ WF_vars(HeartbeatSend(w)) /\ WF_vars(HeartbeatReply(w))
       /\ WF_vars(Drained(w)) /\ WF_vars(Restart(w))
       /\ \A i \in Instances :
            /\ WF_vars(DriveFinish(w, i)) /\ WF_vars(DriveLost(w, i))
            /\ WF_vars(Release(w, i)) /\ WF_vars(Pop(w, i))
  /\ WF_vars(Tick)

FairSpec == Spec /\ Fairness
-----------------------------------------------------------------------------
LeaseRows == [owner : Workers \cup {NoWorker}, fence : Nat, left : -1 .. TTL]
DriveTasks == [pc : TaskStates, fence : Nat]
Claims == [pc : {"idle", "selected", "locked"}, rows : SUBSET Instances, free : Int]
Beats == [sent : BOOLEAN, lost : SUBSET Instances]

\* Every lease row, drive task, claim and heartbeat of the code is one of these
\* records; in particular no lease reaches further ahead than lease_seconds,
\* which is how long a crashed worker's instances may stay unclaimed.
TypeOK ==
  /\ runnable \in [Instances -> BOOLEAN]
  /\ lease \in [Instances -> LeaseRows]
  /\ mode \in [Workers -> {"up", "draining", "down"}]
  /\ task \in [Workers -> [Instances -> DriveTasks]]
  /\ claim \in [Workers -> Claims]
  /\ beat \in [Workers -> Beats]
  /\ faults \in 0 .. MaxFaults

\* No two workers' drives of one instance carry the same fence token, and no
\* drive is ahead of the lease row: acquire_runnable's upsert hands out a new
\* token each time, so of all the drives ever started for an instance at most
\* the latest can pass the guard.
FencesDistinct ==
  \A i \in Instances : \A w \in Workers :
    /\ task[w][i].fence <= lease[i].fence
    /\ \A v \in Workers \ {w} :
         task[w][i].pc # "none" /\ task[v][i].pc # "none"
           => task[w][i].fence # task[v][i].fence

\* The worker never has more drives in _active than its concurrency, although
\* the number of free slots is computed before the await of the claim.
SlotsBounded == \A w \in Workers : Cardinality(Active(w)) <= Concurrency[w]

\* fence_token never decreases, and grows by one with each change of owner:
\* the row is only ever rewritten by the claim's upsert.
FenceMonotonic ==
  [][\A i \in Instances :
       /\ lease'[i].fence >= lease[i].fence
       /\ lease'[i].owner # lease[i].owner => lease'[i].fence = lease[i].fence + 1]_vars

\* release() matches the row by worker_id and not by fence, yet the lease of a
\* drive that passes its guard is never ended by anything but the clock.
NoReleaseUnderDrive ==
  [][\A w \in Workers, i \in Instances :
       Guarded(w, i) /\ Guarded(w, i)' => lease'[i].left >= lease[i].left - 1]_vars

\* ADR-0004: "Recovery is automatic and needs no operator action."  A runnable
\* instance is always driven, in the end, by a worker that holds its lease
\* (or changes hands so often that the bound MaxFence is reached).  The code
\* does not keep this: a heartbeat's answer that cancels a drive inside the
\* finally block of _drive_one leaves its entry in _active for good, and once the
\* same worker claims the instance again it renews a lease it never drives.
RunnableIsDriven ==
  \A i \in Instances : runnable[i] ~> (~runnable[i] \/ lease[i].fence >= MaxFence)
=============================================================================
