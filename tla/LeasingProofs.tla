--------------------------- MODULE LeasingProofs ----------------------------
(***************************************************************************)
(* What the lease protocol guarantees for every fleet: the types, the      *)
(* fence tokens of concurrent drives, and the worker's slot accounting.    *)
(***************************************************************************)
EXTENDS Leasing, FiniteSetTheorems, TLAPS

(***************************************************************************)
(* The number of drives a worker runs is an actual number.                 *)
(***************************************************************************)
\* A worker's _active is a finite set, so len(_active) is a natural number.
LEMMA ActiveFinite ==
  ASSUME NEW w \in Workers
  PROVE  /\ IsFiniteSet(Active(w))
         /\ Cardinality(Active(w)) \in Nat
BY FiniteAssumption, FS_Subset, FS_CardinalityType DEF Active

(***************************************************************************)
(* The records the actions write, as facts about their types: the proofs   *)
(* below never open a record set.                                          *)
(***************************************************************************)
\* The initial records belong to their types.
LEMMA EmptyRecords ==
  /\ NoTask \in DriveTasks /\ NoTask.pc = "none" /\ NoTask.fence = 0
  /\ NoClaim \in Claims /\ NoBeat \in Beats
BY DEF NoTask, DriveTasks, TaskStates, NoClaim, Claims, NoBeat, Beats

\* Renewing, releasing or ticking a lease row changes its expiry alone.
LEMMA LeaseLeftSet ==
  ASSUME NEW r \in LeaseRows, NEW n \in -1 .. TTL
  PROVE  /\ [r EXCEPT !.left = n] \in LeaseRows
         /\ [r EXCEPT !.left = n].fence = r.fence
         /\ [r EXCEPT !.left = n].owner = r.owner
BY DEF LeaseRows

\* Fields of a lease row.
LEMMA LeaseFields ==
  ASSUME NEW r \in LeaseRows
  PROVE  r.fence \in Nat /\ r.left \in -1 .. TTL /\ r.owner \in Workers \cup {NoWorker}
BY DEF LeaseRows

\* Moving a drive task to another state keeps its fence.
LEMMA TaskPc ==
  ASSUME NEW t \in DriveTasks, NEW p \in TaskStates
  PROVE  /\ [t EXCEPT !.pc = p] \in DriveTasks
         /\ [t EXCEPT !.pc = p].fence = t.fence
         /\ [t EXCEPT !.pc = p].pc = p
BY DEF DriveTasks

\* Cancelling a drive task keeps its fence, and never brings one into being.
LEMMA CancelledTask ==
  ASSUME NEW t \in DriveTasks
  PROVE  /\ Cancelled(t) \in DriveTasks
         /\ Cancelled(t).fence = t.fence
         /\ t.pc = "none" => Cancelled(t).pc = "none"
<1>1. "releasing" \in TaskStates /\ "leaked" \in TaskStates
  BY DEF TaskStates
<1> QED
  BY <1>1, TaskPc DEF Cancelled

\* What assigning one drive's pc does to _active.
LEMMA TaskPcSet ==
  ASSUME TypeOK, NEW w \in Workers, NEW i \in Instances, NEW p \in TaskStates,
         task' = [task EXCEPT ![w][i].pc = p]
  PROVE  /\ task' \in [Workers -> [Instances -> DriveTasks]]
         /\ \A u \in Workers, j \in Instances :
              /\ task'[u][j].fence = task[u][j].fence
              /\ task'[u][j].pc = IF u = w /\ j = i THEN p ELSE task[u][j].pc
<1> DEFINE t == [task[w][i] EXCEPT !.pc = p]
<1>1. task \in [Workers -> [Instances -> DriveTasks]]
  BY DEF TypeOK
<1>2. t \in DriveTasks /\ t.fence = task[w][i].fence /\ t.pc = p
  BY <1>1, TaskPc
<1>3. task' = [task EXCEPT ![w] = [task[w] EXCEPT ![i] = t]]
  OBVIOUS
<1> HIDE DEF t
<1>4. task' \in [Workers -> [Instances -> DriveTasks]]
  BY <1>1, <1>2, <1>3
<1>5. ASSUME NEW u \in Workers, NEW j \in Instances
      PROVE  task'[u][j] = IF u = w /\ j = i THEN t ELSE task[u][j]
  BY <1>1, <1>3
<1> QED
  BY <1>2, <1>4, <1>5

-----------------------------------------------------------------------------
\* Every action of the worker and of the lease store keeps the state in its
\* type.
LEMMA TypeStep == TypeOK /\ [Next]_vars => TypeOK'
<1> SUFFICES ASSUME TypeOK, [Next]_vars PROVE TypeOK'
    OBVIOUS
<1>a. {"none", "driving", "releasing", "released", "leaked"} = TaskStates
  BY DEF TaskStates
<1>b. -1 \in -1 .. TTL /\ TTL \in -1 .. TTL /\ TTL \in Nat
  BY TTLAssumption
<1>c. faults \in 0 .. MaxFaults /\ UseFault => faults' \in 0 .. MaxFaults
  BY BoundsAssumption DEF UseFault
<1>1. ASSUME NEW w \in Workers, ClaimSelect(w) PROVE TypeOK'
  <2>1. [pc |-> "selected", rows |-> {i \in Instances : Claimable(i)},
         free |-> Concurrency[w] - Cardinality(Active(w))] \in Claims
    BY ActiveFinite, ConcurrencyAssumption DEF Claims
  <2> QED
    BY <1>1, <2>1 DEF ClaimSelect, TypeOK
<1>2. ASSUME NEW w \in Workers, ClaimLock(w) PROVE TypeOK'
  <2>1. PICK R \in SUBSET claim[w].rows :
          claim' = [claim EXCEPT ![w] =
            IF R = {} THEN NoClaim ELSE [claim[w] EXCEPT !.pc = "locked", !.rows = R]]
    BY <1>2 DEF ClaimLock
  <2>2. [claim[w] EXCEPT !.pc = "locked", !.rows = R] \in Claims
    BY DEF Claims, TypeOK
  <2> QED
    BY <1>2, <2>1, <2>2, EmptyRecords DEF ClaimLock, TypeOK
<1>3. ASSUME NEW w \in Workers, ClaimCommit(w) PROVE TypeOK'
  <2>1. ASSUME NEW i \in Instances
        PROVE  /\ [owner |-> w, fence |-> lease[i].fence + 1, left |-> TTL] \in LeaseRows
               /\ [pc |-> "driving", fence |-> lease[i].fence + 1] \in DriveTasks
    <3>1. lease[i].fence + 1 \in Nat
      BY LeaseFields DEF TypeOK
    <3> QED
      BY <3>1, <1>b DEF LeaseRows, DriveTasks, TaskStates
  <2> QED
    BY <1>3, <2>1, EmptyRecords DEF ClaimCommit, TypeOK
<1>4. ASSUME NEW w \in Workers, HeartbeatSend(w) PROVE TypeOK'
  <2>1. lease' \in [Instances -> LeaseRows]
    BY <1>4, <1>b, LeaseLeftSet DEF HeartbeatSend, TypeOK
  <2>2. [sent |-> TRUE, lost |-> {i \in Active(w) : lease[i].owner # w}] \in Beats
    BY DEF Active, Beats
  <2> QED
    BY <1>4, <2>1, <2>2 DEF HeartbeatSend, TypeOK
<1>5. ASSUME NEW w \in Workers, HeartbeatReply(w) PROVE TypeOK'
  BY <1>5, CancelledTask, EmptyRecords DEF HeartbeatReply, TypeOK
<1>6. ASSUME NEW w \in Workers, Stop(w) PROVE TypeOK'
  BY <1>6, <1>c, EmptyRecords DEF Stop, TypeOK
<1>7. ASSUME NEW w \in Workers, Drained(w) PROVE TypeOK'
  BY <1>7, EmptyRecords DEF Drained, TypeOK
<1>8. ASSUME NEW w \in Workers, Crash(w) PROVE TypeOK'
  BY <1>8, <1>c, EmptyRecords DEF Crash, TypeOK
<1>9. ASSUME NEW w \in Workers, Restart(w) PROVE TypeOK'
  BY <1>9 DEF Restart, TypeOK
<1>10. ASSUME NEW w \in Workers, NEW i \in Instances, DriveFinish(w, i) PROVE TypeOK'
  <2>1. task' \in [Workers -> [Instances -> DriveTasks]]
    BY <1>10, <1>a, TaskPcSet DEF DriveFinish
  <2> QED
    BY <1>10, <2>1 DEF DriveFinish, TypeOK
<1>11. ASSUME NEW w \in Workers, NEW i \in Instances, DriveLost(w, i) PROVE TypeOK'
  <2>1. task' \in [Workers -> [Instances -> DriveTasks]]
    BY <1>11, <1>a, TaskPcSet DEF DriveLost
  <2> QED
    BY <1>11, <2>1 DEF DriveLost, TypeOK
<1>12. ASSUME NEW w \in Workers, NEW i \in Instances, DriveError(w, i) PROVE TypeOK'
  <2>1. task' \in [Workers -> [Instances -> DriveTasks]]
    BY <1>12, <1>a, TaskPcSet DEF DriveError
  <2> QED
    BY <1>12, <1>c, <2>1 DEF DriveError, TypeOK
<1>13. ASSUME NEW w \in Workers, NEW i \in Instances, Release(w, i) PROVE TypeOK'
  <2>1. task' \in [Workers -> [Instances -> DriveTasks]]
    BY <1>13, <1>a, TaskPcSet DEF Release
  <2>2. lease' \in [Instances -> LeaseRows]
    BY <1>13, <1>b, LeaseLeftSet, LeaseFields DEF Release, TypeOK
  <2> QED
    BY <1>13, <2>1, <2>2 DEF Release, TypeOK
<1>14. ASSUME NEW w \in Workers, NEW i \in Instances, ReleaseFails(w, i) PROVE TypeOK'
  <2>1. task' \in [Workers -> [Instances -> DriveTasks]]
    BY <1>14, <1>a, TaskPcSet DEF ReleaseFails
  <2> QED
    BY <1>14, <1>c, <2>1 DEF ReleaseFails, TypeOK
<1>15. ASSUME NEW w \in Workers, NEW i \in Instances, Pop(w, i) PROVE TypeOK'
  BY <1>15, EmptyRecords DEF Pop, TypeOK
<1>16. ASSUME NEW i \in Instances, Wake(i) PROVE TypeOK'
  BY <1>16, <1>c DEF Wake, TypeOK
<1>17. CASE Tick
  <2>1. ASSUME NEW i \in Instances
        PROVE  [lease[i] EXCEPT !.left = IF @ >= 0 THEN @ - 1 ELSE @] \in LeaseRows
    <3>1. (IF lease[i].left >= 0 THEN lease[i].left - 1 ELSE lease[i].left) \in -1 .. TTL
      BY <1>b, LeaseFields DEF TypeOK
    <3> QED
      BY <3>1, LeaseLeftSet DEF TypeOK
  <2>2. lease' \in [Instances -> LeaseRows]
    BY <1>17, <2>1 DEF Tick
  <2>3. faults' \in 0 .. MaxFaults
    BY <1>17, <1>c DEF Tick, TypeOK
  <2> QED
    BY <1>17, <2>2, <2>3 DEF Tick, TypeOK
<1>18. CASE UNCHANGED vars
  BY <1>18 DEF vars, TypeOK
<1> QED
  BY <1>1, <1>2, <1>3, <1>4, <1>5, <1>6, <1>7, <1>8, <1>9, <1>10, <1>11, <1>12,
     <1>13, <1>14, <1>15, <1>16, <1>17, <1>18 DEF Next

\* The state of the lease store and of every worker keeps its type.
THEOREM TypeCorrect == Spec => []TypeOK
<1>1. Init => TypeOK
  BY TTLAssumption, BoundsAssumption, EmptyRecords DEF Init, TypeOK, LeaseRows
<1> QED
  BY <1>1, TypeStep, PTL DEF Spec

-----------------------------------------------------------------------------
(***************************************************************************)
(* Fencing.  Only ClaimCommit writes a fence, and it writes one above the  *)
(* row's, hence above every drive's; FencesDistinct is inductive.          *)
(***************************************************************************)
\* Every action keeps drives behind the lease row and apart from each other.
LEMMA FencesStep == TypeOK /\ FencesDistinct /\ [Next]_vars => FencesDistinct'
<1> SUFFICES ASSUME TypeOK, FencesDistinct, [Next]_vars PROVE FencesDistinct'
    OBVIOUS
<1>1. ASSUME NEW w \in Workers, ClaimCommit(w) PROVE FencesDistinct'
  <2> SUFFICES ASSUME NEW i \in Instances, NEW u \in Workers, NEW v \in Workers
               PROVE  /\ task'[u][i].fence <= lease'[i].fence
                      /\ (v # u /\ task'[u][i].pc # "none" /\ task'[v][i].pc # "none")
                           => task'[u][i].fence # task'[v][i].fence
    BY DEF FencesDistinct
  <2> DEFINE fresh == i \in claim[w].rows /\ task[w][i].pc = "none"
  <2>1. /\ lease[i].fence \in Nat
        /\ \A x \in Workers : task[x][i].fence \in Nat /\ task[x][i].fence <= lease[i].fence
    BY DEF TypeOK, FencesDistinct, LeaseRows, DriveTasks
  <2>2. lease'[i].fence = IF i \in claim[w].rows THEN lease[i].fence + 1 ELSE lease[i].fence
    BY <1>1 DEF ClaimCommit
  <2>3. task'[w][i] = IF fresh THEN [pc |-> "driving", fence |-> lease[i].fence + 1]
                               ELSE task[w][i]
    BY <1>1 DEF ClaimCommit, TypeOK
  <2>4. \A x \in Workers \ {w} : task'[x][i] = task[x][i]
    BY <1>1 DEF ClaimCommit, TypeOK
  <2>5. task'[u][i].fence <= lease'[i].fence
    BY <2>1, <2>2, <2>3, <2>4
  <2>6. ASSUME v # u, task'[u][i].pc # "none", task'[v][i].pc # "none"
        PROVE  task'[u][i].fence # task'[v][i].fence
    <3>1. CASE fresh
      <4>1. task'[w][i].fence = lease[i].fence + 1
        BY <2>3, <3>1
      <4>2. \A x \in Workers \ {w} :
              task'[x][i].fence \in Nat /\ task'[x][i].fence <= lease[i].fence
        BY <2>1, <2>4
      <4> QED
        <5>1. CASE u = w
          BY <2>1, <2>6, <4>1, <4>2, <5>1
        <5>2. CASE v = w
          BY <2>1, <2>6, <4>1, <4>2, <5>2
        <5>3. CASE u # w /\ v # w
          <6>1. task'[u][i] = task[u][i] /\ task'[v][i] = task[v][i]
            BY <2>4, <5>3
          <6> QED
            BY <2>6, <6>1 DEF FencesDistinct
        <5> QED
          BY <5>1, <5>2, <5>3
    <3>2. CASE ~fresh
      <4>1. task'[u][i] = task[u][i] /\ task'[v][i] = task[v][i]
        BY <2>3, <2>4, <3>2
      <4> QED
        BY <2>6, <4>1 DEF FencesDistinct
    <3> QED
      BY <3>1, <3>2
  <2> QED
    BY <2>5, <2>6
<1>2. ASSUME /\ \A i \in Instances : lease'[i].fence = lease[i].fence
             /\ \A u \in Workers, i \in Instances :
                  \/ task'[u][i].fence = task[u][i].fence
                       /\ (task[u][i].pc = "none" => task'[u][i].pc = "none")
                  \/ task'[u][i] = NoTask
      PROVE  FencesDistinct'
  <2> SUFFICES ASSUME NEW i \in Instances, NEW u \in Workers, NEW v \in Workers
               PROVE  /\ task'[u][i].fence <= lease'[i].fence
                      /\ (v # u /\ task'[u][i].pc # "none" /\ task'[v][i].pc # "none")
                           => task'[u][i].fence # task'[v][i].fence
    BY DEF FencesDistinct
  <2>1. lease[i].fence \in Nat /\ 0 <= lease[i].fence
    BY LeaseFields DEF TypeOK
  <2>2. task'[u][i].fence <= lease'[i].fence
    BY <1>2, <2>1, EmptyRecords DEF FencesDistinct
  <2>3. ASSUME v # u, task'[u][i].pc # "none", task'[v][i].pc # "none"
        PROVE  task'[u][i].fence # task'[v][i].fence
    <3>1. \A x \in {u, v} : task'[x][i].fence = task[x][i].fence /\ task[x][i].pc # "none"
      BY <1>2, <2>3, EmptyRecords
    <3> QED
      BY <2>3, <3>1 DEF FencesDistinct
  <2> QED
    BY <2>2, <2>3
<1>3. ASSUME NEW w \in Workers,
             ClaimSelect(w) \/ ClaimLock(w) \/ Stop(w) \/ Restart(w)
      PROVE  FencesDistinct'
  BY <1>2, <1>3 DEF ClaimSelect, ClaimLock, Stop, Restart
<1>4. ASSUME NEW w \in Workers, HeartbeatSend(w) PROVE FencesDistinct'
  BY <1>2, <1>4 DEF HeartbeatSend, TypeOK
<1>5. ASSUME NEW w \in Workers, HeartbeatReply(w) PROVE FencesDistinct'
  BY <1>2, <1>5 DEF HeartbeatReply, Cancelled, TypeOK
<1>6. ASSUME NEW w \in Workers, Drained(w) \/ Crash(w) PROVE FencesDistinct'
  BY <1>2, <1>6 DEF Drained, Crash, TypeOK
<1>7. ASSUME NEW w \in Workers, NEW i \in Instances,
             DriveFinish(w, i) \/ DriveLost(w, i) \/ DriveError(w, i) \/ ReleaseFails(w, i)
      PROVE  FencesDistinct'
  BY <1>2, <1>7, TaskPcSet
     DEF DriveFinish, DriveLost, DriveError, ReleaseFails, Guarded, TaskStates
<1>8. ASSUME NEW w \in Workers, NEW i \in Instances, Release(w, i) PROVE FencesDistinct'
  <2>1. \A j \in Instances : lease'[j].fence = lease[j].fence
    BY <1>8 DEF Release, TypeOK
  <2>2. /\ task[w][i].pc # "none"
        /\ task' = [task EXCEPT ![w][i].pc = "released"]
        /\ "released" \in TaskStates
    BY <1>8 DEF Release, TaskStates
  <2>3. \A u \in Workers, j \in Instances :
          /\ task'[u][j].fence = task[u][j].fence
          /\ task[u][j].pc = "none" => task'[u][j].pc = "none"
    BY <2>2, TaskPcSet
  <2> QED
    BY <1>2, <2>1, <2>3
<1>9. ASSUME NEW w \in Workers, NEW i \in Instances, Pop(w, i) PROVE FencesDistinct'
  <2>1. \A u \in Workers, j \in Instances :
          task'[u][j] = IF u = w /\ j = i THEN NoTask ELSE task[u][j]
    BY <1>9 DEF Pop, TypeOK
  <2> QED
    BY <1>2, <1>9, <2>1 DEF Pop
<1>10. ASSUME NEW i \in Instances, Wake(i) PROVE FencesDistinct'
  BY <1>2, <1>10 DEF Wake
<1>11. CASE Tick
  <2>1. \A i \in Instances : lease'[i].fence = lease[i].fence
    BY <1>11 DEF Tick, TypeOK, LeaseRows
  <2> QED
    BY <1>2, <1>11, <2>1 DEF Tick
<1>12. CASE UNCHANGED vars
  BY <1>2, <1>12 DEF vars
<1> QED
  BY <1>1, <1>3, <1>4, <1>5, <1>6, <1>7, <1>8, <1>9, <1>10, <1>11, <1>12 DEF Next

\* However claims, expiries, crashes and late heartbeats interleave, no two
\* drives of one instance hold the same fence token: the guard of
\* PgLeaseStore.make_guard can let through at most one of them.
THEOREM FencingCorrect == Spec => []FencesDistinct
<1>1. Init => FencesDistinct
  BY DEF Init, FencesDistinct, NoTask
<1> QED
  BY <1>1, TypeCorrect, FencesStep, PTL DEF Spec

-----------------------------------------------------------------------------
(***************************************************************************)
(* Slots.  The claim loop computes the free slots before it awaits the     *)
(* claim, so SlotsBounded needs the reservation: what is active plus what  *)
(* an open claim may still add fits, because nothing else adds a drive.    *)
(***************************************************************************)
SlotsReserved ==
  \A w \in Workers :
    /\ Cardinality(Active(w)) <= Concurrency[w]
    /\ claim[w].pc # "idle" => Cardinality(Active(w)) + claim[w].free <= Concurrency[w]
    /\ claim[w].pc = "locked" => Cardinality(claim[w].rows) <= claim[w].free

\* A worker that starts no drive and no claim keeps its reservation.
LEMMA SlotsShrink ==
  ASSUME TypeOK, SlotsReserved, NEW w \in Workers,
         Active(w)' \subseteq Active(w), claim'[w] = claim[w] \/ claim'[w] = NoClaim
  PROVE  /\ Cardinality(Active(w)') <= Concurrency[w]
         /\ claim'[w].pc # "idle" => Cardinality(Active(w)') + claim'[w].free <= Concurrency[w]
         /\ claim'[w].pc = "locked" => Cardinality(claim'[w].rows) <= claim'[w].free
<1>1. /\ Cardinality(Active(w)') <= Cardinality(Active(w))
      /\ Cardinality(Active(w)') \in Nat /\ Cardinality(Active(w)) \in Nat
  BY ActiveFinite, FS_Subset, FS_CardinalityType
<1>2. claim[w].free \in Int /\ NoClaim.pc = "idle"
  BY DEF TypeOK, Claims, NoClaim
<1> QED
  BY <1>1, <1>2, ConcurrencyAssumption DEF SlotsReserved

\* Every action keeps every worker's reservation.
LEMMA SlotsStep == TypeOK /\ SlotsReserved /\ [Next]_vars => SlotsReserved'
<1> SUFFICES ASSUME TypeOK, SlotsReserved, [Next]_vars PROVE SlotsReserved'
    OBVIOUS
<1> DEFINE Shrinks(u) == /\ Active(u)' \subseteq Active(u)
                         /\ claim'[u] = claim[u] \/ claim'[u] = NoClaim
           Reserved(u) ==
             /\ Cardinality(Active(u)') <= Concurrency[u]
             /\ claim'[u].pc # "idle" => Cardinality(Active(u)') + claim'[u].free <= Concurrency[u]
             /\ claim'[u].pc = "locked" => Cardinality(claim'[u].rows) <= claim'[u].free
<1>a. ASSUME NEW u \in Workers, Shrinks(u) PROVE Reserved(u)
  BY <1>a, SlotsShrink
<1>b. ASSUME \A u \in Workers : Reserved(u) PROVE SlotsReserved'
  BY <1>b DEF SlotsReserved
<1> HIDE DEF Reserved
<1>c. ASSUME \A u \in Workers : Shrinks(u) PROVE SlotsReserved'
  BY <1>a, <1>b, <1>c
<1>1. ASSUME NEW w \in Workers, ClaimSelect(w) PROVE SlotsReserved'
  <2>1. \A u \in Workers \ {w} : Shrinks(u)
    BY <1>1 DEF ClaimSelect, Active, TypeOK
  <2>2. /\ Active(w)' = Active(w)
        /\ claim'[w].pc = "selected"
        /\ claim'[w].free = Concurrency[w] - Cardinality(Active(w))
    BY <1>1 DEF ClaimSelect, Active, TypeOK
  <2>3. Cardinality(Active(w)) \in Nat /\ Cardinality(Active(w)) <= Concurrency[w]
    BY ActiveFinite DEF SlotsReserved
  <2>4. Reserved(w)
    BY <2>2, <2>3, ConcurrencyAssumption DEF Reserved
  <2> QED
    BY <1>a, <1>b, <2>1, <2>4
<1>2. ASSUME NEW w \in Workers, ClaimLock(w) PROVE SlotsReserved'
  <2>1. \A u \in Workers \ {w} : Shrinks(u)
    BY <1>2 DEF ClaimLock, Active, TypeOK
  <2> DEFINE open == {i \in claim[w].rows : ~Locked(i) /\ runnable[i]}
  <2>2. PICK R \in SUBSET open :
          /\ Cardinality(R) =
               IF Cardinality(open) < claim[w].free THEN Cardinality(open) ELSE claim[w].free
          /\ claim' = [claim EXCEPT ![w] =
               IF R = {} THEN NoClaim ELSE [claim[w] EXCEPT !.pc = "locked", !.rows = R]]
    BY <1>2 DEF ClaimLock
  <2>3. IsFiniteSet(open) /\ Cardinality(open) \in Nat
    BY FiniteAssumption, FS_Subset, FS_CardinalityType DEF TypeOK, Claims
  <2> HIDE DEF open
  <2>4. Cardinality(R) <= claim[w].free
    BY <2>2, <2>3 DEF TypeOK, Claims
  <2>5. Active(w)' = Active(w)
    BY <1>2 DEF ClaimLock, Active
  <2>6. CASE R = {}
    BY <1>a, <1>b, <2>1, <2>2, <2>5, <2>6 DEF TypeOK
  <2>7. CASE R # {}
    <3>1. claim'[w].rows = R /\ claim'[w].free = claim[w].free
      BY <2>2, <2>7 DEF TypeOK, Claims
    <3>2. Reserved(w)
      BY <1>2, <2>4, <2>5, <3>1 DEF Reserved, SlotsReserved, ClaimLock
    <3> QED
      BY <1>a, <1>b, <2>1, <3>2
  <2> QED
    BY <2>6, <2>7
<1>3. ASSUME NEW w \in Workers, ClaimCommit(w) PROVE SlotsReserved'
  <2>1. \A u \in Workers \ {w} : Shrinks(u)
    BY <1>3 DEF ClaimCommit, Active, TypeOK
  <2> DEFINE R == claim[w].rows
  <2>2. Active(w)' \subseteq Active(w) \cup R
    BY <1>3 DEF ClaimCommit, Active, TypeOK
  <2>3. IsFiniteSet(R) /\ IsFiniteSet(Active(w))
    BY FiniteAssumption, FS_Subset, ActiveFinite DEF TypeOK, Claims
  <2>4. /\ IsFiniteSet(Active(w) \cup R)
        /\ Cardinality(Active(w) \cup R)
             = Cardinality(Active(w)) + Cardinality(R) - Cardinality(Active(w) \cap R)
    BY <2>3, FS_Union
  <2>5. /\ Cardinality(Active(w)) \in Nat /\ Cardinality(R) \in Nat
        /\ Cardinality(Active(w) \cap R) \in Nat
    BY <2>3, FS_CardinalityType, FS_Intersection
  <2>6. /\ Cardinality(Active(w)') \in Nat
        /\ Cardinality(Active(w)') <= Cardinality(Active(w) \cup R)
    BY <2>2, <2>4, FS_Subset, FS_CardinalityType
  <2>7. claim[w].free \in Int /\ claim[w].pc = "locked"
    BY <1>3 DEF ClaimCommit, TypeOK, Claims
  <2>8. /\ Cardinality(Active(w)) + claim[w].free <= Concurrency[w]
        /\ Cardinality(R) <= claim[w].free
    BY <2>7 DEF SlotsReserved
  <2> HIDE DEF R
  <2>9. Cardinality(Active(w)') <= Concurrency[w]
    BY <2>4, <2>5, <2>6, <2>7, <2>8, ConcurrencyAssumption
  <2>10. claim'[w].pc = "idle"
    BY <1>3 DEF ClaimCommit, TypeOK, NoClaim
  <2>11. Reserved(w)
    BY <2>9, <2>10 DEF Reserved
  <2> QED
    BY <1>a, <1>b, <2>1, <2>11
<1>4. ASSUME NEW w \in Workers, HeartbeatSend(w) \/ Stop(w) \/ Restart(w)
      PROVE  SlotsReserved'
  BY <1>c, <1>4 DEF HeartbeatSend, Stop, Restart, Active
<1>5. ASSUME NEW w \in Workers, HeartbeatReply(w) PROVE SlotsReserved'
  <2>1. \A u \in Workers, i \in Instances :
          task[u][i].pc = "none" => task'[u][i].pc = "none"
    BY <1>5, CancelledTask DEF HeartbeatReply, TypeOK
  <2> QED
    BY <1>c, <1>5, <2>1 DEF HeartbeatReply, Active
<1>6. ASSUME NEW w \in Workers, Drained(w) \/ Crash(w) PROVE SlotsReserved'
  <2>1. \A u \in Workers, i \in Instances :
          task[u][i].pc = "none" => task'[u][i].pc = "none"
    BY <1>6, EmptyRecords DEF Drained, Crash, TypeOK
  <2>2. \A u \in Workers : claim'[u] = claim[u] \/ claim'[u] = NoClaim
    BY <1>6 DEF Drained, Crash, TypeOK
  <2> QED
    BY <1>c, <2>1, <2>2 DEF Active
<1>7. ASSUME NEW w \in Workers, NEW i \in Instances,
             \/ DriveFinish(w, i) \/ DriveLost(w, i) \/ DriveError(w, i)
             \/ Release(w, i) \/ ReleaseFails(w, i)
      PROVE  SlotsReserved'
  <2>1. PICK p \in TaskStates : task' = [task EXCEPT ![w][i].pc = p]
    BY <1>7 DEF DriveFinish, DriveLost, DriveError, Release, ReleaseFails, TaskStates
  <2>2. task[w][i].pc # "none"
    BY <1>7 DEF DriveFinish, DriveLost, DriveError, Release, ReleaseFails, Guarded
  <2>3. \A u \in Workers, j \in Instances :
          task[u][j].pc = "none" => task'[u][j].pc = "none"
    BY <2>1, <2>2, TaskPcSet
  <2>4. claim' = claim
    BY <1>7 DEF DriveFinish, DriveLost, DriveError, Release, ReleaseFails
  <2> QED
    BY <1>c, <2>3, <2>4 DEF Active
<1>8. ASSUME NEW w \in Workers, NEW i \in Instances, Pop(w, i) PROVE SlotsReserved'
  <2>1. \A u \in Workers, j \in Instances :
          task[u][j].pc = "none" => task'[u][j].pc = "none"
    BY <1>8, EmptyRecords DEF Pop, TypeOK
  <2> QED
    BY <1>c, <1>8, <2>1 DEF Pop, Active
<1>9. ASSUME (\E i \in Instances : Wake(i)) \/ Tick \/ UNCHANGED vars PROVE SlotsReserved'
  BY <1>c, <1>9 DEF Wake, Tick, vars, Active
<1> QED
  BY <1>1, <1>2, <1>3, <1>4, <1>5, <1>6, <1>7, <1>8, <1>9 DEF Next

\* Although _claim_loop counts its free slots before it awaits the claim, and
\* drives end, are cancelled or leak meanwhile, no worker ever has more than
\* its concurrency in _active.
THEOREM SlotsCorrect == Spec => []SlotsBounded
<1>1. Init => SlotsReserved
  <2> SUFFICES ASSUME Init PROVE SlotsReserved
    OBVIOUS
  <2>1. \A w \in Workers : Active(w) = {}
    BY EmptyRecords DEF Init, Active
  <2>2. \A w \in Workers : Cardinality(Active(w)) = 0
    BY <2>1, FS_EmptySet
  <2>3. \A w \in Workers : Concurrency[w] \in Nat
    BY ConcurrencyAssumption
  <2>4. \A w \in Workers : claim[w].pc = "idle"
    BY DEF Init, NoClaim
  <2> QED
    BY <2>2, <2>3, <2>4 DEF SlotsReserved
<1>2. SlotsReserved => SlotsBounded
  BY DEF SlotsReserved, SlotsBounded
<1> QED
  BY <1>1, <1>2, TypeCorrect, SlotsStep, PTL DEF Spec

-----------------------------------------------------------------------------
(***************************************************************************)
(* What a step may do to a lease row.                                      *)
(***************************************************************************)

\* The row is taken over by a claim,
Taken(i) ==
  /\ lease'[i].fence = lease[i].fence + 1
  /\ lease'[i].left = TTL

\* or it keeps owner and fence, and if it is cut short by more than a tick then
\* by the release of its own owner's drive.
Kept(i) ==
  /\ lease'[i].owner = lease[i].owner
  /\ lease'[i].fence = lease[i].fence
  /\ \/ lease'[i].left >= lease[i].left - 1
     \/ \E w \in Workers : lease[i].owner = w /\ task[w][i].pc = "releasing"

\* Every step of the specification does one of the two to every lease row.
LEMMA LeaseStep ==
  ASSUME TypeOK, [Next]_vars
  PROVE  \A i \in Instances : Taken(i) \/ Kept(i)
<1>0. \A i \in Instances :
        /\ lease[i].left \in Int /\ lease[i].left <= TTL /\ lease[i].left >= -1
        /\ lease[i].fence \in Nat
  BY TTLAssumption DEF TypeOK, LeaseRows
<1>1. ASSUME UNCHANGED lease PROVE \A i \in Instances : Kept(i)
  BY <1>0, <1>1 DEF Kept
<1>2. ASSUME NEW w \in Workers, ClaimCommit(w)
      PROVE  \A i \in Instances : Taken(i) \/ Kept(i)
  BY <1>0, <1>2 DEF ClaimCommit, Taken, Kept
<1>3. ASSUME NEW w \in Workers, HeartbeatSend(w) PROVE \A i \in Instances : Kept(i)
  <2> SUFFICES ASSUME NEW i \in Instances PROVE Kept(i)
    OBVIOUS
  <2>1. CASE i \in Active(w) /\ lease[i].owner = w
    <3>1. lease'[i] = [lease[i] EXCEPT !.left = TTL]
      BY <1>3, <2>1 DEF HeartbeatSend
    <3>2. lease[i] \in LeaseRows
      BY DEF TypeOK
    <3> QED
      BY <1>0, <3>1, <3>2, TTLAssumption DEF Kept, LeaseRows
  <2>2. CASE ~(i \in Active(w) /\ lease[i].owner = w)
    <3>1. lease'[i] = lease[i]
      BY <1>3, <2>2 DEF HeartbeatSend
    <3> QED
      BY <1>0, <3>1 DEF Kept
  <2> QED
    BY <2>1, <2>2
<1>4. ASSUME NEW w \in Workers, NEW j \in Instances, Release(w, j)
      PROVE  \A i \in Instances : Kept(i)
  <2> SUFFICES ASSUME NEW i \in Instances PROVE Kept(i)
    OBVIOUS
  <2>1. CASE i = j /\ lease[j].owner = w
    <3>1. lease'[i].owner = lease[i].owner /\ lease'[i].fence = lease[i].fence
      BY <1>4, <2>1 DEF Release, TypeOK, LeaseRows
    <3>2. task[w][i].pc = "releasing"
      BY <1>4, <2>1 DEF Release
    <3> QED
      BY <2>1, <3>1, <3>2 DEF Kept
  <2>2. CASE ~(i = j /\ lease[j].owner = w)
    <3>1. lease'[i].owner = lease[i].owner /\ lease'[i].fence = lease[i].fence
            /\ lease'[i].left = lease[i].left
      BY <1>4, <2>2 DEF Release, TypeOK, LeaseRows
    <3> QED
      BY <1>0, <3>1 DEF Kept
  <2> QED
    BY <2>1, <2>2
<1>5. ASSUME Tick PROVE \A i \in Instances : Kept(i)
  <2> SUFFICES ASSUME NEW i \in Instances PROVE Kept(i)
    OBVIOUS
  <2>1. lease'[i] = [lease[i] EXCEPT !.left = IF @ >= 0 THEN @ - 1 ELSE @]
    BY <1>5 DEF Tick
  <2>2. lease[i] \in LeaseRows
    BY DEF TypeOK
  <2> QED
    BY <1>0, <2>1, <2>2 DEF Kept, LeaseRows
<1>6. CASE UNCHANGED vars
  BY <1>1, <1>6 DEF vars
<1>7. CASE Next
  <2>1. ASSUME NEW w \in Workers, ClaimSelect(w) \/ ClaimLock(w) \/ HeartbeatReply(w)
                 \/ Stop(w) \/ Drained(w) \/ Crash(w) \/ Restart(w)
        PROVE  UNCHANGED lease
    BY <2>1 DEF ClaimSelect, ClaimLock, HeartbeatReply, Stop, Drained, Crash, Restart
  <2>2. ASSUME NEW w \in Workers, NEW i \in Instances,
               DriveFinish(w, i) \/ DriveLost(w, i) \/ DriveError(w, i)
                 \/ ReleaseFails(w, i) \/ Pop(w, i)
        PROVE  UNCHANGED lease
    BY <2>2 DEF DriveFinish, DriveLost, DriveError, ReleaseFails, Pop
  <2>3. ASSUME NEW i \in Instances, Wake(i) PROVE UNCHANGED lease
    BY <2>3 DEF Wake
  <2> QED
    BY <1>1, <1>2, <1>3, <1>4, <1>5, <1>7, <2>1, <2>2, <2>3 DEF Next
<1> QED
  BY <1>6, <1>7

\* fence_token never decreases and grows by one whenever a lease changes hands:
\* of all writers of instance_leases only the claim's upsert touches it.
THEOREM FencesGrow == Spec => FenceMonotonic
<1>1. ASSUME TypeOK, [Next]_vars
      PROVE  \A i \in Instances :
               /\ lease'[i].fence >= lease[i].fence
               /\ lease'[i].owner # lease[i].owner
                    => lease'[i].fence = lease[i].fence + 1
  <2>1. \A i \in Instances : lease[i].fence \in Nat
    BY <1>1 DEF TypeOK, LeaseRows
  <2>2. \A i \in Instances : Taken(i) \/ Kept(i)
    BY <1>1, LeaseStep
  <2> QED
    BY <2>1, <2>2 DEF Taken, Kept
<1> QED
  BY <1>1, TypeCorrect, PTL DEF Spec, FenceMonotonic

\* release() matches by worker_id alone, and still never ends the lease under a
\* drive that passes its guard: the drive that releases is the one in _active.
THEOREM ReleaseSafe == Spec => NoReleaseUnderDrive
<1>1. ASSUME TypeOK, [Next]_vars
      PROVE  \A w \in Workers, i \in Instances :
               Guarded(w, i) /\ Guarded(w, i)' => lease'[i].left >= lease[i].left - 1
  <2> SUFFICES ASSUME NEW w \in Workers, NEW i \in Instances, Guarded(w, i)
               PROVE  lease'[i].left >= lease[i].left - 1
    OBVIOUS
  <2>1. lease[i].left \in Int /\ lease[i].left <= TTL
    BY <1>1, TTLAssumption DEF TypeOK, LeaseRows
  <2>2. lease[i].owner = w /\ task[w][i].pc # "releasing"
    BY DEF Guarded
  <2>3. Taken(i) \/ Kept(i)
    BY <1>1, LeaseStep
  <2> QED
    BY <2>1, <2>2, <2>3, TTLAssumption DEF Taken, Kept
<1> QED
  BY <1>1, TypeCorrect, PTL DEF Spec, NoReleaseUnderDrive
=============================================================================
