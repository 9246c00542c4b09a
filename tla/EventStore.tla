----------------------------- MODULE EventStore -----------------------------
(***************************************************************************)
(* PgEventStore (core/persistence/event_store.py) for one instance: the    *)
(* transaction of _commit, statement by statement, as several writers run  *)
(* it concurrently at READ COMMITTED, and the projections it maintains     *)
(* (instance_index, instance_snapshots) by folding the log                 *)
(* (core/events/fold.py).                                                  *)
(*                                                                         *)
(* A row of workflow_events is the record of an event with the version its *)
(* writer expected.  The folded instance is abstracted to what the         *)
(* projections can get wrong: its version, the steps it knows, and how     *)
(* many events of each step have been applied.                             *)
(***************************************************************************)
EXTENDS Integers, FiniteSets, Sequences, FiniteSetsExt

CONSTANTS
  Workers,        \* writers that append under a lease guard
  Operators,      \* writers without one: API, escalation sweep, dead letters
  Steps,          \* step ids of the workflow definition
  Created,        \* the InstanceCreated event
  Status,         \* an event about the workflow, not about a step
  NoWriter,       \* owner of the lease before the first claim
  NotReading,     \* version of a writer that has not read the log
  SnapshotEvery,  \* SNAPSHOT_EVERY
  MaxBatch,       \* bound: events of one append
  MaxVersion,     \* bound: length of the log
  MaxFence        \* bound: claims of the lease

ASSUME WritersAssumption == Workers \cap Operators = {} /\ NoWriter \notin Workers
ASSUME EventsAssumption == Created # Status /\ Created \notin Steps /\ Status \notin Steps
ASSUME VersionsAssumption ==
  /\ SnapshotEvery \in Nat \ {0}
  /\ MaxBatch \in Nat /\ MaxVersion \in Nat /\ MaxFence \in Nat
  /\ NotReading \notin Nat

Writers == Workers \cup Operators
Events == Steps \cup {Created, Status}

VARIABLES
  rows,      \* committed rows of workflow_events
  index,     \* the instance_index row: the state it was projected from
  snapshot,  \* the instance_snapshots row; version 0 stands for no row
  lease,     \* the instance_leases row, as far as the guard reads it
  held,      \* the fence token of each worker's lease
  txn        \* the append each writer is in

vars == <<rows, index, snapshot, lease, held, txn>>

\* The folded state without events.
Nothing == [version |-> 0, known |-> {}, count |-> [s \in Steps |-> 0]]

NoTxn == [pc |-> "idle", base |-> NotReading, batch |-> <<>>, state |-> Nothing]

\* Mutant: the first version of a log is off by one.
VersionFromMinusOne(R) == IF R = {} THEN -1 ELSE Max({r.seq : r \in R})

\* max(sequence), or 0: the version of a log.
Version(R) == IF R = {} THEN 0 ELSE Max({r.seq : r \in R})

Init ==
  /\ rows = {}
  /\ index = Nothing
  /\ snapshot = Nothing
  /\ lease = [owner |-> NoWriter, fence |-> 0]
  /\ held = [w \in Workers |-> 0]
  /\ txn = [w \in Writers |-> NoTxn]
-----------------------------------------------------------------------------
(***************************************************************************)
(* The fold and the projection.                                            *)
(***************************************************************************)

\* fold(tail, base, definition): InstanceCreated adds the definition's steps,
\* if there is a definition; an event of a step adds that step (_ensure_step).
Fold(base, tail, definition) ==
  [version |-> IF tail = {} THEN base.version ELSE Version(tail),
   known |-> base.known
               \cup (IF \E r \in tail : r.ev = Created THEN definition ELSE {})
               \cup {s \in Steps : \E r \in tail : r.ev = s},
   count |-> [s \in Steps |-> base.count[s] + Cardinality({r \in tail : r.ev = s})]]

\* Mutant: the tail starts at the snapshot's own version.
ProjectFromVersion(snap, R, definition) ==
  Fold(snap, {r \in R : r.seq >= snap.version}, definition)

\* _project: the snapshot, if any, and the events after its version.
Project(snap, R, definition) ==
  Fold(snap, {r \in R : r.seq > snap.version}, definition)

\* get_instance(definition=...): what a driver works from.
View == Project(snapshot, rows, Steps)

\* state_at: the whole log up to a version, without the snapshot.
StateAt(version, definition) ==
  Fold(Nothing, {r \in rows : r.seq <= version}, definition)
-----------------------------------------------------------------------------
(***************************************************************************)
(* The rows a transaction has inserted and not yet committed.              *)
(***************************************************************************)

\* The sequenced drafts: base + 1, base + 2, ...
BatchRows(w) ==
  {[seq |-> txn[w].base + k, ev |-> txn[w].batch[k], by |-> w, base |-> txn[w].base] :
     k \in 1 .. Len(txn[w].batch)}

Inserted(w) == IF txn[w].pc \in {"flushed", "projected"} THEN BatchRows(w) ELSE {}

Seqs(R) == {r.seq : r \in R}

SetPc(w, pc) == txn' = [txn EXCEPT ![w].pc = pc]

Batches(events) == UNION {[1 .. n -> events] : n \in 1 .. MaxBatch}

\* The caller reads the instance, decides, and calls append with the version
\* it read.  Only the API creates, and everyone else needs the instance.
Open(w) ==
  /\ txn[w].pc = "idle"
  /\ \E batch \in Batches(Steps \cup {Status}) \cup {<<Created>>} :
       /\ (batch = <<Created>>) <=> (rows = {})
       /\ rows = {} => w \in Operators
       /\ Version(rows) + Len(batch) <= MaxVersion
       /\ txn' = [txn EXCEPT ![w] =
            [pc |-> "begun", base |-> Version(rows), batch |-> batch, state |-> Nothing]]
  /\ UNCHANGED <<rows, index, snapshot, lease, held>>

Close(w) == txn' = [txn EXCEPT ![w] = NoTxn]

\* if guard is not None: await guard(session).  LeaseLostError ends the append.
Guard(w) ==
  /\ txn[w].pc = "begun"
  /\ IF w \in Workers => lease.owner = w /\ lease.fence = held[w]
     THEN SetPc(w, "guarded")
     ELSE Close(w)
  /\ UNCHANGED <<rows, index, snapshot, lease, held>>

\* select max(sequence): ConflictError unless it is the expected version.
Check(w) ==
  /\ txn[w].pc = "guarded"
  /\ IF Version(rows) = txn[w].base THEN SetPc(w, "checked") ELSE Close(w)
  /\ UNCHANGED <<rows, index, snapshot, lease, held>>

\* Mutant: workflow_events without UNIQUE(instance_id, sequence).
FlushWithoutUnique(w) ==
  /\ txn[w].pc = "checked"
  /\ SetPc(w, "flushed")
  /\ UNCHANGED <<rows, index, snapshot, lease, held>>

\* session.flush().  The unique index makes the insert wait for a transaction
\* that holds one of its sequences, and fail (ConflictError) on a committed one.
Flush(w) ==
  /\ txn[w].pc = "checked"
  /\ \A v \in Writers \ {w} : Seqs(Inserted(v)) \cap Seqs(BatchRows(w)) = {}
  /\ IF Seqs(rows) \cap Seqs(BatchRows(w)) = {} THEN SetPc(w, "flushed") ELSE Close(w)
  /\ UNCHANGED <<rows, index, snapshot, lease, held>>

\* instance = await self._project(session, ...), without a definition.
ProjectRows(w) ==
  /\ txn[w].pc = "flushed"
  /\ txn' = [txn EXCEPT ![w].pc = "projected",
                        ![w].state = Project(snapshot, rows \cup BatchRows(w), {})]
  /\ UNCHANGED <<rows, index, snapshot, lease, held>>

\* should_snapshot
ShouldSnapshot(last, current) == current - last >= SnapshotEvery

\* _upsert_index: every append replaces the row.
UpsertIndex(state) == index' = state

\* _write_snapshot, when one is due or there is none.
WriteSnapshot(state) ==
  snapshot' = IF snapshot.version = 0 \/ ShouldSnapshot(snapshot.version, state.version)
              THEN state ELSE snapshot

\* The projections and the COMMIT.
Commit(w) ==
  /\ txn[w].pc = "projected"
  /\ rows' = rows \cup BatchRows(w)
  /\ UpsertIndex(txn[w].state)
  /\ WriteSnapshot(txn[w].state)
  /\ Close(w)
  /\ UNCHANGED <<lease, held>>

\* The writer dies, is cancelled, or a statement fails: ROLLBACK.
Rollback(w) ==
  /\ txn[w].pc # "idle"
  /\ Close(w)
  /\ UNCHANGED <<rows, index, snapshot, lease, held>>

\* acquire_runnable hands the instance to a worker: no lock is shared with the
\* transactions above, so the owner may change between any two statements.
Claim(w) ==
  /\ lease.fence < MaxFence
  /\ txn[w].pc = "idle"
  /\ rows # {}
  /\ lease' = [owner |-> w, fence |-> lease.fence + 1]
  /\ held' = [held EXCEPT ![w] = lease.fence + 1]
  /\ UNCHANGED <<rows, index, snapshot, txn>>

Next ==
  \/ \E w \in Writers :
       \/ Open(w) \/ Guard(w) \/ Check(w) \/ Flush(w)
       \/ ProjectRows(w) \/ Commit(w) \/ Rollback(w)
  \/ \E w \in Workers : Claim(w)

Spec == Init /\ [][Next]_vars
-----------------------------------------------------------------------------
EventRows == [seq : Nat, ev : Events, by : Writers, base : Nat]
States == [version : Nat, known : SUBSET Steps, count : [Steps -> Nat]]
Txns == [pc : {"idle", "begun", "guarded", "checked", "flushed", "projected"},
         base : Nat \cup {NotReading}, batch : Seq(Events), state : States]

\* Rows, projections and transactions have the shape the tables give them.
TypeOK ==
  /\ rows \subseteq EventRows
  /\ index \in States
  /\ snapshot \in States
  /\ lease \in [owner : Workers \cup {NoWriter}, fence : Nat]
  /\ held \in [Workers -> Nat]
  /\ txn \in [Writers -> Txns]

\* The committed sequences are 1, 2, ..., n without a gap or a duplicate, so
\* fold never raises "non-contiguous sequence" on a stored log.
LogContiguous ==
  /\ Seqs(rows) = 1 .. Version(rows)
  /\ \A r, q \in rows : r.seq = q.seq => r = q

\* Optimistic concurrency: between the version a writer expected and its own
\* row there are only rows of its own batch, however the statements of the
\* transactions interleave.
NoLostUpdate ==
  \A r, q \in rows :
    r.base < q.seq /\ q.seq <= r.seq => q.by = r.by /\ q.base = r.base

\* instance_index is the fold of the committed log: the row a claim or a list
\* reads is never behind or ahead of the events.  A snapshot is the fold of the
\* log up to its version, so that resuming the fold from it loses nothing and
\* counts nothing twice.
ProjectionsMatchLog ==
  /\ index = StateAt(Version(rows), {})
  /\ snapshot = StateAt(snapshot.version, {})

\* tests/integration/test_event_store.py: a freshly created instance, read with
\* its definition, knows all the definition's steps.
ViewKnowsDefinition == rows # {} => View.known = Steps

(***************************************************************************)
(* The store implements the journal: a transaction is one atomic append.   *)
(***************************************************************************)
LogOf(R) == [n \in 1 .. Version(R) |-> (CHOOSE r \in R : r.seq = n).ev]

J == INSTANCE Journal WITH
       log <- LogOf(rows),
       seen <- [w \in Writers |-> txn[w].base]

\* Every interleaving of the statements of concurrent _commit transactions is,
\* to the callers, a sequence of atomic appends at the version each had read.
ImplementsJournal == J!Spec
=============================================================================
