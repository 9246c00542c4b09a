-------------------------- MODULE EventStoreProofs --------------------------
(***************************************************************************)
(* What optimistic concurrency guarantees for any number of writers: the   *)
(* types of the tables, a log without gaps or duplicates, no lost update,  *)
(* projections that are the fold of the log, and the refinement of         *)
(* Journal.                                                                *)
(***************************************************************************)
EXTENDS EventStore, FiniteSetTheorems, TLAPS

(***************************************************************************)
(* Versions.                                                               *)
(***************************************************************************)
\* max(sequence) of a log with the sequences 1, ..., n is n.
LEMMA VersionOfInterval ==
  ASSUME NEW R, NEW n \in Nat, Seqs(R) = 1 .. n
  PROVE  Version(R) = n
<1>1. CASE n = 0
  <2>1. Seqs(R) = {}
    BY <1>1
  <2>2. R = {}
    BY <2>1 DEF Seqs
  <2> QED
    BY <1>1, <2>2 DEF Version
<1>2. CASE n > 0
  <2>1. R # {}
    BY <1>2 DEF Seqs
  <2>2. Max(1 .. n) = n
    <3>1. n \in 1 .. n /\ \A y \in 1 .. n : n >= y
      BY <1>2
    <3>2. \A x \in 1 .. n : (\A y \in 1 .. n : x >= y) => x = n
      BY <1>2
    <3> QED
      BY <3>1, <3>2 DEF Max
  <2> QED
    BY <2>1, <2>2 DEF Version, Seqs
<1> QED
  BY <1>1, <1>2

\* The tail of such a log after version v ends, if there is one, at n too.
LEMMA VersionOfTail ==
  ASSUME NEW R, NEW n \in Nat, Seqs(R) = 1 .. n, NEW v \in Nat,
         {r \in R : r.seq > v} # {}
  PROVE  Version({r \in R : r.seq > v}) = n
<1> DEFINE T == {r \in R : r.seq > v}
<1> DEFINE Q == {r.seq : r \in T}
<1>1. \A y \in Q : y \in 1 .. n /\ y > v
  BY DEF Seqs
<1>2. n > v /\ n \in 1 .. n
  <2>1. PICK r \in R : r.seq > v
    OBVIOUS
  <2>2. r.seq \in 1 .. n
    BY DEF Seqs
  <2> QED
    BY <2>1, <2>2
<1>3. n \in Q
  <2>1. n \in Seqs(R)
    BY <1>2
  <2>2. PICK r \in R : r.seq = n
    BY <2>1 DEF Seqs
  <2>3. r \in T
    BY <1>2, <2>2
  <2> QED
    BY <2>2, <2>3
<1>4. Max(Q) = n
  <2> HIDE DEF Q
  <2>1. \A y \in Q : n >= y
    BY <1>1
  <2>2. \A x \in Q : (\A y \in Q : x >= y) => x = n
    BY <1>1, <1>3
  <2> QED
    BY <1>3, <2>1, <2>2 DEF Max
<1> QED
  BY <1>4 DEF Version

(***************************************************************************)
(* The records the actions write.                                          *)
(***************************************************************************)
TxnStates == {"idle", "begun", "guarded", "checked", "flushed", "projected"}

\* A statement moves a transaction on and leaves version and batch alone.
LEMMA TxnPc ==
  ASSUME NEW t \in Txns, NEW p \in TxnStates
  PROVE  /\ [t EXCEPT !.pc = p] \in Txns
         /\ [t EXCEPT !.pc = p].pc = p
         /\ [t EXCEPT !.pc = p].base = t.base
         /\ [t EXCEPT !.pc = p].batch = t.batch
BY DEF Txns, TxnStates

\* So does the projection, which also keeps the folded state.
LEMMA TxnProjected ==
  ASSUME NEW t \in Txns, NEW s \in States
  PROVE  /\ [t EXCEPT !.pc = "projected", !.state = s] \in Txns
         /\ [t EXCEPT !.pc = "projected", !.state = s].pc = "projected"
         /\ [t EXCEPT !.pc = "projected", !.state = s].base = t.base
         /\ [t EXCEPT !.pc = "projected", !.state = s].batch = t.batch
BY DEF Txns

\* The fields of a transaction.
LEMMA TxnFields ==
  ASSUME NEW t \in Txns
  PROVE  /\ t.pc \in TxnStates
         /\ t.base \in Nat \cup {NotReading}
         /\ t.batch \in Seq(Events)
         /\ t.state \in States
BY DEF Txns, TxnStates

\* The empty fold, and the transaction that is none.
LEMMA EmptyTypes ==
  Nothing \in States /\ NoTxn \in Txns /\ NoTxn.pc = "idle" /\ NoTxn.base = NotReading
<1>1. Nothing \in States
  BY DEF Nothing, States
<1>2. <<>> \in Seq(Events)
  OBVIOUS
<1> QED
  BY <1>1, <1>2 DEF NoTxn, Txns

\* The sequenced drafts of an append: base + 1, ..., base + n, each once.
LEMMA BatchFacts ==
  ASSUME NEW w \in Writers, txn[w] \in Txns, txn[w].base \in Nat
  PROVE  /\ IsFiniteSet(BatchRows(w))
         /\ BatchRows(w) \subseteq EventRows
         /\ Seqs(BatchRows(w)) = (txn[w].base + 1) .. (txn[w].base + Len(txn[w].batch))
         /\ \A r, q \in BatchRows(w) : r.seq = q.seq => r = q
         /\ \A r \in BatchRows(w) : r.by = w /\ r.base = txn[w].base
<1> DEFINE b == txn[w].base
<1> DEFINE d == txn[w].batch
<1> DEFINE row(k) == [seq |-> b + k, ev |-> d[k], by |-> w, base |-> b]
<1>1. d \in Seq(Events) /\ Len(d) \in Nat /\ b \in Nat
  BY TxnFields
<1>2. BatchRows(w) = {row(k) : k \in 1 .. Len(d)}
  BY DEF BatchRows
<1> HIDE DEF b, d
<1>3. IsFiniteSet(BatchRows(w))
  <2> DEFINE f == [k \in 1 .. Len(d) |-> row(k)]
  <2>1. f \in Surjection(1 .. Len(d), BatchRows(w))
    BY <1>2 DEF Surjection
  <2>2. IsFiniteSet(1 .. Len(d))
    BY <1>1, FS_Interval
  <2> QED
    BY <2>1, <2>2, FS_Surjection
<1>4. \A k \in 1 .. Len(d) : row(k) \in EventRows
  BY <1>1 DEF EventRows
<1>5. BatchRows(w) \subseteq EventRows
  BY <1>2, <1>4
<1>6. Seqs(BatchRows(w)) = (b + 1) .. (b + Len(d))
  <2>1. \A k \in 1 .. Len(d) : b + k \in (b + 1) .. (b + Len(d)) /\ row(k).seq = b + k
    BY <1>1
  <2>2. Seqs(BatchRows(w)) \subseteq (b + 1) .. (b + Len(d))
    BY <1>2, <2>1 DEF Seqs
  <2>3. ASSUME NEW n \in (b + 1) .. (b + Len(d)) PROVE n \in Seqs(BatchRows(w))
    <3>1. n - b \in 1 .. Len(d) /\ b + (n - b) = n
      BY <1>1
    <3>2. row(n - b) \in BatchRows(w) /\ row(n - b).seq = n
      BY <1>2, <3>1
    <3> QED
      BY <3>2 DEF Seqs
  <2> QED
    BY <2>2, <2>3
<1>7. \A r, q \in BatchRows(w) : r.seq = q.seq => r = q
  BY <1>1, <1>2
<1>8. \A r \in BatchRows(w) : r.by = w /\ r.base = b
  BY <1>2
<1> QED
  BY <1>3, <1>5, <1>6, <1>7, <1>8 DEF b, d

\* The fold of a log with the sequences 1, ..., n from a snapshot is a state.
LEMMA ProjectType ==
  ASSUME NEW R, IsFiniteSet(R), NEW n \in Nat, Seqs(R) = 1 .. n,
         NEW snap \in States, NEW definition \in SUBSET Steps
  PROVE  Project(snap, R, definition) \in States
<1> DEFINE T == {r \in R : r.seq > snap.version}
<1>1. /\ snap.version \in Nat
      /\ snap.known \in SUBSET Steps
      /\ snap.count \in [Steps -> Nat]
  BY DEF States
<1>2. T # {} => Version(T) = n
  BY <1>1, VersionOfTail
<1>3. \A s \in Steps : Cardinality({r \in T : r.ev = s}) \in Nat
  <2>1. ASSUME NEW s \in Steps PROVE IsFiniteSet({r \in T : r.ev = s})
    <3>1. {r \in T : r.ev = s} \in SUBSET R
      OBVIOUS
    <3> QED
      BY <3>1, FS_Subset
  <2> QED
    BY <2>1, FS_CardinalityType
<1> DEFINE version == IF T = {} THEN snap.version ELSE Version(T)
<1> DEFINE known == snap.known
                      \cup (IF \E r \in T : r.ev = Created THEN definition ELSE {})
                      \cup {s \in Steps : \E r \in T : r.ev = s}
<1> DEFINE count == [s \in Steps |-> snap.count[s] + Cardinality({r \in T : r.ev = s})]
<1>4. version \in Nat
  BY <1>1, <1>2
<1>5. known \in SUBSET Steps
  BY <1>1
<1>6. count \in [Steps -> Nat]
  BY <1>1, <1>3
<1>7. Project(snap, R, definition) = [version |-> version, known |-> known, count |-> count]
  BY DEF Project, Fold
<1> HIDE DEF version, known, count
<1> QED
  BY <1>4, <1>5, <1>6, <1>7 DEF States

(***************************************************************************)
(* The inductive invariant.  A transaction that has flushed has the log's  *)
(* version as its own, and there is one such transaction at most: its rows *)
(* keep every other insert waiting until it ends.                          *)
(***************************************************************************)
Flushed(w) == txn[w].pc \in {"flushed", "projected"}

RowsOK ==
  /\ IsFiniteSet(rows)
  /\ Version(rows) \in Nat
  /\ LogContiguous
  /\ NoLostUpdate

TxnsOK ==
  \A w \in Writers :
    /\ txn[w].pc = "idle" => txn[w].base = NotReading
    /\ txn[w].pc # "idle" =>
         /\ txn[w].base \in Nat
         /\ txn[w].base <= Version(rows)
         /\ Len(txn[w].batch) >= 1
    /\ Flushed(w) => txn[w].base = Version(rows)
    /\ \A v \in Writers \ {w} : ~(Flushed(v) /\ Flushed(w))

IInv == TypeOK /\ RowsOK /\ TxnsOK

\* The empty tables satisfy it.
LEMMA InitInv == ASSUME Init PROVE IInv
<1>1. Seqs(rows) = 1 .. 0
  BY DEF Init, Seqs
<1>2. Version(rows) = 0
  BY DEF Init, Version
<1>3. RowsOK
  BY <1>1, <1>2, FS_EmptySet DEF Init, RowsOK, LogContiguous, NoLostUpdate
<1>4. TxnsOK
  BY EmptyTypes DEF Init, TxnsOK, Flushed
<1>5. TypeOK
  BY EmptyTypes DEF Init, TypeOK
<1> QED
  BY <1>3, <1>4, <1>5 DEF IInv

\* A step that replaces one transaction and touches no table.
LEMMA TxnMoves ==
  ASSUME IInv, NEW w \in Writers, NEW t \in Txns,
         UNCHANGED <<rows, index, snapshot, lease, held>>,
         txn' = [txn EXCEPT ![w] = t],
         t.pc = "idle" => t.base = NotReading,
         t.pc # "idle" =>
           t.base \in Nat /\ t.base <= Version(rows) /\ Len(t.batch) >= 1,
         t.pc \in {"flushed", "projected"} =>
           t.base = Version(rows) /\ \A v \in Writers \ {w} : ~Flushed(v)
  PROVE  IInv'
<1>1. txn \in [Writers -> Txns]
  BY DEF IInv, TypeOK
<1>2. txn' \in [Writers -> Txns] /\ txn'[w] = t
  BY <1>1
<1>3. \A v \in Writers \ {w} : txn'[v] = txn[v]
  BY <1>1
<1>4. TypeOK'
  BY <1>2 DEF IInv, TypeOK
<1>5. RowsOK'
  BY DEF IInv, RowsOK, LogContiguous, NoLostUpdate, Version, Seqs
<1>6. Version(rows') = Version(rows)
  BY DEF Version
<1>7. TxnsOK'
  BY <1>2, <1>3, <1>6 DEF IInv, TxnsOK, Flushed
<1> QED
  BY <1>4, <1>5, <1>7 DEF IInv

\* The rows of a transaction that holds the log's version extend the log.
LEMMA Extends ==
  ASSUME IInv, NEW w \in Writers, txn[w].pc # "idle", txn[w].base = Version(rows)
  PROVE  LET R == rows \cup BatchRows(w)
         IN /\ IsFiniteSet(R)
            /\ R \subseteq EventRows
            /\ Version(rows) + Len(txn[w].batch) \in Nat
            /\ Seqs(R) = 1 .. (Version(rows) + Len(txn[w].batch))
            /\ \A r, q \in R : r.seq = q.seq => r = q
            /\ \A r, q \in R :
                 r.base < q.seq /\ q.seq <= r.seq => q.by = r.by /\ q.base = r.base
<1> DEFINE b == Version(rows)
<1> DEFINE n == Len(txn[w].batch)
<1> DEFINE B == BatchRows(w)
<1>1. /\ txn[w] \in Txns /\ b \in Nat /\ txn[w].base \in Nat
      /\ rows \subseteq EventRows /\ IsFiniteSet(rows)
      /\ Seqs(rows) = 1 .. b
      /\ \A r, q \in rows : r.seq = q.seq => r = q
      /\ NoLostUpdate
  BY DEF IInv, TypeOK, RowsOK, LogContiguous
<1>2. n \in Nat
  BY <1>1, TxnFields
<1>3. /\ IsFiniteSet(B)
      /\ B \subseteq EventRows
      /\ Seqs(B) = (b + 1) .. (b + n)
      /\ \A r, q \in B : r.seq = q.seq => r = q
      /\ \A r \in B : r.by = w /\ r.base = b
  BY <1>1, BatchFacts
<1> HIDE DEF b, n, B
<1>4. \A r \in rows : r.seq \in 1 .. b
  BY <1>1 DEF Seqs
<1>5. \A r \in B : r.seq \in (b + 1) .. (b + n)
  BY <1>3 DEF Seqs
<1>6. IsFiniteSet(rows \cup B)
  BY <1>1, <1>3, FS_Union
<1>7. Seqs(rows \cup B) = 1 .. (b + n)
  <2>1. Seqs(rows \cup B) = Seqs(rows) \cup Seqs(B)
    BY DEF Seqs
  <2>2. b \in Nat /\ n \in Nat
    BY <1>1, <1>2 DEF b
  <2>3. (1 .. b) \cup ((b + 1) .. (b + n)) = 1 .. (b + n)
    BY <2>2
  <2> QED
    BY <1>1, <1>3, <2>1, <2>3 DEF b
<1>8. \A r, q \in rows \cup B : r.seq = q.seq => r = q
  BY <1>1, <1>2, <1>3, <1>4, <1>5 DEF b
<1>9. \A r, q \in rows \cup B :
        r.base < q.seq /\ q.seq <= r.seq => q.by = r.by /\ q.base = r.base
  <2> SUFFICES ASSUME NEW r \in rows \cup B, NEW q \in rows \cup B,
                      r.base < q.seq, q.seq <= r.seq
               PROVE  q.by = r.by /\ q.base = r.base
    OBVIOUS
  <2>0. b \in Nat /\ n \in Nat
    BY <1>1, <1>2 DEF b
  <2>1. CASE r \in rows /\ q \in rows
    BY <1>1, <2>1 DEF NoLostUpdate
  <2>2. CASE r \in B /\ q \in B
    BY <1>3, <2>2
  <2>3. CASE r \in rows /\ q \in B
    BY <1>4, <1>5, <2>0, <2>3
  <2>4. CASE r \in B /\ q \in rows
    BY <1>3, <1>4, <2>0, <2>4
  <2> QED
    BY <2>1, <2>2, <2>3, <2>4
<1> QED
  BY <1>1, <1>2, <1>3, <1>6, <1>7, <1>8, <1>9 DEF b, n, B

\* Every step preserves the invariant.
LEMMA StepInv == ASSUME IInv, [Next]_vars PROVE IInv'
<1>0. /\ TypeOK /\ RowsOK /\ TxnsOK
      /\ txn \in [Writers -> Txns]
      /\ Version(rows) \in Nat
  BY DEF IInv, TypeOK, RowsOK
<1>a. ASSUME NEW w \in Writers, Close(w),
             UNCHANGED <<rows, index, snapshot, lease, held>>
      PROVE  IInv'
  <2>1. txn' = [txn EXCEPT ![w] = NoTxn]
    BY <1>a DEF Close
  <2> QED
    BY <1>a, <2>1, EmptyTypes, TxnMoves
<1>b. ASSUME NEW w \in Writers, txn[w].pc # "idle",
             NEW p \in {"guarded", "checked"}, SetPc(w, p),
             UNCHANGED <<rows, index, snapshot, lease, held>>
      PROVE  IInv'
  <2> DEFINE t == [txn[w] EXCEPT !.pc = p]
  <2>1. txn' = [txn EXCEPT ![w] = t]
    BY <1>b DEF SetPc
  <2>a. p \in TxnStates /\ txn[w] \in Txns
    BY <1>0 DEF TxnStates
  <2>2. t \in Txns /\ t.pc = p /\ t.base = txn[w].base /\ t.batch = txn[w].batch
    BY <2>a, TxnPc
  <2> HIDE DEF t
  <2>3. t.base \in Nat /\ t.base <= Version(rows) /\ Len(t.batch) >= 1
    BY <1>0, <1>b, <2>2 DEF TxnsOK
  <2> QED
    BY <1>b, <2>1, <2>2, <2>3, TxnMoves
<1>1. ASSUME NEW w \in Writers, Open(w) PROVE IInv'
  <2>1. PICK batch \in Batches(Steps \cup {Status}) \cup {<<Created>>} :
          txn' = [txn EXCEPT ![w] =
            [pc |-> "begun", base |-> Version(rows), batch |-> batch, state |-> Nothing]]
    BY <1>1 DEF Open
  <2>2. batch \in Seq(Events) /\ Len(batch) >= 1
    <3>1. CASE batch = <<Created>>
      BY <3>1 DEF Events
    <3>2. CASE batch \in Batches(Steps \cup {Status})
      <4>1. PICK n \in 1 .. MaxBatch : batch \in [1 .. n -> Steps \cup {Status}]
        BY <3>2 DEF Batches
      <4>2. n \in Nat /\ n >= 1
        BY VersionsAssumption
      <4> QED
        BY <4>1, <4>2 DEF Events
    <3> QED
      BY <3>1, <3>2
  <2> DEFINE t == [pc |-> "begun", base |-> Version(rows), batch |-> batch,
                   state |-> Nothing]
  <2>3. t \in Txns
    BY <1>0, <2>2, EmptyTypes DEF Txns
  <2>4. t.pc = "begun" /\ t.base = Version(rows) /\ t.batch = batch
    OBVIOUS
  <2>5. txn' = [txn EXCEPT ![w] = t]
    BY <2>1
  <2> HIDE DEF t
  <2>6. t.base <= Version(rows)
    BY <1>0, <2>4
  <2> QED
    BY <1>0, <1>1, <2>2, <2>3, <2>4, <2>5, <2>6, TxnMoves DEF Open
<1>2. ASSUME NEW w \in Writers, Guard(w) PROVE IInv'
  BY <1>2, <1>a, <1>b DEF Guard
<1>3. ASSUME NEW w \in Writers, Check(w) PROVE IInv'
  BY <1>3, <1>a, <1>b DEF Check
<1>4. ASSUME NEW w \in Writers, Flush(w) PROVE IInv'
  <2>1. CASE Seqs(rows) \cap Seqs(BatchRows(w)) # {}
    BY <1>4, <1>a, <2>1 DEF Flush
  <2>2. CASE Seqs(rows) \cap Seqs(BatchRows(w)) = {}
    <3> DEFINE t == [txn[w] EXCEPT !.pc = "flushed"]
    <3>1. txn' = [txn EXCEPT ![w] = t]
      BY <1>4, <2>2 DEF Flush, SetPc
    <3>2. t \in Txns /\ t.pc = "flushed" /\ t.base = txn[w].base /\ t.batch = txn[w].batch
      BY <1>0, TxnPc DEF TxnStates
    <3> HIDE DEF t
    <3>3. /\ txn[w].base \in Nat /\ txn[w].base <= Version(rows)
          /\ Len(txn[w].batch) \in Nat /\ Len(txn[w].batch) >= 1
      BY <1>0, <1>4, TxnFields DEF TxnsOK, Flush
    <3>4. txn[w].base + 1 \in Seqs(BatchRows(w))
      BY <1>0, <3>3, BatchFacts
    <3>5. txn[w].base = Version(rows)
      <4>1. txn[w].base + 1 \notin 1 .. Version(rows)
        BY <1>0, <2>2, <3>4 DEF RowsOK, LogContiguous
      <4> QED
        BY <1>0, <3>3, <4>1
    <3>6. ASSUME NEW v \in Writers \ {w}, Flushed(v) PROVE FALSE
      <4>1. /\ txn[v].pc # "idle" /\ txn[v].base = Version(rows)
            /\ Len(txn[v].batch) \in Nat /\ Len(txn[v].batch) >= 1
        BY <1>0, <3>6, TxnFields DEF TxnsOK, Flushed
      <4>2. txn[w].base + 1 \in Seqs(BatchRows(v))
        BY <1>0, <3>5, <4>1, BatchFacts
      <4>3. Inserted(v) = BatchRows(v)
        BY <3>6 DEF Inserted, Flushed
      <4> QED
        BY <1>4, <3>4, <4>2, <4>3 DEF Flush
    <3> QED
      BY <1>0, <1>4, <3>1, <3>2, <3>3, <3>5, <3>6, TxnMoves DEF Flush
  <2> QED
    BY <2>1, <2>2
<1>5. ASSUME NEW w \in Writers, ProjectRows(w) PROVE IInv'
  <2> DEFINE R == rows \cup BatchRows(w)
  <2> DEFINE st == Project(snapshot, R, {})
  <2> DEFINE t == [txn[w] EXCEPT !.pc = "projected", !.state = st]
  <2>1. txn' = [txn EXCEPT ![w] = t]
    BY <1>5 DEF ProjectRows
  <2>2. /\ Flushed(w) /\ txn[w].pc # "idle" /\ txn[w].base = Version(rows)
        /\ txn[w].base \in Nat /\ Len(txn[w].batch) >= 1
    BY <1>0, <1>5 DEF ProjectRows, Flushed, TxnsOK
  <2>3. st \in States
    <3>1. /\ IsFiniteSet(R)
          /\ Version(rows) + Len(txn[w].batch) \in Nat
          /\ Seqs(R) = 1 .. (Version(rows) + Len(txn[w].batch))
      BY <2>2, Extends
    <3>2. snapshot \in States /\ {} \in SUBSET Steps
      BY <1>0 DEF TypeOK
    <3> HIDE DEF R
    <3> QED
      BY <3>1, <3>2, ProjectType
  <2> HIDE DEF st
  <2>4. /\ t \in Txns /\ t.pc = "projected"
        /\ t.base = txn[w].base /\ t.batch = txn[w].batch
    BY <1>0, <2>3, TxnProjected
  <2> HIDE DEF t
  <2>5. \A v \in Writers \ {w} : ~Flushed(v)
    BY <1>0, <2>2 DEF TxnsOK
  <2>6. UNCHANGED <<rows, index, snapshot, lease, held>>
    BY <1>5 DEF ProjectRows
  <2>7. t.base \in Nat /\ t.base = Version(rows) /\ t.base <= Version(rows)
          /\ Len(t.batch) >= 1
    BY <2>2, <2>4
  <2> QED
    BY <2>1, <2>4, <2>5, <2>6, <2>7, TxnMoves
<1>6. ASSUME NEW w \in Writers, Commit(w) PROVE IInv'
  <2> DEFINE R == rows \cup BatchRows(w)
  <2> DEFINE n == Version(rows) + Len(txn[w].batch)
  <2>1. rows' = R /\ txn' = [txn EXCEPT ![w] = NoTxn] /\ UNCHANGED <<lease, held>>
    BY <1>6 DEF Commit, UpsertIndex, WriteSnapshot, Close
  <2>2. Flushed(w) /\ txn[w].pc # "idle" /\ txn[w].base = Version(rows)
    BY <1>0, <1>6 DEF Commit, UpsertIndex, WriteSnapshot, Flushed, TxnsOK
  <2>3. /\ IsFiniteSet(R) /\ R \subseteq EventRows
        /\ n \in Nat /\ Seqs(R) = 1 .. n
        /\ \A r, q \in R : r.seq = q.seq => r = q
        /\ \A r, q \in R :
             r.base < q.seq /\ q.seq <= r.seq => q.by = r.by /\ q.base = r.base
    BY <2>2, Extends
  <2>4. Version(rows) <= n
    BY <1>0, TxnFields
  <2> HIDE DEF R, n
  <2>5. Version(R) = n
    BY <2>3, VersionOfInterval
  <2>6. Version(rows') = n
    BY <2>1, <2>5
  <2>7. RowsOK'
    BY <2>1, <2>3, <2>5 DEF RowsOK, LogContiguous, NoLostUpdate
  <2>8. txn[w].state \in States
    BY <1>0, TxnFields
  <2>9. TypeOK'
    <3>1. index' \in States /\ snapshot' \in States
      BY <1>0, <1>6, <2>8 DEF Commit, UpsertIndex, WriteSnapshot, TypeOK
    <3>2. txn' \in [Writers -> Txns]
      BY <1>0, <2>1, EmptyTypes
    <3> QED
      BY <1>0, <2>1, <2>3, <3>1, <3>2 DEF TypeOK
  <2>10. TxnsOK'
    <3>1. txn'[w].pc = "idle" /\ txn'[w].base = NotReading
          /\ \A v \in Writers \ {w} : txn'[v] = txn[v]
      BY <1>0, <2>1, EmptyTypes
    <3>2. \A v \in Writers \ {w} : ~Flushed(v)
      BY <1>0, <2>2 DEF TxnsOK
    <3>3. ~Flushed(w)' /\ \A v \in Writers \ {w} : ~Flushed(v)'
      BY <3>1, <3>2 DEF Flushed
    <3>4. \A v \in Writers \ {w} :
            /\ txn[v].pc = "idle" => txn[v].base = NotReading
            /\ txn[v].pc # "idle" =>
              /\ txn[v].base \in Nat /\ txn[v].base <= n /\ Len(txn[v].batch) >= 1
      BY <1>0, <2>3, <2>4 DEF TxnsOK
    <3> QED
      BY <2>6, <3>1, <3>3, <3>4 DEF TxnsOK
  <2> QED
    BY <2>7, <2>9, <2>10 DEF IInv
<1>7. ASSUME NEW w \in Writers, Rollback(w) PROVE IInv'
  BY <1>7, <1>a DEF Rollback
<1>8. ASSUME NEW w \in Workers, Claim(w) PROVE IInv'
  <2>1. UNCHANGED <<rows, index, snapshot, txn>>
    BY <1>8 DEF Claim
  <2>2. /\ lease' \in [owner : Workers \cup {NoWriter}, fence : Nat]
        /\ held' \in [Workers -> Nat]
    BY <1>0, <1>8 DEF Claim, TypeOK
  <2>3. TypeOK'
    BY <1>0, <2>1, <2>2 DEF TypeOK
  <2>4. RowsOK' /\ TxnsOK'
    BY <1>0, <2>1 DEF RowsOK, TxnsOK, LogContiguous, NoLostUpdate, Version, Seqs, Flushed
  <2> QED
    BY <2>3, <2>4 DEF IInv
<1>9. CASE UNCHANGED vars
  BY <1>9, <1>0 DEF vars, IInv, TypeOK, RowsOK, TxnsOK, LogContiguous, NoLostUpdate,
                    Version, Seqs, Flushed
<1> QED
  BY <1>1, <1>2, <1>3, <1>4, <1>5, <1>6, <1>7, <1>8, <1>9 DEF Next

\* The invariant holds throughout.
LEMMA Invariant == Spec => []IInv
BY InitInv, StepInv, PTL DEF Spec

\* Whatever the interleaving of transactions, rows, index, snapshot, lease and
\* transactions keep the shape of their tables.
THEOREM StoreTypeCorrect == Spec => []TypeOK
<1>1. IInv => TypeOK
  BY DEF IInv
<1> QED
  BY <1>1, Invariant, PTL

\* For any number of writers, batch size and log length the committed
\* sequences are 1, ..., n, each once: fold never meets a gap.
THEOREM LogCorrect == Spec => []LogContiguous
<1>1. IInv => LogContiguous
  BY DEF IInv, RowsOK
<1> QED
  BY <1>1, Invariant, PTL

\* expected_version and UNIQUE(instance_id, sequence) together are enough:
\* nothing is ever committed between what a writer read and what it wrote.
THEOREM NoUpdateLost == Spec => []NoLostUpdate
<1>1. IInv => NoLostUpdate
  BY DEF IInv, RowsOK
<1> QED
  BY <1>1, Invariant, PTL

-----------------------------------------------------------------------------
(***************************************************************************)
(* The projections.                                                        *)
(***************************************************************************)
\* To fold a log is to fold its beginning and then, from what that gives, the
\* rest of it: nothing is lost and nothing is counted twice.
LEMMA FoldSplits ==
  ASSUME NEW R, IsFiniteSet(R), NEW n \in Nat, Seqs(R) = 1 .. n, NEW v \in Nat,
         NEW snap \in States, snap.version = v, snap = Fold(Nothing, {r \in R : r.seq <= v}, {})
  PROVE  Project(snap, R, {}) = Fold(Nothing, R, {})
<1>1. PICK A, B : A = {r \in R : r.seq <= v} /\ B = {r \in R : r.seq > v}
  OBVIOUS
<1>2. \A r \in R : r.seq \in 1 .. n
  BY DEF Seqs
<1>3. A \cup B = R /\ A \cap B = {} /\ A \in SUBSET R /\ B \in SUBSET R
  <2>1. \A r \in R : r \in A \/ r \in B
    BY <1>1, <1>2
  <2>2. \A r \in R : ~(r \in A /\ r \in B)
    BY <1>1, <1>2
  <2> QED
    BY <1>1, <2>1, <2>2
<1>4. Project(snap, R, {}) = Fold(snap, B, {}) /\ snap = Fold(Nothing, A, {})
  BY <1>1 DEF Project
<1>5. Fold(snap, B, {}).version = Fold(Nothing, R, {}).version
  <2>1. CASE B = {}
    <3>1. A = R
      BY <1>3, <2>1
    <3> QED
      BY <1>4, <2>1, <3>1 DEF Fold
  <2>2. CASE B # {}
    <3>1. Version(B) = n
      BY <1>1, <2>2, VersionOfTail
    <3>2. Version(R) = n /\ R # {}
      BY <1>3, <2>2, VersionOfInterval
    <3> QED
      BY <2>2, <3>1, <3>2 DEF Fold
  <2> QED
    BY <2>1, <2>2
<1>6. Fold(snap, B, {}).known = Fold(Nothing, R, {}).known
  <2>1. snap.known = {s \in Steps : \E r \in A : r.ev = s}
    BY <1>4 DEF Fold, Nothing
  <2>2. Fold(snap, B, {}).known = snap.known \cup {s \in Steps : \E r \in B : r.ev = s}
    BY DEF Fold
  <2>3. Fold(Nothing, R, {}).known = {s \in Steps : \E r \in R : r.ev = s}
    BY DEF Fold, Nothing
  <2>4. PICK kA, kB, kR : /\ kA = {s \in Steps : \E r \in A : r.ev = s}
                           /\ kB = {s \in Steps : \E r \in B : r.ev = s}
                           /\ kR = {s \in Steps : \E r \in R : r.ev = s}
    OBVIOUS
  <2>5. kA \cup kB = kR
    BY <1>3, <2>4
  <2> QED
    BY <2>1, <2>2, <2>3, <2>4, <2>5
<1>7. Fold(snap, B, {}).count = Fold(Nothing, R, {}).count
  <2>1. ASSUME NEW s \in Steps
        PROVE  snap.count[s] + Cardinality({r \in B : r.ev = s})
                 = 0 + Cardinality({r \in R : r.ev = s})
    <3>1. PICK C, D, E : /\ C = {r \in A : r.ev = s} /\ D = {r \in B : r.ev = s}
                         /\ E = {r \in R : r.ev = s}
      OBVIOUS
    <3>2. E = C \cup D /\ C \cap D = {} /\ C \in SUBSET R /\ D \in SUBSET R /\ E \in SUBSET R
      BY <1>3, <3>1
    <3>3. IsFiniteSet(C) /\ IsFiniteSet(D) /\ IsFiniteSet(E)
      BY <3>2, FS_Subset
    <3>4. Cardinality(C) \in Nat /\ Cardinality(D) \in Nat /\ Cardinality(E) \in Nat
      BY <3>3, FS_CardinalityType
    <3>5. Cardinality(C \cup D) = Cardinality(C) + Cardinality(D) - Cardinality(C \cap D)
      BY <3>3, FS_Union
    <3>6. Cardinality(C \cap D) = 0
      BY <3>2, FS_EmptySet
    <3>7. snap.count[s] = 0 + Cardinality(C)
      BY <1>4, <3>1 DEF Fold, Nothing
    <3>8. Cardinality(E) = Cardinality(C) + Cardinality(D) - 0
      BY <3>2, <3>5, <3>6
    <3>9. PICK c \in Nat, d \in Nat, e \in Nat :
            c = Cardinality(C) /\ d = Cardinality(D) /\ e = Cardinality(E)
      BY <3>4
    <3>10. e = c + d - 0 /\ snap.count[s] = 0 + c
      BY <3>7, <3>8, <3>9
    <3>11. snap.count[s] + d = 0 + e
      BY <3>10
    <3> QED
      BY <3>1, <3>9, <3>11
  <2>2. Fold(snap, B, {}).count = [s \in Steps |-> snap.count[s] + Cardinality({r \in B : r.ev = s})]
    BY DEF Fold
  <2>3. Fold(Nothing, R, {}).count = [s \in Steps |-> 0 + Cardinality({r \in R : r.ev = s})]
    BY DEF Fold, Nothing
  <2> QED
    BY <2>1, <2>2, <2>3
<1>8. \A b, T : Fold(b, T, {}) = [version |-> Fold(b, T, {}).version, known |-> Fold(b, T, {}).known,
                                  count |-> Fold(b, T, {}).count]
  BY DEF Fold
<1> QED
  BY <1>4, <1>5, <1>6, <1>7, <1>8

\* The fold of a log with the sequences 1, ..., n has that version.
LEMMA FoldVersion ==
  ASSUME NEW R, NEW n \in Nat, Seqs(R) = 1 .. n
  PROVE  Fold(Nothing, R, {}).version = n
<1>1. Version(R) = n
  BY VersionOfInterval
<1>2. R = {} => n = 0
  BY <1>1 DEF Version
<1> QED
  BY <1>1, <1>2 DEF Fold, Nothing

(***************************************************************************)
(* The projections as they are between two appends, and while one is under *)
(* way: what it is going to write is the fold of the log it will leave.    *)
(***************************************************************************)
ProjectionsOK ==
  /\ index = Fold(Nothing, rows, {})
  /\ snapshot = Fold(Nothing, {r \in rows : r.seq <= snapshot.version}, {})
  /\ snapshot.version <= Version(rows)
  /\ \A w \in Writers : txn[w].pc = "projected" =>
       txn[w].state = Fold(Nothing, rows \cup BatchRows(w), {})

PInv == IInv /\ ProjectionsOK

\* The rows up to the version of the log are all of them.
LEMMA RowsUpTo ==
  ASSUME IInv
  PROVE  {r \in rows : r.seq <= Version(rows)} = rows
<1>1. \A r \in rows : r.seq \in 1 .. Version(rows)
  BY DEF IInv, RowsOK, LogContiguous, Seqs
<1> QED
  BY <1>1 DEF IInv, RowsOK

\* Empty tables have empty projections.
LEMMA InitPInv == ASSUME Init PROVE PInv
<1>1. Fold(Nothing, {}, {}) = Nothing
  <2>1. \A s \in Steps : Cardinality({r \in {} : r.ev = s}) = 0
    <3> TAKE s \in Steps
    <3>1. {r \in {} : r.ev = s} = {}
      OBVIOUS
    <3> QED
      BY <3>1, FS_EmptySet
  <2>2. [s \in Steps |-> 0 + Cardinality({r \in {} : r.ev = s})] = [s \in Steps |-> 0]
    BY <2>1
  <2>3. Fold(Nothing, {}, {}).count = [s \in Steps |-> 0]
    BY <2>2 DEF Fold, Nothing
  <2>4. Fold(Nothing, {}, {}).version = 0 /\ Fold(Nothing, {}, {}).known = {}
    BY DEF Fold, Nothing
  <2>5. Fold(Nothing, {}, {}) = [version |-> Fold(Nothing, {}, {}).version,
          known |-> Fold(Nothing, {}, {}).known, count |-> Fold(Nothing, {}, {}).count]
    BY DEF Fold
  <2> QED
    BY <2>3, <2>4, <2>5 DEF Nothing
<1>2. rows = {} /\ index = Nothing /\ snapshot = Nothing /\ Version(rows) = 0
  BY DEF Init, Version
<1>3. snapshot.version = 0
  BY <1>2 DEF Nothing
<1>4. {r \in rows : r.seq <= snapshot.version} = {}
  BY <1>2
<1>5. \A w \in Writers : txn[w].pc = "idle"
  BY EmptyTypes DEF Init
<1> QED
  BY <1>1, <1>2, <1>3, <1>4, <1>5, InitInv DEF PInv, ProjectionsOK

\* Every step keeps them.
LEMMA StepPInv == ASSUME PInv, [Next]_vars PROVE PInv'
<1>1. IInv /\ IInv' /\ ProjectionsOK
  BY StepInv DEF PInv
<1>2. /\ txn \in [Writers -> Txns] /\ TxnsOK /\ Version(rows) \in Nat /\ snapshot \in States
      /\ txn' \in [Writers -> Txns]
  BY <1>1 DEF IInv, TypeOK, RowsOK
\* A step that leaves the tables alone and brings no transaction to COMMIT.
<1>3. ASSUME UNCHANGED <<rows, index, snapshot>>,
             \A w \in Writers : txn'[w].pc = "projected" => txn'[w] = txn[w]
      PROVE  PInv'
  <2>1. ASSUME NEW w \in Writers, txn'[w].pc = "projected"
        PROVE  txn'[w].state = Fold(Nothing, rows' \cup BatchRows(w)', {})
    <3>1. txn'[w] = txn[w] /\ txn[w].pc = "projected"
      BY <1>3, <2>1
    <3>2. BatchRows(w)' = BatchRows(w)
      BY <3>1 DEF BatchRows
    <3>3. txn[w].state = Fold(Nothing, rows \cup BatchRows(w), {})
      BY <1>1, <3>1 DEF ProjectionsOK
    <3> QED
      BY <1>3, <3>1, <3>2, <3>3
  <2>2. Version(rows') = Version(rows)
    BY <1>3
  <2> QED
    BY <1>1, <1>3, <2>1, <2>2 DEF PInv, ProjectionsOK
<1>4. ASSUME NEW w \in Writers,
             Open(w) \/ Guard(w) \/ Check(w) \/ Flush(w) \/ Rollback(w)
      PROVE  PInv'
  <2>1. UNCHANGED <<rows, index, snapshot>>
    BY <1>4 DEF Open, Guard, Check, Flush, Rollback
  <2>2. /\ \A v \in Writers : v # w => txn'[v] = txn[v]
        /\ txn'[w].pc # "projected"
    <3>1. CASE Close(w)
      BY <1>2, <3>1, EmptyTypes DEF Close
    <3>2. ASSUME NEW p \in {"guarded", "checked", "flushed"}, SetPc(w, p)
          PROVE  (\A v \in Writers : v # w => txn'[v] = txn[v]) /\ txn'[w].pc # "projected"
      <4>1. txn' = [txn EXCEPT ![w] = [txn[w] EXCEPT !.pc = p]]
        BY <3>2 DEF SetPc
      <4>2. p \in TxnStates /\ txn[w] \in Txns
        BY <1>2 DEF TxnStates
      <4>3. [txn[w] EXCEPT !.pc = p].pc = p
        BY <4>2, TxnPc
      <4> QED
        BY <1>2, <4>1, <4>3
    <3>3. CASE Open(w)
      <4>1. PICK batch : txn' = [txn EXCEPT ![w] =
              [pc |-> "begun", base |-> Version(rows), batch |-> batch, state |-> Nothing]]
        BY <3>3 DEF Open
      <4> QED
        BY <1>2, <4>1
    <3> QED
      BY <1>4, <3>1, <3>2, <3>3 DEF Guard, Check, Flush, Rollback
  <2> QED
    BY <1>3, <2>1, <2>2
<1>5. ASSUME NEW w \in Writers, ProjectRows(w) PROVE PInv'
  <2>1. PICK R : R = rows \cup BatchRows(w)
    OBVIOUS
  <2>2. PICK st : st = Project(snapshot, R, {})
    OBVIOUS
  <2>3. txn' = [txn EXCEPT ![w] = [txn[w] EXCEPT !.pc = "projected", !.state = st]]
        /\ UNCHANGED <<rows, index, snapshot>>
    BY <1>5, <2>1, <2>2 DEF ProjectRows
  <2>4. txn[w].pc = "flushed" /\ Flushed(w) /\ txn[w].base = Version(rows)
    BY <1>2, <1>5 DEF ProjectRows, Flushed, TxnsOK
  <2>5. PICK n \in Nat : n = Version(rows) + Len(txn[w].batch) /\ IsFiniteSet(R) /\ Seqs(R) = 1 .. n
    BY <1>1, <2>1, <2>4, Extends
  <2>6. PICK v \in Nat : v = snapshot.version /\ v <= Version(rows)
    BY <1>1, <1>2 DEF States, ProjectionsOK
  <2>7. {r \in R : r.seq <= v} = {r \in rows : r.seq <= v}
    <3>1. Seqs(BatchRows(w)) = (Version(rows) + 1) .. (Version(rows) + Len(txn[w].batch))
      BY <1>2, <2>4, BatchFacts
    <3>2. \A r \in BatchRows(w) : r.seq > v
      <4> TAKE r \in BatchRows(w)
      <4>1. r.seq \in (Version(rows) + 1) .. (Version(rows) + Len(txn[w].batch))
        BY <3>1 DEF Seqs
      <4>2. Len(txn[w].batch) \in Nat
        BY <1>2, TxnFields
      <4> QED
        BY <1>2, <2>6, <4>1, <4>2
    <3>3. \A r \in BatchRows(w) : ~(r.seq <= v)
      <4> TAKE r \in BatchRows(w)
      <4>1. r.seq \in 1 .. n /\ r.seq > v
        BY <2>1, <2>5, <3>2 DEF Seqs
      <4> QED
        BY <4>1
    <3> QED
      BY <2>1, <3>3
  <2>8. st = Fold(Nothing, R, {})
    <3>1. snapshot = Fold(Nothing, {r \in R : r.seq <= v}, {})
      BY <1>1, <2>6, <2>7 DEF ProjectionsOK
    <3> QED
      BY <1>2, <2>2, <2>5, <2>6, <3>1, FoldSplits, Zenon
  <2>9. PICK t : t = [txn[w] EXCEPT !.pc = "projected", !.state = st]
    OBVIOUS
  <2>10. t.state = st /\ t.base = txn[w].base /\ t.batch = txn[w].batch
    BY <1>2, <2>9 DEF Txns
  <2>11. txn'[w] = t /\ \A v_1 \in Writers : v_1 # w => txn'[v_1] = txn[v_1]
    BY <1>2, <2>3, <2>9
  <2>12. BatchRows(w)' = BatchRows(w)
    BY <2>10, <2>11 DEF BatchRows
  <2>13. ASSUME NEW u \in Writers, txn'[u].pc = "projected"
         PROVE  txn'[u].state = Fold(Nothing, rows' \cup BatchRows(u)', {})
    <3>1. CASE u = w
      <4>1. rows' \cup BatchRows(w)' = R
        BY <2>1, <2>3, <2>12
      <4> QED
        BY <2>8, <2>10, <2>11, <3>1, <4>1
    <3>2. CASE u # w
      <4>1. txn[u].pc = "projected"
        BY <2>11, <2>13, <3>2
      <4>2. Flushed(u)
        BY <4>1 DEF Flushed
      <4> QED
        BY <1>2, <2>4, <3>2, <4>2 DEF TxnsOK
    <3> QED
      BY <3>1, <3>2
  <2>14. Version(rows') = Version(rows)
    BY <2>3
  <2> QED
    BY <1>1, <2>3, <2>13, <2>14 DEF PInv, ProjectionsOK
<1>6. ASSUME NEW w \in Writers, Commit(w) PROVE PInv'
  <2>1. PICK R : R = rows \cup BatchRows(w)
    OBVIOUS
  <2>2. txn[w].pc = "projected" /\ Flushed(w) /\ txn[w].base = Version(rows)
    BY <1>2, <1>6 DEF Commit, Flushed, TxnsOK
  <2>3. PICK st \in States : st = txn[w].state /\ st = Fold(Nothing, R, {})
    <3>1. txn[w].state \in States
      BY <1>2, TxnFields
    <3> QED
      BY <1>1, <2>1, <2>2, <3>1 DEF ProjectionsOK
  <2>4. /\ rows' = R /\ index' = st /\ txn' = [txn EXCEPT ![w] = NoTxn]
        /\ snapshot' = st \/ snapshot' = snapshot
    BY <1>6, <2>1, <2>3 DEF Commit, UpsertIndex, WriteSnapshot, Close
  <2>5. PICK n \in Nat : n = Version(rows) + Len(txn[w].batch) /\ IsFiniteSet(R) /\ Seqs(R) = 1 .. n
    BY <1>1, <2>1, <2>2, Extends
  <2>6. Version(R) = n /\ st.version = n
    BY <2>3, <2>5, VersionOfInterval, FoldVersion
  <2>7. Version(rows) <= n /\ Len(txn[w].batch) \in Nat
    BY <1>2, <2>5, TxnFields
  <2>8. PICK v \in Nat : v = snapshot.version /\ v <= Version(rows)
    BY <1>1, <1>2 DEF States, ProjectionsOK
  <2>9. \A r \in R : r.seq \in 1 .. n
    BY <2>5 DEF Seqs
  <2>10. {r \in R : r.seq <= v} = {r \in rows : r.seq <= v}
    <3>1. Seqs(BatchRows(w)) = (Version(rows) + 1) .. (Version(rows) + Len(txn[w].batch))
      BY <1>2, <2>2, BatchFacts
    <3>2. \A r \in BatchRows(w) : ~(r.seq <= v)
      <4> TAKE r \in BatchRows(w)
      <4>1. r.seq \in (Version(rows) + 1) .. (Version(rows) + Len(txn[w].batch))
        BY <3>1 DEF Seqs
      <4> QED
        BY <1>2, <2>7, <2>8, <4>1
    <3> QED
      BY <2>1, <3>2
  <2>11. {r \in R : r.seq <= n} = R
    BY <2>9
  <2>12. snapshot' = Fold(Nothing, {r \in rows' : r.seq <= snapshot'.version}, {})
         /\ snapshot'.version <= Version(rows')
    <3>1. CASE snapshot' = st
      BY <2>3, <2>4, <2>6, <2>11, <3>1
    <3>2. CASE snapshot' = snapshot
      <4>1. v <= n
        BY <1>2, <2>7, <2>8
      <4>2. snapshot = Fold(Nothing, {r \in rows : r.seq <= v}, {})
        BY <1>1, <2>8 DEF ProjectionsOK
      <4> QED
        BY <2>4, <2>6, <2>8, <2>10, <3>2, <4>1, <4>2
    <3> QED
      BY <2>4, <3>1, <3>2
  <2>13. ASSUME NEW u \in Writers PROVE txn'[u].pc # "projected"
    <3>1. CASE u = w
      BY <1>2, <2>4, <3>1, EmptyTypes
    <3>2. CASE u # w
      <4>1. txn'[u] = txn[u] /\ ~Flushed(u)
        BY <1>2, <2>2, <2>4, <3>2 DEF TxnsOK
      <4> QED
        BY <4>1 DEF Flushed
    <3> QED
      BY <3>1, <3>2
  <2> QED
    BY <1>1, <2>3, <2>4, <2>12, <2>13 DEF PInv, ProjectionsOK
<1>7. ASSUME NEW w \in Workers, Claim(w) PROVE PInv'
  BY <1>3, <1>7 DEF Claim
<1>8. CASE UNCHANGED vars
  BY <1>3, <1>8 DEF vars
<1> QED
  BY <1>4, <1>5, <1>6, <1>7, <1>8 DEF Next

\* instance_index is the fold of the committed log, and a snapshot the fold of
\* the log up to its version, whatever transactions run beside each other.
THEOREM ProjectionsCorrect == Spec => []ProjectionsMatchLog
<1>1. PInv => ProjectionsMatchLog
  <2> HAVE PInv
  <2>1. index = Fold(Nothing, {r \in rows : r.seq <= Version(rows)}, {})
    BY RowsUpTo DEF PInv, ProjectionsOK
  <2> QED
    BY <2>1 DEF PInv, ProjectionsOK, ProjectionsMatchLog, StateAt
<1>2. Spec => []PInv
  BY InitPInv, StepPInv, PTL DEF Spec
<1> QED
  BY <1>1, <1>2, PTL

-----------------------------------------------------------------------------
(***************************************************************************)
(* The store implements the journal.                                       *)
(***************************************************************************)
\* A contiguous set of rows is a sequence of events.
LEMMA LogOfFacts ==
  ASSUME NEW R \in SUBSET EventRows, NEW n \in Nat, Seqs(R) = 1 .. n,
         \A r, q \in R : r.seq = q.seq => r = q
  PROVE  /\ LogOf(R) \in Seq(Events)
         /\ Len(LogOf(R)) = n
         /\ \A r \in R : LogOf(R)[r.seq] = r.ev
<1>1. Version(R) = n
  BY VersionOfInterval
<1>2. LogOf(R) = [k \in 1 .. n |-> (CHOOSE r \in R : r.seq = k).ev]
  BY <1>1 DEF LogOf
<1>3. \A k \in 1 .. n : \E r \in R : r.seq = k
  BY DEF Seqs
<1>4. \A k \in 1 .. n : (CHOOSE r \in R : r.seq = k).ev \in Events
  BY <1>3 DEF EventRows
<1>5. LogOf(R) \in [1 .. n -> Events]
  BY <1>2, <1>4
<1>6. LogOf(R) \in Seq(Events) /\ Len(LogOf(R)) = n
  BY <1>5
<1>7. ASSUME NEW r \in R PROVE LogOf(R)[r.seq] = r.ev
  <2>1. r.seq \in 1 .. n
    BY DEF Seqs
  <2>2. (CHOOSE q \in R : q.seq = r.seq) = r
    OBVIOUS
  <2> QED
    BY <1>2, <2>1, <2>2
<1> QED
  BY <1>6, <1>7

\* Empty tables are the empty journal.
LEMMA InitRefines == ASSUME Init PROVE J!Init
<1>1. Version(rows) = 0
  BY DEF Init, Version
<1>2. LogOf(rows) = <<>>
  BY <1>1 DEF LogOf
<1>3. \A w \in Writers : txn[w].base = NotReading
  BY EmptyTypes DEF Init
<1> QED
  BY <1>2, <1>3 DEF J!Init

\* A statement of a transaction is a step of the journal, or none.
LEMMA StepRefines == ASSUME IInv, [Next]_vars PROVE [J!Next]_(J!vars)
<1> DEFINE seen == [v \in Writers |-> txn[v].base]
<1>0. /\ TxnsOK /\ txn \in [Writers -> Txns]
      /\ rows \in SUBSET EventRows /\ Version(rows) \in Nat
      /\ Seqs(rows) = 1 .. Version(rows)
      /\ \A r, q \in rows : r.seq = q.seq => r = q
  BY DEF IInv, TypeOK, RowsOK, LogContiguous
<1>1. /\ LogOf(rows) \in Seq(Events)
      /\ Len(LogOf(rows)) = Version(rows)
      /\ \A r \in rows : LogOf(rows)[r.seq] = r.ev
  BY <1>0, LogOfFacts
<1>a. ASSUME NEW w \in Writers, Close(w), txn[w].pc # "idle", UNCHANGED rows
      PROVE  J!Fail(w)
  <2>1. txn' = [txn EXCEPT ![w] = NoTxn]
    BY <1>a DEF Close
  <2>2. seen' = [seen EXCEPT ![w] = NotReading]
    BY <1>0, <2>1, EmptyTypes
  <2>3. seen[w] # NotReading
    BY <1>0, <1>a, VersionsAssumption DEF TxnsOK
  <2>4. LogOf(rows)' = LogOf(rows)
    BY <1>a DEF LogOf, Version
  <2> QED
    BY <2>2, <2>3, <2>4 DEF J!Fail
<1>b. ASSUME NEW w \in Writers, NEW p \in TxnStates, SetPc(w, p), UNCHANGED rows
      PROVE  UNCHANGED J!vars
  <2>1. \A v \in Writers : txn'[v].base = txn[v].base
    <3>1. txn' = [txn EXCEPT ![w] = [txn[w] EXCEPT !.pc = p]]
      BY <1>b DEF SetPc
    <3> QED
      BY <1>0, <3>1, TxnPc
  <2>2. seen' = seen
    BY <2>1
  <2>3. LogOf(rows)' = LogOf(rows)
    BY <1>b DEF LogOf, Version
  <2> QED
    BY <2>2, <2>3 DEF J!vars
<1>2. ASSUME NEW w \in Writers, Open(w) PROVE J!Read(w)
  <2>1. PICK batch : txn' = [txn EXCEPT ![w] =
          [pc |-> "begun", base |-> Version(rows), batch |-> batch, state |-> Nothing]]
    BY <1>2 DEF Open
  <2>2. seen' = [seen EXCEPT ![w] = Version(rows)]
    BY <1>0, <2>1
  <2>3. seen[w] = NotReading
    BY <1>0, <1>2 DEF Open, TxnsOK
  <2>4. LogOf(rows)' = LogOf(rows)
    BY <1>2 DEF Open, LogOf, Version
  <2> QED
    BY <1>1, <2>2, <2>3, <2>4 DEF J!Read
<1>3. ASSUME NEW w \in Writers, Guard(w) \/ Check(w) \/ Flush(w)
      PROVE  J!Fail(w) \/ UNCHANGED J!vars
  <2>1. txn[w].pc # "idle" /\ UNCHANGED rows
    BY <1>3 DEF Guard, Check, Flush
  <2>2. Close(w) \/ SetPc(w, "guarded") \/ SetPc(w, "checked") \/ SetPc(w, "flushed")
    BY <1>3 DEF Guard, Check, Flush
  <2>3. {"guarded", "checked", "flushed"} \subseteq TxnStates
    BY DEF TxnStates
  <2> QED
    BY <1>a, <1>b, <2>1, <2>2, <2>3
<1>4. ASSUME NEW w \in Writers, ProjectRows(w) PROVE UNCHANGED J!vars
  <2> DEFINE st == Project(snapshot, rows \cup BatchRows(w), {})
  <2>1. txn' = [txn EXCEPT ![w] = [txn[w] EXCEPT !.pc = "projected", !.state = st]]
    BY <1>4 DEF ProjectRows
  <2> HIDE DEF st
  <2>2. \A v \in Writers : txn'[v].base = txn[v].base
    BY <1>0, <2>1 DEF Txns
  <2>3. seen' = seen
    BY <2>2
  <2>4. LogOf(rows)' = LogOf(rows)
    BY <1>4 DEF ProjectRows, LogOf, Version
  <2> QED
    BY <2>3, <2>4 DEF J!vars
<1>5. ASSUME NEW w \in Writers, Commit(w) PROVE J!AppendBatch(w)
  <2> DEFINE R == rows \cup BatchRows(w)
  <2> DEFINE b == Version(rows)
  <2> DEFINE n == b + Len(txn[w].batch)
  <2>1. rows' = R /\ txn' = [txn EXCEPT ![w] = NoTxn]
    BY <1>5 DEF Commit, UpsertIndex, WriteSnapshot, Close
  <2>2. txn[w].pc # "idle" /\ txn[w].base = b /\ Len(txn[w].batch) >= 1
    BY <1>0, <1>5 DEF Commit, UpsertIndex, WriteSnapshot, Flushed, TxnsOK
  <2>3. /\ R \in SUBSET EventRows /\ n \in Nat /\ Seqs(R) = 1 .. n
        /\ \A r, q \in R : r.seq = q.seq => r = q
    BY <2>2, Extends
  <2>4. n > b /\ b \in Nat
    BY <1>0, <2>2, TxnFields
  <2> HIDE DEF R, b, n
  <2>5. /\ LogOf(R) \in Seq(Events) /\ Len(LogOf(R)) = n
        /\ \A r \in R : LogOf(R)[r.seq] = r.ev
    BY <2>3, LogOfFacts
  <2>6. \A k \in 1 .. b : LogOf(R)[k] = LogOf(rows)[k]
    <3> SUFFICES ASSUME NEW k \in 1 .. b PROVE LogOf(R)[k] = LogOf(rows)[k]
      OBVIOUS
    <3>1. PICK r \in rows : r.seq = k
      BY <1>0 DEF Seqs, b
    <3>2. r \in R
      BY DEF R
    <3> QED
      BY <1>1, <2>5, <3>1, <3>2
  <2>7. SubSeq(LogOf(R), 1, b) = LogOf(rows)
    <3>1. Len(LogOf(rows)) = b /\ LogOf(rows) \in Seq(Events)
      BY <1>1 DEF b
    <3>2. SubSeq(LogOf(R), 1, b) \in Seq(Events) /\ Len(SubSeq(LogOf(R), 1, b)) = b
      BY <2>4, <2>5
    <3>3. \A k \in 1 .. b : SubSeq(LogOf(R), 1, b)[k] = LogOf(rows)[k]
      BY <2>4, <2>5, <2>6
    <3> QED
      BY <2>4, <3>1, <3>2, <3>3
  <2>8. LogOf(rows)' = LogOf(R)
    BY <2>1 DEF LogOf, Version
  <2>9. seen' = [seen EXCEPT ![w] = NotReading]
    BY <1>0, <2>1, EmptyTypes
  <2>10. seen[w] = Len(LogOf(rows))
    BY <1>1, <2>2 DEF b
  <2>11. Len(LogOf(rows)) = b
    BY <1>1 DEF b
  <2> QED
    BY <2>4, <2>5, <2>7, <2>8, <2>9, <2>10, <2>11 DEF J!AppendBatch
<1>6. ASSUME NEW w \in Writers, Rollback(w) PROVE J!Fail(w)
  BY <1>6, <1>a DEF Rollback
<1>7. ASSUME NEW w \in Workers, Claim(w) PROVE UNCHANGED J!vars
  BY <1>7 DEF Claim, J!vars, LogOf, Version
<1>8. CASE UNCHANGED vars
  BY <1>8 DEF vars, J!vars, LogOf, Version
<1> QED
  BY <1>2, <1>3, <1>4, <1>5, <1>6, <1>7, <1>8 DEF Next, J!Next

\* To its callers the store is a journal: however the statements of concurrent
\* _commit transactions interleave, each append is atomic and at the version
\* its writer had read.
THEOREM StoreImplementsJournal == Spec => ImplementsJournal
BY InitRefines, StepRefines, Invariant, PTL DEF Spec, ImplementsJournal, J!Spec
=============================================================================
