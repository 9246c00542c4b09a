------------------------------ MODULE Journal -------------------------------
(***************************************************************************)
(* What the event store promises its callers (the EventJournal protocol):  *)
(* one log of events per instance, extended by whole batches, each by a    *)
(* writer that has seen the log exactly as it stands (optimistic           *)
(* concurrency).  Drivers, control, escalations and the dead-letter queue  *)
(* are all written against this; EventStore implements it.                 *)
(***************************************************************************)
EXTENDS Sequences, Naturals

CONSTANTS
  Writers,    \* the processes that append
  Events,     \* what an event can say
  NotReading  \* the version seen by a writer that has not read the log

VARIABLES
  log,        \* the events of the instance, in order
  seen        \* the version of the log each writer has read

vars == <<log, seen>>

Init ==
  /\ log = <<>>
  /\ seen = [w \in Writers |-> NotReading]

\* get_instance or load: the writer learns the version.
Read(w) ==
  /\ seen[w] = NotReading
  /\ seen' = [seen EXCEPT ![w] = Len(log)]
  /\ UNCHANGED log

\* append / append_new with the version read as expected_version.
AppendBatch(w) ==
  /\ seen[w] = Len(log)
  /\ log' \in Seq(Events)
  /\ Len(log') > Len(log)
  /\ SubSeq(log', 1, Len(log)) = log
  /\ seen' = [seen EXCEPT ![w] = NotReading]

\* ConflictError, LeaseLostError, or the writer gives up or dies.
Fail(w) ==
  /\ seen[w] # NotReading
  /\ seen' = [seen EXCEPT ![w] = NotReading]
  /\ UNCHANGED log

Next == \E w \in Writers : Read(w) \/ AppendBatch(w) \/ Fail(w)

Spec == Init /\ [][Next]_vars
=============================================================================
