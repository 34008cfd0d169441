------------------------------ MODULE TraceLog ------------------------------
(***************************************************************************)
(* The trace of one core (src/kernel/trace.cpp) and the stream it is       *)
(* drained into (src/userlib/trace_stream): a ring with two free-running   *)
(* indices, which the core appends to with interrupts masked, so one       *)
(* record at a time, and drops from when it is full, while a reader        *)
(* elsewhere moves records out in chunks and reports the drops.  Records   *)
(* stand for their number in the order the core came to record them.       *)
(***************************************************************************)
EXTENDS Naturals, Sequences, FiniteSets

CONSTANTS Capacity,    \* trace_records_per_core, a power of two
          Chunk,       \* records_per_packet
          Modulus,     \* of the indices, 2^32 in the code (the count of drops does not wrap here)
          MaxRecords   \* bound: what the core records in a lifecycle

TraceAssumption ==
  /\ Capacity \in Nat \ {0} /\ Chunk \in Nat \ {0} /\ MaxRecords \in Nat
  /\ Modulus % Capacity = 0 /\ Modulus > Capacity

Torn == 0              \* a record being written

VARIABLES
  head, tail, dropped, slots,   \* core_log
  made,                         \* how many records the core came to record
  writing,                      \* where its append is
  draining,                     \* where the reader's drain is
  want, got,                    \* how many records its read is to copy, and those copied
  written,                      \* how many the drain has written
  reported,                     \* reported_dropped
  stream,                       \* history: the records written, by number
  lost                          \* history: the records dropped

log == <<head, tail, dropped, slots>>
reader == <<draining, want, got, written, reported, stream>>
vars == <<log, reader, made, writing, lost>>

Slot(i) == (i % Capacity) + 1
Held == (head + Modulus - tail) % Modulus
Least(m, n) == IF m < n THEN m ELSE n

-----------------------------------------------------------------------------
(* append_on_this_core *)

\* Mutant: one record too many.
FullLate == Held = Capacity + 1

full == Held = Capacity

\* A full ring is met with a drop; into another the record is written,
append ==
  /\ writing = "out" /\ made < MaxRecords
  /\ made' = made + 1
  /\ \/ full /\ writing' = "drop" /\ UNCHANGED slots
     \/ ~full /\ writing' = "slot" /\ slots' = [slots EXCEPT ![Slot(head)] = Torn]
  /\ UNCHANGED <<head, tail, dropped, lost, reader>>

count_drop ==
  /\ writing = "drop"
  /\ dropped' = dropped + 1 /\ lost' = lost \cup {made}
  /\ writing' = "out"
  /\ UNCHANGED <<head, tail, slots, made, reader>>

\* Mutant: the head is moved before the record is whole.
PublishesFirst ==
  /\ writing = "slot"
  /\ head' = (head + 1) % Modulus
  /\ writing' = "head"
  /\ UNCHANGED <<tail, dropped, slots, made, lost, reader>>

write_slot ==
  /\ writing = "slot"
  /\ slots' = [slots EXCEPT ![Slot(head)] = made]
  /\ writing' = "head"
  /\ UNCHANGED <<head, tail, dropped, made, lost, reader>>

\* and only then published.
publish ==
  /\ writing = "head"
  /\ head' = (head + 1) % Modulus
  /\ writing' = "out"
  /\ UNCHANGED <<tail, dropped, slots, made, lost, reader>>

\* Between lifecycles; the next one has a stream of its own.
reset ==
  /\ writing = "out" /\ draining = "out" /\ made > 0
  /\ head' = 0 /\ tail' = 0 /\ dropped' = 0
  /\ made' = 0 /\ lost' = {} /\ reported' = 0 /\ stream' = <<>>
  /\ UNCHANGED <<slots, writing, draining, want, got, written>>

-----------------------------------------------------------------------------
(* stream_writer::drain *)

drain ==
  /\ draining = "out"
  /\ draining' = "read" /\ written' = 0
  /\ UNCHANGED <<log, made, writing, lost, want, got, reported, stream>>

\* read learns how many records there are; a drain stops after a ring's worth,
read ==
  /\ draining = "read"
  /\ LET count == IF written < Capacity THEN Least(Held, Chunk) ELSE 0 IN
     want' = count /\ draining' = IF count = 0 THEN "report" ELSE "copy"
  /\ UNCHANGED <<log, made, writing, lost, got, written, reported, stream>>

\* copies them,
copy ==
  /\ draining = "copy" /\ Len(got) < want
  /\ got' = Append(got, slots[Slot(tail + Len(got))])
  /\ UNCHANGED <<log, made, writing, lost, draining, want, written, reported, stream>>

\* and gives their slots back; a short chunk has caught up.
consume ==
  /\ draining = "copy" /\ Len(got) = want
  /\ tail' = (tail + want) % Modulus
  /\ stream' = stream \o got /\ written' = written + want
  /\ draining' = IF want < Chunk THEN "report" ELSE "read"
  /\ want' = 0 /\ got' = <<>>
  /\ UNCHANGED <<head, dropped, slots, made, writing, lost, reported>>

\* Mutant: a drain that stops after a ring's worth returns from its loop.
ReportsCaughtUp ==
  /\ draining = "report"
  /\ reported' = IF written < Capacity THEN dropped ELSE reported
  /\ draining' = "out" /\ want' = 0 /\ written' = 0
  /\ UNCHANGED <<log, made, writing, lost, got, stream>>

\* A dropped packet, if the count has grown.
report ==
  /\ draining = "report"
  /\ reported' = dropped
  /\ draining' = "out" /\ want' = 0 /\ written' = 0
  /\ UNCHANGED <<log, made, writing, lost, got, stream>>

-----------------------------------------------------------------------------
Init ==
  /\ head = 0 /\ tail = 0 /\ dropped = 0 /\ slots = [i \in 1..Capacity |-> Torn]
  /\ made = 0 /\ writing = "out" /\ lost = {}
  /\ draining = "out" /\ want = 0 /\ got = <<>> /\ written = 0 /\ reported = 0
  /\ stream = <<>>

Next ==
  \/ append \/ count_drop \/ write_slot \/ publish \/ reset
  \/ drain \/ read \/ copy \/ consume \/ report

Spec == Init /\ [][Next]_vars

-----------------------------------------------------------------------------
(* Properties *)

Kept == {n \in 1..made : n \notin lost /\ ~(n = made /\ writing # "out")}

\* "The core only ever appends, and the reader only ever consumes" (trace.hpp):
\* what has been read and what the ring holds, in that order, are the records
\* that were not dropped, whole, once each and in order, through every wrap of
\* the indices.
TraceIsFaithful ==
  LET buffered == [i \in 1..Held |-> slots[Slot(tail + i - 1)]]
      all == stream \o buffered
  IN /\ \A i \in 1..Len(all) : all[i] \in Kept /\ (i > 1 => all[i - 1] < all[i])
     /\ Len(all) = Cardinality(Kept)

\* No hole in the records goes unreported (drain reports after it has read): at
\* the end of a drain, every record missing before the last one written is in
\* the count of a dropped packet already.
GapsAreReported ==
  draining = "out" /\ stream # <<>> =>
    Cardinality({n \in lost : n < stream[Len(stream)]}) <= reported
=============================================================================
