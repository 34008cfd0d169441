------------------------------ MODULE MCKernel ------------------------------
(***************************************************************************)
(* Small instances of the kernel's modules, checked side by side: a        *)
(* behaviour is of one of them, chosen at the start and kept in `kind'.     *)
(* The variables an instance does not have stay None.                      *)
(***************************************************************************)
EXTENDS Naturals, Sequences, TLC

CONSTANTS a, b, u,             \* the threads of one scheduler
          hi, mid, lo, m1, m2, \* threads that share mutexes
          c1, c2, Idle, None

VARIABLES kind,
  current, state, disposition, pending, doorbell, filed,   \* BaseMutex
  owner, queue, bridges, blocked_on, pc, at, seen, locked,
  sched, intake, pended, isr, nopreempt, boost, handed,    \* Scheduler
  step, visited, first, node, edge, deadlocked, stuck,     \* Diagnostics
  head, tail, dropped, slots, made, writing, draining,     \* TraceLog
  want, got, written, reported, stream, lost,
  held                                                     \* of locks and turns

locks == <<current, state, disposition, pending, doorbell, filed,
           owner, queue, bridges, blocked_on, pc, at, seen, locked>>
turn  == <<sched, intake, pended, isr, nopreempt, boost, handed>>
query == <<step, visited, first, node, edge, deadlocked, stuck>>
trace == <<head, tail, dropped, slots, made, writing, draining, want, got, written,
           reported, stream, lost>>
vars  == <<kind, locks, turn, query, trace, held>>

NoLocks ==
  /\ current = None /\ state = None /\ disposition = None /\ pending = None /\ doorbell = None
  /\ filed = None /\ owner = None /\ queue = None /\ bridges = None /\ blocked_on = None
  /\ pc = None /\ at = None /\ seen = None /\ locked = None

NoTurn ==
  /\ sched = None /\ intake = None /\ pended = None /\ isr = None /\ nopreempt = None
  /\ boost = None /\ handed = None

NoQuery ==
  /\ step = None /\ visited = None /\ first = None /\ node = None /\ edge = None
  /\ deadlocked = None /\ stuck = None

NoTrace ==
  /\ head = None /\ tail = None /\ dropped = None /\ slots = None /\ made = None
  /\ writing = None /\ draining = None /\ want = None /\ got = None /\ written = None
  /\ reported = None /\ stream = None /\ lost = None

-----------------------------------------------------------------------------
\* Two equals and a more urgent thread, without mutexes; and two equals with a
\* holder that a waiter may boost to a tie with them.
turns == INSTANCE Scheduler
  WITH Threads <- {a, b, u}, prio <- a :> 1 @@ b :> 1 @@ u :> 0, IdlePriority <- 2,
       Calls <- {"wake", "interrupt", "remote", "slice", "yield", "block", "exit", "preempt"},
       Donations <- {}

holders == INSTANCE Scheduler
  WITH Threads <- {a, b, u}, prio <- a :> 1 @@ b :> 1 @@ u :> 2, IdlePriority <- 3,
       Calls <- {"wake", "block", "mutex", "slice"}, Donations <- {1}

NoCeilings == m1 :> 4 @@ m2 :> 4
OuterFirst == m1 :> 2 @@ m2 :> 1

MutexPrio  == hi :> 0 @@ mid :> 1 @@ lo :> 2
OuterRank  == hi :> OuterFirst @@ mid :> OuterFirst @@ lo :> OuterFirst

ChainCore  == hi :> c1 @@ mid :> c1 @@ lo :> c2
ChainLocks == hi :> {m2} @@ mid :> {m1, m2} @@ lo :> {m1}

\* A chain over two cores: hi waits for mid on m2, mid for lo on m1.
chain == INSTANCE BaseMutex
  WITH Threads <- {hi, mid, lo}, prio <- MutexPrio, Mutexes <- {m1, m2},
       Cores <- {c1, c2}, core <- ChainCore, ceiling <- NoCeilings, Locks <- ChainLocks,
       rank <- OuterRank, Sleepers <- {hi}, MaxDepth <- 8, IdlePriority <- 3

NestedCore  == hi :> c1 @@ mid :> c1 @@ lo :> c1
OuterCapped == m1 :> 0 @@ m2 :> 4
NestedLocks == hi :> {m1, m2} @@ mid :> {} @@ lo :> {m1, m2}

\* One core, two nested mutexes, the outer with an immediate ceiling.
nested == INSTANCE BaseMutex
  WITH Threads <- {hi, mid, lo}, prio <- MutexPrio, Mutexes <- {m1, m2},
       Cores <- {c1}, core <- NestedCore, ceiling <- OuterCapped, Locks <- NestedLocks,
       rank <- OuterRank, Sleepers <- {hi, mid}, MaxDepth <- 8, IdlePriority <- 3

WalkPrio  == hi :> 0 @@ lo :> 2
WalkCore  == hi :> c1 @@ lo :> c1
WalkLocks == hi :> {m1, m2} @@ lo :> {m1, m2}
WalkRank  == hi :> OuterFirst @@ lo :> (m1 :> 1 @@ m2 :> 2)

\* Two threads of one core that nest two mutexes in opposite orders, so that
\* they may deadlock, and a query of either's chain from elsewhere; the cycle
\* is as long as a chain may be.
walk == INSTANCE Diagnostics
  WITH Threads <- {hi, lo}, prio <- WalkPrio, Mutexes <- {m1, m2},
       Cores <- {c1}, core <- WalkCore, ceiling <- NoCeilings, Locks <- WalkLocks,
       rank <- WalkRank, Sleepers <- {hi}, MaxDepth <- 2, IdlePriority <- 3, MaxLinks <- 2

\* A thread at the idle thread's own priority.
last == INSTANCE Scheduler
  WITH Threads <- {a, b, u}, prio <- a :> 0 @@ b :> 1 @@ u :> 2, IdlePriority <- 2,
       Calls <- {"interrupt", "block"}, Donations <- {}

\* Two threads, each on a core of its own, that contend for one mutex and so
\* cannot deadlock, and queries of their blocking chains.
contend == INSTANCE Diagnostics
  WITH Threads <- {hi, lo}, prio <- hi :> 1 @@ lo :> 1, Mutexes <- {m1},
       Cores <- {c1, c2}, core <- hi :> c1 @@ lo :> c2, ceiling <- m1 :> 4,
       Locks <- hi :> {m1} @@ lo :> {m1}, rank <- hi :> (m1 :> 1) @@ lo :> (m1 :> 1),
       Sleepers <- {}, MaxDepth <- 2, IdlePriority <- 3, MaxLinks <- 2

\* A ring of two records, drained one at a time, whose indices wrap.
log == INSTANCE TraceLog WITH Capacity <- 2, Chunk <- 1, Modulus <- 4, MaxRecords <- 7

ASSUME InstancesAssumption ==
  /\ turns!SchedulerAssumption /\ holders!SchedulerAssumption
  /\ chain!MutexAssumption /\ nested!MutexAssumption
  /\ walk!MutexAssumption /\ walk!DiagnosticsAssumption /\ log!TraceAssumption

-----------------------------------------------------------------------------
Init ==
  \/ kind = "turns" /\ turns!Init /\ NoLocks /\ NoQuery /\ NoTrace
  \/ kind = "holders" /\ holders!Init /\ NoLocks /\ NoQuery /\ NoTrace
  \/ kind = "chain" /\ chain!Init /\ NoTurn /\ NoQuery /\ NoTrace
  \/ kind = "nested" /\ nested!Init /\ NoTurn /\ NoQuery /\ NoTrace
  \/ kind = "walk" /\ walk!ChainInit /\ NoTurn /\ NoTrace
  \/ kind = "trace" /\ log!Init /\ NoLocks /\ NoTurn /\ NoQuery /\ held = None

\* The threads of a scheduler may all have ended.
Rests == kind = "turns" /\ UNCHANGED vars

Next ==
  \/ kind = "turns" /\ turns!Next /\ UNCHANGED <<kind, locks, query, trace>>
  \/ kind = "holders" /\ holders!Next /\ UNCHANGED <<kind, locks, query, trace>>
  \/ kind = "chain" /\ chain!Next /\ UNCHANGED <<kind, turn, query, trace>>
  \/ kind = "nested" /\ nested!Next /\ UNCHANGED <<kind, turn, query, trace>>
  \/ kind = "walk" /\ walk!ChainNext /\ UNCHANGED <<kind, turn, trace>>
  \/ kind = "trace" /\ log!Next /\ UNCHANGED <<kind, locks, turn, query, held>>
  \/ Rests

Spec == Init /\ [][Next]_vars

\* The instances that break what a comment says, each by itself.
LastSpec ==
  /\ kind = "last" /\ last!Init /\ NoLocks /\ NoQuery /\ NoTrace
  /\ [][last!Next /\ UNCHANGED <<kind, locks, query, trace>>]_vars

ContendSpec ==
  /\ kind = "contend" /\ contend!ChainInit /\ NoTurn /\ NoTrace
  /\ [][contend!ChainNext /\ UNCHANGED <<kind, turn, trace>>]_vars

Symmetry == Permutations({a, b})
-----------------------------------------------------------------------------
(* Properties, each of the instances it is about *)

\* A ready thread is filed exactly once and nothing else is (the asserts of
\* admit, push_back and set_thread_running), where the pick looks for it: a
\* holder on the holder list, unless the admission that re-files it is still to
\* come (make_ready's re-route), and only holders there.
FiledRight ==
  /\ kind = "turns" => turns!FiledOnce
  /\ kind = "holders" => holders!FiledOnce /\ holders!HolderIsListed /\ holders!ListedIsHolder
  /\ kind = "chain" => chain!HolderIsListed

\* Nothing ready waits behind a less urgent running thread once no reschedule
\* is pended and none is held off (Scheduler).
MostUrgentRuns == kind = "turns" => turns!MostUrgentRuns

\* What the idle loop takes for granted when the core wakes from its sleep:
\* whatever an interrupt readied has been switched to.
IdleOnlyWhenNothingReady == kind = "last" => last!IdleOnlyWhenNothingReady

\* A preempted thread keeps its turn: with no holder about, equals change
\* places only when the one in front yields, parks, ends, is time sliced with
\* nothing more urgent ready, or is readied anew by a late remote wake.
KeepsItsTurn == [][kind = "turns" => turns!TurnsKept]_vars

\* Mutual exclusion: whoever lock() has returned to is the owner, with the
\* mutex in its slots, a slot never names a mutex its thread does not own, and
\* an owner has no wait on its mutex going on (the assert "Owner queued on
\* itself"), although ownership is handed to threads that are still queued.
OwnerHolds == kind = "chain" => chain!OwnerHolds /\ chain!OwnerNotQueued

\* No lost handover: a thread parked in lock() is queued behind an owner, or
\* has been made owner and its wake is on the way (wake_one_and_commit).
ParkedHasOwner == kind = "chain" => chain!ParkedHasOwner

\* Inheritance is transitive where it is registered: a thread whose slots name
\* a mutex is at least as urgent as every thread queued on it is, and what the
\* fold reads on the way is there: a queue with a waiter that holds something
\* carries the hint wait_queue::top trusts, and a thread parked in lock() has
\* published the edge it waits along.
SlotsDonate ==
  kind = "chain" => chain!SlotsDonate /\ chain!BridgesHinted /\ chain!ParkedHasEdge

\* The scheduler honours urgency, ceilings and nesting included: on a quiet
\* core no ready thread is more urgent, by the fold, than the one that runs.
UrgencyHonoured == kind = "nested" => nested!UrgencyHonoured

\* A deadlock that stands when diagnostics::blocking_chain_of begins is reported
\* by it.
DeadlockReported == kind = "walk" => walk!DeadlockReported

\* diagnostics.cpp of confirm_cycle: a re-read "cannot be fooled by a cycle that exists
\* across time but never at an instant".
DeadlockIsReal == kind = "contend" => contend!DeadlockIsReal

\* What has been read of a core's trace and what its ring holds, in that order,
\* are the records that were not dropped, whole, once each and in order
\* (trace::read beside append_on_this_core), and no hole goes unreported: at the
\* end of a drain every record missing before the last one written is in the
\* count of a dropped packet already (stream_writer::drain).
TraceIsWhole == kind = "trace" => log!TraceIsFaithful /\ log!GapsAreReported
=============================================================================
