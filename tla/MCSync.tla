------------------------------- MODULE MCSync -------------------------------
(***************************************************************************)
(* Small instances of the objects threads wait on, side by side: a         *)
(* behaviour is of one of them, chosen at the start and kept in `kind',    *)
(* and the variables that one does not have stay None.                     *)
(***************************************************************************)
EXTENDS Naturals, Sequences, FiniteSets, TLC

CONSTANTS t1, t2, i1, i2, None

VARIABLES kind,
  queue, prepared, pending, pc, on, timed, expired,            \* WaitLoop
  satisfied, gone, chosen, batch,
  counter, held, todo, reclaiming, counted, since,             \* HandoffSemaphore
  bits, req, seen, cursor, filled, live,                       \* EventFlags
  owner, released, sweeping, taken, missed,                    \* ConditionVariable
  ring, head, tail, occupancy, stopped, value, stopping        \* Channel

loops == <<queue, prepared, pending, pc, on, timed, expired, satisfied, gone, chosen, batch>>
pool == <<counter, held, todo, reclaiming, counted, since>>
flags == <<bits, req, seen, cursor, filled, live>>
cvs == <<owner, released, sweeping, taken, missed>>
slots == <<ring, head, tail, occupancy, stopped, value, stopping>>
vars == <<kind, loops, pool, flags, cvs, slots>>

NoPool ==
  /\ counter = None /\ held = None /\ todo = None /\ reclaiming = None /\ counted = None /\ since = None

NoFlags ==
  /\ bits = None /\ req = None /\ seen = None /\ cursor = None /\ filled = None
  /\ live = None

NoCv ==
  /\ owner = None /\ released = None /\ sweeping = None /\ taken = None
  /\ missed = None

NoSlots ==
  /\ ring = None /\ head = None /\ tail = None /\ occupancy = None /\ stopped = None
  /\ value = None /\ stopping = None

-----------------------------------------------------------------------------
TwoPrios == t1 :> 1 @@ t2 :> 2
Calling(first, second, waker) == t1 :> first @@ t2 :> second @@ i1 :> waker

\* Two acquirers, one of them timed, and two tokens released one or two at once.
handoff == INSTANCE HandoffSemaphore
  WITH Threads <- {t1, t2}, prio <- TwoPrios, Wakers <- {i1}, Tokens <- 2,
       Handoff <- "handoff", Waitables <- {"handoff"}, Recorded <- {"handoff"},
       Calls <- Calling({"acquire"}, {"timed"}, {"release"})

\* One thread consumes two flags at once, the other either waits for or tries
\* the first; the walk readies its waiters one at a time.
flag == INSTANCE EventFlags
  WITH Threads <- {t1, t2}, prio <- TwoPrios, Wakers <- {i1}, Bits <- {1, 2}, BatchSize <- 1,
       Flags <- "flags", Waitables <- {"flags"}, Recorded <- {"flags"},
       Calls <- Calling({"wait"}, {"wait", "try"}, {"set", "clear"}),
       Requests <- t1 :> {[mask |-> {1, 2}, match |-> "all", exit |-> "consume"]}
                   @@ t2 :> {[mask |-> {1}, match |-> "any", exit |-> "consume"]}

\* Two waiters, one of them timed, and two notifiers.
cv == INSTANCE ConditionVariable
  WITH Threads <- {t1, t2}, prio <- TwoPrios, Wakers <- {i1, i2},
       Cv <- "cv", Waitables <- {"cv"}, Recorded <- {"cv"},
       Calls <- Calling({"lock", "wait"}, {"lock", "timed"}, {"notify_one", "notify_all"})
                @@ i2 :> {"notify_one", "notify_all"}

\* Two receivers, equals, of a ring of two slots.
ring2 == INSTANCE Channel
  WITH Threads <- {t1, t2}, prio <- t1 :> 1 @@ t2 :> 1, Wakers <- {i1}, Capacity <- 2, Values <- {0, 1},
       Readable <- "readable", Writable <- "writable",
       Waitables <- {"readable", "writable"}, Recorded <- {},
       Calls <- Calling({"receive"}, {"receive"}, {"send", "overwrite", "stop"})

\* One slot, a receiver and a blocking sender, and every other call.
gate == INSTANCE Channel
  WITH Threads <- {t1, t2}, prio <- TwoPrios, Wakers <- {i1}, Capacity <- 1, Values <- {0, 1},
       Readable <- "readable", Writable <- "writable",
       Waitables <- {"readable", "writable"}, Recorded <- {},
       Calls <- Calling({"receive"}, {"blocking"}, {"send", "overwrite", "stop", "try_receive"})

ASSUME InstancesAssumption ==
  /\ handoff!LoopAssumption /\ ring2!LoopAssumption
  /\ flag!FlagsAssumption
  /\ ring2!ChannelAssumption /\ gate!ChannelAssumption

-----------------------------------------------------------------------------
Init ==
  \/ kind = "handoff" /\ handoff!HandoffInit /\ NoFlags /\ NoCv /\ NoSlots
  \/ kind = "flags" /\ flag!FlagsInit /\ NoPool /\ NoCv /\ NoSlots
  \/ kind = "cv" /\ cv!CvInit /\ NoPool /\ NoFlags /\ NoSlots
  \/ kind = "ring" /\ ring2!ChannelInit /\ NoPool /\ NoFlags /\ NoCv
  \/ kind = "gate" /\ gate!ChannelInit /\ NoPool /\ NoFlags /\ NoCv

\* Every thread may be waiting for what nobody sends.
Rests == kind \in {"handoff", "ring", "gate"} /\ UNCHANGED vars

Next ==
  \/ kind = "handoff" /\ handoff!HandoffNext
     /\ UNCHANGED <<kind, flags, cvs, slots>>
  \/ kind = "flags" /\ flag!FlagsNext
     /\ UNCHANGED <<kind, pool, cvs, slots>>
  \/ kind = "cv" /\ cv!CvNext /\ UNCHANGED <<kind, pool, flags, slots>>
  \/ kind = "ring" /\ ring2!ChannelNext
     /\ UNCHANGED <<kind, pool, flags, cvs>>
  \/ kind = "gate" /\ gate!ChannelNext
     /\ UNCHANGED <<kind, pool, flags, cvs>>
  \/ Rests

Spec == Init /\ [][Next]_vars

-----------------------------------------------------------------------------
(* Properties, each of the instances it is about *)

\* No token is made or lost, whichever way the deadline, the hand-over, the
\* counted take and reclaim interleave: each is counted, held, in the hands of
\* a release, handed to a waiter or taken by its poll (handoff_semaphore).
TokensConserved == kind = "handoff" => handoff!TokensConserved

\* "Two consumers cannot both take one set" (event_flags): a bit is set exactly
\* when it was set and has not been cleared or consumed since.
TakenOnce == kind = "flags" => flag!TakenOnce

\* "The threads woken are exactly the threads notified, and no wake can go
\* unmarked" (condition_variable), the deadline racing the notify included.
WokenAreNotified == kind = "cv" => cv!WokenAreNotified

\* condition_variable::wait releases the mutex and blocks as one step with
\* respect to notify: no step leaves a thread that has released it off the
\* queue, unless a notify has taken it or it is between two passes of its loop.
ReleasedArmed == [][kind = "cv" => cv!StaysArmed]_vars

\* condition_variable's promise, as its header states it: "a notify issued
\* after the release is guaranteed to find the waiter".
NotifyFindsWaiter == kind = "cv" => cv!NotifyFindsWaiter

\* The channel's ring is the queue it stands for: through every wrap of its
\* indices, overwrite, refusal and stop, each step is a step of the FIFO.
Two == INSTANCE Fifo WITH Values <- {0, 1}, Capacity <- 2,
  items <- IF kind = "ring" THEN ring2!Queued ELSE <<>>,
  closed <- IF kind = "ring" THEN stopped ELSE FALSE
One == INSTANCE Fifo WITH Values <- {0, 1}, Capacity <- 1,
  items <- IF kind = "gate" THEN gate!Queued ELSE <<>>,
  closed <- IF kind = "gate" THEN stopped ELSE FALSE
RefinesFifo == Two!FifoSpec /\ One!FifoSpec

\* No wakeup is lost: whenever a waiter's reason to go on is there, someone has
\* yet to look or a wake is on its way.  A token is counted only while nobody
\* waits (handoff_semaphore); flags that satisfy a waiter have a set's walk to
\* come to it; every queued value, or free slot, has a wake or a taker, and a
\* stopped channel has yet to sweep who waits on it.
NoLostWakeup ==
  /\ kind = "handoff" => handoff!NotOvertaken
  /\ kind = "flags" => flag!MatchIsSeen
  /\ kind = "ring" => ring2!ValuesAreWoken /\ ring2!StopReleases
  /\ kind = "gate" => gate!ValuesAreWoken /\ gate!StopReleases

\* No overtaking on a wait queue (wait_queue::link, the linear scan with `<='):
\* a newcomer is linked behind those it ties with, and those queued never
\* change places.
KeepsPlace == [][kind = "ring" => ring2!PlacesKept(queue["readable"], queue'["readable"])]_vars
=============================================================================
