------------------------------- MODULE Channel -------------------------------
(***************************************************************************)
(* ch::channel (src/userlib/channel/public_headers/channel.hpp): the ring, *)
(* its four sends, its two receives, stop, and the gates receivers and     *)
(* senders wait on.  A hold of the channel's lock is one step.             *)
(***************************************************************************)
EXTENDS WaitLoop, Integers

CONSTANTS Readable, Writable,   \* the wait_queues of the two gates
          Capacity, Values

ChannelAssumption == Capacity \in Nat \ {0} /\ Values # {}

VARIABLES
  ring, head, tail, occupancy,   \* the slots and their indices
  stopped,
  value,      \* the value a blocking send carries
  stopping    \* the gates an actor's stop has yet to empty, the first first

slots == <<ring, head, tail, occupancy, stopped>>
chState == <<slots, value, stopping>>
ch == <<loop, chState>>

ChannelInit ==
  /\ LoopInit
  /\ ring = [i \in 0..(Capacity - 1) |-> None]
  /\ head = 0 /\ tail = 0 /\ occupancy = 0
  /\ stopped = FALSE
  /\ value = [t \in Threads |-> None]
  /\ stopping = [a \in Actors |-> <<>>]

\* Mutant: the index runs one slot too far.
AdvancesOnePast(i) == IF i = Capacity THEN 0 ELSE i + 1

advance(i) == IF i + 1 = Capacity THEN 0 ELSE i + 1

place_locked(v) ==
  /\ ring' = [ring EXCEPT ![tail] = v]
  /\ tail' = advance(tail)
  /\ occupancy' = occupancy + 1
  /\ UNCHANGED <<head, stopped>>

\* The value is moved out, and the slot holds nothing more.
take_locked ==
  /\ ring' = [ring EXCEPT ![head] = None]
  /\ head' = advance(head)
  /\ occupancy' = occupancy - 1
  /\ UNCHANGED <<tail, stopped>>

\* The call goes on at p, with nothing of the wait engine touched.
At(a, p) ==
  /\ Goto(a, p)
  /\ UNCHANGED <<queue, prepared, pending, on, timed, expired, satisfied, gone,
                 chosen, batch>>

-----------------------------------------------------------------------------
(* The sends *)

\* Mutant: only a value placed in an empty ring wakes.
WakesFromEmpty(a, v) ==
  /\ pc[a] = "user" /\ "send" \in Calls[a]
  /\ ~stopped /\ occupancy < Capacity
  /\ place_locked(v)
  /\ At(a, IF occupancy = 0 THEN "wake_readable" ELSE "user")
  /\ UNCHANGED <<value, stopping>>

\* send and try_send: a value placed owes the receivers a wake; send's caller
\* must not find the channel full.
try_place(a, v) ==
  /\ pc[a] = "user" /\ "send" \in Calls[a]
  /\ ~stopped /\ occupancy < Capacity
  /\ place_locked(v)
  /\ At(a, "wake_readable")
  /\ UNCHANGED <<value, stopping>>

\* Mutant: the oldest value is dropped and still counted.
OverwriteGrows(a, v) ==
  /\ pc[a] = "user" /\ "overwrite" \in Calls[a] /\ ~stopped
  /\ head' = IF occupancy = Capacity THEN advance(head) ELSE head
  /\ ring' = [ring EXCEPT ![tail] = v]
  /\ tail' = advance(tail)
  /\ occupancy' = occupancy + 1
  /\ At(a, "wake_readable")
  /\ UNCHANGED <<stopped, value, stopping>>

send_overwrite(a, v) ==
  /\ pc[a] = "user" /\ "overwrite" \in Calls[a] /\ ~stopped
  /\ \/ /\ occupancy < Capacity
        /\ place_locked(v)
        /\ At(a, "wake_readable")
     \/ /\ occupancy = Capacity
        /\ head' = advance(head)
        /\ ring' = [ring EXCEPT ![tail] = v]
        /\ tail' = advance(tail)
        /\ UNCHANGED <<loop, occupancy, stopped>>
  /\ UNCHANGED <<value, stopping>>

send_blocking(t, v) ==
  /\ pc[t] = "user" /\ "blocking" \in Calls[t]
  /\ value' = [value EXCEPT ![t] = v]
  /\ At(t, "send")
  /\ UNCHANGED <<slots, stopping>>

\* The loop of send_blocking: refused, placed, or wait for room.
send_locked(t) ==
  /\ pc[t] = "send"
  /\ \/ stopped /\ At(t, "user") /\ UNCHANGED slots
     \/ /\ ~stopped /\ occupancy < Capacity
        /\ place_locked(value[t])
        /\ At(t, "wake_readable")
     \/ /\ ~stopped /\ occupancy = Capacity
        /\ Wait(t, Writable, FALSE)
        /\ UNCHANGED slots
  /\ value' = [value EXCEPT ![t] = IF pc'[t] = "arm" THEN @ ELSE None]
  /\ UNCHANGED stopping

-----------------------------------------------------------------------------
(* The receives, and stop *)

try_receive(a) ==
  /\ pc[a] = "user" /\ "try_receive" \in Calls[a] /\ occupancy > 0
  /\ take_locked
  /\ At(a, "wake_writable")
  /\ UNCHANGED <<value, stopping>>

receive(t) ==
  /\ pc[t] = "user" /\ "receive" \in Calls[t]
  /\ At(t, "receive")
  /\ UNCHANGED chState

\* The loop of receive: a value, the end, or wait for one.
receive_locked(t) ==
  /\ pc[t] = "receive"
  /\ \/ /\ occupancy > 0
        /\ take_locked
        /\ At(t, "wake_writable")
     \/ occupancy = 0 /\ stopped /\ At(t, "user") /\ UNCHANGED slots
     \/ /\ occupancy = 0 /\ ~stopped
        /\ Wait(t, Readable, FALSE)
        /\ UNCHANGED slots
  /\ UNCHANGED <<value, stopping>>

\* Mutant: a stop releases the receivers only.
StopsReceivers(a) ==
  /\ pc[a] = "user" /\ "stop" \in Calls[a] /\ ~stopped
  /\ stopped' = TRUE
  /\ stopping' = [stopping EXCEPT ![a] = <<Readable>>]
  /\ At(a, "sweep")
  /\ UNCHANGED <<ring, head, tail, occupancy, value>>

stop(a) ==
  /\ pc[a] = "user" /\ "stop" \in Calls[a] /\ ~stopped
  /\ stopped' = TRUE
  /\ stopping' = [stopping EXCEPT ![a] = <<Readable, Writable>>]
  /\ At(a, "sweep")
  /\ UNCHANGED <<ring, head, tail, occupancy, value>>

\* wake_all of one gate, then of the next.
stop_wake_all(a) ==
  /\ pc[a] = "sweep"
  /\ \/ stopping[a] = <<>> /\ At(a, "user") /\ UNCHANGED stopping
     \/ /\ stopping[a] # <<>>
        /\ Pop(a, Head(stopping[a]), "sweep")
        /\ stopping' = IF queue[Head(stopping[a])] = <<>>
                       THEN [stopping EXCEPT ![a] = Tail(@)] ELSE stopping
  /\ UNCHANGED <<slots, value>>

-----------------------------------------------------------------------------
(* The gates *)

Gate(p) == IF p = "wake_readable" THEN Readable ELSE Writable

\* wake_one_if_waiting: the look without the lock, then wake_one.
wake_one_if_waiting(a) ==
  /\ pc[a] \in {"wake_readable", "wake_writable"}
  /\ Peek(a, Gate(pc[a]), IF pc[a] = "wake_readable" THEN "pop_readable" ELSE "pop_writable")
  /\ UNCHANGED chState

gate_wake_one(a) ==
  /\ pc[a] \in {"pop_readable", "pop_writable"}
  /\ Pop(a, IF pc[a] = "pop_readable" THEN Readable ELSE Writable, "user")
  /\ UNCHANGED chState

gate_ready(a) ==
  Ready(a, IF stopping[a] # <<>> THEN "sweep" ELSE "user") /\ UNCHANGED chState

\* Mutant: a gate opens on its condition only, whether or not it is stopped.
PollsRoomOnly(w) == IF w = Readable THEN occupancy > 0 ELSE occupancy < Capacity

\* try_satisfy of a gate only looks.
Open(w) == IF w = Readable THEN occupancy > 0 \/ stopped
           ELSE occupancy < Capacity \/ stopped

gate_poll(t) == pc[t] = "poll" /\ Polled(t, Open(on[t])) /\ UNCHANGED chState

gate_repoll(t) ==
  /\ pc[t] = "after" /\ t \notin satisfied
  /\ Repolled(t, Open(on[t]))
  /\ UNCHANGED chState

\* The wait returns to the loop that called it.
gate_return(t) ==
  /\ pc[t] = "done"
  /\ Returned(t, IF on[t] = Readable THEN "receive" ELSE "send")
  /\ UNCHANGED chState

ChannelStep(a) ==
  \/ wake_one_if_waiting(a) \/ gate_wake_one(a) \/ gate_ready(a) \/ stop_wake_all(a)
ChannelWaitStep(t) ==
  \/ send_locked(t) \/ receive_locked(t)
  \/ gate_poll(t) \/ gate_repoll(t) \/ gate_return(t)
  \/ LoopStep(t) /\ UNCHANGED chState

ChannelNext ==
  \/ \E a \in Actors : \/ ChannelStep(a) \/ try_receive(a) \/ stop(a)
                       \/ \E v \in Values : try_place(a, v) \/ send_overwrite(a, v)
  \/ \E t \in Threads : \/ ChannelWaitStep(t) \/ receive(t)
                        \/ \E v \in Values : send_blocking(t, v)

-----------------------------------------------------------------------------
(* Properties *)

\* The values the ring holds, the oldest first.
Queued == [i \in 1..occupancy |-> ring[(head + i - 1) % Capacity]]

\* Those who will yet look for a waiter of gate w: a change on its way to its
\* wake, and a thread a wake has taken that has yet to poll, take or pass it on.
WillWake(a, w) ==
  \/ pc[a] = (IF w = Readable THEN "wake_readable" ELSE "wake_writable")
  \/ pc[a] = (IF w = Readable THEN "pop_readable" ELSE "pop_writable")
  \/ Woken(a, w) \/ (on[a] = w /\ pc[a] \in {"done", "recheck"})
  \/ pc[a] = (IF w = Readable THEN "receive" ELSE "send")

\* No lost wakeup, at either gate: while a receiver waits, every queued value
\* has a wake or a taker on its way, and while a sender waits, every free slot.
ValuesAreWoken ==
  \A t \in Threads :
    /\ Waits(t, Readable) => occupancy <= Cardinality({a \in Actors : WillWake(a, Readable)})
    /\ Waits(t, Writable) =>
         Capacity - occupancy <= Cardinality({a \in Actors : WillWake(a, Writable)})

\* stop releases every blocked receiver and sender, one that arrives while it
\* sweeps included: a thread that waits on a stopped channel has yet to be swept.
StopReleases ==
  stopped => \A t \in Threads, w \in {Readable, Writable} :
    Waits(t, w) => \E a \in Actors : \E i \in DOMAIN stopping[a] : stopping[a][i] = w

\* In a call that blocks, of a channel that is stopped.
BlockedOnStopped(t) == stopped /\ pc[t] \in {"parked", "send", "receive"}
=============================================================================
