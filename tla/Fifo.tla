-------------------------------- MODULE Fifo --------------------------------
(***************************************************************************)
(* What a channel promises (the contract of src/userlib/channel's          *)
(* channel.hpp): a bounded FIFO of values that refuses or drops on a full  *)
(* queue as the sender asks, and that, once closed, only drains.           *)
(***************************************************************************)
EXTENDS Naturals, Sequences

CONSTANTS Values, Capacity

VARIABLES items,    \* the queued values, the oldest first
          closed    \* stop() has been called

FifoInit == items = <<>> /\ closed = FALSE

\* A send with room.
Put(v) ==
  /\ ~closed /\ Len(items) < Capacity
  /\ items' = Append(items, v)
  /\ UNCHANGED closed

\* send_overwrite on a full channel loses the oldest value, and only that.
Replace(v) ==
  /\ ~closed /\ Len(items) = Capacity
  /\ items' = Append(Tail(items), v)
  /\ UNCHANGED closed

\* A receive takes the oldest.
Get == items # <<>> /\ items' = Tail(items) /\ UNCHANGED closed

\* Terminal: what is queued stays to be drained.
Close == ~closed /\ closed' = TRUE /\ UNCHANGED items

FifoNext == (\E v \in Values : Put(v) \/ Replace(v)) \/ Get \/ Close

FifoSpec == FifoInit /\ [][FifoNext]_<<items, closed>>
=============================================================================
