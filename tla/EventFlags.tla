----------------------------- MODULE EventFlags -----------------------------
(***************************************************************************)
(* sync::event_flags (src/userlib/sync/event_flags.cpp) and its timed      *)
(* waits, with wait_queue::wake_all_where (src/kernel/waitable.cpp).  The  *)
(* flags are the set of the bits that are set.  A load and the             *)
(* compare-exchange that follows it are two steps, and a walk of the queue *)
(* takes one step a waiter, since the flags change under it.               *)
(***************************************************************************)
EXTENDS WaitLoop, Integers

CONSTANTS Flags,      \* its wait_queue
          Bits,
          Requests,   \* the waits each thread makes: mask, match, exit
          BatchSize   \* how many waiters a walk takes before it readies them

FlagsAssumption ==
  /\ BatchSize \in Nat \ {0}
  /\ \A t \in Threads : \A r \in Requests[t] : r.mask \subseteq Bits /\ r.mask # {}

VARIABLES
  bits,     \* the flags that are set
  req,      \* the request of each thread's wait
  seen,     \* the flags its attempt has loaded and will exchange, or None
  cursor,   \* how many waiters an actor's walk has passed
  filled,   \* the actors whose walk filled its batch
  live      \* history: how often each bit was set and not yet cleared

flagState == <<bits, req, seen, cursor, filled, live>>
flags == <<loop, flagState>>

FlagsInit ==
  /\ LoopInit
  /\ bits = {}
  /\ req \in [Threads -> UNION {Requests[t] : t \in Threads}]
  /\ \A t \in Threads : req[t] = CHOOSE r \in Requests[t] : TRUE
  /\ seen = [t \in Threads |-> None]
  /\ cursor = [a \in Actors |-> 0]
  /\ filled = {}
  /\ live = [b \in Bits |-> 0]

satisfied_by(r, f) ==
  IF r.match = "any" THEN f \cap r.mask # {} ELSE r.mask \subseteq f

-----------------------------------------------------------------------------
(* set and clear *)

flags_set(a, m) ==
  /\ pc[a] = "user" /\ "set" \in Calls[a]
  /\ bits' = bits \cup m
  /\ live' = [b \in Bits |-> IF b \in m \ bits THEN live[b] + 1 ELSE live[b]]
  /\ Goto(a, "lock")
  /\ UNCHANGED <<queue, prepared, pending, on, timed, expired, satisfied, gone,
                 chosen, batch, req, seen, cursor, filled>>

flags_clear(a, m) ==
  /\ pc[a] = "user" /\ "clear" \in Calls[a] /\ m \cap bits # {}
  /\ bits' = bits \ m
  /\ live' = [b \in Bits |-> IF b \in m \cap bits THEN live[b] - 1 ELSE live[b]]
  /\ UNCHANGED <<loop, req, seen, cursor, filled>>

\* wake_all_where: the lock, and a walk from the head.
walk_start(a) ==
  /\ pc[a] = "lock" /\ ~Locked(Flags)
  /\ filled' = filled \ {a}
  /\ on' = [on EXCEPT ![a] = Flags]
  /\ Goto(a, "walk")
  /\ UNCHANGED <<queue, prepared, pending, timed, expired, satisfied, gone,
                 chosen, batch, bits, req, seen, cursor, live>>

\* The next waiter, taken or passed: the flags are read afresh for each.
walk_next(a) ==
  LET t == queue[Flags][cursor[a] + 1] IN
  /\ pc[a] = "walk" /\ cursor[a] < Len(queue[Flags]) /\ Len(batch[a]) < BatchSize
  /\ IF satisfied_by(req[t], bits)
     THEN /\ queue' = [queue EXCEPT ![Flags] = unlink(@, t)]
          /\ batch' = [batch EXCEPT ![a] = Append(@, t)]
          /\ UNCHANGED cursor
     ELSE /\ cursor' = [cursor EXCEPT ![a] = @ + 1]
          /\ UNCHANGED <<queue, batch>>
  /\ UNCHANGED <<prepared, pending, pc, on, timed, expired, satisfied, gone, chosen,
                 bits, req, seen, filled, live>>

\* Mutant: one walk is all there is.
WalksOnce(a) ==
  /\ pc[a] = "walk"
  /\ cursor[a] = Len(queue[Flags]) \/ Len(batch[a]) = BatchSize
  /\ Goto(a, IF batch[a] = <<>> THEN "user" ELSE "ready")
  /\ on' = [on EXCEPT ![a] = None]
  /\ cursor' = [cursor EXCEPT ![a] = 0]
  /\ UNCHANGED <<queue, prepared, pending, timed, expired, satisfied, gone, chosen,
                 batch, bits, req, seen, filled, live>>

\* The unlock; a walk that filled the batch walks again once it is readied.
walk_end(a) ==
  /\ pc[a] = "walk"
  /\ cursor[a] = Len(queue[Flags]) \/ Len(batch[a]) = BatchSize
  /\ filled' = IF Len(batch[a]) = BatchSize THEN filled \cup {a} ELSE filled
  /\ Goto(a, IF batch[a] = <<>> THEN "user" ELSE "ready")
  /\ on' = [on EXCEPT ![a] = None]
  /\ cursor' = [cursor EXCEPT ![a] = 0]
  /\ UNCHANGED <<queue, prepared, pending, timed, expired, satisfied, gone, chosen,
                 batch, bits, req, seen, live>>

walk_ready(a) ==
  Ready(a, IF a \in filled THEN "lock" ELSE "user") /\ UNCHANGED flagState

-----------------------------------------------------------------------------
(* wait and try_wait *)

flags_wait(t, r, call) ==
  /\ pc[t] = "user" /\ call \in Calls[t] \cap {"wait", "timed"}
  /\ req' = [req EXCEPT ![t] = r]
  /\ Wait(t, Flags, call = "timed")
  /\ UNCHANGED <<bits, seen, cursor, filled, live>>

try_wait(t, r) ==
  /\ pc[t] = "user" /\ "try" \in Calls[t]
  /\ req' = [req EXCEPT ![t] = r]
  /\ Goto(t, "try")
  /\ UNCHANGED <<queue, prepared, pending, on, timed, expired, satisfied, gone,
                 chosen, batch, bits, seen, cursor, filled, live>>

\* Mutant: the bits are cleared from the flags as they were loaded.
StoresBlindly(t) == seen[t] # None

\* compare_exchange succeeds: the flags are those the attempt loaded.
Exchanges(t) == seen[t] # None /\ bits = seen[t]

\* attempt, one load or one exchange at a time: it answers, or it goes round again.
attempt(t, answer) ==
  LET r == req[t] IN
  \/ /\ Exchanges(t)
     /\ bits' = seen[t] \ r.mask
     /\ live' = [b \in Bits |-> IF b \in seen[t] \cap r.mask THEN live[b] - 1 ELSE live[b]]
     /\ seen' = [seen EXCEPT ![t] = None]
     /\ answer = "yes"
  \/ /\ ~Exchanges(t)
     /\ answer = IF ~satisfied_by(r, bits) THEN "no"
                 ELSE IF r.exit = "consume" THEN "again" ELSE "yes"
     /\ seen' = [seen EXCEPT ![t] = IF answer = "again" THEN bits ELSE None]
     /\ UNCHANGED <<bits, live>>

\* The load that only goes round again.
attempt_again(t) == attempt(t, "again") /\ UNCHANGED loop

flags_poll(t) ==
  /\ pc[t] = "poll"
  /\ \/ attempt_again(t)
     \/ \E answer \in {"yes", "no"} : attempt(t, answer) /\ Polled(t, answer = "yes")
  /\ UNCHANGED <<req, cursor, filled>>

flags_repoll(t) ==
  /\ pc[t] = "after" /\ t \notin satisfied
  /\ \/ attempt_again(t)
     \/ \E answer \in {"yes", "no"} : attempt(t, answer) /\ Repolled(t, answer = "yes")
  /\ UNCHANGED <<req, cursor, filled>>

flags_try(t) ==
  /\ pc[t] = "try"
  /\ \/ attempt_again(t)
     \/ (\E answer \in {"yes", "no"} : attempt(t, answer)) /\ Returned(t, "user")
  /\ UNCHANGED <<req, cursor, filled>>

flags_return(t) == pc[t] = "done" /\ Returned(t, "user") /\ UNCHANGED flagState

SetStep(a) == walk_start(a) \/ walk_next(a) \/ walk_end(a) \/ walk_ready(a)
FlagsWaitStep(t) ==
  \/ flags_poll(t) \/ flags_repoll(t) \/ flags_try(t) \/ flags_return(t)
  \/ (arm(t) \/ commit_to_block(t) \/ drain_intake(t) \/ disarm(t) \/ conclude(t)
      \/ recheck(t)) /\ UNCHANGED flagState

FlagsNext ==
  \/ \E a \in Actors : SetStep(a) \/ \E m \in SUBSET Bits \ {{}} :
                         flags_set(a, m) \/ flags_clear(a, m)
  \/ \E t \in Threads :
       \/ FlagsWaitStep(t)
       \/ \E r \in Requests[t] : try_wait(t, r) \/ \E call \in Calls[t] : flags_wait(t, r, call)
       \/ expire(t) /\ UNCHANGED flagState

-----------------------------------------------------------------------------
(* Properties *)

\* The walk of actor a will yet come to waiter t.
WillWalk(a, t) ==
  \/ pc[a] = "lock" \/ (pc[a] = "ready" /\ a \in filled)
  \/ pc[a] = "walk" /\ \E i \in cursor[a] + 1 .. Len(queue[Flags]) : queue[Flags][i] = t

\* No set is lost on a waiter, whatever the other sets, clears and consumers
\* do meanwhile and however many waiters one set satisfies: while the flags
\* satisfy a thread whose poll failed, some set's walk has yet to come to it.
MatchIsSeen ==
  \A t \in Threads :
    Waits(t, Flags) /\ satisfied_by(req[t], bits) => \E a \in Actors : WillWalk(a, t)

\* "Two consumers cannot both take one set": every bit that was set and has not
\* been cleared or consumed since is set, and no other, so what a consuming wait
\* returns is exactly what it cleared.
TakenOnce == \A b \in Bits : live[b] = IF b \in bits THEN 1 ELSE 0

\* Parked although the flags satisfy it.
WaitsOnMatch(t) == pc[t] = "parked" /\ on[t] = Flags /\ satisfied_by(req[t], bits)
=============================================================================
