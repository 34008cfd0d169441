------------------------------ MODULE WaitLoop ------------------------------
(***************************************************************************)
(* wait_engine::run as the objects of userlib use it                       *)
(* (src/kernel/waitable.cpp, src/userlib/chrono): the loop around an       *)
(* object's own poll, with its waiter_record and the alarm of a timed      *)
(* wait, and what a wake does.  HandoffSemaphore, EventFlags,              *)
(* ConditionVariable and Channel extend it, each with its calls, its poll  *)
(* and what follows the wait.                                              *)
(*                                                                         *)
(* Every thread has a core to itself, so a wake reaches it through that    *)
(* core's intake: WaitEngine is the model of threads that share one, and   *)
(* takes the arms, the disarms and the two polls apart where this one      *)
(* joins those that commute.                                               *)
(***************************************************************************)
EXTENDS WaitQueue, FiniteSets

CONSTANTS Wakers,      \* threads and interrupts that only wake
          Waitables,   \* the wait_queues of the objects
          Recorded,    \* those whose waits install a waiter_record
          Calls,       \* the calls each actor makes
          None

Actors == Threads \cup Wakers

LoopAssumption ==
  /\ Threads \cap Wakers = {}
  /\ Recorded \subseteq Waitables
  /\ None \notin Waitables

VARIABLES
  queue,      \* the wait_queue of each waitable
  prepared,   \* the threads whose disposition is prepared
  pending,    \* the threads on their core's intake
  pc,         \* where each actor is
  on,         \* the waitable its wait or its wake is on
  timed,      \* the threads whose wait has an armed alarm
  expired,    \* those whose alarm has been raised
  satisfied,  \* the threads whose poll succeeded
  gone,       \* those whose disarm found the node gone
  chosen,     \* those whose waiter_record says chosen_by_wake
  batch       \* the threads a wake took off the queue and has yet to ready

loop == <<queue, prepared, pending, pc, on, timed, expired, satisfied, gone,
          chosen, batch>>

LoopInit ==
  /\ queue = [w \in Waitables |-> <<>>]
  /\ prepared = {} /\ pending = {}
  /\ pc = [a \in Actors |-> "user"]
  /\ on = [a \in Actors |-> None]
  /\ timed = {} /\ expired = {} /\ satisfied = {} /\ gone = {} /\ chosen = {}
  /\ batch = [a \in Actors |-> <<>>]

Goto(a, p) == pc' = [pc EXCEPT ![a] = p]

\* A walk that holds the lock of w over several steps (wake_all_where).
Locked(w) == \E a \in Actors : pc[a] = "walk" /\ on[a] = w

-----------------------------------------------------------------------------
(* The wait *)

\* this_thread::wait_on(w), with a deadline's alarm if isTimed.
Wait(t, w, isTimed) ==
  /\ Goto(t, "arm")
  /\ on' = [on EXCEPT ![t] = w]
  /\ timed' = IF isTimed THEN timed \cup {t} ELSE timed
  /\ UNCHANGED <<queue, prepared, pending, expired, satisfied, gone, chosen, batch>>

arm(t) ==
  /\ pc[t] = "arm" /\ ~Locked(on[t])
  /\ prepared' = prepared \cup {t}
  /\ queue' = [queue EXCEPT ![on[t]] = link(@, t)]
  /\ Goto(t, "poll")
  /\ UNCHANGED <<pending, on, timed, expired, satisfied, gone, chosen, batch>>

\* The armed poll, which the object has answered ok.
Polled(t, ok) ==
  /\ IF ok THEN /\ Goto(t, "disarm")
                /\ satisfied' = satisfied \cup {t}
                /\ prepared' = prepared \ {t}
     ELSE Goto(t, "commit") /\ UNCHANGED <<satisfied, prepared>>
  /\ UNCHANGED <<queue, pending, on, timed, expired, gone, chosen, batch>>

\* The poll of the cancel, then commit_to_block: the park's switch takes in the
\* intake first, and a wake found there, or one that came before, revokes it.
commit_to_block(t) ==
  /\ pc[t] = "commit"
  /\ \/ /\ t \in expired
        /\ prepared' = prepared \ {t}
        /\ Goto(t, "disarm")
        /\ UNCHANGED pending
     \/ /\ t \notin expired /\ t \in prepared \ pending
        /\ Goto(t, "parked")
        /\ UNCHANGED <<prepared, pending>>
     \/ /\ t \notin expired /\ t \notin prepared \ pending
        /\ prepared' = prepared \ {t}
        /\ pending' = IF t \in prepared THEN pending \ {t} ELSE pending
        /\ Goto(t, "disarm")
  /\ UNCHANGED <<queue, on, timed, expired, satisfied, gone, chosen, batch>>

\* The core takes in its intake.
drain_intake(t) ==
  /\ t \in pending
  /\ pending' = pending \ {t}
  /\ prepared' = prepared \ {t}
  /\ pc' = IF pc[t] = "parked" THEN [pc EXCEPT ![t] = "disarm"] ELSE pc
  /\ UNCHANGED <<queue, on, timed, expired, satisfied, gone, chosen, batch>>

disarm(t) ==
  /\ pc[t] = "disarm" /\ ~Locked(on[t])
  /\ LET found == Armed(queue[on[t]], t) IN
     /\ gone' = IF found THEN gone ELSE gone \cup {t}
     /\ chosen' = IF found \/ on[t] \notin Recorded THEN chosen ELSE chosen \cup {t}
  /\ queue' = [queue EXCEPT ![on[t]] = unlink(@, t)]
  /\ Goto(t, "after")
  /\ UNCHANGED <<prepared, pending, on, timed, expired, satisfied, batch>>

\* Satisfied while armed.  Rule 2: a wake that took the node is passed on,
\* unless a record owns it.
conclude(t) ==
  /\ pc[t] = "after" /\ t \in satisfied
  /\ Goto(t, IF t \in gone /\ on[t] \notin Recorded THEN "pass" ELSE "done")
  /\ UNCHANGED <<queue, prepared, pending, on, timed, expired, satisfied, gone, chosen, batch>>

\* Rule 1: the unarmed poll, which the object has answered ok.
Repolled(t, ok) ==
  /\ Goto(t, IF ok THEN "done" ELSE "recheck")
  /\ satisfied' = IF ok THEN satisfied \cup {t} ELSE satisfied
  /\ UNCHANGED <<queue, prepared, pending, on, timed, expired, gone, chosen, batch>>

recheck(t) ==
  /\ pc[t] = "recheck"
  /\ Goto(t, IF t \in expired THEN "done" ELSE "arm")
  /\ gone' = gone \ {t}
  /\ UNCHANGED <<queue, prepared, pending, on, timed, expired, satisfied, chosen, batch>>

\* The wait has returned, its record and its alarm go, and the caller is at p.
Returned(t, p) ==
  /\ Goto(t, p)
  /\ on' = [on EXCEPT ![t] = None]
  /\ timed' = timed \ {t} /\ expired' = expired \ {t}
  /\ satisfied' = satisfied \ {t} /\ gone' = gone \ {t} /\ chosen' = chosen \ {t}
  /\ UNCHANGED <<queue, prepared, pending, batch>>

\* The deadline: alarm::on_timer, in the timer interrupt of the core that armed
\* it, raises the signal and readies a waiter armed on it.
expire(t) ==
  /\ t \in timed \ expired
  /\ expired' = expired \cup {t}
  /\ prepared' = IF pc[t] = "arm" THEN prepared ELSE prepared \ {t}
  /\ pc' = IF pc[t] = "parked" THEN [pc EXCEPT ![t] = "disarm"] ELSE pc
  /\ UNCHANGED <<queue, pending, on, timed, satisfied, gone, chosen, batch>>

-----------------------------------------------------------------------------
(* The wakes *)

\* may_have_waiters(w): on to p if there may be some.
Peek(a, w, p) ==
  /\ Goto(a, IF queue[w] = <<>> THEN "user" ELSE p)
  /\ UNCHANGED <<queue, prepared, pending, on, timed, expired, satisfied, gone, chosen, batch>>

\* The lock, and the head of w taken off; with nobody there, on to p.
Pop(a, w, p) ==
  /\ ~Locked(w)
  /\ IF queue[w] = <<>> THEN Goto(a, p) /\ UNCHANGED <<queue, batch>>
     ELSE /\ batch' = [batch EXCEPT ![a] = <<Head(queue[w])>>]
          /\ queue' = [queue EXCEPT ![w] = Tail(@)]
          /\ Goto(a, "ready")
  /\ UNCHANGED <<prepared, pending, on, timed, expired, satisfied, gone, chosen>>

\* global_ready_thread of the next thread taken, outside the lock; after the
\* last, on to p, or back to a wait that passed a wake on.
Ready(a, p) ==
  /\ pc[a] = "ready"
  /\ pending' = pending \cup {Head(batch[a])}
  /\ batch' = [batch EXCEPT ![a] = Tail(@)]
  /\ IF Len(batch[a]) > 1 THEN UNCHANGED pc
     ELSE Goto(a, IF a \in satisfied THEN "done" ELSE p)
  /\ UNCHANGED <<queue, prepared, on, timed, expired, satisfied, gone, chosen>>

\* The wake passed on by rule 2.
pass_on(t) == pc[t] = "pass" /\ Pop(t, on[t], "done")

\* thread::resume of a thread in a wait of its own costs it an extra poll.
resume(t) ==
  /\ pc[t] \in {"arm", "poll", "commit", "parked", "disarm"}
  /\ pending' = pending \cup {t}
  /\ UNCHANGED <<queue, prepared, pc, on, timed, expired, satisfied, gone, chosen, batch>>

\* A step of the loop that touches nothing of the object.
LoopStep(t) ==
  \/ arm(t) \/ commit_to_block(t) \/ drain_intake(t) \/ disarm(t)
  \/ conclude(t) \/ recheck(t) \/ pass_on(t)

-----------------------------------------------------------------------------
(* Terms the properties share *)

\* Thread t is armed on w and its poll has failed: a change that satisfies it
\* now must wake it.
Waits(t, w) ==
  /\ on[t] = w /\ Armed(queue[w], t)
  /\ pc[t] \in {"commit", "parked", "disarm"} /\ t \notin satisfied

\* A wake has taken t off w, and t has yet to poll again or to pass it on.
Woken(t, w) ==
  \/ on[t] = w /\ pc[t] \in {"poll", "commit", "parked", "disarm"} /\ ~Armed(queue[w], t)
  \/ on[t] = w /\ pc[t] = "after" /\ t \in gone
  \/ on[t] = w /\ pc[t] = "pass"
=============================================================================
