-------------------------- MODULE ConditionVariable --------------------------
(***************************************************************************)
(* sync::condition_variable (src/userlib/sync/condition_variable.cpp) and  *)
(* its timed waits.  The mutex is what BaseMutex's promises leave of one:  *)
(* an owner, and a lock that waits for it to be free.                      *)
(***************************************************************************)
EXTENDS WaitLoop

CONSTANT Cv   \* its wait_queue

VARIABLES
  owner,      \* the owner of the mutex, or None
  released,   \* the threads whose record says released
  sweeping,   \* the actors inside a notify_all
  taken,      \* history: the threads a notify has taken in their present wait
  missed      \* history: the threads waiting when a notify_one found nobody

cvState == <<owner, released, sweeping, taken, missed>>
cv == <<loop, cvState>>

CvInit ==
  /\ LoopInit
  /\ owner = None /\ released = {} /\ sweeping = {} /\ taken = {} /\ missed = {}

\* base_mutex::lock, from user code or at the end of a wait, and unlock.
mutex_lock(t) ==
  /\ pc[t] \in {"user", "relock"} /\ owner = None /\ "lock" \in Calls[t]
  /\ owner' = t
  /\ Goto(t, "user")
  /\ UNCHANGED <<queue, prepared, pending, on, timed, expired, satisfied, gone,
                 chosen, batch, released, sweeping, taken, missed>>

mutex_unlock(t) ==
  /\ pc[t] = "user" /\ owner = t
  /\ owner' = None
  /\ UNCHANGED <<loop, released, sweeping, taken, missed>>

\* Mutant: the mutex is released before the wait.
ReleasesFirst(t, call) ==
  /\ pc[t] = "user" /\ owner = t /\ call \in Calls[t] \cap {"wait", "timed"}
  /\ Wait(t, Cv, call = "timed")
  /\ owner' = None /\ released' = released \cup {t}
  /\ UNCHANGED <<sweeping, taken, missed>>

\* wait and wait_until; a deadline already past is an unlock and a lock.
cv_wait(t, call) ==
  /\ pc[t] = "user" /\ owner = t /\ call \in Calls[t] \cap {"wait", "timed"}
  /\ Wait(t, Cv, call = "timed")
  /\ UNCHANGED cvState

\* The first poll, armed, releases the mutex; every poll reports chosen().
cv_poll(t) ==
  /\ pc[t] = "poll"
  /\ owner' = IF t \in released THEN owner ELSE None
  /\ released' = released \cup {t}
  /\ Polled(t, t \in chosen)
  /\ UNCHANGED <<sweeping, taken, missed>>

\* Mutant: a deadline that has passed ends the wait unpolled.
DeadlineFirst(t) ==
  /\ pc[t] = "after" /\ t \notin satisfied
  /\ Repolled(t, t \in chosen \ expired)
  /\ UNCHANGED cvState

cv_repoll(t) ==
  /\ pc[t] = "after" /\ t \notin satisfied
  /\ Repolled(t, t \in chosen)
  /\ UNCHANGED cvState

\* The record and the alarm are gone; the mutex is locked again.
cv_return(t) ==
  /\ pc[t] = "done"
  /\ released' = released \ {t} /\ taken' = taken \ {t} /\ missed' = missed \ {t}
  /\ Returned(t, "relock")
  /\ UNCHANGED <<owner, sweeping>>

\* The waiter a notify takes, if any.
Takes == taken' = IF queue[Cv] = <<>> THEN taken ELSE taken \cup {Head(queue[Cv])}

\* Thread t waits: it has released the mutex, no notify has taken it and its
\* deadline has not passed.
WaitsForNotify(t) == t \in released \ (taken \cup expired)

notify_one(a) ==
  /\ pc[a] = "user" /\ "notify_one" \in Calls[a]
  /\ Pop(a, Cv, "user")
  /\ Takes
  /\ missed' = IF queue[Cv] = <<>> THEN {t \in Threads : WaitsForNotify(t)} ELSE missed
  /\ UNCHANGED <<owner, released, sweeping>>

notify_all(a) ==
  /\ pc[a] = "user" /\ "notify_all" \in Calls[a]
  /\ sweeping' = sweeping \cup {a}
  /\ Goto(a, "sweep")
  /\ UNCHANGED <<queue, prepared, pending, on, timed, expired, satisfied, gone,
                 chosen, batch, owner, released, taken, missed>>

\* wake_all pops until the queue is empty.
wake_all(a) ==
  /\ pc[a] = "sweep"
  /\ Pop(a, Cv, "user")
  /\ Takes
  /\ sweeping' = IF queue[Cv] = <<>> THEN sweeping \ {a} ELSE sweeping
  /\ UNCHANGED <<owner, released, missed>>

notify_ready(a) ==
  Ready(a, IF a \in sweeping THEN "sweep" ELSE "user") /\ UNCHANGED cvState

CvNext ==
  \/ \E a \in Actors : notify_one(a) \/ notify_all(a) \/ wake_all(a) \/ notify_ready(a)
  \/ \E t \in Threads :
       \/ mutex_lock(t) \/ mutex_unlock(t) \/ cv_poll(t) \/ cv_repoll(t) \/ cv_return(t)
       \/ \E call \in Calls[t] : cv_wait(t, call)
       \/ (arm(t) \/ commit_to_block(t) \/ drain_intake(t) \/ disarm(t) \/ conclude(t)
           \/ recheck(t) \/ expire(t)
           \/ ("resumed" \in Calls[t] /\ resume(t))) /\ UNCHANGED cvState

-----------------------------------------------------------------------------
(* Properties *)

\* "The threads woken are exactly the threads notified, and no wake can go
\* unmarked": a wait that ends reports a notify if one took this waiter, a
\* deadline passing at the same time included, and only then.
WokenAreNotified ==
  \A t \in Threads : pc[t] = "done" /\ on[t] = Cv => (t \in satisfied <=> t \in taken)

\* wait releases the mutex and blocks as one step with respect to notify: no
\* step leaves a thread that has released it off the queue, unless a notify has
\* taken it or it had released it before and is between two passes of its loop.
StaysArmed ==
  \A t \in released' :
    \/ Armed(queue'[Cv], t) \/ t \in taken'
    \/ t \in released /\ pc'[t] \in {"after", "recheck", "arm", "done"}

\* condition_variable's promise: "a notify issued after the release is
\* guaranteed to find the waiter".  A notify_one that finds nobody on the queue
\* finds nobody waiting.
NotifyFindsWaiter == missed = {}
=============================================================================
