----------------------------- MODULE WaitEngine -----------------------------
(***************************************************************************)
(* The two-phase block and everything that may wake it                     *)
(* (src/kernel/waitable.cpp, with the roads of scheduler.hpp/.cpp,         *)
(* global_ready_thread, thread_exit, suspend and resume): threads pinned   *)
(* to cores, interrupts, a barging semaphore, cancel signals, and the      *)
(* termination signal of every thread, which joiners wait on.              *)
(*                                                                         *)
(* A step is what runs in one critical section (a hold of a queue's lock,  *)
(* of a core's interrupt mask) or one atomic access; raise_all's hold of   *)
(* its lock spans several steps, since the flag it raises is read without  *)
(* the lock.  The pick is any most urgent ready thread: the order inside a *)
(* level, and urgency above base priority, are the subject of Scheduler    *)
(* and BaseMutex.                                                          *)
(***************************************************************************)
EXTENDS WaitQueue, FiniteSets

CONSTANTS Isrs,          \* interrupt handlers that use the kernel
          Cores,
          core,          \* pinned_core of a thread, the core an ISR runs on
          Sem,           \* a sync::semaphore
          Signals,       \* cancel signals that are no thread's termination
          Roles,         \* the calls each thread and ISR makes
          MaxCount,      \* bound on the semaphore's counter
          IdlePriority,  \* base priority of the idle threads
          Idle,          \* the idle thread of whatever core
          None

Actors     == Threads \cup Isrs
\* The termination signal of thread t is written t.
AllSignals == Signals \cup Threads
Waitables  == {Sem} \cup AllSignals

ASSUME ConstantsAssumption ==
  /\ IsFiniteSet(Actors)
  /\ Threads \cap Isrs = {}
  /\ Threads \cap Signals = {}
  /\ Isrs \cap ({Sem} \cup Signals) = {}
  /\ Sem \notin AllSignals
  /\ Idle \notin Threads
  /\ None \notin Waitables
  /\ core \in [Actors -> Cores]
  /\ MaxCount \in Nat
  /\ IdlePriority \in Nat

VARIABLES
  current,      \* each core's current_thread
  state,        \* thread_state of each thread
  disposition,  \* thread_disposition of each thread
  pending,      \* the threads on their core's intake (pending_requests # 0)
  doorbell,     \* the cores a reschedule is pended on, by themselves or an IPI
  queue,        \* the wait_queue of each waitable
  counter,      \* the semaphore's tokens
  raised,       \* raised_flag of each signal
  token,        \* the threads whose resume_token is set
  pc,           \* where each thread and ISR is
  on,           \* the waitable its wait, wake or raise is on
  cancel,       \* the cancel signal of its wait, or None
  satisfied,    \* wait_engine::run's local: the armed poll succeeded
  gone,         \* its local `chosen': the disarm found the node gone
  chosen,       \* the thread a wake took and has yet to ready
  hint          \* raise_all's aggregate_hint is warranted

sched  == <<current, state, disposition, pending, doorbell>>
objs   == <<queue, counter, raised, token>>
locals == <<on, cancel, satisfied, gone, chosen, hint>>
vars   == <<sched, objs, pc, locals>>

-----------------------------------------------------------------------------
(* Who may step *)

OnCore(c) == {t \in Threads : core[t] = c}

Interrupted(c) == \E i \in Isrs : core[i] = c /\ pc[i] # "idle"

\* The thread running on c is in one of the places ps.
RunningAt(c, ps) == current[c] \in Threads /\ pc[current[c]] \in ps

Masked(c)    == RunningAt(c, {"raising"})
Preemptible(c) == ~Interrupted(c) /\ ~RunningAt(c, {"raising", "enable"})

At(a, p) ==
  /\ pc[a] = p
  /\ a \in Threads => current[core[a]] = a /\ ~Interrupted(core[a])

\* A thread between two calls, or an interrupt taken now, makes a call.
Calls(a, op, x) ==
  /\ <<op, x>> \in Roles[a]
  /\ IF a \in Threads THEN At(a, "user")
     ELSE pc[a] = "idle" /\ ~Interrupted(core[a]) /\ ~Masked(core[a])

\* raise_all holds the lock of signal s.
Locked(s) == \E a \in Actors : pc[a] = "raising" /\ on[a] = s

Goto(a, p) == pc' = [pc EXCEPT ![a] = p]

\* The call returns and its frame is gone.
Return(a) ==
  /\ Goto(a, IF a \in Threads THEN "user" ELSE "idle")
  /\ on'        = [on EXCEPT ![a] = None]
  /\ cancel'    = [cancel EXCEPT ![a] = None]
  /\ satisfied' = [satisfied EXCEPT ![a] = FALSE]
  /\ gone'      = [gone EXCEPT ![a] = FALSE]
  /\ chosen'    = [chosen EXCEPT ![a] = None]
  /\ hint'      = [hint EXCEPT ![a] = FALSE]

-----------------------------------------------------------------------------
(* The scheduler *)

\* The pick: a most urgent ready thread of the core, or the idle thread.
\* st is the thread states the departure has left.
run_next(c, st) ==
  LET ready == {t \in OnCore(c) : st[t] = "ready"} IN
  \/ /\ ready = {}
     /\ current' = [current EXCEPT ![c] = Idle]
     /\ state' = st
  \/ \E t \in ready :
       /\ \A u \in ready : prio[t] <= prio[u]
       /\ current' = [current EXCEPT ![c] = t]
       /\ state' = [st EXCEPT ![t] = "running"]

\* What taking in core c's intake leaves of the states and dispositions.
DrainedState(c, st, ds) ==
  [t \in Threads |-> IF /\ t \in pending /\ core[t] = c
                        /\ st[t] # "terminated" /\ ds[t] # "terminating"
                     THEN "ready" ELSE st[t]]
\* Mutant: a wake taken in by a drain leaves the intent to park in force.
DrainLeavesPrepared(c, ds) == ds

DrainedDisposition(c, ds) ==
  [t \in Threads |-> IF t \in pending /\ core[t] = c /\ ds[t] # "terminating"
                     THEN "none" ELSE ds[t]]

\* drain_intake, the departure of the running thread unless the drain readied
\* it, and the pick.
decide(c, reason, st, ds) ==
  LET st1 == DrainedState(c, st, ds)
      ds1 == DrainedDisposition(c, ds)
      departs(t) == t = current[c] /\ st1[t] = "running"
      parks(t) == departs(t) /\ reason = "parked"
  IN /\ pending' = pending \ OnCore(c)
     /\ disposition' = [t \in Threads |-> IF parks(t) THEN "none" ELSE ds1[t]]
     /\ run_next(c, [t \in Threads |-> IF parks(t) THEN "blocked"
                                       ELSE IF departs(t) THEN "ready"
                                       ELSE st1[t]])

CurrentUrgency(c) ==
  IF current[c] \in Threads THEN prio[current[c]] ELSE IdlePriority

Warranted(u) ==
  state[u] = "blocked" /\ prio[u] < CurrentUrgency(core[u])

post_intake(u) ==
  /\ pending' = pending \cup {u}
  /\ doorbell' = IF pending \cap OnCore(core[u]) = {}
                 THEN doorbell \cup {core[u]} ELSE doorbell
  /\ UNCHANGED <<current, state, disposition>>

set_thread_ready(u, policy) ==
  LET c  == core[u]
      ds == [disposition EXCEPT ![u] = "none"]
      st == IF state[u] = "blocked" THEN [state EXCEPT ![u] = "ready"] ELSE state
      switches == Warranted(u) /\ policy # "never"
  IN \/ /\ switches /\ ~RunningAt(c, {"enable"})
        /\ decide(c, "preempted", st, ds)
        /\ UNCHANGED doorbell
     \/ /\ ~switches \/ RunningAt(c, {"enable"})
        /\ state' = st
        /\ disposition' = ds
        /\ doorbell' = IF switches THEN doorbell \cup {c} ELSE doorbell
        /\ UNCHANGED <<current, pending>>

\* Thread u is readied by a: on its own core at once, on another through its
\* intake and, if the intake was empty, an IPI.
global_ready_thread(a, u, policy) ==
  LET dead == state[u] = "terminated" \/ disposition[u] = "terminating" IN
  \/ dead /\ UNCHANGED sched
  \/ ~dead /\ core[u] # core[a] /\ post_intake(u)
  \/ ~dead /\ core[u] = core[a] /\ set_thread_ready(u, policy)

\* thread_state becomes terminated and the raise of its termination begins,
\* on the handler's road, whose critical section lasts to the pick.
Retire(t) ==
  /\ state' = [DrainedState(core[t], state, disposition) EXCEPT ![t] = "terminated"]
  /\ disposition' = DrainedDisposition(core[t], disposition)
  /\ pending' = pending \ OnCore(core[t])
  /\ raised' = [raised EXCEPT ![t] = TRUE]
  /\ Goto(t, "raising")
  /\ on' = [on EXCEPT ![t] = t]
  /\ UNCHANGED <<current, queue, counter, token, cancel, satisfied, gone, chosen, hint>>

\* The handler's road, for a reschedule pended here or rung by another core.
reschedule(c) ==
  /\ c \in doorbell /\ Preemptible(c)
  /\ doorbell' = doorbell \ {c}
  /\ IF current[c] \in Threads /\ disposition[current[c]] = "terminating"
     THEN Retire(current[c])
     ELSE /\ decide(c, "yielded", state, disposition)
          /\ UNCHANGED <<objs, pc, locals>>

\* The idle loop looks at the intake before it sleeps.
idle_task(c) ==
  /\ current[c] = Idle /\ ~Interrupted(c)
  /\ pending \cap OnCore(c) # {}
  /\ decide(c, "yielded", state, disposition)
  /\ UNCHANGED <<doorbell, objs, pc, locals>>

yield(t) ==
  /\ Calls(t, "yield", None)
  /\ decide(core[t], "yielded", state, disposition)
  /\ UNCHANGED <<doorbell, objs, pc, locals>>

thread_exit(t) ==
  /\ Calls(t, "exit", None)
  /\ disposition' = [disposition EXCEPT ![t] = "terminating"]
  /\ Goto(t, "exiting")
  /\ UNCHANGED <<current, state, pending, doorbell, objs, locals>>

thread_yield(t) ==
  /\ At(t, "exiting")
  /\ Retire(t)
  /\ UNCHANGED doorbell

-----------------------------------------------------------------------------
(* wait_engine::run *)

\* Mutants: a token is taken at zero; a signal is an edge, not a level.
TakesAtZero(w) == IF w = Sem THEN counter >= 0 ELSE raised[w]
MissesTheLevel(w) == w = Sem /\ counter > 0

\* try_satisfy: takes a token, or reads a signal's level.
Satisfiable(w) == IF w = Sem THEN counter > 0 ELSE raised[w]
Take(w) == counter' = IF w = Sem THEN counter - 1 ELSE counter

Wait(t, w, s) ==
  /\ Goto(t, "prepare")
  /\ on' = [on EXCEPT ![t] = w]
  /\ cancel' = [cancel EXCEPT ![t] = s]
  /\ UNCHANGED <<sched, objs, satisfied, gone, chosen, hint>>

\* semaphore::acquire and its timed forms: a free token is taken unarmed.
acquire(t, s) ==
  /\ Calls(t, "acquire", s)
  /\ \/ /\ counter > 0
        /\ counter' = counter - 1
        /\ UNCHANGED <<sched, queue, raised, token, pc, locals>>
     \/ counter = 0 /\ Wait(t, Sem, s)

\* thread::join, and a plain wait on a signal.
wait_on(t, s) == Calls(t, "wait", s) /\ Wait(t, s, None)

prepare(t) ==
  /\ At(t, "prepare")
  /\ disposition' = [disposition EXCEPT ![t] = "prepared"]
  /\ Goto(t, "arm")
  /\ UNCHANGED <<current, state, pending, doorbell, objs, locals>>

arm(t) ==
  /\ At(t, "arm") /\ ~Locked(on[t])
  /\ queue' = [queue EXCEPT ![on[t]] = link(@, t)]
  /\ Goto(t, IF cancel[t] = None THEN "poll" ELSE "arm_cancel")
  /\ UNCHANGED <<sched, counter, raised, token, locals>>

arm_cancel(t) ==
  /\ At(t, "arm_cancel") /\ ~Locked(cancel[t])
  /\ queue' = [queue EXCEPT ![cancel[t]] = link(@, t)]
  /\ Goto(t, "poll")
  /\ UNCHANGED <<sched, counter, raised, token, locals>>

poll(t) ==
  /\ At(t, "poll")
  /\ \/ /\ Satisfiable(on[t])
        /\ Take(on[t])
        /\ satisfied' = [satisfied EXCEPT ![t] = TRUE]
        /\ disposition' = [disposition EXCEPT ![t] = "none"]
        /\ Goto(t, "disarm")
     \/ /\ ~Satisfiable(on[t])
        /\ Goto(t, IF cancel[t] = None THEN "commit" ELSE "poll_cancel")
        /\ UNCHANGED <<counter, satisfied, disposition>>
  /\ UNCHANGED <<current, state, pending, doorbell, queue, raised, token,
                 on, cancel, gone, chosen, hint>>

\* Mutant: the cancel is not polled once it is armed.
SkipsCancelPoll(t) ==
  /\ At(t, "poll_cancel")
  /\ Goto(t, "commit")
  /\ UNCHANGED <<sched, objs, locals>>

poll_cancel(t) ==
  /\ At(t, "poll_cancel")
  /\ \/ /\ raised[cancel[t]]
        /\ disposition' = [disposition EXCEPT ![t] = "none"]
        /\ Goto(t, "disarm")
     \/ /\ ~raised[cancel[t]]
        /\ Goto(t, "commit")
        /\ UNCHANGED disposition
  /\ UNCHANGED <<current, state, pending, doorbell, objs, locals>>

\* Park, unless a wake has revoked it: the look and the park are one step.
\* The wait resumes at its disarm, a suspend at its next look.
commit_to_block(t) ==
  /\ At(t, "commit")
  /\ Goto(t, IF on[t] = None THEN "suspend" ELSE "disarm")
  /\ \/ /\ disposition[t] # "prepared"
        /\ UNCHANGED sched
     \/ /\ disposition[t] = "prepared"
        /\ decide(core[t], "parked", state, disposition)
        /\ UNCHANGED doorbell
  /\ UNCHANGED <<objs, locals>>

\* Mutants: a satisfied waiter leaves its node; the lock is not waited for.
LeavesNode(t) ==
  /\ At(t, "disarm") /\ ~Locked(on[t])
  /\ gone' = [gone EXCEPT ![t] = ~Armed(queue[on[t]], t)]
  /\ queue' = IF satisfied[t] THEN queue ELSE [queue EXCEPT ![on[t]] = unlink(@, t)]
  /\ Goto(t, IF cancel[t] = None THEN "after" ELSE "disarm_cancel")
  /\ UNCHANGED <<sched, counter, raised, token, on, cancel, satisfied, chosen, hint>>

DisarmsUnlocked(t) ==
  /\ At(t, "disarm")
  /\ gone' = [gone EXCEPT ![t] = ~Armed(queue[on[t]], t)]
  /\ queue' = [queue EXCEPT ![on[t]] = unlink(@, t)]
  /\ Goto(t, IF cancel[t] = None THEN "after" ELSE "disarm_cancel")
  /\ UNCHANGED <<sched, counter, raised, token, on, cancel, satisfied, chosen, hint>>

disarm(t) ==
  /\ At(t, "disarm") /\ ~Locked(on[t])
  /\ gone' = [gone EXCEPT ![t] = ~Armed(queue[on[t]], t)]
  /\ queue' = [queue EXCEPT ![on[t]] = unlink(@, t)]
  /\ Goto(t, IF cancel[t] = None THEN "after" ELSE "disarm_cancel")
  /\ UNCHANGED <<sched, counter, raised, token, on, cancel, satisfied, chosen, hint>>

disarm_cancel(t) ==
  /\ At(t, "disarm_cancel") /\ ~Locked(cancel[t])
  /\ queue' = [queue EXCEPT ![cancel[t]] = unlink(@, t)]
  /\ Goto(t, "after")
  /\ UNCHANGED <<sched, counter, raised, token, locals>>

\* Mutant: a wake that took a satisfied waiter goes no further.
KeepsTheWake(t) ==
  /\ At(t, "after") /\ satisfied[t]
  /\ Return(t)
  /\ UNCHANGED <<sched, objs>>

\* Satisfied while armed.  Rule 2: a wake that took the node is passed on.
conclude(t) ==
  /\ At(t, "after") /\ satisfied[t]
  /\ \/ /\ gone[t]
        /\ Goto(t, "wake")
        /\ cancel' = [cancel EXCEPT ![t] = None]
        /\ satisfied' = [satisfied EXCEPT ![t] = FALSE]
        /\ gone' = [gone EXCEPT ![t] = FALSE]
        /\ UNCHANGED <<on, chosen, hint>>
     \/ ~gone[t] /\ Return(t)
  /\ UNCHANGED <<sched, objs>>

\* Mutant: the cancel may end the wait with the waitable not polled again.
CancelsFirst(t) ==
  /\ At(t, "after") /\ ~satisfied[t]
  /\ Goto(t, IF cancel[t] = None THEN "prepare" ELSE "recheck")
  /\ gone' = [gone EXCEPT ![t] = FALSE]
  /\ UNCHANGED <<sched, objs, on, cancel, satisfied, chosen, hint>>

\* Rule 1: w is polled unarmed, before the cancel may end the wait.
repoll(t) ==
  /\ At(t, "after") /\ ~satisfied[t]
  /\ \/ Satisfiable(on[t]) /\ Take(on[t]) /\ Return(t)
     \/ /\ ~Satisfiable(on[t])
        /\ Goto(t, IF cancel[t] = None THEN "prepare" ELSE "recheck")
        /\ gone' = [gone EXCEPT ![t] = FALSE]
        /\ UNCHANGED <<counter, on, cancel, satisfied, chosen, hint>>
  /\ UNCHANGED <<sched, queue, raised, token>>

recheck(t) ==
  /\ At(t, "recheck")
  /\ \/ raised[cancel[t]] /\ Return(t)
     \/ ~raised[cancel[t]] /\ Goto(t, "prepare") /\ UNCHANGED locals
  /\ UNCHANGED <<sched, objs>>

-----------------------------------------------------------------------------
(* The wakers *)

\* semaphore::release(1), as a thread or an interrupt calls it.
release(a) ==
  /\ Calls(a, "release", None) /\ counter < MaxCount
  /\ counter' = counter + 1
  /\ Goto(a, "peek")
  /\ on' = [on EXCEPT ![a] = Sem]
  /\ UNCHANGED <<sched, queue, raised, token, cancel, satisfied, gone, chosen, hint>>

\* waitable::may_have_waiters, without the lock.
may_have_waiters(a) ==
  /\ At(a, "peek")
  /\ \/ queue[on[a]] = <<>> /\ Return(a)
     \/ queue[on[a]] # <<>> /\ Goto(a, "wake") /\ UNCHANGED locals
  /\ UNCHANGED <<sched, objs>>

\* wake_one: the head is taken under the lock and readied outside it.
wake_one(a) ==
  /\ At(a, "wake") /\ ~Locked(on[a])
  /\ \/ /\ queue[on[a]] = <<>>
        /\ Return(a)
        /\ UNCHANGED queue
     \/ /\ queue[on[a]] # <<>>
        /\ chosen' = [chosen EXCEPT ![a] = Head(queue[on[a]])]
        /\ queue' = [queue EXCEPT ![on[a]] = Tail(@)]
        /\ on' = [on EXCEPT ![a] = None]
        /\ Goto(a, "ready")
        /\ UNCHANGED <<cancel, satisfied, gone, hint>>
  /\ UNCHANGED <<sched, counter, raised, token>>

ready_chosen(a) ==
  /\ At(a, "ready")
  /\ global_ready_thread(a, chosen[a], "automatic")
  /\ Return(a)
  /\ UNCHANGED objs

\* cancel_signal::raise: the flag goes up under the lock.
raise(a, s) ==
  /\ Calls(a, "raise", s) /\ ~Locked(s)
  /\ raised' = [raised EXCEPT ![s] = TRUE]
  /\ Goto(a, "raising")
  /\ on' = [on EXCEPT ![a] = s]
  /\ UNCHANGED <<sched, queue, counter, token, cancel, satisfied, gone, chosen, hint>>

\* The rest of raise_all's hold: every waiter is readied, no switch is made.
raise_next(a) ==
  /\ At(a, "raising") /\ queue[on[a]] # <<>>
  /\ LET u == Head(queue[on[a]]) IN
     /\ global_ready_thread(a, u, "never")
     /\ hint' = [hint EXCEPT ![a] = @ \/ (core[u] = core[a] /\ Warranted(u))]
  /\ queue' = [queue EXCEPT ![on[a]] = Tail(@)]
  /\ UNCHANGED <<counter, raised, token, pc, on, cancel, satisfied, gone, chosen>>

\* The lock is dropped.  A termination's raise ends in the handler's pick; any
\* other still has preemption disabled.
raise_unlock(a) ==
  /\ At(a, "raising") /\ queue[on[a]] = <<>>
  /\ on' = [on EXCEPT ![a] = None]
  /\ \/ /\ on[a] = a
        /\ Goto(a, "dead")
        /\ run_next(core[a], state)
        /\ hint' = [hint EXCEPT ![a] = FALSE]
     \/ /\ on[a] # a
        /\ Goto(a, "enable")
        /\ UNCHANGED <<current, state, hint>>
  /\ UNCHANGED <<disposition, pending, doorbell, objs, cancel, satisfied, gone, chosen>>

\* apply_reschedule_policy and preempt_enable.
preempt_enable(a) ==
  /\ At(a, "enable")
  /\ doorbell' = IF hint[a] THEN doorbell \cup {core[a]} ELSE doorbell
  /\ Return(a)
  /\ UNCHANGED <<current, state, disposition, pending, objs>>

\* cancel_signal::reset, which its contract keeps for when nothing waits on it.
reset(t, s) ==
  /\ Calls(t, "reset", s) /\ raised[s]
  /\ \A a \in Actors : on[a] # s /\ cancel[a] # s
  /\ raised' = [raised EXCEPT ![s] = FALSE]
  /\ UNCHANGED <<sched, queue, counter, token, pc, locals>>

-----------------------------------------------------------------------------
(* this_thread::suspend and thread::resume *)

suspend(t) ==
  /\ Calls(t, "suspend", None)
  /\ Goto(t, "suspend")
  /\ UNCHANGED <<sched, objs, locals>>

suspend_prepare(t) ==
  /\ At(t, "suspend")
  /\ disposition' = [disposition EXCEPT ![t] = "prepared"]
  /\ Goto(t, "look")
  /\ UNCHANGED <<current, state, pending, doorbell, objs, locals>>

suspend_look(t) ==
  /\ At(t, "look")
  /\ \/ /\ t \in token
        /\ token' = token \ {t}
        /\ disposition' = [disposition EXCEPT ![t] = "none"]
        /\ Goto(t, "user")
     \/ /\ t \notin token
        /\ Goto(t, "commit")
        /\ UNCHANGED <<token, disposition>>
  /\ UNCHANGED <<current, state, pending, doorbell, queue, counter, raised, locals>>

resume(a, u) ==
  /\ Calls(a, "resume", u)
  /\ token' = token \cup {u}
  /\ chosen' = [chosen EXCEPT ![a] = u]
  /\ Goto(a, "ready")
  /\ UNCHANGED <<sched, queue, counter, raised, on, cancel, satisfied, gone, hint>>

-----------------------------------------------------------------------------
(* The specification *)

\* Every core has started: it runs one of its most urgent threads.
Init ==
  /\ current \in [Cores -> Threads \cup {Idle}]
  /\ \A c \in Cores :
       IF OnCore(c) = {} THEN current[c] = Idle
       ELSE current[c] \in OnCore(c)
            /\ \A t \in OnCore(c) : prio[current[c]] <= prio[t]
  /\ state = [t \in Threads |-> IF current[core[t]] = t THEN "running" ELSE "ready"]
  /\ disposition = [t \in Threads |-> "none"]
  /\ pending = {} /\ doorbell = {}
  /\ queue = [w \in Waitables |-> <<>>]
  /\ counter = 0
  /\ raised = [s \in AllSignals |-> FALSE]
  /\ token = {}
  /\ pc = [a \in Actors |-> IF a \in Threads THEN "user" ELSE "idle"]
  /\ on = [a \in Actors |-> None] /\ cancel = [a \in Actors |-> None]
  /\ satisfied = [a \in Actors |-> FALSE] /\ gone = [a \in Actors |-> FALSE]
  /\ chosen = [a \in Actors |-> None] /\ hint = [a \in Actors |-> FALSE]

\* A new call of thread t, or of an interrupt.
Call(a) ==
  \/ release(a)
  \/ \E s \in Signals : raise(a, s)
  \/ \E u \in Threads : resume(a, u)
ThreadCall(t) ==
  \/ Call(t) \/ yield(t) \/ thread_exit(t) \/ suspend(t)
  \/ \E s \in Signals \cup {None} : acquire(t, s)
  \/ \E s \in AllSignals : wait_on(t, s)
  \/ \E s \in Signals : reset(t, s)

\* The call under way goes on.
WakeStep(a) ==
  \/ may_have_waiters(a) \/ wake_one(a) \/ ready_chosen(a)
  \/ raise_next(a) \/ raise_unlock(a) \/ preempt_enable(a)
WaitStep(t) ==
  \/ prepare(t) \/ arm(t) \/ arm_cancel(t) \/ poll(t) \/ poll_cancel(t)
  \/ commit_to_block(t) \/ disarm(t) \/ disarm_cancel(t)
  \/ conclude(t) \/ repoll(t) \/ recheck(t)
  \/ suspend_prepare(t) \/ suspend_look(t) \/ thread_yield(t)
CoreStep(c) == reschedule(c) \/ idle_task(c)

Next ==
  \/ \E t \in Threads : ThreadCall(t) \/ WaitStep(t)
  \/ \E i \in Isrs : Call(i)
  \/ \E a \in Actors : WakeStep(a)
  \/ \E c \in Cores : CoreStep(c)

Spec == Init /\ [][Next]_vars

-----------------------------------------------------------------------------
(* Properties *)

Places == {"user", "idle", "prepare", "arm", "arm_cancel", "poll", "poll_cancel",
           "commit", "disarm", "disarm_cancel", "after", "recheck", "peek", "wake",
           "ready", "raising", "enable", "suspend", "look", "exiting", "dead"}

\* Every variable has its type; in particular the counter never goes below zero.
TypeOK ==
  /\ current \in [Cores -> Threads \cup {Idle}]
  /\ state \in [Threads -> {"ready", "running", "blocked", "terminated"}]
  /\ disposition \in [Threads -> {"none", "prepared", "terminating"}]
  /\ pending \subseteq Threads
  /\ doorbell \subseteq Cores
  /\ queue \in [Waitables -> Seq(Threads)]
  /\ counter \in Nat
  /\ raised \in [AllSignals -> BOOLEAN]
  /\ token \subseteq Threads
  /\ pc \in [Actors -> Places]
  /\ on \in [Actors -> Waitables \cup {None}]
  /\ cancel \in [Actors -> AllSignals \cup {None}]
  /\ satisfied \in [Actors -> BOOLEAN]
  /\ gone \in [Actors -> BOOLEAN]
  /\ chosen \in [Actors -> Threads \cup {None}]
  /\ hint \in [Actors -> BOOLEAN]

\* Thread t has a node on every queue its wait has armed so far.
FullyArmed(t) ==
  /\ Armed(queue[on[t]], t)
  /\ cancel[t] # None /\ pc[t] # "arm_cancel" => Armed(queue[cancel[t]], t)

\* A wake of t is under way: its waker has yet to ready it, or it is on its
\* core's intake and the core has been rung.
WakeUnderWay(t) ==
  \/ \E a \in Actors : pc[a] = "ready" /\ chosen[a] = t
  \/ t \in pending /\ core[t] \in doorbell

\* No lost wake (commit_to_block's hazard): a thread parked in a wait is still
\* on the queue of its waitable and of its cancel signal, or the wake that took
\* it off one is on its way to it.
ParkedIsWakeable ==
  \A t \in Threads :
    state[t] = "blocked" /\ on[t] # None => FullyArmed(t) \/ WakeUnderWay(t)

\* A resume is never lost (this_thread::suspend): a thread parked in suspend
\* with its token set has a wake on its way.
ResumeReaches ==
  \A t \in Threads :
    state[t] = "blocked" /\ on[t] = None /\ t \in token => WakeUnderWay(t)

\* Thread t is on the semaphore's queue and its armed poll found no token.
WaitsForToken(t) ==
  /\ on[t] = Sem /\ Armed(queue[Sem], t)
  /\ pc[t] \in {"poll_cancel", "commit", "disarm"} /\ ~satisfied[t]

\* Someone will yet look for a waiter to give a token to: a release on its way
\* to its wake, or a thread a wake has taken that has yet to poll or pass it on.
OwesWake(a) ==
  \/ on[a] = Sem /\ pc[a] \in {"peek", "wake"}
  \/ /\ on[a] = Sem /\ pc[a] \in {"arm_cancel", "poll", "poll_cancel", "commit", "disarm"}
     /\ ~Armed(queue[Sem], a)
  \/ on[a] = Sem /\ pc[a] \in {"disarm_cancel", "after"} /\ gone[a]

\* No stranded token (the engine's rules 1 and 2): while a thread waits behind
\* its failed poll, every token in the semaphore has a wake still owed for it.
WakeOwed ==
  (\E t \in Threads : WaitsForToken(t)) =>
    counter <= Cardinality({a \in Actors : OwesWake(a)})

\* A raised signal leaves no waiter behind (cancel_signal::raise): once the
\* raise has dropped its lock, no thread is parked on the signal's queue.
RaisedLeavesNoneParked ==
  \A s \in AllSignals, t \in Threads :
    raised[s] /\ ~Locked(s) /\ Armed(queue[s], t) => state[t] # "blocked"

\* raise_all's promise to those it wakes and to those whose armed poll saw the
\* flag: such a joiner is past its disarm only when the raise has let go.
JoinerOutlastsRaise ==
  \A t \in Threads :
    pc[t] = "after" /\ on[t] \in Threads /\ (satisfied[t] \/ gone[t]) => ~Locked(on[t])

\* The promise as cancel_signal::raise documents it: a join returns only when
\* the raise of the termination has let go of the queue.
JoinReturnsAfterRaise ==
  [][\A t \in Threads :
       pc[t] = "after" /\ pc'[t] = "user" /\ on[t] \in Threads => ~Locked(on[t])]_vars

\* The same promise of the whole control block (set_thread_terminated, "nothing
\* may access it afterwards"): no waker has yet to ready a thread whose
\* termination has been raised.  A wake of an earlier wait breaks it.
RetiredIsLeftAlone ==
  \A t \in Threads, a \in Actors :
    pc[t] = "dead" => t \notin pending /\ ~(pc[a] = "ready" /\ chosen[a] = t)

\* A thread is on a queue only inside a wait that armed it there, and once: a
\* return leaves no node behind on the stack it frees.
NodesAreLive ==
  \A w \in Waitables :
    /\ NoDup(queue[w])
    /\ \A t \in Threads : Armed(queue[w], t) =>
         \/ on[t] = w /\ pc[t] \in {"arm_cancel", "poll", "poll_cancel", "commit", "disarm"}
         \/ cancel[t] = w /\ pc[t] \in {"poll", "poll_cancel", "commit", "disarm", "disarm_cancel"}

\* Wakes go to the most urgent waiter first (wait_queue::link): through every
\* arm, wake and disarm each queue stays in order of base priority.
QueuesInOrder == \A w \in Waitables : Sorted(queue[w])

\* Thread t is in a wait that is over by right: parked while a token is in the
\* semaphore, in a join or a cancellable wait whose signal is raised, or in a
\* suspend with its token set.
WaitsThoughDue(t) ==
  \/ counter > 0 /\ state[t] = "blocked" /\ on[t] = Sem
  \/ on[t] \in AllSignals /\ raised[on[t]]
  \/ pc[t] \in {"suspend", "look", "commit"} /\ on[t] = None /\ t \in token
=============================================================================
