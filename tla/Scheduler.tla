------------------------------ MODULE Scheduler ------------------------------
(***************************************************************************)
(* One core's scheduler (src/kernel/scheduler.hpp, scheduler.cpp and the   *)
(* ready matrix of threading_subsystem.hpp), with every order it keeps:    *)
(* the levels of the ready matrix, the holder list, the tie rotor, the     *)
(* intake in arrival order, the two roads into a switch and the decision   *)
(* an interrupt's wake makes.                                              *)
(*                                                                         *)
(* What a thread holds, and how urgent the waiters behind it are, come     *)
(* from base_mutex: here `held' and `boost' are what the fold would find,  *)
(* changed by the calls that change them there.                            *)
(***************************************************************************)
EXTENDS Naturals, Sequences, SequencesExt, FiniteSets

CONSTANTS Threads,       \* the threads pinned to this core
          prio,          \* base_priority of each
          IdlePriority,  \* config::max_priorities - 1, the idle thread's
          Idle,          \* the idle thread
          Calls,         \* the kinds of call that are made
          Donations      \* the urgencies waiters may bring to a holder

Priorities == 0..IdlePriority
NoBoost    == IdlePriority + 1

SchedulerAssumption ==
  /\ IdlePriority \in Nat
  /\ prio \in [Threads -> Priorities]
  /\ Idle \notin Threads
  /\ Donations \subseteq Priorities

VARIABLES
  sched,      \* the scheduler: current_thread, the threads' states and
              \* dispositions, ready_matrix, the holder list and tie_rotor
  intake,     \* the threads on the intake, in arrival order
  pended,     \* a reschedule is pended on this core
  isr,        \* an interrupt handler is running
  nopreempt,  \* the running thread has preemption disabled
  held,       \* the threads that hold a base_mutex (held_mask # 0)
  boost,      \* the best waiter on what each holds
  handed      \* the threads a handover made owners and has yet to ready

vars == <<sched, intake, pended, isr, nopreempt, held, boost, handed>>

-----------------------------------------------------------------------------
(* The scheduler's functions, on its state r *)

urgency(t) ==
  IF t = Idle THEN IdlePriority
  ELSE IF t \in held /\ boost[t] < prio[t] THEN boost[t] ELSE prio[t]

Enqueued(r, t) == Contains(r.matrix[prio[t]], t)
Listed(r, t)   == Contains(r.holders, t)

admit(r, t, front) ==
  IF t = Idle THEN r
  ELSE LET q == [r EXCEPT !.state[t] = "ready"] IN
       IF t \in held THEN [q EXCEPT !.holders = Append(@, t)]
       ELSE IF front THEN [q EXCEPT !.matrix[prio[t]] = <<t>> \o @]
       ELSE [q EXCEPT !.matrix[prio[t]] = Append(@, t)]

Finished(r, t) == r.state[t] = "terminated" \/ r.disposition[t] = "terminating"

\* Mutants: a filed thread is filed again; a handover moves no filed thread.
FilesTwice(r, t) == IF Finished(r, t) THEN r ELSE admit(r, t, FALSE)
NeverRefiles(r, t) ==
  IF Finished(r, t) \/ Enqueued(r, t) \/ Listed(r, t) THEN r ELSE admit(r, t, FALSE)

\* A thread filed before a handover made it a holder is moved to the list.
make_ready(r, t) ==
  IF Finished(r, t) THEN r
  ELSE IF ~Enqueued(r, t) /\ ~Listed(r, t) THEN admit(r, t, FALSE)
  ELSE IF Enqueued(r, t) /\ t \in held
       THEN [r EXCEPT !.matrix[prio[t]] = SelectSeq(@, LAMBDA u : u # t),
                      !.holders = Append(@, t)]
  ELSE r

\* Mutant: a switch is never asked for.
NeverWarranted(r, t) == FALSE

Warranted(r, t) ==
  make_ready(r, t) # r /\ urgency(t) < urgency(r.current)

service_intake(r, t) ==
  make_ready(IF r.disposition[t] = "terminating" THEN r
             ELSE [r EXCEPT !.disposition[t] = "none"], t)

drain_intake(r) == FoldLeft(service_intake, r, intake)

\* Mutant: every thread an interrupt takes the core from goes to the back.
NeverPreempted(r, t) == FALSE

\* With holders about, urgency is a fold, and the thread keeps its rotation.
preempted(r, t) ==
  /\ t # Idle => t \notin held
  /\ r.holders = <<>>
  /\ \E p \in Priorities : r.matrix[p] # <<>> /\ p < urgency(t)

depart(r, reason) ==
  LET t == r.current IN
  CASE reason = "yielded"   -> admit(r, t, FALSE)
    [] reason = "preempted" -> admit(r, t, TRUE)
    [] reason = "parked"    -> [r EXCEPT !.state[t] = "blocked", !.disposition[t] = "none"]
    [] reason = "exited"    -> [r EXCEPT !.state[t] = "terminated"]

\* The drain readied or an earlier pass retired it, or it departs.
Departed(r, reason) ==
  IF r.current = Idle \/ r.state[r.current] = "running" THEN depart(r, reason) ELSE r

run(r, t) ==
  IF t = Idle THEN [r EXCEPT !.current = Idle]
  ELSE [r EXCEPT !.current = t, !.state[t] = "running"]

pop_best_thread(r) ==
  LET ps == {p \in Priorities : r.matrix[p] # <<>>} IN
  IF ps = {} THEN run(r, Idle)
  ELSE LET p == CHOOSE p \in ps : \A o \in ps : p <= o
       IN run([r EXCEPT !.matrix[p] = Tail(@)], Head(r.matrix[p]))

\* Mutant: a picked holder stays on the list.
KeepsHolder(r, t) == r

unlink_holder(r, t) == [r EXCEPT !.holders = SelectSeq(@, LAMBDA u : u # t)]

\* Mutant: a tie always goes to the holder.
HolderWinsTies(r) ==
  LET h == CHOOSE h \in {r.holders[i] : i \in DOMAIN r.holders} :
             \A i \in DOMAIN r.holders : urgency(h) <= urgency(r.holders[i])
  IN IF \E p \in Priorities : r.matrix[p] # <<>> /\ p < urgency(h)
     THEN pop_best_thread(r) ELSE run(unlink_holder(r, h), h)

pick_with_holders(r) ==
  LET ps == {p \in Priorities : r.matrix[p] # <<>>}
      best == CHOOSE i \in DOMAIN r.holders :
                \A j \in DOMAIN r.holders :
                  \/ urgency(r.holders[i]) < urgency(r.holders[j])
                  \/ urgency(r.holders[i]) = urgency(r.holders[j]) /\ i <= j
      h == r.holders[best]
      tie == urgency(h) \in ps /\ \A p \in ps : urgency(h) <= p
      flipped == IF urgency(h) \in r.tie_rotor THEN r.tie_rotor \ {urgency(h)}
                 ELSE r.tie_rotor \cup {urgency(h)}
      q == IF tie THEN [r EXCEPT !.tie_rotor = flipped] ELSE r
  IN IF (\E p \in ps : p < urgency(h)) \/ (tie /\ urgency(h) \notin flipped)
     THEN pop_best_thread(q)
     ELSE run(unlink_holder(q, h), h)

run_next(r) == IF r.holders = <<>> THEN pop_best_thread(r) ELSE pick_with_holders(r)

decide(r, reason) == run_next(Departed(drain_intake(r), reason))

\* The handler's road works out why the running thread departs.
reschedule(r) ==
  LET q == drain_intake(r) IN
  run_next(Departed(q, IF q.current # Idle /\ q.disposition[q.current] = "terminating"
                       THEN "exited"
                       ELSE IF preempted(q, q.current) THEN "preempted" ELSE "yielded"))

-----------------------------------------------------------------------------
(* What happens on the core *)

Makes(kind)  == kind \in Calls
Running      == sched.current
\* The running thread executes: no interrupt handler is above it.
InThread     == ~isr /\ Running \in Threads
AtBaseline   == InThread /\ ~nopreempt

\* A wake of thread t made on this core, by the running thread or in an
\* interrupt.  At baseline it takes the switch it warrants; under a disabled
\* preemption it pends.
LocalWake(t) ==
  LET r == [sched EXCEPT !.disposition[t] = "none"] IN
  IF Finished(sched, t) THEN UNCHANGED <<sched, intake, pended>>
  ELSE IF sched.state[t] = "running"
       THEN sched' = r /\ UNCHANGED <<intake, pended>>
  ELSE IF Warranted(r, t) /\ ~nopreempt
       THEN sched' = decide(make_ready(r, t), "preempted") /\ intake' = <<>> /\ UNCHANGED pended
  ELSE /\ sched' = make_ready(r, t)
       /\ pended' = (pended \/ Warranted(r, t))
       /\ UNCHANGED intake

\* A wake of thread t posted by another core, and its IPI.
Post(t) ==
  IF Contains(intake, t) THEN UNCHANGED <<intake, pended>>
  ELSE intake' = Append(intake, t) /\ pended' = (pended \/ intake = <<>>)

wake(t) ==
  /\ Makes("wake") /\ InThread
  /\ LocalWake(t)
  /\ UNCHANGED <<isr, nopreempt, held, boost, handed>>

interrupt_wake(t) ==
  /\ Makes("interrupt") /\ isr
  /\ LocalWake(t)
  /\ UNCHANGED <<isr, nopreempt, held, boost, handed>>

interrupt ==
  /\ Makes("interrupt") /\ ~isr
  /\ isr' = TRUE
  /\ UNCHANGED <<sched, intake, pended, nopreempt, held, boost, handed>>

interrupt_return ==
  /\ isr
  /\ isr' = FALSE
  /\ UNCHANGED <<sched, intake, pended, nopreempt, held, boost, handed>>

remote_wake(t) ==
  /\ Makes("remote") /\ ~Finished(sched, t)
  /\ Post(t)
  /\ UNCHANGED <<sched, isr, nopreempt, held, boost, handed>>

\* The round robin's recurring timer: rotate pends a reschedule.
rotate ==
  /\ Makes("slice") /\ ~isr
  /\ pended' = TRUE
  /\ UNCHANGED <<sched, intake, isr, nopreempt, held, boost, handed>>

yield ==
  /\ Makes("yield") /\ AtBaseline
  /\ sched' = decide(sched, "yielded") /\ intake' = <<>>
  /\ UNCHANGED <<pended, isr, nopreempt, held, boost, handed>>

prepare ==
  /\ Makes("block") /\ AtBaseline /\ sched.disposition[Running] = "none"
  /\ sched' = [sched EXCEPT !.disposition[Running] = "prepared"]
  /\ UNCHANGED <<intake, pended, isr, nopreempt, held, boost, handed>>

park ==
  /\ AtBaseline /\ sched.disposition[Running] = "prepared"
  /\ sched' = decide(sched, "parked") /\ intake' = <<>>
  /\ UNCHANGED <<pended, isr, nopreempt, held, boost, handed>>

\* A thread may not end as a holder.
thread_exit ==
  /\ Makes("exit") /\ AtBaseline /\ Running \notin held
  /\ sched.disposition[Running] = "none"
  /\ sched' = [sched EXCEPT !.disposition[Running] = "terminating"]
  /\ UNCHANGED <<intake, pended, isr, nopreempt, held, boost, handed>>

thread_yield ==
  /\ AtBaseline /\ sched.disposition[Running] = "terminating"
  /\ sched' = reschedule(sched) /\ intake' = <<>>
  /\ UNCHANGED <<pended, isr, nopreempt, held, boost, handed>>

pended_reschedule ==
  /\ pended /\ ~isr /\ ~nopreempt
  /\ sched' = reschedule(sched) /\ intake' = <<>>
  /\ pended' = FALSE
  /\ UNCHANGED <<isr, nopreempt, held, boost, handed>>

idle_task ==
  /\ Running = Idle /\ ~isr /\ intake # <<>>
  /\ sched' = decide(sched, "yielded") /\ intake' = <<>>
  /\ UNCHANGED <<pended, isr, nopreempt, held, boost, handed>>

preempt_disable ==
  /\ Makes("preempt") /\ AtBaseline
  /\ nopreempt' = TRUE
  /\ UNCHANGED <<sched, intake, pended, isr, held, boost, handed>>

preempt_enable ==
  /\ InThread /\ nopreempt
  /\ nopreempt' = FALSE
  /\ UNCHANGED <<sched, intake, pended, isr, held, boost, handed>>

\* The running thread takes a free mutex; gives its last one up.
acquire ==
  /\ Makes("mutex") /\ InThread /\ sched.disposition[Running] = "none"
  /\ held' = held \cup {Running}
  /\ UNCHANGED <<sched, intake, pended, isr, nopreempt, boost, handed>>

release ==
  /\ InThread /\ Running \in held /\ Running \notin handed
  /\ held' = held \ {Running}
  /\ boost' = [boost EXCEPT ![Running] = NoBoost]
  /\ UNCHANGED <<sched, intake, pended, isr, nopreempt, handed>>

\* A waiter of urgency p queues behind holder t and asks for a repick.
donate(t, p) ==
  /\ t \in held /\ p < boost[t]
  /\ boost' = [boost EXCEPT ![t] = p]
  /\ pended' = TRUE
  /\ UNCHANGED <<sched, intake, isr, nopreempt, held, handed>>

\* hand_over makes waiter t an owner, wherever it has got to, and readies it
\* after that, from another core or from this one.
hand_over(t) ==
  /\ Makes("mutex") /\ t \notin held
  /\ sched.state[t] = "blocked" \/ sched.disposition[t] = "prepared"
  /\ held' = held \cup {t}
  /\ handed' = handed \cup {t}
  /\ UNCHANGED <<sched, intake, pended, isr, nopreempt, boost>>

ready_owner(t) ==
  /\ t \in handed
  /\ handed' = handed \ {t}
  /\ \/ Post(t) /\ UNCHANGED sched
     \/ InThread /\ LocalWake(t)
  /\ UNCHANGED <<isr, nopreempt, held, boost>>

-----------------------------------------------------------------------------
\* start: every thread filed as it was registered, and the best one running.
Init ==
  /\ \E order \in [1..Cardinality(Threads) -> Threads] :
       /\ \A i, j \in DOMAIN order : order[i] = order[j] => i = j
       /\ sched = pop_best_thread(
            [current |-> Idle, state |-> [t \in Threads |-> "ready"],
             disposition |-> [t \in Threads |-> "none"],
             matrix |-> [p \in Priorities |-> SelectSeq(order, LAMBDA t : prio[t] = p)],
             holders |-> <<>>, tie_rotor |-> {}])
  /\ intake = <<>> /\ pended = FALSE /\ isr = FALSE /\ nopreempt = FALSE
  /\ held = {} /\ boost = [t \in Threads |-> NoBoost] /\ handed = {}

Next ==
  \/ \E t \in Threads :
       \/ wake(t) \/ interrupt_wake(t) \/ remote_wake(t)
       \/ hand_over(t) \/ ready_owner(t)
       \/ \E p \in Donations : donate(t, p)
  \/ interrupt \/ interrupt_return \/ rotate
  \/ yield \/ prepare \/ park \/ thread_exit \/ thread_yield
  \/ pended_reschedule \/ idle_task
  \/ preempt_disable \/ preempt_enable \/ acquire \/ release

Spec == Init /\ [][Next]_vars

-----------------------------------------------------------------------------
(* Properties *)

Filings(t) ==
  Cardinality({<<p, i>> \in Priorities \X (1..Cardinality(Threads)) :
                 i \in DOMAIN sched.matrix[p] /\ sched.matrix[p][i] = t})
  + Cardinality({i \in DOMAIN sched.holders : sched.holders[i] = t})

\* Every variable has its type.
TypeOK ==
  /\ sched.current \in Threads \cup {Idle}
  /\ sched.state \in [Threads -> {"ready", "running", "blocked", "terminated"}]
  /\ sched.disposition \in [Threads -> {"none", "prepared", "terminating"}]
  /\ sched.matrix \in [Priorities -> Seq(Threads)]
  /\ sched.holders \in Seq(Threads)
  /\ sched.tie_rotor \subseteq Priorities
  /\ intake \in Seq(Threads)
  /\ pended \in BOOLEAN /\ isr \in BOOLEAN /\ nopreempt \in BOOLEAN
  /\ held \subseteq Threads /\ handed \subseteq Threads
  /\ boost \in [Threads -> 0..NoBoost]

\* A ready thread is filed exactly once, in the matrix at its base priority or
\* on the holder list, and no other thread is filed (the asserts of admit,
\* push_back and set_thread_running).
FiledOnce ==
  \A t \in Threads :
    /\ Filings(t) = IF sched.state[t] = "ready" THEN 1 ELSE 0
    /\ Enqueued(sched, t) \/ Listed(sched, t) <=> sched.state[t] = "ready"
    /\ sched.state[t] = "running" <=> sched.current = t

\* A holder is filed where the fold looks (make_ready's re-route): one filed
\* in the matrix has the admission that moves it still to come.
HolderIsListed ==
  \A t \in held :
    Enqueued(sched, t) => t \in handed \/ (Contains(intake, t) /\ pended)

\* The listed threads are holders: only a running thread gives a mutex up.
ListedIsHolder == \A i \in DOMAIN sched.holders : sched.holders[i] \in held

\* Nothing ready waits behind a less urgent running thread once no reschedule
\* is pended and none is held off.
Urgent(t) == sched.state[t] = "ready" /\ urgency(t) < urgency(Running)
MostUrgentRuns ==
  ~pended /\ ~isr /\ ~nopreempt => ~\E t \in Threads : Urgent(t)

\* What the idle loop takes for granted when the core wakes from its sleep:
\* whatever an interrupt readied has been switched to.
IdleOnlyWhenNothingReady ==
  Running = Idle /\ ~pended /\ ~isr => \A t \in Threads : sched.state[t] # "ready"

\* Thread t is ahead of u among their equals, the running thread foremost.
AheadOf(t, u, r) ==
  /\ Enqueued(r, u)
  /\ \/ r.current = t
     \/ \E i, j \in DOMAIN r.matrix[prio[t]] :
          i < j /\ r.matrix[prio[t]][i] = t /\ r.matrix[prio[t]][j] = u

\* What a step keeps of the turns: thread t ahead of its equal u stays ahead,
\* unless it left the core of its own accord, parked, ended or used its slice up.
TurnsKept ==
  \A t, u \in Threads :
    /\ prio[t] = prio[u] /\ AheadOf(t, u, sched) /\ ~Contains(intake, t)
    /\ held \cup held' = {}
    /\ ~(sched.current = t /\ sched'.current # t
         /\ (sched'.current = Idle \/ prio[sched'.current] >= prio[t]))
    /\ sched'.state[t] \in {"ready", "running"}
    /\ sched'.state[u] = "ready"
    => AheadOf(t, u, sched') \/ yield

\* Not kept waiting by anything but more urgent threads.
HasItsShare(t) == sched.state[t] # "ready" \/ urgency(Running) < urgency(t)
=============================================================================
