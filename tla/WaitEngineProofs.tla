-------------------------- MODULE WaitEngineProofs --------------------------
(***************************************************************************)
(* WaitEngine's safety for every number of threads, cores, interrupts and  *)
(* signals: no wake of a parked thread is lost, a raised signal leaves     *)
(* nobody parked on it, nodes live as long as their waits and the queues   *)
(* stay in order.  First the inductive invariant, then what every step may *)
(* do to the threads it is not a step of, then one lemma per step.         *)
(***************************************************************************)
EXTENDS WaitEngine

\* Every leaf that names no prover of its own is one for Zenon.
USE ZenonT(60)

-----------------------------------------------------------------------------
(* The inductive invariant *)

\* A core runs a thread of its own, which is not parked.
CurrentOK ==
  \A c \in Cores :
    current[c] \in Threads =>
      core[current[c]] = c /\ state[current[c]] \in {"running", "terminated"}

\* A thread on an intake has had its core rung, and the ring is not used up.
RungOK == \A t \in pending : core[t] \in doorbell

\* No queue holds a thread twice, and each is in order.
QueuesOK == \A w \in Waitables : NoDup(queue[w]) /\ Sorted(queue[w])

\* Where an actor is tells which of its locals are set.
CallsAt(a) ==
  /\ pc[a] \in {"prepare", "arm", "arm_cancel", "poll", "poll_cancel", "disarm",
                "disarm_cancel", "after", "recheck", "peek", "wake", "raising"} => on[a] # None
  /\ pc[a] \in {"user", "idle", "suspend", "look", "exiting", "dead"} => on[a] = None
  /\ pc[a] \in {"arm_cancel", "poll_cancel", "disarm_cancel", "recheck"} => cancel[a] # None
  /\ pc[a] \in {"peek", "wake", "raising"} => cancel[a] = None
  /\ cancel[a] # None => on[a] = Sem
  /\ pc[a] = "ready" => chosen[a] # None

\* A thread that ends is not parked, and once it has ended it only raises its
\* termination.
EndsAt(t) ==
  /\ disposition[t] = "terminating" <=>
       pc[t] \in {"exiting", "dead"} \/ (pc[t] = "raising" /\ on[t] = t)
  /\ disposition[t] = "terminating" => state[t] # "blocked"
  /\ state[t] = "terminated" => disposition[t] = "terminating" /\ pc[t] # "exiting"

\* A thread has nodes only where its wait has armed it and not yet disarmed it.
NodesAt(t) ==
  \A w \in Waitables : Armed(queue[w], t) =>
    \/ on[t] = w /\ pc[t] \in {"arm_cancel", "poll", "poll_cancel", "commit", "disarm"}
    \/ cancel[t] = w /\ pc[t] \in {"poll", "poll_cancel", "commit", "disarm", "disarm_cancel"}

\* ParkedIsWakeable, from the moment the thread has armed.
WaitAt(t) ==
  /\ on[t] # None
  /\ \/ state[t] = "blocked"
     \/ disposition[t] = "prepared" /\ pc[t] \in {"arm_cancel", "poll", "poll_cancel", "commit"}
  => FullyArmed(t) \/ WakeUnderWay(t)

\* ResumeReaches, from the moment the thread has looked at its token.
SuspendAt(t) ==
  /\ on[t] = None /\ t \in token
  /\ state[t] = "blocked" \/ (disposition[t] = "prepared" /\ pc[t] = "commit")
  => WakeUnderWay(t)

\* RaisedLeavesNoneParked, for the threads about to park too.
NoneLeftAt(t) ==
  \A s \in AllSignals :
    raised[s] /\ ~Locked(s) /\ Armed(queue[s], t) => state[t] # "blocked" /\ pc[t] # "commit"

\* What holds of each thread.
ThreadAt(t) == EndsAt(t) /\ NodesAt(t) /\ WaitAt(t) /\ SuspendAt(t) /\ NoneLeftAt(t)

\* The inductive invariant.
IInv ==
  /\ TypeOK /\ CurrentOK /\ RungOK /\ QueuesOK
  /\ \A a \in Actors : CallsAt(a)
  /\ \A t \in Threads : ThreadAt(t)

-----------------------------------------------------------------------------
(* What a step may do to a thread it is not a step of *)

\* Thread b goes nowhere, no closer to parking, and a wake that was under way,
\* or that the step began, still is or has revoked the park.
Follows(b) ==
  /\ pc'[b] = pc[b] /\ on'[b] = on[b] /\ cancel'[b] = cancel[b]
  /\ state'[b] = "blocked" => state[b] = "blocked"
  /\ state'[b] = "terminated" => state[b] = "terminated"
  /\ disposition'[b] = "prepared" => disposition[b] = "prepared"
  /\ disposition'[b] = "terminating" <=> disposition[b] = "terminating"
  /\ \A w \in Waitables : Armed(queue'[w], b) => Armed(queue[w], b)
  /\ \/ WakeUnderWay(b)
     \/ \E w \in Waitables : Armed(queue[w], b) /\ ~Armed(queue'[w], b)
     \/ b \in token' \ token
     => WakeUnderWay(b)' \/ (state'[b] # "blocked" /\ disposition'[b] # "prepared")
  /\ \A s \in AllSignals :
       raised'[s] /\ ~Locked(s)' /\ Armed(queue'[s], b) => raised[s] /\ ~Locked(s)

\* A thread that a step only follows keeps its part of the invariant.
LEMMA FollowsKeeps ==
  ASSUME IInv, NEW b \in Threads, Follows(b)
  PROVE  ThreadAt(b)'
<1>0. TypeOK /\ ThreadAt(b) /\ CallsAt(b) /\ b \in Actors
  BY DEF IInv, Actors
<1>1. EndsAt(b)'
  BY <1>0 DEF ThreadAt, EndsAt, Follows
<1>2. NodesAt(b)'
  BY <1>0 DEF ThreadAt, NodesAt, Follows
<1>3. WaitAt(b)'
  <2> SUFFICES ASSUME on'[b] # None,
                      \/ state'[b] = "blocked"
                      \/ /\ disposition'[b] = "prepared"
                         /\ pc'[b] \in {"arm_cancel", "poll", "poll_cancel", "commit"},
                      ~WakeUnderWay(b)'
               PROVE  FullyArmed(b)'
    BY DEF WaitAt
  <2>1. /\ ~WakeUnderWay(b)
        /\ \A w \in Waitables : Armed(queue[w], b) => Armed(queue'[w], b)
    BY DEF Follows
  <2>2. FullyArmed(b)
    BY <1>0, <2>1 DEF ThreadAt, WaitAt, Follows
  <2> QED BY <1>0, <2>1, <2>2 DEF FullyArmed, Follows, TypeOK, Waitables
<1>4. SuspendAt(b)'
  BY <1>0 DEF ThreadAt, SuspendAt, Follows
<1>5. NoneLeftAt(b)'
  BY <1>0 DEF ThreadAt, NoneLeftAt, Follows, Waitables
<1> QED BY <1>1, <1>2, <1>3, <1>4, <1>5 DEF ThreadAt

\* A step of actor a that schedules nothing: of the scheduler's state it may
\* change its own disposition and ring doorbells.
Local(a) ==
  /\ UNCHANGED <<current, state, pending>> /\ doorbell \subseteq doorbell'
  /\ \A b \in Threads \ {a} : disposition'[b] = disposition[b]
  /\ \A b \in Actors \ {a} :
       pc'[b] = pc[b] /\ on'[b] = on[b] /\ cancel'[b] = cancel[b] /\ chosen'[b] = chosen[b]
  /\ \A w \in Waitables, b \in Threads \ {a} :
       /\ Armed(queue'[w], b) => Armed(queue[w], b)
       /\ Armed(queue[w], b) => Armed(queue'[w], b) \/ (pc'[a] = "ready" /\ chosen'[a] = b)
  /\ \A b \in token' \ token : pc'[a] = "ready" /\ chosen'[a] = b
  /\ \A s \in AllSignals : raised'[s] => raised[s] \/ (pc'[a] = "raising" /\ on'[a] = s)
  /\ pc[a] \notin {"raising", "ready"}

\* Every other thread follows a step that schedules nothing.
LEMMA LocalKeeps ==
  ASSUME IInv, NEW a \in Actors, Local(a), TypeOK', QueuesOK', CallsAt(a)',
         a \in Threads => ThreadAt(a)'
  PROVE  IInv'
<1>1. CurrentOK' /\ RungOK'
  BY DEF IInv, CurrentOK, RungOK, Local
<1>2. ASSUME NEW b \in Actors PROVE CallsAt(b)'
  BY SMTT(60) DEF IInv, CallsAt, Local
<1>3. ASSUME NEW b \in Threads, b # a PROVE Follows(b)
  <2>1. b \in Actors
    BY DEF Actors
  <2>2. WakeUnderWay(b) => WakeUnderWay(b)'
    BY DEF WakeUnderWay, Local
  <2>3. (pc'[a] = "ready" /\ chosen'[a] = b) => WakeUnderWay(b)'
    BY DEF WakeUnderWay
  <2>4. ASSUME NEW s \in AllSignals, raised'[s], ~Locked(s)' PROVE raised[s] /\ ~Locked(s)
    BY <2>4 DEF Local, Locked
  <2> QED BY <1>3, <2>1, <2>2, <2>3, <2>4 DEF Follows, Local
<1>4. ASSUME NEW b \in Threads PROVE ThreadAt(b)'
  BY <1>3, FollowsKeeps
<1> QED BY <1>1, <1>2, <1>4 DEF IInv

\* The thread that takes a step of its own is running.
LEMMA ActorRuns ==
  ASSUME IInv, NEW a \in Actors, NEW p, At(a, p), p # "raising", p # "dead"
  PROVE  /\ pc[a] = p /\ TypeOK /\ CallsAt(a)
         /\ a \in Threads => state[a] = "running" /\ ThreadAt(a)
<1>1. TypeOK /\ CallsAt(a) /\ (a \in Threads => ThreadAt(a))
  BY SMTT(60) DEF IInv
<1>2. a \in Threads => state[a] = "running"
  BY SMTT(60), <1>1, ConstantsAssumption DEF IInv, TypeOK, CurrentOK, ThreadAt, EndsAt, At
<1> QED BY <1>1, <1>2 DEF At

\* A thread that steps is the running thread of its core.
LEMMA ThreadRuns ==
  ASSUME IInv, NEW t \in Threads, NEW p, At(t, p), p # "raising", p # "dead"
  PROVE  /\ t \in Actors /\ pc[t] = p /\ state[t] = "running"
         /\ TypeOK /\ CallsAt(t) /\ ThreadAt(t)
BY ActorRuns DEF Actors

\* Whoever makes a call is between two calls, and a thread that does is running.
LEMMA CallsRun ==
  ASSUME IInv, NEW a \in Actors, NEW op, NEW x, Calls(a, op, x)
  PROVE  /\ pc[a] = IF a \in Threads THEN "user" ELSE "idle"
         /\ TypeOK /\ CallsAt(a)
         /\ a \in Threads => state[a] = "running" /\ ThreadAt(a)
<1>1. CASE a \in Threads
  BY <1>1, ActorRuns DEF Calls
<1>2. CASE a \notin Threads
  BY <1>2 DEF Calls, IInv
<1> QED BY <1>1, <1>2

-----------------------------------------------------------------------------
(* What linking, unlinking and popping do to the queues *)

\* An arm (wait_queue::link) keeps every queue in order and without duplicates.
LEMMA LinkKeeps ==
  ASSUME IInv, NEW w \in Waitables, NEW t \in Threads, ~Armed(queue[w], t),
         queue' = [queue EXCEPT ![w] = link(@, t)]
  PROVE  /\ queue' \in [Waitables -> Seq(Threads)] /\ QueuesOK'
         /\ \A v \in Waitables, u \in Threads :
              Armed(queue'[v], u) <=> Armed(queue[v], u) \/ (v = w /\ u = t)
<1>0. queue \in [Waitables -> Seq(Threads)] /\ QueuesOK
  BY DEF IInv, TypeOK
<1>1. /\ link(queue[w], t) \in Seq(Threads)
      /\ \A u : Armed(link(queue[w], t), u) <=> Armed(queue[w], u) \/ u = t
      /\ NoDup(link(queue[w], t)) /\ Sorted(link(queue[w], t))
  BY <1>0, LinkArms, LinkNoDup, LinkSorts DEF QueuesOK
<1> QED BY <1>0, <1>1 DEF QueuesOK

\* A disarm (wait_queue::unlink) does too, and takes its own node only.
LEMMA UnlinkKeeps ==
  ASSUME IInv, NEW w \in Waitables, NEW t \in Threads,
         queue' = [queue EXCEPT ![w] = unlink(@, t)]
  PROVE  /\ queue' \in [Waitables -> Seq(Threads)] /\ QueuesOK'
         /\ \A v \in Waitables, u \in Threads :
              Armed(queue'[v], u) <=> Armed(queue[v], u) /\ ~(v = w /\ u = t)
<1>0. queue \in [Waitables -> Seq(Threads)] /\ QueuesOK
  BY DEF IInv, TypeOK
<1>1. /\ unlink(queue[w], t) \in Seq(Threads)
      /\ \A u : Armed(unlink(queue[w], t), u) <=> Armed(queue[w], u) /\ u # t
      /\ NoDup(unlink(queue[w], t)) /\ Sorted(unlink(queue[w], t))
  BY <1>0, UnlinkDisarms DEF QueuesOK
<1> QED BY <1>0, <1>1 DEF QueuesOK

\* So does a wake that takes the head of a queue.
LEMMA PopKeeps ==
  ASSUME IInv, NEW w \in Waitables, queue[w] # <<>>,
         queue' = [queue EXCEPT ![w] = Tail(@)]
  PROVE  /\ queue' \in [Waitables -> Seq(Threads)] /\ QueuesOK'
         /\ Head(queue[w]) \in Threads
         /\ \A v \in Waitables, u \in Threads :
              Armed(queue'[v], u) <=> Armed(queue[v], u) /\ ~(v = w /\ u = Head(queue[w]))
<1>0. queue \in [Waitables -> Seq(Threads)] /\ QueuesOK
  BY DEF IInv, TypeOK
<1>1. /\ Tail(queue[w]) \in Seq(Threads) /\ Head(queue[w]) \in Threads
      /\ \A u : Armed(Tail(queue[w]), u) <=> Armed(queue[w], u) /\ u # Head(queue[w])
      /\ NoDup(Tail(queue[w])) /\ Sorted(Tail(queue[w]))
  BY <1>0, TailDisarms DEF QueuesOK
<1> QED BY <1>0, <1>1 DEF QueuesOK

-----------------------------------------------------------------------------
(* What the scheduler makes of the states *)

States == {"ready", "running", "blocked", "terminated"}
Dispositions == {"none", "prepared", "terminating"}

\* What a pick makes of the states st.
Picked(c, st) ==
  /\ current' \in [Cores -> Threads \cup {Idle}] /\ state' \in [Threads -> States]
  /\ \A d \in Cores : d # c => current'[d] = current[d]
  /\ current'[c] \in Threads => core[current'[c]] = c /\ state'[current'[c]] = "running"
  /\ \A t \in Threads : \/ state'[t] = st[t]
                        \/ state'[t] = "running" /\ st[t] = "ready" /\ core[t] = c

\* scheduler::run_next runs a ready thread of the core, or its idle thread.
LEMMA RunNextEffect ==
  ASSUME TypeOK, NEW c \in Cores, NEW st \in [Threads -> States], run_next(c, st)
  PROVE  Picked(c, st)
<1>0. current \in [Cores -> Threads \cup {Idle}]
  BY DEF TypeOK
<1>1. CASE current' = [current EXCEPT ![c] = Idle] /\ state' = st
  BY <1>0, <1>1, ConstantsAssumption DEF Picked
<1>2. CASE \E t \in OnCore(c) : /\ st[t] = "ready"
                                /\ current' = [current EXCEPT ![c] = t]
                                /\ state' = [st EXCEPT ![t] = "running"]
  <2>1. PICK t \in OnCore(c) : /\ st[t] = "ready"
                               /\ current' = [current EXCEPT ![c] = t]
                               /\ state' = [st EXCEPT ![t] = "running"]
    BY <1>2
  <2>2. t \in Threads /\ core[t] = c
    BY DEF OnCore
  <2> QED BY <1>0, <2>1, <2>2 DEF Picked, States
<1> QED BY <1>1, <1>2 DEF run_next

\* What a decision makes of the states st and dispositions ds it starts from:
\* the intake is taken in, and only a park may block a thread.
Decided(c, reason, st, ds) ==
  /\ current' \in [Cores -> Threads \cup {Idle}]
  /\ state' \in [Threads -> States] /\ disposition' \in [Threads -> Dispositions]
  /\ pending' = pending \ OnCore(c)
  /\ \A d \in Cores : d # c => current'[d] = current[d]
  /\ current'[c] \in Threads => core[current'[c]] = c /\ state'[current'[c]] = "running"
  /\ \A t \in Threads : core[t] # c => state'[t] = st[t] /\ disposition'[t] = ds[t]
  /\ \A t \in Threads : (state'[t] = "terminated" <=> st[t] = "terminated")
  /\ \A t \in Threads : \/ disposition'[t] = ds[t]
                        \/ disposition'[t] = "none" /\ ds[t] # "terminating"
                        \/ /\ disposition'[t] = "none" /\ reason = "parked"
                           /\ t = current[c]
  /\ \A t \in Threads :
       t \in pending /\ core[t] = c /\ ds[t] # "terminating" =>
         (st[t] # "terminated" => state'[t] # "blocked") /\ disposition'[t] = "none"
  /\ \A t \in Threads : state'[t] = "blocked" =>
       \/ st[t] = "blocked"
       \/ reason = "parked" /\ t = current[c] /\ st[t] = "running" /\ disposition'[t] = "none"

\* scheduler::decide readies what was on the intake, lets the running thread
\* depart, and picks.
LEMMA DecideEffect ==
  ASSUME TypeOK, CurrentOK, NEW c \in Cores, NEW reason, NEW st \in [Threads -> States],
         NEW ds \in [Threads -> Dispositions],
         decide(c, reason, st, ds)
  PROVE  Decided(c, reason, st, ds)
<1> DEFINE st1 == DrainedState(c, st, ds)
           ds1 == DrainedDisposition(c, ds)
           departs(t) == t = current[c] /\ st1[t] = "running"
           parks(t) == departs(t) /\ reason = "parked"
           st2 == [t \in Threads |-> IF parks(t) THEN "blocked"
                                     ELSE IF departs(t) THEN "ready" ELSE st1[t]]
<1>1. /\ pending' = pending \ OnCore(c)
      /\ disposition' = [t \in Threads |-> IF parks(t) THEN "none" ELSE ds1[t]]
      /\ run_next(c, st2)
  BY DEF decide
<1>2. ASSUME NEW t \in Threads
      PROVE  /\ st1[t] = IF /\ t \in pending /\ core[t] = c
                            /\ st[t] # "terminated" /\ ds[t] # "terminating"
                         THEN "ready" ELSE st[t]
             /\ ds1[t] = IF t \in pending /\ core[t] = c /\ ds[t] # "terminating"
                         THEN "none" ELSE ds[t]
  BY DEF DrainedState, DrainedDisposition
<1>3. /\ st2 \in [Threads -> States]
      /\ \A t \in Threads : st2[t] = IF parks(t) THEN "blocked"
                                     ELSE IF departs(t) THEN "ready" ELSE st1[t]
  BY <1>2 DEF States
<1>4. /\ disposition' \in [Threads -> Dispositions]
      /\ \A t \in Threads : disposition'[t] = IF parks(t) THEN "none" ELSE ds1[t]
  BY <1>1, <1>2 DEF Dispositions
<1> HIDE DEF st1, ds1, st2
<1>5. Picked(c, st2)
  BY <1>1, <1>3, RunNextEffect
<1>6. current[c] \in Threads => core[current[c]] = c
  BY DEF CurrentOK
<1>7. ASSUME NEW t \in Threads
      PROVE  /\ core[t] # c => state'[t] = st[t] /\ disposition'[t] = ds[t]
             /\ (state'[t] = "terminated" <=> st[t] = "terminated")
             /\ \/ disposition'[t] = ds[t]
                \/ disposition'[t] = "none" /\ ds[t] # "terminating"
                \/ disposition'[t] = "none" /\ reason = "parked" /\ t = current[c]
             /\ t \in pending /\ core[t] = c /\ ds[t] # "terminating" =>
                  (st[t] # "terminated" => state'[t] # "blocked") /\ disposition'[t] = "none"
             /\ state'[t] = "blocked" =>
                  \/ st[t] = "blocked"
                  \/ reason = "parked" /\ t = current[c] /\ st[t] = "running" /\ disposition'[t] = "none"
  BY SMTT(60), <1>2, <1>3, <1>4, <1>5, <1>6 DEF Picked
<1> QED BY <1>1, <1>4, <1>5, <1>7 DEF Picked, Decided

-----------------------------------------------------------------------------
(* The steps *)

\* A wait that begins (this_thread::wait_on) has armed nothing yet.
LEMMA WaitBegins ==
  ASSUME IInv, NEW t \in Threads, NEW op, NEW x, Calls(t, op, x),
         NEW w \in Waitables, NEW s \in AllSignals \cup {None}, s # None => w = Sem,
         Wait(t, w, s)
  PROVE  IInv'
<1> USE DEF Wait, Goto
<1>0. t \in Actors /\ pc[t] = "user" /\ state[t] = "running" /\ ThreadAt(t) /\ TypeOK
  BY CallsRun DEF IInv, Actors
<1> USE <1>0
<1>1. TypeOK'
  BY DEF TypeOK, sched, objs, Places
<1>2. Local(t)
  BY DEF Local, TypeOK, sched, objs
<1>3. QueuesOK' /\ CallsAt(t)'
  BY ConstantsAssumption DEF IInv, QueuesOK, CallsAt, TypeOK, objs
<1>4. ThreadAt(t)'
  BY DEF ThreadAt, EndsAt, NodesAt, WaitAt, SuspendAt, NoneLeftAt, TypeOK, sched, objs
<1> QED BY <1>1, <1>2, <1>3, <1>4, LocalKeeps

\* semaphore::acquire keeps the invariant, on its fast path and when it waits.
LEMMA AcquireStep ==
  ASSUME IInv, NEW t \in Threads, NEW s \in Signals \cup {None}, acquire(t, s)
  PROVE  IInv'
<1>1. CASE counter = 0 /\ Wait(t, Sem, s)
  BY <1>1, WaitBegins DEF acquire, Waitables, AllSignals
<1>2. CASE /\ counter > 0 /\ counter' = counter - 1
           /\ UNCHANGED <<sched, queue, raised, token, pc, locals>>
  <2> USE <1>2 DEF sched, locals
  <2>0. t \in Actors /\ pc[t] = "user" /\ ThreadAt(t) /\ TypeOK
    BY CallsRun DEF IInv, Actors, acquire
  <2>1. TypeOK'
    BY SMTT(60), <2>0 DEF TypeOK
  <2>2. Local(t)
    BY <2>0 DEF Local
  <2>3. QueuesOK' /\ CallsAt(t)'
    BY <2>0 DEF IInv, QueuesOK, CallsAt
  <2>4. ThreadAt(t)'
    BY <2>0 DEF ThreadAt, EndsAt, NodesAt, WaitAt, SuspendAt, NoneLeftAt, FullyArmed,
                WakeUnderWay, Locked
  <2> QED BY <2>0, <2>1, <2>2, <2>3, <2>4, LocalKeeps
<1> QED BY <1>1, <1>2 DEF acquire

\* thread::join and a wait on a signal keep the invariant.
LEMMA WaitOnStep ==
  ASSUME IInv, NEW t \in Threads, NEW s \in AllSignals, wait_on(t, s)
  PROVE  IInv'
BY WaitBegins DEF wait_on, Waitables

\* The intent to park is declared before anything is armed.
LEMMA PrepareStep ==
  ASSUME IInv, NEW t \in Threads, prepare(t)
  PROVE  IInv'
<1> USE DEF prepare, Goto
<1>0. /\ t \in Actors /\ pc[t] = "prepare" /\ state[t] = "running"
      /\ TypeOK /\ CallsAt(t) /\ ThreadAt(t)
  BY ThreadRuns
<1> USE <1>0
<1>1. TypeOK'
  BY DEF TypeOK, objs, locals, Places
<1>2. Local(t)
  BY DEF Local, TypeOK, objs, locals
<1>3. QueuesOK' /\ CallsAt(t)'
  BY DEF IInv, QueuesOK, CallsAt, TypeOK, objs, locals
<1>4. ThreadAt(t)'
  BY DEF ThreadAt, EndsAt, NodesAt, WaitAt, SuspendAt, NoneLeftAt, TypeOK, objs, locals
<1> QED BY <1>1, <1>2, <1>3, <1>4, LocalKeeps

\* wait_queue::arm puts the thread on the queue of its waitable.
LEMMA ArmStep ==
  ASSUME IInv, NEW t \in Threads, arm(t)
  PROVE  IInv'
<1> USE DEF arm, Goto
<1>0. /\ t \in Actors /\ pc[t] = "arm" /\ state[t] = "running" /\ on[t] \in Waitables
      /\ TypeOK /\ CallsAt(t) /\ ThreadAt(t)
  <2>1. /\ t \in Actors /\ pc[t] = "arm" /\ state[t] = "running"
        /\ TypeOK /\ CallsAt(t) /\ ThreadAt(t)
    BY ThreadRuns
  <2> QED BY <2>1 DEF TypeOK, CallsAt
<1> USE <1>0
<1>1. /\ queue' \in [Waitables -> Seq(Threads)] /\ QueuesOK'
      /\ \A v \in Waitables, u \in Threads :
           Armed(queue'[v], u) <=> Armed(queue[v], u) \/ (v = on[t] /\ u = t)
  <2>1. ~Armed(queue[on[t]], t)
    BY DEF ThreadAt, NodesAt
  <2>2. queue' = [queue EXCEPT ![on[t]] = link(@, t)]
    OBVIOUS
  <2> HIDE DEF arm
  <2> QED BY <2>1, <2>2, LinkKeeps
<1>2. TypeOK'
  BY <1>1 DEF TypeOK, sched, locals, Places
<1>3. Local(t)
  BY <1>1 DEF Local, TypeOK, sched, locals
<1>4. CallsAt(t)'
  BY DEF CallsAt, TypeOK, locals
<1>5. ThreadAt(t)'
  BY <1>1 DEF ThreadAt, EndsAt, NodesAt, WaitAt, SuspendAt, NoneLeftAt, FullyArmed,
                    TypeOK, sched, locals, Waitables
<1> QED BY <1>1, <1>2, <1>3, <1>4, <1>5, LocalKeeps

\* The arm of the cancel signal puts it on that queue as well.
LEMMA ArmCancelStep ==
  ASSUME IInv, NEW t \in Threads, arm_cancel(t)
  PROVE  IInv'
<1> USE DEF arm_cancel, Goto
<1>0. /\ t \in Actors /\ pc[t] = "arm_cancel" /\ state[t] = "running"
      /\ cancel[t] \in AllSignals /\ on[t] = Sem /\ cancel[t] # Sem
      /\ TypeOK /\ CallsAt(t) /\ ThreadAt(t)
  <2>1. /\ t \in Actors /\ pc[t] = "arm_cancel" /\ state[t] = "running"
        /\ TypeOK /\ CallsAt(t) /\ ThreadAt(t)
    BY ThreadRuns
  <2> QED BY <2>1, ConstantsAssumption DEF TypeOK, CallsAt
<1> USE <1>0
<1>1. /\ queue' \in [Waitables -> Seq(Threads)] /\ QueuesOK'
      /\ \A v \in Waitables, u \in Threads :
           Armed(queue'[v], u) <=> Armed(queue[v], u) \/ (v = cancel[t] /\ u = t)
  <2>1. cancel[t] \in Waitables /\ ~Armed(queue[cancel[t]], t)
    BY DEF ThreadAt, NodesAt, Waitables
  <2>2. queue' = [queue EXCEPT ![cancel[t]] = link(@, t)]
    OBVIOUS
  <2> HIDE DEF arm_cancel
  <2> QED BY <2>1, <2>2, LinkKeeps
<1>2. TypeOK'
  BY <1>1 DEF TypeOK, sched, locals, Places
<1>3. Local(t)
  BY <1>1 DEF Local, TypeOK, sched, locals
<1>4. CallsAt(t)'
  BY DEF CallsAt, TypeOK, locals
<1>5. EndsAt(t)' /\ NodesAt(t)' /\ SuspendAt(t)' /\ NoneLeftAt(t)'
  BY <1>1 DEF ThreadAt, EndsAt, NodesAt, SuspendAt, NoneLeftAt, TypeOK, sched, locals, Waitables
<1>6. WaitAt(t)'
  <2>1. WakeUnderWay(t) => WakeUnderWay(t)'
    BY DEF WakeUnderWay, TypeOK, sched, locals
  <2> QED BY <1>1, <2>1 DEF ThreadAt, WaitAt, FullyArmed, TypeOK, sched, locals, Waitables
<1> QED BY <1>1, <1>2, <1>3, <1>4, <1>5, <1>6, LocalKeeps DEF ThreadAt

\* The armed poll: a thread it does not satisfy is still armed or being woken.
LEMMA PollStep ==
  ASSUME IInv, NEW t \in Threads, poll(t)
  PROVE  IInv'
<1> USE DEF poll, Goto
<1>0. /\ t \in Actors /\ pc[t] = "poll" /\ state[t] = "running"
      /\ TypeOK /\ CallsAt(t) /\ ThreadAt(t)
  BY ThreadRuns
<1> USE <1>0
<1>1. on[t] \in Waitables
  BY DEF TypeOK, CallsAt
<1>2. TypeOK'
  <2>1. counter' \in Nat
    BY SMTT(60) DEF TypeOK, Satisfiable, Take
  <2> QED BY <2>1 DEF TypeOK, Places
<1>3. Local(t)
  BY DEF Local, TypeOK
<1>4. QueuesOK' /\ CallsAt(t)'
  BY SMTT(60), <1>1, ConstantsAssumption DEF IInv, QueuesOK, CallsAt, TypeOK
<1>5. EndsAt(t)' /\ NodesAt(t)' /\ SuspendAt(t)'
  BY SMTT(60), <1>1, ConstantsAssumption DEF ThreadAt, EndsAt, NodesAt, SuspendAt, CallsAt, TypeOK
<1>6. WaitAt(t)'
  <2>1. WakeUnderWay(t) => WakeUnderWay(t)'
    BY DEF WakeUnderWay, TypeOK
  <2>2. FullyArmed(t) => FullyArmed(t)'
    BY DEF FullyArmed, TypeOK
  <2> QED BY <2>1, <2>2 DEF ThreadAt, WaitAt, TypeOK
<1>7. NoneLeftAt(t)'
  BY SMTT(60), <1>1, ConstantsAssumption
     DEF ThreadAt, NodesAt, NoneLeftAt, Satisfiable, TypeOK, Waitables
<1> QED BY <1>2, <1>3, <1>4, <1>5, <1>6, <1>7, LocalKeeps DEF ThreadAt

\* The armed poll of the cancel: a thread about to park saw the signal down.
LEMMA PollCancelStep ==
  ASSUME IInv, NEW t \in Threads, poll_cancel(t)
  PROVE  IInv'
<1> USE DEF poll_cancel, Goto, objs, locals
<1>0. /\ t \in Actors /\ pc[t] = "poll_cancel" /\ state[t] = "running"
      /\ TypeOK /\ CallsAt(t) /\ ThreadAt(t)
  BY ThreadRuns
<1> USE <1>0
<1>1. cancel[t] \in AllSignals /\ on[t] = Sem
  BY DEF TypeOK, CallsAt
<1>2. TypeOK'
  BY DEF TypeOK, Places
<1>3. Local(t)
  BY DEF Local, TypeOK
<1>4. QueuesOK' /\ CallsAt(t)'
  <2>1. QueuesOK'
    BY DEF IInv, QueuesOK
  <2>2. CallsAt(t)'
    BY SMTT(60) DEF CallsAt, TypeOK
  <2> QED BY <2>1, <2>2
<1>5. EndsAt(t)' /\ NodesAt(t)' /\ SuspendAt(t)'
  BY SMTT(60), <1>1, ConstantsAssumption
     DEF ThreadAt, EndsAt, NodesAt, SuspendAt, TypeOK, Waitables
<1>6. WaitAt(t)'
  <2>1. WakeUnderWay(t) => WakeUnderWay(t)'
    BY DEF WakeUnderWay, TypeOK
  <2>2. FullyArmed(t) => FullyArmed(t)'
    BY DEF FullyArmed, TypeOK
  <2> QED BY <2>1, <2>2 DEF ThreadAt, WaitAt, TypeOK
<1>7. NoneLeftAt(t)'
  <2>1. ASSUME NEW s \in AllSignals, Armed(queue[s], t) PROVE s = cancel[t]
    BY <1>1, <2>1, ConstantsAssumption DEF ThreadAt, NodesAt, Waitables
  <2> QED BY <1>1, <2>1 DEF NoneLeftAt, TypeOK
<1> QED BY <1>2, <1>3, <1>4, <1>5, <1>6, <1>7, LocalKeeps DEF ThreadAt

\* wait_queue::disarm takes the node off, unless a wake has.
LEMMA DisarmStep ==
  ASSUME IInv, NEW t \in Threads, disarm(t)
  PROVE  IInv'
<1> USE DEF disarm, Goto
<1>0. /\ t \in Actors /\ pc[t] = "disarm" /\ state[t] = "running"
      /\ TypeOK /\ CallsAt(t) /\ ThreadAt(t)
  BY ThreadRuns
<1> USE <1>0
<1>1. on[t] \in Waitables
  BY DEF TypeOK, CallsAt
<1>2. /\ queue' \in [Waitables -> Seq(Threads)] /\ QueuesOK'
      /\ \A v \in Waitables, u \in Threads :
           Armed(queue'[v], u) <=> Armed(queue[v], u) /\ ~(v = on[t] /\ u = t)
  <2>1. queue' = [queue EXCEPT ![on[t]] = unlink(@, t)]
    OBVIOUS
  <2> HIDE DEF disarm
  <2> QED BY <1>1, <2>1, UnlinkKeeps
<1>3. TypeOK'
  BY <1>2 DEF TypeOK, sched, Places
<1>4. Local(t)
  BY <1>2 DEF Local, TypeOK, sched
<1>5. CallsAt(t)'
  BY DEF CallsAt, TypeOK
<1>6. ThreadAt(t)'
  BY SMTT(60), <1>2, ConstantsAssumption
     DEF ThreadAt, EndsAt, NodesAt, WaitAt, SuspendAt, NoneLeftAt, TypeOK, sched, Waitables
<1> QED BY <1>2, <1>3, <1>4, <1>5, <1>6, LocalKeeps

\* The disarm of the cancel takes the other node off.
LEMMA DisarmCancelStep ==
  ASSUME IInv, NEW t \in Threads, disarm_cancel(t)
  PROVE  IInv'
<1> USE DEF disarm_cancel, Goto
<1>0. /\ t \in Actors /\ pc[t] = "disarm_cancel" /\ state[t] = "running"
      /\ TypeOK /\ CallsAt(t) /\ ThreadAt(t)
  BY ThreadRuns
<1> USE <1>0
<1>1. cancel[t] \in Waitables
  BY DEF TypeOK, CallsAt, Waitables
<1>2. /\ queue' \in [Waitables -> Seq(Threads)] /\ QueuesOK'
      /\ \A v \in Waitables, u \in Threads :
           Armed(queue'[v], u) <=> Armed(queue[v], u) /\ ~(v = cancel[t] /\ u = t)
  <2>1. queue' = [queue EXCEPT ![cancel[t]] = unlink(@, t)]
    OBVIOUS
  <2> HIDE DEF disarm_cancel
  <2> QED BY <1>1, <2>1, UnlinkKeeps
<1>3. TypeOK'
  BY <1>2 DEF TypeOK, sched, locals, Places
<1>4. Local(t)
  BY <1>2 DEF Local, TypeOK, sched, locals
<1>5. CallsAt(t)'
  BY DEF CallsAt, TypeOK, locals
<1>6. ThreadAt(t)'
  BY SMTT(60), <1>2 DEF ThreadAt, EndsAt, NodesAt, WaitAt, SuspendAt, NoneLeftAt, TypeOK, sched,
                    locals, Waitables
<1> QED BY <1>2, <1>3, <1>4, <1>5, <1>6, LocalKeeps

-----------------------------------------------------------------------------
(* The ends of a wait, the wakers' calls, suspend, resume and exit *)

\* A call of actor a returns, and nothing was scheduled in it.
LEMMA ReturnKeeps ==
  ASSUME IInv, NEW a \in Actors, pc[a] \notin {"raising", "ready", "exiting", "dead"},
         a \in Threads => state[a] = "running" /\ \A w \in Waitables : ~Armed(queue[w], a),
         Return(a), UNCHANGED <<current, state, disposition, pending, queue, raised, token>>,
         doorbell \subseteq doorbell', doorbell' \subseteq Cores, counter' \in Nat
  PROVE  IInv'
<1> USE DEF Return, Goto
<1>0. TypeOK /\ CallsAt(a) /\ (a \in Threads => ThreadAt(a))
  BY DEF IInv
<1> USE <1>0
<1>1. TypeOK'
  BY DEF TypeOK, Places
<1>2. Local(a)
  BY DEF Local, TypeOK
<1>3. QueuesOK' /\ CallsAt(a)'
  BY DEF IInv, QueuesOK, CallsAt, TypeOK
<1>4. ASSUME a \in Threads PROVE ThreadAt(a)'
  BY <1>4 DEF ThreadAt, EndsAt, NodesAt, WaitAt, SuspendAt, NoneLeftAt, TypeOK
<1> QED BY <1>1, <1>2, <1>3, <1>4, LocalKeeps

\* A wait satisfied while armed returns, or passes on the wake that took it.
LEMMA ConcludeStep ==
  ASSUME IInv, NEW t \in Threads, conclude(t)
  PROVE  IInv'
<1>0. /\ t \in Actors /\ pc[t] = "after" /\ state[t] = "running"
      /\ TypeOK /\ CallsAt(t) /\ ThreadAt(t)
  BY ThreadRuns DEF conclude
<1> USE <1>0
<1>1. CASE Return(t)
  BY <1>1, ReturnKeeps DEF conclude, sched, objs, ThreadAt, NodesAt, TypeOK
<1>2. CASE /\ Goto(t, "wake")
           /\ cancel' = [cancel EXCEPT ![t] = None]
           /\ satisfied' = [satisfied EXCEPT ![t] = FALSE]
           /\ gone' = [gone EXCEPT ![t] = FALSE]
           /\ UNCHANGED <<on, chosen, hint>>
  <2> USE <1>2 DEF conclude, Goto, sched, objs
  <2>1. TypeOK'
    BY DEF TypeOK, Places
  <2>2. Local(t)
    BY DEF Local, TypeOK
  <2>3. QueuesOK' /\ CallsAt(t)'
    BY DEF IInv, QueuesOK, CallsAt, TypeOK
  <2>4. ThreadAt(t)'
    BY DEF ThreadAt, EndsAt, NodesAt, WaitAt, SuspendAt, NoneLeftAt, TypeOK
  <2> QED BY <2>1, <2>2, <2>3, <2>4, LocalKeeps
<1> QED BY <1>1, <1>2 DEF conclude

\* The unarmed poll of the waitable returns or goes on, with no node left.
LEMMA RepollStep ==
  ASSUME IInv, NEW t \in Threads, repoll(t)
  PROVE  IInv'
<1>0. /\ t \in Actors /\ pc[t] = "after" /\ state[t] = "running"
      /\ TypeOK /\ CallsAt(t) /\ ThreadAt(t)
  BY ThreadRuns DEF repoll
<1> USE <1>0
<1>1. CASE Satisfiable(on[t]) /\ Take(on[t]) /\ Return(t)
  <2>1. counter' \in Nat
    BY SMTT(60), <1>1 DEF TypeOK, Satisfiable, Take
  <2> QED BY <1>1, <2>1, ReturnKeeps DEF repoll, sched, ThreadAt, NodesAt, TypeOK
<1>2. CASE /\ Goto(t, IF cancel[t] = None THEN "prepare" ELSE "recheck")
           /\ gone' = [gone EXCEPT ![t] = FALSE]
           /\ UNCHANGED <<counter, on, cancel, satisfied, chosen, hint>>
  <2> USE <1>2 DEF repoll, Goto, sched
  <2>1. TypeOK'
    BY DEF TypeOK, Places
  <2>2. Local(t)
    BY DEF Local, TypeOK
  <2>3. QueuesOK' /\ CallsAt(t)'
    BY DEF IInv, QueuesOK, CallsAt, TypeOK
  <2>4. ThreadAt(t)'
    BY DEF ThreadAt, EndsAt, NodesAt, WaitAt, SuspendAt, NoneLeftAt, TypeOK
  <2> QED BY <2>1, <2>2, <2>3, <2>4, LocalKeeps
<1> QED BY <1>1, <1>2 DEF repoll

\* A raised cancel ends the wait; otherwise it starts over.
LEMMA RecheckStep ==
  ASSUME IInv, NEW t \in Threads, recheck(t)
  PROVE  IInv'
<1>0. /\ t \in Actors /\ pc[t] = "recheck" /\ state[t] = "running"
      /\ TypeOK /\ CallsAt(t) /\ ThreadAt(t)
  BY ThreadRuns DEF recheck
<1> USE <1>0
<1>1. CASE Return(t)
  BY <1>1, ReturnKeeps DEF recheck, sched, objs, ThreadAt, NodesAt, TypeOK
<1>2. CASE Goto(t, "prepare") /\ UNCHANGED locals
  <2> USE <1>2 DEF recheck, Goto, sched, objs, locals
  <2>1. TypeOK'
    BY DEF TypeOK, Places
  <2>2. Local(t)
    BY DEF Local, TypeOK
  <2>3. QueuesOK' /\ CallsAt(t)'
    BY DEF IInv, QueuesOK, CallsAt, TypeOK
  <2>4. ThreadAt(t)'
    BY DEF ThreadAt, EndsAt, NodesAt, WaitAt, SuspendAt, NoneLeftAt, TypeOK
  <2> QED BY <2>1, <2>2, <2>3, <2>4, LocalKeeps
<1> QED BY <1>1, <1>2 DEF recheck

\* semaphore::release adds its token before it looks for a waiter.
LEMMA ReleaseStep ==
  ASSUME IInv, NEW a \in Actors, release(a)
  PROVE  IInv'
<1>0. /\ pc[a] \in {"user", "idle"} /\ TypeOK /\ CallsAt(a)
      /\ a \in Threads => state[a] = "running" /\ ThreadAt(a)
  BY CallsRun DEF release
<1> USE <1>0
<1> USE DEF release, Goto, sched
<1>1. TypeOK'
  <2>1. counter' \in Nat
    BY SMTT(60) DEF TypeOK
  <2> QED BY <2>1 DEF TypeOK, Places, Waitables
<1>2. Local(a)
  BY DEF Local, TypeOK
<1>3. QueuesOK' /\ CallsAt(a)'
  BY ConstantsAssumption DEF IInv, QueuesOK, CallsAt, TypeOK, Waitables
<1>4. ASSUME a \in Threads PROVE ThreadAt(a)'
  BY <1>4 DEF ThreadAt, EndsAt, NodesAt, WaitAt, SuspendAt, NoneLeftAt, TypeOK
<1> QED BY <1>1, <1>2, <1>3, <1>4, LocalKeeps

\* The look at the queue without its lock changes nobody else.
LEMMA MayHaveWaitersStep ==
  ASSUME IInv, NEW a \in Actors, may_have_waiters(a)
  PROVE  IInv'
<1>0. /\ pc[a] = "peek" /\ TypeOK /\ CallsAt(a)
      /\ a \in Threads => state[a] = "running" /\ ThreadAt(a)
  BY ActorRuns DEF may_have_waiters
<1> USE <1>0
<1>1. CASE Return(a)
  BY <1>1, ReturnKeeps DEF may_have_waiters, sched, objs, ThreadAt, NodesAt, TypeOK
<1>2. CASE Goto(a, "wake") /\ UNCHANGED locals
  <2> USE <1>2 DEF may_have_waiters, Goto, sched, objs, locals
  <2>1. TypeOK'
    BY DEF TypeOK, Places
  <2>2. Local(a)
    BY DEF Local, TypeOK
  <2>3. QueuesOK' /\ CallsAt(a)'
    BY DEF IInv, QueuesOK, CallsAt, TypeOK
  <2>4. ASSUME a \in Threads PROVE ThreadAt(a)'
    BY <2>4 DEF ThreadAt, EndsAt, NodesAt, WaitAt, SuspendAt, NoneLeftAt, TypeOK
  <2> QED BY <2>1, <2>2, <2>3, <2>4, LocalKeeps
<1> QED BY <1>1, <1>2 DEF may_have_waiters

\* wait_queue::wake_one owes the thread it takes off the queue its wake.
LEMMA WakeOneStep ==
  ASSUME IInv, NEW a \in Actors, wake_one(a)
  PROVE  IInv'
<1>0. /\ pc[a] = "wake" /\ TypeOK /\ CallsAt(a)
      /\ a \in Threads => state[a] = "running" /\ ThreadAt(a)
  BY ActorRuns DEF wake_one
<1> USE <1>0
<1>1. CASE Return(a) /\ UNCHANGED queue
  BY <1>1, ReturnKeeps DEF wake_one, sched, ThreadAt, NodesAt, TypeOK
<1>2. CASE /\ queue[on[a]] # <<>>
           /\ chosen' = [chosen EXCEPT ![a] = Head(queue[on[a]])]
           /\ queue' = [queue EXCEPT ![on[a]] = Tail(@)]
           /\ on' = [on EXCEPT ![a] = None]
           /\ Goto(a, "ready")
           /\ UNCHANGED <<cancel, satisfied, gone, hint>>
  <2>0. on[a] \in Waitables /\ cancel[a] = None
    BY DEF TypeOK, CallsAt
  <2>1. /\ queue' \in [Waitables -> Seq(Threads)] /\ QueuesOK'
        /\ Head(queue[on[a]]) \in Threads
        /\ \A v \in Waitables, u \in Threads :
             Armed(queue'[v], u) <=> Armed(queue[v], u) /\ ~(v = on[a] /\ u = Head(queue[on[a]]))
    BY <1>2, <2>0, PopKeeps
  <2>2. TypeOK'
    BY <1>2, <2>1 DEF wake_one, TypeOK, Goto, sched, Places
  <2>3. Local(a)
    BY <1>2, <2>1 DEF wake_one, Local, TypeOK, Goto, sched
  <2>4. CallsAt(a)'
    BY <1>2, <2>0, <2>1, ConstantsAssumption DEF CallsAt, TypeOK, Goto, Waitables, AllSignals
  <2>5. ASSUME a \in Threads PROVE ThreadAt(a)'
    BY <1>2, <2>1, <2>5 DEF wake_one, Goto, sched, ThreadAt, EndsAt, NodesAt, WaitAt,
       SuspendAt, NoneLeftAt, TypeOK, Waitables
  <2> QED BY <2>1, <2>2, <2>3, <2>4, <2>5, LocalKeeps
<1> QED BY <1>1, <1>2 DEF wake_one

\* cancel_signal::raise raises the flag under the lock it goes on holding.
LEMMA RaiseStep ==
  ASSUME IInv, NEW a \in Actors, NEW s \in Signals, raise(a, s)
  PROVE  IInv'
<1>0. /\ pc[a] \in {"user", "idle"} /\ TypeOK /\ CallsAt(a)
      /\ a \in Threads => state[a] = "running" /\ ThreadAt(a)
  BY CallsRun DEF raise
<1> USE <1>0
<1> USE DEF raise, Goto, sched
<1>1. TypeOK'
  BY DEF TypeOK, Places, Waitables, AllSignals
<1>2. Local(a)
  BY DEF Local, TypeOK
<1>3. QueuesOK' /\ CallsAt(a)'
  <2>1. cancel[a] = None
    BY ConstantsAssumption DEF CallsAt, TypeOK, Waitables
  <2> QED BY <2>1, ConstantsAssumption DEF IInv, QueuesOK, CallsAt, TypeOK, Waitables, AllSignals
<1>4. ASSUME a \in Threads PROVE ThreadAt(a)'
  BY <1>4, ConstantsAssumption DEF ThreadAt, EndsAt, NodesAt, WaitAt, SuspendAt, NoneLeftAt, TypeOK
<1> QED BY <1>1, <1>2, <1>3, <1>4, LocalKeeps

\* cancel_signal::reset lowers a signal that nothing waits on.
LEMMA ResetStep ==
  ASSUME IInv, NEW t \in Threads, NEW s \in Signals, reset(t, s)
  PROVE  IInv'
<1>0. t \in Actors /\ pc[t] = "user" /\ TypeOK /\ CallsAt(t) /\ state[t] = "running" /\ ThreadAt(t)
  BY CallsRun DEF reset, Actors
<1> USE <1>0
<1> USE DEF reset, sched, locals
<1>1. TypeOK'
  BY DEF TypeOK
<1>2. Local(t)
  BY DEF Local, TypeOK
<1>3. QueuesOK' /\ CallsAt(t)'
  BY DEF IInv, QueuesOK, CallsAt
<1>4. ThreadAt(t)'
  BY DEF ThreadAt, EndsAt, NodesAt, WaitAt, SuspendAt, NoneLeftAt
<1> QED BY <1>1, <1>2, <1>3, <1>4, LocalKeeps

\* The end of a raise may only ask its core for a reschedule.
LEMMA PreemptEnableStep ==
  ASSUME IInv, NEW a \in Actors, preempt_enable(a)
  PROVE  IInv'
<1>0. /\ pc[a] = "enable" /\ TypeOK /\ CallsAt(a)
      /\ a \in Threads => state[a] = "running" /\ ThreadAt(a)
  BY ActorRuns DEF preempt_enable
<1>1. doorbell \subseteq doorbell' /\ doorbell' \subseteq Cores
  BY <1>0, ConstantsAssumption DEF preempt_enable, TypeOK
<1> QED BY <1>0, <1>1, ReturnKeeps DEF preempt_enable, objs, ThreadAt, NodesAt, TypeOK

\* this_thread::suspend declares its intent to park before it looks.
LEMMA SuspendStep ==
  ASSUME IInv, NEW t \in Threads, suspend(t) \/ suspend_prepare(t)
  PROVE  IInv'
<1>0. /\ t \in Actors /\ pc[t] \in {"user", "suspend"} /\ state[t] = "running"
      /\ TypeOK /\ CallsAt(t) /\ ThreadAt(t)
  BY CallsRun, ThreadRuns DEF suspend, suspend_prepare, Actors
<1> USE <1>0
<1> USE DEF suspend, suspend_prepare, Goto, sched, objs, locals
<1>1. TypeOK'
  BY DEF TypeOK, Places
<1>2. Local(t)
  BY DEF Local, TypeOK
<1>3. QueuesOK' /\ CallsAt(t)'
  <2>1. QueuesOK'
    BY DEF IInv, QueuesOK
  <2>2. CallsAt(t)'
    BY DEF CallsAt, TypeOK
  <2> QED BY <2>1, <2>2
<1>4. ThreadAt(t)'
  BY DEF ThreadAt, EndsAt, NodesAt, WaitAt, SuspendAt, NoneLeftAt, TypeOK
<1> QED BY <1>1, <1>2, <1>3, <1>4, LocalKeeps

\* The look of suspend takes the token, or a later resume owes a wake.
LEMMA SuspendLookStep ==
  ASSUME IInv, NEW t \in Threads, suspend_look(t)
  PROVE  IInv'
<1>0. /\ t \in Actors /\ pc[t] = "look" /\ state[t] = "running"
      /\ TypeOK /\ CallsAt(t) /\ ThreadAt(t)
  BY ThreadRuns DEF suspend_look
<1> USE <1>0
<1> USE DEF suspend_look, Goto, locals
<1>1. TypeOK'
  BY DEF TypeOK, Places
<1>2. Local(t)
  BY DEF Local, TypeOK
<1>3. QueuesOK' /\ CallsAt(t)'
  <2>1. QueuesOK'
    BY DEF IInv, QueuesOK
  <2>2. CallsAt(t)'
    BY DEF CallsAt, TypeOK
  <2> QED BY <2>1, <2>2
<1>4. ThreadAt(t)'
  BY ConstantsAssumption
     DEF ThreadAt, CallsAt, EndsAt, NodesAt, WaitAt, SuspendAt, NoneLeftAt, TypeOK, Waitables
<1> QED BY <1>1, <1>2, <1>3, <1>4, LocalKeeps

\* thread::resume sets the token and owes the thread a wake.
LEMMA ResumeStep ==
  ASSUME IInv, NEW a \in Actors, NEW u \in Threads, resume(a, u)
  PROVE  IInv'
<1>0. /\ pc[a] \in {"user", "idle"} /\ TypeOK /\ CallsAt(a)
      /\ a \in Threads => state[a] = "running" /\ ThreadAt(a)
  BY CallsRun DEF resume
<1> USE <1>0
<1> USE DEF resume, Goto, sched
<1>1. TypeOK'
  BY DEF TypeOK, Places
<1>2. Local(a)
  BY DEF Local, TypeOK
<1>3. QueuesOK' /\ CallsAt(a)'
  BY ConstantsAssumption DEF IInv, QueuesOK, CallsAt, TypeOK, Waitables, AllSignals
<1>4. ASSUME a \in Threads PROVE ThreadAt(a)'
  BY <1>4 DEF ThreadAt, EndsAt, NodesAt, WaitAt, SuspendAt, NoneLeftAt, TypeOK
<1> QED BY <1>1, <1>2, <1>3, <1>4, LocalKeeps

\* this_thread::thread_exit marks a thread that is in no wait.
LEMMA ThreadExitStep ==
  ASSUME IInv, NEW t \in Threads, thread_exit(t)
  PROVE  IInv'
<1>0. t \in Actors /\ pc[t] = "user" /\ TypeOK /\ CallsAt(t) /\ state[t] = "running" /\ ThreadAt(t)
  BY CallsRun DEF thread_exit, Actors
<1> USE <1>0
<1> USE DEF thread_exit, Goto, objs, locals
<1>1. TypeOK'
  BY DEF TypeOK, Places
<1>2. Local(t)
  BY DEF Local, TypeOK
<1>3. QueuesOK' /\ CallsAt(t)'
  BY DEF IInv, QueuesOK, CallsAt, TypeOK
<1>4. ThreadAt(t)'
  BY DEF ThreadAt, EndsAt, NodesAt, WaitAt, SuspendAt, NoneLeftAt, TypeOK
<1> QED BY <1>1, <1>2, <1>3, <1>4, LocalKeeps

-----------------------------------------------------------------------------
(* The steps that schedule, park, wake and raise *)

\* A step of the scheduler that parks nobody: it loses no wake on an intake.
Scheduled ==
  /\ current' \in [Cores -> Threads \cup {Idle}] /\ state' \in [Threads -> States]
  /\ disposition' \in [Threads -> Dispositions]
  /\ pending' \subseteq Threads /\ doorbell' \subseteq Cores
  /\ CurrentOK' /\ RungOK'
  /\ \A t \in Threads :
       /\ state'[t] = "blocked" => state[t] = "blocked"
       /\ state'[t] = "terminated" => state[t] = "terminated"
       /\ disposition'[t] = "prepared" => disposition[t] = "prepared"
       /\ disposition'[t] = "terminating" <=> disposition[t] = "terminating"
       /\ t \in pending => t \in pending' \/ (state'[t] # "blocked" /\ disposition'[t] # "prepared")

\* Thread u has been readied, or is on its core's intake.
Readied(u) == u \in pending' \/ (state'[u] # "blocked" /\ disposition'[u] # "prepared")

\* A reschedule that parks nobody only readies threads and switches.
LEMMA YieldSchedules ==
  ASSUME IInv, NEW c \in Cores, decide(c, "yielded", state, disposition),
         doorbell' \in {doorbell, doorbell \ {c}}
  PROVE  Scheduled
<1>0. TypeOK /\ CurrentOK /\ RungOK /\ \A t \in Threads : EndsAt(t)
  BY DEF IInv, ThreadAt
<1> USE <1>0
<1>1. state \in [Threads -> States] /\ disposition \in [Threads -> Dispositions]
  BY DEF TypeOK, States, Dispositions
<1>2. /\ current' \in [Cores -> Threads \cup {Idle}]
      /\ state' \in [Threads -> States] /\ disposition' \in [Threads -> Dispositions]
      /\ pending' = pending \ OnCore(c)
      /\ \A d \in Cores : d # c => current'[d] = current[d]
      /\ current'[c] \in Threads => core[current'[c]] = c /\ state'[current'[c]] = "running"
      /\ \A t \in Threads : core[t] # c => state'[t] = state[t] /\ disposition'[t] = disposition[t]
      /\ \A t \in Threads : (state'[t] = "terminated" <=> state[t] = "terminated")
      /\ \A t \in Threads : \/ disposition'[t] = disposition[t]
                            \/ disposition'[t] = "none" /\ disposition[t] # "terminating"
      /\ \A t \in Threads :
           t \in pending /\ core[t] = c /\ disposition[t] # "terminating" =>
             (state[t] # "terminated" => state'[t] # "blocked") /\ disposition'[t] = "none"
      /\ \A t \in Threads : state'[t] = "blocked" => state[t] = "blocked"
  <2>1. Decided(c, "yielded", state, disposition)
    BY <1>1, DecideEffect
  <2> QED BY <2>1 DEF Decided
<1>3. pending' \subseteq Threads /\ doorbell' \subseteq Cores /\ CurrentOK' /\ RungOK'
  BY SMTT(60), <1>2 DEF TypeOK, CurrentOK, RungOK, OnCore
<1>4. ASSUME NEW t \in Threads
      PROVE  /\ state'[t] = "blocked" => state[t] = "blocked"
             /\ state'[t] = "terminated" => state[t] = "terminated"
             /\ disposition'[t] = "prepared" => disposition[t] = "prepared"
             /\ disposition'[t] = "terminating" <=> disposition[t] = "terminating"
             /\ t \in pending =>
                  t \in pending' \/ (state'[t] # "blocked" /\ disposition'[t] # "prepared")
  BY <1>2 DEF EndsAt, OnCore
<1> QED BY <1>2, <1>3, <1>4 DEF Scheduled

\* scheduler::post_intake leaves the thread on a rung intake.
LEMMA PostSchedules ==
  ASSUME IInv, NEW u \in Threads, post_intake(u)
  PROVE  Scheduled /\ Readied(u)
<1>0. TypeOK /\ CurrentOK /\ RungOK /\ core[u] \in Cores
  BY ConstantsAssumption DEF IInv, Actors
<1> USE <1>0
<1>1. CurrentOK'
  BY DEF post_intake, CurrentOK
<1>2. RungOK'
  BY SMTT(60) DEF post_intake, RungOK, OnCore, TypeOK
<1> QED BY <1>1, <1>2 DEF Scheduled, Readied, post_intake, TypeOK, States, Dispositions

\* scheduler::set_thread_ready readies the thread or revokes its park.
LEMMA SetReadySchedules ==
  ASSUME IInv, NEW u \in Threads, NEW policy, set_thread_ready(u, policy),
         disposition[u] # "terminating"
  PROVE  Scheduled /\ Readied(u)
<1> DEFINE c == core[u]
           ds == [disposition EXCEPT ![u] = "none"]
           st == IF state[u] = "blocked" THEN [state EXCEPT ![u] = "ready"] ELSE state
<1>0. /\ TypeOK /\ CurrentOK /\ RungOK /\ c \in Cores /\ \A t \in Threads : EndsAt(t)
  BY ConstantsAssumption DEF IInv, ThreadAt, Actors
<1> USE <1>0
<1>1. /\ st \in [Threads -> States] /\ ds \in [Threads -> Dispositions]
      /\ \A t \in Threads :
           /\ t # u => st[t] = state[t] /\ ds[t] = disposition[t]
           /\ st[t] = state[t] \/ (t = u /\ state[t] = "blocked" /\ st[t] = "ready")
      /\ ds[u] = "none" /\ st[u] # "blocked"
  BY DEF TypeOK, States, Dispositions
<1>2. CASE decide(c, "preempted", st, ds) /\ UNCHANGED doorbell
  <2> HIDE DEF c, ds, st
  <2>1. /\ current' \in [Cores -> Threads \cup {Idle}]
        /\ state' \in [Threads -> States] /\ disposition' \in [Threads -> Dispositions]
        /\ pending' = pending \ OnCore(c)
        /\ \A d \in Cores : d # c => current'[d] = current[d]
        /\ current'[c] \in Threads => core[current'[c]] = c /\ state'[current'[c]] = "running"
        /\ \A t \in Threads : core[t] # c => state'[t] = st[t] /\ disposition'[t] = ds[t]
        /\ \A t \in Threads : (state'[t] = "terminated" <=> st[t] = "terminated")
        /\ \A t \in Threads : \/ disposition'[t] = ds[t]
                              \/ disposition'[t] = "none" /\ ds[t] # "terminating"
        /\ \A t \in Threads :
             t \in pending /\ core[t] = c /\ ds[t] # "terminating" =>
               (st[t] # "terminated" => state'[t] # "blocked") /\ disposition'[t] = "none"
        /\ \A t \in Threads : state'[t] = "blocked" => st[t] = "blocked"
    <3>1. Decided(c, "preempted", st, ds)
      BY <1>1, <1>2, DecideEffect
    <3> QED BY <3>1 DEF Decided
  <2>2. core[u] = c
    BY DEF c
  <2>3. pending' \subseteq Threads /\ doorbell' \subseteq Cores /\ RungOK'
    BY <1>2, <2>1 DEF TypeOK, RungOK, OnCore
  <2>4. CurrentOK'
    <3>1. ASSUME NEW d \in Cores, d # c, current'[d] \in Threads
          PROVE  core[current'[d]] = d /\ state'[current'[d]] = state[current[d]]
      BY SMTT(60), <1>1, <2>1, <2>2, <3>1 DEF CurrentOK
    <3> QED BY SMTT(60), <2>1, <3>1 DEF CurrentOK
  <2>5. ASSUME NEW t \in Threads
        PROVE  /\ state'[t] = "blocked" => state[t] = "blocked"
               /\ state'[t] = "terminated" => state[t] = "terminated"
               /\ disposition'[t] = "prepared" => disposition[t] = "prepared"
               /\ disposition'[t] = "terminating" <=> disposition[t] = "terminating"
               /\ t \in pending =>
                    t \in pending' \/ (state'[t] # "blocked" /\ disposition'[t] # "prepared")
    BY SMTT(60), <1>1, <2>1 DEF EndsAt, OnCore
  <2>6. state'[u] # "blocked" /\ disposition'[u] # "prepared"
    BY <1>1, <2>1
  <2> QED BY <2>1, <2>3, <2>4, <2>5, <2>6 DEF Scheduled, Readied
<1>3. CASE /\ state' = st /\ disposition' = ds
           /\ doorbell \subseteq doorbell' /\ doorbell' \subseteq doorbell \cup {c}
           /\ UNCHANGED <<current, pending>>
  <2> HIDE DEF c, ds, st
  <2>1. pending' \subseteq Threads /\ doorbell' \subseteq Cores /\ RungOK'
    BY <1>3 DEF TypeOK, RungOK
  <2>2. CurrentOK'
    BY <1>1, <1>3 DEF TypeOK, CurrentOK
  <2> QED BY <1>1, <1>3, <2>1, <2>2 DEF Scheduled, Readied, TypeOK
<1> QED BY <1>2, <1>3 DEF set_thread_ready

\* global_ready_thread, on either road, wakes the thread it is given.
LEMMA ReadySchedules ==
  ASSUME IInv, NEW a \in Actors, NEW u \in Threads, NEW policy, global_ready_thread(a, u, policy)
  PROVE  Scheduled /\ Readied(u)
<1>0. TypeOK /\ CurrentOK /\ RungOK /\ EndsAt(u)
  BY DEF IInv, ThreadAt
<1>1. CASE /\ state[u] = "terminated" \/ disposition[u] = "terminating"
           /\ UNCHANGED sched
  <2>1. CurrentOK' /\ RungOK'
    BY <1>0, <1>1 DEF CurrentOK, RungOK, sched
  <2> QED BY <1>0, <1>1, <2>1 DEF Scheduled, Readied, EndsAt, TypeOK, sched, States, Dispositions
<1>2. CASE post_intake(u)
  BY <1>2, PostSchedules
<1>3. CASE disposition[u] # "terminating" /\ set_thread_ready(u, policy)
  BY <1>3, SetReadySchedules
<1> QED BY <1>1, <1>2, <1>3 DEF global_ready_thread

\* A switch, with nothing else changed.
LEMMA SwitchKeeps ==
  ASSUME IInv, Scheduled, UNCHANGED <<objs, pc, locals>>
  PROVE  IInv'
<1> USE DEF objs, locals
<1>1. TypeOK'
  BY DEF IInv, TypeOK, Scheduled, States, Dispositions
<1>2. QueuesOK' /\ \A a \in Actors : CallsAt(a)'
  BY DEF IInv, QueuesOK, CallsAt
<1>3. ASSUME NEW b \in Threads PROVE Follows(b)
  <2>1. WakeUnderWay(b) => WakeUnderWay(b)' \/ (state'[b] # "blocked" /\ disposition'[b] # "prepared")
    BY DEF WakeUnderWay, Scheduled, RungOK
  <2>2. \A s : Locked(s)' <=> Locked(s)
    BY DEF Locked
  <2> QED BY <2>1, <2>2 DEF Follows, Scheduled
<1> QED BY <1>1, <1>2, <1>3, FollowsKeeps DEF IInv, Scheduled

\* The look of the idle loop at the intake keeps the invariant.
LEMMA IdleStep ==
  ASSUME IInv, NEW c \in Cores, idle_task(c)
  PROVE  IInv'
BY YieldSchedules, SwitchKeeps DEF idle_task

\* scheduler::yield keeps the invariant.
LEMMA YieldStep ==
  ASSUME IInv, NEW t \in Threads, yield(t)
  PROVE  IInv'
<1>1. core[t] \in Cores
  BY ConstantsAssumption DEF Actors
<1> QED BY <1>1, YieldSchedules, SwitchKeeps DEF yield

\* scheduler::set_thread_terminated begins the raise of the termination.
LEMMA RetireKeeps ==
  ASSUME IInv, NEW t \in Threads, Retire(t), current[core[t]] = t, pc[t] # "raising",
         disposition[t] = "terminating", doorbell' \in {doorbell, doorbell \ {core[t]}}
  PROVE  IInv'
<1> DEFINE c == core[t]
<1>0. /\ t \in Actors /\ c \in Cores /\ TypeOK /\ CurrentOK /\ RungOK /\ QueuesOK
      /\ \A a \in Actors : CallsAt(a)
      /\ \A b \in Threads : ThreadAt(b)
  BY ConstantsAssumption DEF IInv, Actors
<1> USE <1>0
<1>1. pc[t] \in {"exiting", "dead"} /\ on[t] = None /\ cancel[t] = None
  <2>1. pc[t] \in {"exiting", "dead"}
    BY DEF ThreadAt, EndsAt
  <2> QED BY <2>1, ConstantsAssumption DEF CallsAt, Waitables
<1>2. /\ pending' = pending \ OnCore(c) /\ current' = current
      /\ \A b \in Threads :
           state'[b] = IF b = t THEN "terminated"
                       ELSE IF /\ b \in pending /\ core[b] = c
                               /\ state[b] # "terminated" /\ disposition[b] # "terminating"
                            THEN "ready" ELSE state[b]
      /\ \A b \in Threads :
           disposition'[b] = IF b \in pending /\ core[b] = c /\ disposition[b] # "terminating"
                             THEN "none" ELSE disposition[b]
  BY DEF Retire, DrainedState, DrainedDisposition
<1>3. /\ state' \in [Threads -> States] /\ disposition' \in [Threads -> Dispositions]
      /\ pending' \subseteq Threads /\ doorbell' \subseteq Cores
  BY DEF Retire, DrainedState, DrainedDisposition, TypeOK, States, Dispositions
<1>4. /\ raised' = [raised EXCEPT ![t] = TRUE] /\ pc' = [pc EXCEPT ![t] = "raising"]
      /\ on' = [on EXCEPT ![t] = t]
      /\ UNCHANGED <<queue, counter, token, cancel, satisfied, gone, chosen, hint>>
  BY DEF Retire, Goto
<1>5. TypeOK'
  BY <1>2, <1>3, <1>4
     DEF TypeOK, States, Dispositions, Places, Waitables, AllSignals
<1>6. CurrentOK' /\ RungOK'
  BY SMTT(60), <1>2 DEF CurrentOK, RungOK, OnCore, TypeOK
<1>7. QueuesOK' /\ \A a \in Actors : CallsAt(a)'
  BY <1>1, <1>4, ConstantsAssumption DEF QueuesOK, CallsAt, TypeOK, Waitables, AllSignals
<1>8. ASSUME NEW b \in Threads, b # t PROVE Follows(b)
  <2>0. b \in Actors /\ EndsAt(b)
    BY DEF ThreadAt, Actors
  <2>1. WakeUnderWay(b) => WakeUnderWay(b)' \/ (state'[b] # "blocked" /\ disposition'[b] # "prepared")
    BY <1>1, <1>2, <1>4, <1>6, <1>8, <2>0 DEF WakeUnderWay, RungOK, OnCore, EndsAt, TypeOK
  <2>2. ASSUME NEW s \in AllSignals, raised'[s], ~Locked(s)' PROVE raised[s] /\ ~Locked(s)
    BY <1>1, <1>4, <2>2 DEF Locked, TypeOK
  <2>3. /\ pc'[b] = pc[b] /\ on'[b] = on[b] /\ cancel'[b] = cancel[b]
        /\ state'[b] = "blocked" => state[b] = "blocked"
        /\ state'[b] = "terminated" => state[b] = "terminated"
        /\ disposition'[b] = "prepared" => disposition[b] = "prepared"
        /\ disposition'[b] = "terminating" <=> disposition[b] = "terminating"
    BY <1>2, <1>4, <1>8, <2>0 DEF TypeOK
  <2> QED BY <1>4, <2>1, <2>2, <2>3 DEF Follows
<1>9. ThreadAt(t)'
  <2>1. /\ pc'[t] = "raising" /\ on'[t] = t /\ cancel'[t] = None /\ state'[t] = "terminated"
        /\ disposition'[t] = "terminating" /\ queue' = queue
    BY <1>1, <1>2, <1>4 DEF TypeOK
  <2>2. \A w \in Waitables : ~Armed(queue[w], t)
    BY <1>1 DEF ThreadAt, NodesAt
  <2>3. EndsAt(t)' /\ WaitAt(t)' /\ SuspendAt(t)'
    BY <2>1 DEF EndsAt, WaitAt, SuspendAt
  <2>4. NodesAt(t)' /\ NoneLeftAt(t)'
    BY <2>1, <2>2 DEF NodesAt, NoneLeftAt, Waitables
  <2> QED BY <2>3, <2>4 DEF ThreadAt
<1> QED BY <1>5, <1>6, <1>7, <1>8, <1>9, FollowsKeeps DEF IInv

\* scheduler::reschedule, the handler's road, keeps the invariant.
LEMMA RescheduleStep ==
  ASSUME IInv, NEW c \in Cores, reschedule(c)
  PROVE  IInv'
<1>1. CASE current[c] \in Threads /\ disposition[current[c]] = "terminating"
  <2>1. /\ core[current[c]] = c /\ pc[current[c]] # "raising" /\ Retire(current[c])
        /\ doorbell' = doorbell \ {c}
    BY <1>1 DEF reschedule, Preemptible, RunningAt, IInv, CurrentOK
  <2> QED BY <1>1, <2>1, RetireKeeps
<1>2. CASE ~(current[c] \in Threads /\ disposition[current[c]] = "terminating")
  BY <1>2, YieldSchedules, SwitchKeeps DEF reschedule
<1> QED BY <1>1, <1>2

\* The switch away that ends thread_exit retires the thread.
LEMMA ThreadYieldStep ==
  ASSUME IInv, NEW t \in Threads, thread_yield(t)
  PROVE  IInv'
<1>1. pc[t] = "exiting" /\ current[core[t]] = t /\ ThreadAt(t)
  BY DEF thread_yield, At, IInv
<1>2. disposition[t] = "terminating"
  BY <1>1 DEF ThreadAt, EndsAt
<1> QED BY <1>1, <1>2, RetireKeeps DEF thread_yield

-----------------------------------------------------------------------------
(* The park of a thread, the wakes and the raises *)

\* commit_to_block parks only a thread that can still be woken.
LEMMA CommitStep ==
  ASSUME IInv, NEW t \in Threads, commit_to_block(t)
  PROVE  IInv'
<1>0. /\ t \in Actors /\ pc[t] = "commit" /\ state[t] = "running"
      /\ TypeOK /\ CallsAt(t) /\ ThreadAt(t)
  BY ThreadRuns DEF commit_to_block
<1> USE <1>0
<1>1. /\ pc' = [pc EXCEPT ![t] = IF on[t] = None THEN "suspend" ELSE "disarm"]
      /\ UNCHANGED <<queue, counter, raised, token, on, cancel, satisfied, gone, chosen, hint>>
  BY DEF commit_to_block, Goto, objs, locals
<1>2. QueuesOK' /\ CallsAt(t)'
  <2>1. QueuesOK'
    BY <1>1 DEF IInv, QueuesOK
  <2>2. CallsAt(t)'
    BY <1>1 DEF CallsAt, TypeOK
  <2> QED BY <2>1, <2>2
<1>3. CASE disposition[t] # "prepared" /\ UNCHANGED sched
  <2> USE <1>3 DEF sched
  <2>1. TypeOK'
    BY <1>1 DEF TypeOK, Places
  <2>2. Local(t)
    BY <1>1 DEF Local, TypeOK
  <2>3. ThreadAt(t)'
    BY SMTT(60), <1>1, ConstantsAssumption
       DEF ThreadAt, EndsAt, NodesAt, WaitAt, SuspendAt, NoneLeftAt, TypeOK, CallsAt, Waitables
  <2> QED BY <1>2, <2>1, <2>2, <2>3, LocalKeeps
<1>4. CASE /\ disposition[t] = "prepared"
           /\ decide(core[t], "parked", state, disposition)
           /\ UNCHANGED doorbell
  <2> DEFINE c == core[t]
  <2>0. /\ c \in Cores /\ current[c] = t /\ CurrentOK /\ RungOK
        /\ \A b \in Threads : EndsAt(b)
    BY ConstantsAssumption DEF commit_to_block, At, IInv, ThreadAt
  <2>1. state \in [Threads -> States] /\ disposition \in [Threads -> Dispositions]
    BY DEF TypeOK, States, Dispositions
  <2>2. Decided(c, "parked", state, disposition)
    BY <1>4, <2>0, <2>1, DecideEffect
  <2>3. TypeOK'
    BY <1>1, <1>4, <2>2 DEF Decided, TypeOK, States, Dispositions, Places
  <2>4. CurrentOK' /\ RungOK'
    BY SMTT(60), <1>4, <2>0, <2>2 DEF Decided, TypeOK, CurrentOK, RungOK, OnCore
  <2>5. ASSUME NEW a \in Actors PROVE CallsAt(a)'
    BY <1>1, <1>2 DEF IInv, CallsAt, TypeOK
  <2>6. ASSUME NEW b \in Threads, b # t PROVE Follows(b)
    <3>0. b \in Actors
      BY DEF Actors
    <3>1. /\ state'[b] = "blocked" => state[b] = "blocked"
          /\ state'[b] = "terminated" => state[b] = "terminated"
          /\ disposition'[b] = "prepared" => disposition[b] = "prepared"
          /\ disposition'[b] = "terminating" <=> disposition[b] = "terminating"
          /\ b \in pending => b \in pending' \/ (state'[b] # "blocked" /\ disposition'[b] # "prepared")
      BY <2>0, <2>2, <2>6 DEF Decided, EndsAt, OnCore
    <3>2. WakeUnderWay(b) => WakeUnderWay(b)' \/ (state'[b] # "blocked" /\ disposition'[b] # "prepared")
      BY <1>1, <1>4, <3>1 DEF WakeUnderWay, TypeOK
    <3>3. \A s : Locked(s)' <=> Locked(s)
      BY <1>1 DEF Locked, TypeOK
    <3> QED BY <1>1, <2>6, <3>0, <3>1, <3>2, <3>3 DEF Follows, TypeOK
  <2>7. /\ state'[t] = "blocked" => t \notin pending
        /\ state'[t] # "terminated" /\ disposition'[t] # "terminating"
    BY <1>4, <2>2 DEF Decided, OnCore
  <2>8. EndsAt(t)' /\ NodesAt(t)'
    <3>1. /\ pc'[t] = IF on[t] = None THEN "suspend" ELSE "disarm"
          /\ on'[t] = on[t] /\ cancel'[t] = cancel[t] /\ queue' = queue
      BY <1>1 DEF TypeOK
    <3>2. EndsAt(t)'
      BY <2>7, <3>1 DEF EndsAt
    <3>3. on[t] = None => cancel[t] = None
      BY ConstantsAssumption DEF CallsAt, Waitables
    <3>4. ASSUME NEW w \in Waitables, Armed(queue[w], t) PROVE w \in {on[t], cancel[t]}
      BY <3>4 DEF ThreadAt, NodesAt
    <3>5. None \notin Waitables
      BY ConstantsAssumption
    <3>6. NodesAt(t)'
      BY <3>1, <3>3, <3>4, <3>5 DEF NodesAt
    <3> QED BY <3>2, <3>6
  <2>9. state'[t] = "blocked" => (WakeUnderWay(t) => WakeUnderWay(t)')
    BY <1>1, <2>7 DEF WakeUnderWay, TypeOK
  <2>10. FullyArmed(t) => FullyArmed(t)'
    BY <1>1 DEF FullyArmed, TypeOK
  <2>11. WaitAt(t)' /\ SuspendAt(t)'
    BY <1>1, <1>4, <2>9, <2>10 DEF ThreadAt, WaitAt, SuspendAt, TypeOK
  <2>12. NoneLeftAt(t)'
    <3>1. \A s : Locked(s)' <=> Locked(s)
      BY <1>1 DEF Locked, TypeOK
    <3> QED BY <1>1, <3>1 DEF ThreadAt, NoneLeftAt
  <2> QED BY <1>2, <2>3, <2>4, <2>5, <2>6, <2>8, <2>11, <2>12, FollowsKeeps DEF IInv, ThreadAt
<1> QED BY <1>3, <1>4 DEF commit_to_block

\* The wake owed to the thread a wake took is paid.
LEMMA ReadyChosenStep ==
  ASSUME IInv, NEW a \in Actors, ready_chosen(a)
  PROVE  IInv'
<1>0. /\ pc[a] = "ready" /\ TypeOK /\ CallsAt(a)
      /\ a \in Threads => state[a] = "running" /\ ThreadAt(a)
  BY ActorRuns DEF ready_chosen
<1> USE <1>0
<1>1. chosen[a] \in Threads
  BY DEF TypeOK, CallsAt
<1>2. Scheduled /\ Readied(chosen[a])
  BY <1>1, ReadySchedules DEF ready_chosen
<1> USE DEF ready_chosen, Return, Goto, objs
<1>3. TypeOK'
  BY <1>2 DEF TypeOK, Scheduled, States, Dispositions, Places
<1>4. QueuesOK'
  BY DEF IInv, QueuesOK
<1>5. ASSUME NEW b \in Actors PROVE CallsAt(b)'
  BY DEF IInv, CallsAt, TypeOK
<1>6. ASSUME NEW b \in Threads, b # a PROVE Follows(b)
  <2>0. b \in Actors
    BY DEF Actors
  <2>1. WakeUnderWay(b) => WakeUnderWay(b)' \/ (state'[b] # "blocked" /\ disposition'[b] # "prepared")
    BY <1>2 DEF WakeUnderWay, Scheduled, Readied, RungOK, TypeOK
  <2>2. \A s : Locked(s)' <=> Locked(s)
    BY DEF Locked, TypeOK
  <2> QED BY <1>2, <1>6, <2>0, <2>1, <2>2 DEF Follows, Scheduled, TypeOK
<1>7. ASSUME a \in Threads PROVE ThreadAt(a)'
  BY <1>2, <1>7
     DEF ThreadAt, EndsAt, NodesAt, WaitAt, SuspendAt, NoneLeftAt, Scheduled, TypeOK
<1>8. ASSUME NEW b \in Threads PROVE ThreadAt(b)'
  BY <1>6, <1>7, FollowsKeeps
<1> QED BY <1>2, <1>3, <1>4, <1>5, <1>8 DEF IInv, Scheduled

\* Each turn of raise_all's loop readies the waiter it takes off.
LEMMA RaiseNextStep ==
  ASSUME IInv, NEW a \in Actors, raise_next(a)
  PROVE  IInv'
<1> DEFINE u == Head(queue[on[a]])
<1>0. pc[a] = "raising" /\ TypeOK /\ CallsAt(a) /\ on[a] \in Waitables
  BY DEF raise_next, At, IInv, TypeOK, CallsAt
<1> USE <1>0
<1>1. /\ queue[on[a]] # <<>> /\ queue' = [queue EXCEPT ![on[a]] = Tail(@)]
      /\ UNCHANGED <<counter, raised, token, pc, on, cancel, satisfied, gone, chosen>>
      /\ hint' \in [Actors -> BOOLEAN]
  BY DEF raise_next, TypeOK
<1>2. /\ queue' \in [Waitables -> Seq(Threads)] /\ QueuesOK' /\ u \in Threads
      /\ \A v \in Waitables, b \in Threads :
           Armed(queue'[v], b) <=> Armed(queue[v], b) /\ ~(v = on[a] /\ b = u)
  BY <1>1, PopKeeps
<1>3. Scheduled /\ Readied(u)
  BY <1>2, ReadySchedules DEF raise_next
<1> HIDE DEF u
<1>4. TypeOK'
  BY <1>1, <1>2, <1>3 DEF TypeOK, Scheduled, States, Dispositions
<1>5. \A b \in Actors : CallsAt(b)'
  BY <1>1 DEF IInv, CallsAt
<1>6. ASSUME NEW b \in Threads PROVE Follows(b)
  <2>1. WakeUnderWay(b) => WakeUnderWay(b)' \/ (state'[b] # "blocked" /\ disposition'[b] # "prepared")
    BY <1>1, <1>3 DEF WakeUnderWay, Scheduled, RungOK
  <2>2. Readied(b) => WakeUnderWay(b)' \/ (state'[b] # "blocked" /\ disposition'[b] # "prepared")
    BY <1>3 DEF WakeUnderWay, Scheduled, Readied, RungOK
  <2>3. \A s : Locked(s)' <=> Locked(s)
    BY <1>1 DEF Locked
  <2>4. \A w \in Waitables : /\ Armed(queue'[w], b) => Armed(queue[w], b)
                             /\ Armed(queue[w], b) /\ ~Armed(queue'[w], b) => Readied(b)
    BY <1>2, <1>3
  <2> QED BY <1>1, <1>3, <2>1, <2>2, <2>3, <2>4 DEF Follows, Scheduled, Waitables
<1> QED BY <1>2, <1>3, <1>4, <1>5, <1>6, FollowsKeeps DEF IInv, Scheduled

\* raise_all drops its lock with nobody left on the queue.
LEMMA RaiseUnlockStep ==
  ASSUME IInv, NEW a \in Actors, raise_unlock(a)
  PROVE  IInv'
<1>0. /\ pc[a] = "raising" /\ TypeOK /\ CallsAt(a) /\ cancel[a] = None /\ CurrentOK /\ RungOK
      /\ a \in Threads => ThreadAt(a) /\ current[core[a]] = a
  BY DEF raise_unlock, At, IInv, CallsAt
<1> USE <1>0
<1>1. /\ on' = [on EXCEPT ![a] = None] /\ queue[on[a]] = <<>>
      /\ pc' = [pc EXCEPT ![a] = IF on[a] = a THEN "dead" ELSE "enable"]
      /\ hint' \in [Actors -> BOOLEAN]
      /\ UNCHANGED <<disposition, pending, doorbell, queue, counter, raised, token,
                     cancel, satisfied, gone, chosen>>
  BY DEF raise_unlock, Goto, objs, TypeOK
<1>2. /\ current' \in [Cores -> Threads \cup {Idle}] /\ state' \in [Threads -> States]
      /\ CurrentOK'
      /\ \A b \in Threads : state'[b] = state[b] \/ (state'[b] = "running" /\ state[b] = "ready")
  <2>0. state \in [Threads -> States] /\ core[a] \in Cores
    BY ConstantsAssumption DEF TypeOK, States
  <2>1. CASE run_next(core[a], state)
    <3>1. Picked(core[a], state)
      BY <2>0, <2>1, RunNextEffect
    <3> QED BY SMTT(60), <3>1 DEF Picked, CurrentOK
  <2>2. CASE UNCHANGED <<current, state, hint>>
    BY <2>0, <2>2 DEF TypeOK, CurrentOK
  <2> QED BY <2>1, <2>2 DEF raise_unlock
<1>3. TypeOK'
  BY <1>1, <1>2 DEF TypeOK, States, Places
<1>4. RungOK' /\ QueuesOK'
  BY <1>1 DEF IInv, RungOK, QueuesOK
<1>5. ASSUME NEW b \in Actors PROVE CallsAt(b)'
  BY <1>1 DEF IInv, CallsAt, TypeOK
<1>6. ASSUME NEW t PROVE ~Armed(queue[on[a]], t)
  BY <1>1, EmptyArms
<1>7. ASSUME NEW b \in Threads, b # a PROVE Follows(b)
  <2>0. b \in Actors
    BY DEF Actors
  <2>1. WakeUnderWay(b) => WakeUnderWay(b)'
    BY <1>1 DEF WakeUnderWay, TypeOK
  <2>2. ASSUME NEW s \in AllSignals, raised'[s], ~Locked(s)', Armed(queue'[s], b)
        PROVE  raised[s] /\ ~Locked(s)
    BY <1>1, <1>6, <2>2 DEF Locked, TypeOK
  <2> QED BY <1>1, <1>2, <1>7, <2>0, <2>1, <2>2 DEF Follows, TypeOK
<1>8. ASSUME a \in Threads PROVE ThreadAt(a)'
  <2>1. state'[a] # "blocked" /\ (state'[a] = "terminated" => state[a] = "terminated")
    <3>1. current[core[a]] = a /\ core[a] \in Cores
      BY <1>8, ConstantsAssumption
    <3>2. state[a] \in {"running", "terminated"}
      BY <1>8, <3>1 DEF CurrentOK
    <3> QED BY <1>2, <1>8, <3>2
  <2> QED BY <1>1, <1>8, <2>1
          DEF ThreadAt, EndsAt, NodesAt, WaitAt, SuspendAt, NoneLeftAt, TypeOK
<1>9. ASSUME NEW b \in Threads PROVE ThreadAt(b)'
  BY <1>7, <1>8, FollowsKeeps
<1> QED BY <1>2, <1>3, <1>4, <1>5, <1>9 DEF IInv

\* The cores as scheduler::start leaves them satisfy the invariant.
LEMMA InitInvariant == Init => IInv
<1> SUFFICES ASSUME Init PROVE IInv
  OBVIOUS
<1>1. TypeOK
  <2>1. <<>> \in Seq(Threads)
    BY SMTT(60)
  <2> QED BY <2>1 DEF Init, TypeOK, Places
<1>2. CurrentOK /\ RungOK
  <2>1. ASSUME NEW c \in Cores, current[c] \in Threads PROVE core[current[c]] = c
    BY <2>1, ConstantsAssumption DEF Init, OnCore
  <2>2. ASSUME NEW c \in Cores, current[c] \in Threads PROVE state[current[c]] = "running"
    BY <2>1, <2>2 DEF Init
  <2> QED BY SMTT(60), <2>1, <2>2 DEF Init, CurrentOK, RungOK
<1>3. QueuesOK
  BY SMTT(60) DEF Init, QueuesOK, NoDup, Sorted
<1>4. ASSUME NEW a \in Actors PROVE CallsAt(a)
  BY DEF Init, CallsAt
<1>5. ASSUME NEW w \in Waitables, NEW t PROVE ~Armed(queue[w], t)
  <2>1. queue[w] = <<>>
    BY DEF Init
  <2> QED BY <2>1, EmptyArms
<1>6. ASSUME NEW t \in Threads PROVE ThreadAt(t)
  BY <1>5 DEF Init, ThreadAt, EndsAt, NodesAt, WaitAt, SuspendAt, NoneLeftAt, Actors, Waitables
<1> QED BY SMTT(60), <1>1, <1>2, <1>3, <1>4, <1>6 DEF IInv

\* Every step of the waits, the wakers and the schedulers keeps the invariant.
LEMMA NextInvariant == IInv /\ [Next]_vars => IInv'
<1> SUFFICES ASSUME IInv, [Next]_vars PROVE IInv'
  OBVIOUS
<1>1. CASE UNCHANGED vars
  <2> USE <1>1 DEF vars, sched, objs, locals
  <2>1. TypeOK' /\ CurrentOK' /\ RungOK' /\ QueuesOK'
    BY SMTT(60) DEF IInv, TypeOK, CurrentOK, RungOK, QueuesOK
  <2>2. ASSUME NEW a \in Actors PROVE CallsAt(a)'
    BY SMTT(60) DEF IInv, CallsAt
  <2>3. ASSUME NEW t \in Threads PROVE Follows(t)
    BY DEF Follows, WakeUnderWay, Locked
  <2> QED BY <2>1, <2>2, <2>3, FollowsKeeps DEF IInv
<1>2. ASSUME NEW a \in Actors, Call(a) PROVE IInv'
  BY SMTT(60), <1>2, ReleaseStep, RaiseStep, ResumeStep DEF Call
<1>3. ASSUME NEW t \in Threads, ThreadCall(t) PROVE IInv'
  BY SMTT(60), <1>2, <1>3, YieldStep, ThreadExitStep, SuspendStep, AcquireStep, WaitOnStep, ResetStep
     DEF ThreadCall, Actors
<1>4. ASSUME NEW a \in Actors, WakeStep(a) PROVE IInv'
  BY SMTT(60), <1>4, MayHaveWaitersStep, WakeOneStep, ReadyChosenStep, RaiseNextStep, RaiseUnlockStep,
     PreemptEnableStep DEF WakeStep
<1>5. ASSUME NEW t \in Threads, WaitStep(t) PROVE IInv'
  BY SMTT(60), <1>5, PrepareStep, ArmStep, ArmCancelStep, PollStep, PollCancelStep, CommitStep, DisarmStep,
     DisarmCancelStep, ConcludeStep, RepollStep, RecheckStep, SuspendStep, SuspendLookStep,
     ThreadYieldStep DEF WaitStep
<1>6. ASSUME NEW c \in Cores, CoreStep(c) PROVE IInv'
  BY SMTT(60), <1>6, RescheduleStep, IdleStep DEF CoreStep
<1> QED BY <1>1, <1>2, <1>3, <1>4, <1>5, <1>6 DEF Next, Actors

-----------------------------------------------------------------------------
(* The theorems *)

\* The invariant that wait_engine::run, the wakes and the switches keep: the
\* strengthening the theorems below are read off from.
THEOREM Invariance == Spec => []IInv
BY InitInvariant, NextInvariant, PTL DEF Spec

\* wait_engine::run keeps every variable in its type; no poll takes a token the
\* semaphore does not have.
THEOREM TypeCorrect == Spec => []TypeOK
BY Invariance, PTL DEF IInv

\* No wake is lost: a thread that commit_to_block has parked in a wait is on
\* the queues that can wake it, or is being woken.
THEOREM NoLostWake == Spec => []ParkedIsWakeable
<1>1. IInv => ParkedIsWakeable
  BY SMTT(60) DEF IInv, ThreadAt, WaitAt, ParkedIsWakeable
<1> QED BY <1>1, Invariance, PTL

\* No resume is lost: a thread parked by this_thread::suspend whose token is
\* set is being woken.
THEOREM NoLostResume == Spec => []ResumeReaches
<1>1. IInv => ResumeReaches
  BY SMTT(60) DEF IInv, ThreadAt, SuspendAt, ResumeReaches
<1> QED BY <1>1, Invariance, PTL

\* cancel_signal::raise leaves nobody parked behind it.
THEOREM RaiseReachesAll == Spec => []RaisedLeavesNoneParked
<1>1. IInv => RaisedLeavesNoneParked
  BY SMTT(60) DEF IInv, ThreadAt, NoneLeftAt, RaisedLeavesNoneParked
<1> QED BY <1>1, Invariance, PTL

\* A wait's nodes, which live on its stack, are off every queue when it
\* returns.
THEOREM NodesDieWithWait == Spec => []NodesAreLive
<1>1. IInv => NodesAreLive
  BY SMTT(60) DEF IInv, QueuesOK, ThreadAt, NodesAt, NodesAreLive
<1> QED BY <1>1, Invariance, PTL

\* wait_queue::link, unlink and the pops keep every queue most urgent first.
THEOREM QueuesStayInOrder == Spec => []QueuesInOrder
<1>1. IInv => QueuesInOrder
  BY DEF IInv, QueuesOK, QueuesInOrder
<1> QED BY <1>1, Invariance, PTL
=============================================================================
