------------------------------ MODULE BaseMutex ------------------------------
(***************************************************************************)
(* The mutex core (src/kernel/base_mutex.cpp) with the urgency it gives    *)
(* its holders (donated_floor and wait_queue::top in waitable.cpp): the    *)
(* owner word, the queue of waiters, the held slots, the wait-for edges a  *)
(* donation walks, the barge-free handover, immediate ceilings, and the    *)
(* scheduling of the cores the threads are pinned to, as far as urgency    *)
(* goes.  A ready thread is filed in the matrix, at its base priority, or  *)
(* on the holder list, where the pick folds its urgency; ties are broken   *)
(* any way (Scheduler has their order).                                    *)
(***************************************************************************)
EXTENDS WaitQueue, FiniteSets

CONSTANTS Mutexes,
          Cores,
          core,          \* pinned_core of each thread
          ceiling,       \* ceiling_priority of each mutex, or NoWaiter
          Locks,         \* the mutexes each thread locks
          rank,          \* the order each thread nests them in
          Sleepers,      \* the threads that sleep on a timer too
          MaxDepth,      \* max_inheritance_depth
          IdlePriority,
          Idle, None

NoWaiter == IdlePriority + 1   \* inheritance_cache::no_waiter, and no ceiling

MutexAssumption ==
  /\ core \in [Threads -> Cores]
  /\ ceiling \in [Mutexes -> 0..NoWaiter]
  /\ Locks \in [Threads -> SUBSET Mutexes]
  /\ rank \in [Threads -> [Mutexes -> Nat]]
  /\ MaxDepth \in Nat /\ IdlePriority \in Nat
  /\ \A t \in Threads : prio[t] <= IdlePriority
  \* check_ceiling_contract
  /\ \A t \in Threads : \A m \in Locks[t] : ceiling[m] = NoWaiter \/ ceiling[m] <= prio[t]
  /\ Idle \notin Threads /\ None \notin Threads \cup Mutexes

VARIABLES
  current, state, disposition, pending, doorbell,   \* as in WaitEngine
  filed,        \* where a ready thread is filed
  owner,        \* the owner word of each mutex
  queue,        \* its wait_queue
  bridges,      \* may_have_bridges of its inheritance_cache
  held,         \* the mutexes in each thread's held_slots
  blocked_on,   \* the wait-for edge of each thread
  pc,           \* where each thread is
  at,           \* the mutex its lock or unlock is of
  seen,         \* the owner its failed poll saw, or the waiter its unlock chose
  locked        \* the mutexes whose lock() has returned to the thread

sched == <<current, state, disposition, pending, doorbell, filed>>
mutex == <<owner, queue, bridges, held>>
vars  == <<sched, mutex, blocked_on, pc, at, seen, locked>>

-----------------------------------------------------------------------------
(* Urgency, folded from current truth *)

Least(S) == CHOOSE x \in S : \A y \in S : x <= y

\* top_priority: exact, because every change of the queue refreshes it.
Top(m) == IF queue[m] = <<>> THEN NoWaiter ELSE prio[Head(queue[m])]

\* Mutant: no waiter is asked what its own waiters give it.
NoBridges(m) == {}

\* The waiters of m that hold something, its owner aside.
Bridges(m) == {t \in Threads : Armed(queue[m], t) /\ held[t] # {} /\ t # owner[m]}
MaxSnapshot == 4

\* urgency_at for every thread, by the depth left.
Fold[d \in 0..MaxDepth] ==
  LET top(m) == IF ~bridges[m] THEN Top(m)
                ELSE IF d = 0 \/ Cardinality(Bridges(m)) > MaxSnapshot THEN 0
                ELSE Least({Top(m)} \cup {Fold[d - 1][b] : b \in Bridges(m)})
      contribution(m) == Least({ceiling[m], top(m)})
  IN [t \in Threads |-> Least({prio[t]} \cup {contribution(m) : m \in held[t]})]

urgency(t) ==
  IF t = Idle THEN IdlePriority
  ELSE IF held[t] = {} THEN prio[t] ELSE Fold[MaxDepth][t]

-----------------------------------------------------------------------------
(* The scheduler of a core *)

OnCore(c) == {t \in Threads : core[t] = c}
Filing(t) == IF held[t] = {} THEN "matrix" ELSE "holders"

\* The pick; st and fl are the states and filings the departure has left.
run_next(c, st, fl) ==
  LET ready == {t \in OnCore(c) : st[t] = "ready"}
      key(t) == IF fl[t] = "holders" THEN urgency(t) ELSE prio[t] IN
  \/ /\ ready = {}
     /\ current' = [current EXCEPT ![c] = Idle]
     /\ state' = st /\ filed' = fl
  \/ \E t \in ready :
       /\ \A u \in ready : key(t) <= key(u)
       /\ current' = [current EXCEPT ![c] = t]
       /\ state' = [st EXCEPT ![t] = "running"]
       /\ filed' = [fl EXCEPT ![t] = "no"]

\* drain_intake, the departure and the pick.  A thread the intake readies anew
\* is filed by what it holds now, as one already filed is re-filed.
decide(c, reason, st, ds, fl) ==
  LET taken == pending \cap OnCore(c)
      departs(t) == t = current[c] /\ t \notin taken /\ st[t] = "running"
      parks(t) == departs(t) /\ reason = "parked"
      readied(t) == t \in taken \/ (departs(t) /\ ~parks(t))
  IN /\ pending' = pending \ taken
     /\ disposition' = [t \in Threads |-> IF t \in taken \/ parks(t) THEN "none" ELSE ds[t]]
     /\ run_next(c, [t \in Threads |-> IF parks(t) THEN "blocked"
                                       ELSE IF readied(t) THEN "ready" ELSE st[t]],
                    [t \in Threads |-> IF readied(t) THEN Filing(t) ELSE fl[t]])

\* A wake on the thread's own core: it is filed, or moved to the holder list
\* by what it has come to hold, and switched to if that is warranted.
set_thread_ready(u) ==
  LET c  == core[u]
      ds == [disposition EXCEPT ![u] = "none"]
      news == state[u] = "blocked" \/ (filed[u] = "matrix" /\ held[u] # {})
      st == IF news THEN [state EXCEPT ![u] = "ready"] ELSE state
      fl == IF news THEN [filed EXCEPT ![u] = Filing(u)] ELSE filed
      warranted == news /\ urgency(u) < urgency(current[c])
  IN \/ warranted /\ decide(c, "preempted", st, ds, fl) /\ UNCHANGED doorbell
     \/ /\ ~warranted
        /\ state' = st /\ disposition' = ds /\ filed' = fl
        /\ UNCHANGED <<current, pending, doorbell>>

global_ready_thread(t, u) ==
  \/ core[u] = core[t] /\ set_thread_ready(u)
  \/ /\ core[u] # core[t]
     /\ pending' = pending \cup {u}
     /\ doorbell' = IF pending \cap OnCore(core[u]) = {}
                    THEN doorbell \cup {core[u]} ELSE doorbell
     /\ UNCHANGED <<current, state, disposition, filed>>

reschedule(c) ==
  /\ c \in doorbell
  /\ doorbell' = doorbell \ {c}
  /\ decide(c, "yielded", state, disposition, filed)
  /\ UNCHANGED <<mutex, blocked_on, pc, at, seen, locked>>

idle_task(c) ==
  /\ current[c] = Idle /\ pending \cap OnCore(c) # {}
  /\ decide(c, "yielded", state, disposition, filed)
  /\ UNCHANGED <<doorbell, mutex, blocked_on, pc, at, seen, locked>>

-----------------------------------------------------------------------------
(* base_mutex *)

At(t, p) == pc[t] = p /\ current[core[t]] = t
Goto(t, p) == pc' = [pc EXCEPT ![t] = p]

\* lock() returns to the caller.
Locked(t) ==
  /\ Goto(t, "user")
  /\ locked' = [locked EXCEPT ![t] = @ \cup {at[t]}]
  /\ at' = [at EXCEPT ![t] = None]

\* A free mutex is taken without arming.
lock(t, m) ==
  /\ At(t, "user") /\ m \in Locks[t]
  /\ \A n \in locked[t] : rank[t][n] < rank[t][m]
  /\ at' = [at EXCEPT ![t] = m]
  /\ \/ owner[m] = None /\ owner' = [owner EXCEPT ![m] = t] /\ Goto(t, "register")
     \/ owner[m] # None /\ UNCHANGED owner /\ Goto(t, "prepare")
  /\ UNCHANGED <<sched, queue, bridges, held, blocked_on, seen, locked>>

\* claim_slot, after a take of the fast path or of an armed poll.
register_held(t) ==
  /\ At(t, "register")
  /\ held' = [held EXCEPT ![t] = @ \cup {at[t]}]
  /\ \/ blocked_on[t] = None /\ Locked(t)
     \/ blocked_on[t] # None /\ Goto(t, "leave") /\ UNCHANGED <<at, locked>>
  /\ UNCHANGED <<sched, owner, queue, bridges, blocked_on, seen>>

prepare(t) ==
  /\ At(t, "prepare")
  /\ disposition' = [disposition EXCEPT ![t] = "prepared"]
  /\ Goto(t, "arm")
  /\ UNCHANGED <<current, state, pending, doorbell, filed, mutex, blocked_on, at, seen, locked>>

\* Mutant: arming a holder leaves no hint that the queue has a bridge.
ArmsUnhinted(t) ==
  /\ At(t, "arm")
  /\ queue' = [queue EXCEPT ![at[t]] = link(@, t)]
  /\ Goto(t, "publish")
  /\ UNCHANGED <<sched, owner, bridges, held, blocked_on, at, seen, locked>>

arm(t) ==
  /\ At(t, "arm")
  /\ queue' = [queue EXCEPT ![at[t]] = link(@, t)]
  /\ bridges' = [bridges EXCEPT ![at[t]] = @ \/ held[t] # {}]
  /\ Goto(t, "publish")
  /\ UNCHANGED <<sched, owner, held, blocked_on, at, seen, locked>>

\* Mutant: a holder's wait publishes no edge.
PublishesUnheld(t) ==
  /\ At(t, "publish")
  /\ blocked_on' = [blocked_on EXCEPT ![t] = IF held[t] = {} THEN at[t] ELSE None]
  /\ Goto(t, "poll")
  /\ UNCHANGED <<sched, mutex, at, seen, locked>>

publish(t) ==
  /\ At(t, "publish")
  /\ blocked_on' = [blocked_on EXCEPT ![t] = at[t]]
  /\ Goto(t, "poll")
  /\ UNCHANGED <<sched, mutex, at, seen, locked>>

\* Take if free, recognise a handover, or donate to the owner seen.
acquire_condition(t) ==
  /\ At(t, "poll")
  /\ LET o == owner[at[t]] IN
     \/ /\ o = None /\ owner' = [owner EXCEPT ![at[t]] = t]
        /\ Goto(t, "register") /\ UNCHANGED seen
     \/ o = t /\ Goto(t, "leave") /\ UNCHANGED <<owner, seen>>
     \/ /\ o \notin {None, t} /\ seen' = [seen EXCEPT ![t] = o]
        /\ Goto(t, "repick") /\ UNCHANGED owner
  /\ UNCHANGED <<sched, queue, bridges, held, blocked_on, at, locked>>

\* The owners a donation to thread t meets along the wait-for edges.
Donees(t) ==
  LET next(x) == IF x = None \/ blocked_on[x] = None THEN None
                 ELSE IF owner[blocked_on[x]] = x THEN None ELSE owner[blocked_on[x]]
      chain[hop \in 0..MaxDepth] == IF hop = 0 THEN t ELSE next(chain[hop - 1])
  IN {chain[hop] : hop \in 0..(MaxDepth - 1)} \ {None}

request_repick(t) ==
  /\ At(t, "repick")
  /\ doorbell' = doorbell \cup {core[x] : x \in Donees(seen[t])}
  /\ seen' = [seen EXCEPT ![t] = None]
  /\ Goto(t, "commit")
  /\ UNCHANGED <<current, state, disposition, pending, filed, mutex, blocked_on, at, locked>>

\* Mutant: the park does not look whether a wake has revoked it.
ParksAnyway(t) ==
  /\ At(t, "commit")
  /\ Goto(t, "disarm")
  /\ decide(core[t], "parked", state, disposition, filed)
  /\ UNCHANGED <<doorbell, mutex, blocked_on, at, seen, locked>>

commit_to_block(t) ==
  /\ At(t, "commit")
  /\ Goto(t, "disarm")
  /\ \/ disposition[t] # "prepared" /\ UNCHANGED sched
     \/ /\ disposition[t] = "prepared"
        /\ decide(core[t], "parked", state, disposition, filed)
        /\ UNCHANGED doorbell
  /\ UNCHANGED <<mutex, blocked_on, at, seen, locked>>

\* A disarm, with refresh_top: an empty queue has no bridges.
Disarm(t) ==
  LET q == unlink(queue[at[t]], t) IN
  /\ queue' = [queue EXCEPT ![at[t]] = q]
  /\ bridges' = [bridges EXCEPT ![at[t]] = @ /\ (q # <<>> \/ q = queue[at[t]])]
  /\ UNCHANGED <<owner, held>>

disarm(t) ==
  /\ At(t, "disarm")
  /\ Disarm(t)
  /\ Goto(t, "clear")
  /\ UNCHANGED <<sched, blocked_on, at, seen, locked>>

clear_edge(t) ==
  /\ At(t, "clear")
  /\ blocked_on' = [blocked_on EXCEPT ![t] = None]
  /\ Goto(t, "recognise")
  /\ UNCHANGED <<sched, mutex, at, seen, locked>>

\* Mutant: the loop goes round without a look at the owner.
NeverRecognises(t) ==
  /\ At(t, "recognise")
  /\ Goto(t, "prepare")
  /\ UNCHANGED <<sched, mutex, blocked_on, at, seen, locked>>

\* A handover is recognised before the loop re-arms.
recognise(t) ==
  /\ At(t, "recognise")
  /\ \/ /\ owner[at[t]] = t
        /\ disposition' = [disposition EXCEPT ![t] = "none"]
        /\ Locked(t)
     \/ /\ owner[at[t]] # t
        /\ Goto(t, "prepare")
        /\ UNCHANGED <<disposition, at, locked>>
  /\ UNCHANGED <<current, state, pending, doorbell, filed, mutex, blocked_on, seen>>

\* Taken while armed: the edge goes, then the node.
leave(t) ==
  /\ At(t, "leave")
  /\ blocked_on' = [blocked_on EXCEPT ![t] = None]
  /\ disposition' = [disposition EXCEPT ![t] = "none"]
  /\ Goto(t, "unqueue")
  /\ UNCHANGED <<current, state, pending, doorbell, filed, mutex, at, seen, locked>>

unqueue(t) ==
  /\ At(t, "unqueue")
  /\ Disarm(t)
  /\ Locked(t)
  /\ UNCHANGED <<sched, blocked_on, seen>>

\* Mutant: the slot is not retired.
UnlocksUnretired(t, m) ==
  /\ At(t, "user") /\ m \in locked[t]
  /\ locked' = [locked EXCEPT ![t] = @ \ {m}]
  /\ at' = [at EXCEPT ![t] = m]
  /\ Goto(t, "hand_over")
  /\ UNCHANGED <<sched, mutex, blocked_on, seen>>

\* unlock: the slot is retired first,
unlock(t, m) ==
  /\ At(t, "user") /\ m \in locked[t]
  /\ locked' = [locked EXCEPT ![t] = @ \ {m}]
  /\ held' = [held EXCEPT ![t] = @ \ {m}]
  /\ at' = [at EXCEPT ![t] = m]
  /\ Goto(t, "hand_over")
  /\ UNCHANGED <<sched, owner, queue, bridges, blocked_on, seen>>

\* Mutant: the mutex is freed, and the waiter it wakes must compete for it.
FreesAndWakes(t) ==
  /\ At(t, "hand_over")
  /\ owner' = [owner EXCEPT ![at[t]] = None]
  /\ \/ queue[at[t]] = <<>> /\ Goto(t, "ceiling") /\ UNCHANGED <<queue, seen>>
     \/ /\ queue[at[t]] # <<>> /\ Goto(t, "ready")
        /\ queue' = [queue EXCEPT ![at[t]] = Tail(@)]
        /\ seen' = [seen EXCEPT ![t] = Head(queue[at[t]])]
  /\ UNCHANGED <<sched, bridges, held, blocked_on, at, locked>>

\* then the best waiter is made owner, and filed as such, under the lock,
hand_over(t) ==
  /\ At(t, "hand_over")
  /\ LET m == at[t] IN
     \/ /\ queue[m] = <<>>
        /\ owner' = [owner EXCEPT ![m] = None]
        /\ Goto(t, "ceiling")
        /\ UNCHANGED <<queue, bridges, held, seen>>
     \/ /\ queue[m] # <<>>
        /\ owner' = [owner EXCEPT ![m] = Head(queue[m])]
        /\ held' = [held EXCEPT ![Head(queue[m])] = @ \cup {m}]
        /\ queue' = [queue EXCEPT ![m] = Tail(@)]
        /\ bridges' = [bridges EXCEPT ![m] = @ /\ Tail(queue[m]) # <<>>]
        /\ seen' = [seen EXCEPT ![t] = Head(queue[m])]
        /\ Goto(t, "ready")
  /\ UNCHANGED <<sched, blocked_on, at, locked>>

\* it is readied outside the lock,
ready_owner(t) ==
  /\ At(t, "ready")
  /\ global_ready_thread(t, seen[t])
  /\ seen' = [seen EXCEPT ![t] = None]
  /\ Goto(t, "ceiling")
  /\ UNCHANGED <<mutex, blocked_on, at, locked>>

\* Mutant: a ceiling is given up like any mutex.
AsksForNothing(t) ==
  /\ At(t, "ceiling")
  /\ at' = [at EXCEPT ![t] = None]
  /\ Goto(t, "user")
  /\ UNCHANGED <<sched, mutex, blocked_on, seen, locked>>

\* and a ceiling given up asks for a reschedule.
give_up_ceiling(t) ==
  /\ At(t, "ceiling")
  /\ doorbell' = IF ceiling[at[t]] # NoWaiter THEN doorbell \cup {core[t]} ELSE doorbell
  /\ at' = [at EXCEPT ![t] = None]
  /\ Goto(t, "user")
  /\ UNCHANGED <<current, state, disposition, pending, filed, mutex, blocked_on, seen, locked>>

-----------------------------------------------------------------------------
\* A thread sleeps on a timer, whose interrupt on its own core readies it; a
\* late wake of an earlier wait only has it park again.
sleep(t) ==
  /\ (At(t, "user") /\ t \in Sleepers) \/ At(t, "asleep")
  /\ decide(core[t], "parked", state, disposition, filed)
  /\ Goto(t, "asleep")
  /\ UNCHANGED <<doorbell, mutex, blocked_on, at, seen, locked>>

timer_wake(t) ==
  /\ pc[t] = "asleep"
  /\ set_thread_ready(t)
  /\ Goto(t, "user")
  /\ UNCHANGED <<mutex, blocked_on, at, seen, locked>>

-----------------------------------------------------------------------------
\* Every core has started; the sleepers may be asleep.
Init ==
  /\ \E asleep \in SUBSET Sleepers :
       /\ current \in [Cores -> Threads \cup {Idle}]
       /\ \A c \in Cores :
            LET ready == OnCore(c) \ asleep IN
            IF ready = {} THEN current[c] = Idle
            ELSE current[c] \in ready /\ \A t \in ready : prio[current[c]] <= prio[t]
       /\ state = [t \in Threads |-> IF t \in asleep THEN "blocked"
                                     ELSE IF current[core[t]] = t THEN "running" ELSE "ready"]
       /\ pc = [t \in Threads |-> IF t \in asleep THEN "asleep" ELSE "user"]
  /\ filed = [t \in Threads |-> IF state[t] = "ready" THEN "matrix" ELSE "no"]
  /\ disposition = [t \in Threads |-> "none"]
  /\ pending = {} /\ doorbell = {}
  /\ owner = [m \in Mutexes |-> None] /\ queue = [m \in Mutexes |-> <<>>]
  /\ bridges = [m \in Mutexes |-> FALSE] /\ held = [t \in Threads |-> {}]
  /\ blocked_on = [t \in Threads |-> None] /\ at = [t \in Threads |-> None]
  /\ seen = [t \in Threads |-> None] /\ locked = [t \in Threads |-> {}]

LockStep(t) ==
  \/ register_held(t) \/ prepare(t) \/ arm(t) \/ publish(t)
  \/ acquire_condition(t) \/ request_repick(t) \/ commit_to_block(t)
  \/ disarm(t) \/ clear_edge(t) \/ recognise(t) \/ leave(t) \/ unqueue(t)
UnlockStep(t) == hand_over(t) \/ ready_owner(t) \/ give_up_ceiling(t)
CoreStep(c) == reschedule(c) \/ idle_task(c)

Next ==
  \/ \E t \in Threads :
       \/ \E m \in Mutexes : lock(t, m) \/ unlock(t, m)
       \/ LockStep(t) \/ UnlockStep(t) \/ sleep(t) \/ timer_wake(t)
  \/ \E c \in Cores : CoreStep(c)

Spec == Init /\ [][Next]_vars

-----------------------------------------------------------------------------
(* Properties *)

\* Every variable has its type, and the running threads are the current ones.
TypeOK ==
  /\ current \in [Cores -> Threads \cup {Idle}]
  /\ state \in [Threads -> {"ready", "running", "blocked"}]
  /\ disposition \in [Threads -> {"none", "prepared"}]
  /\ pending \subseteq Threads /\ doorbell \subseteq Cores
  /\ filed \in [Threads -> {"no", "matrix", "holders"}]
  /\ owner \in [Mutexes -> Threads \cup {None}]
  /\ queue \in [Mutexes -> Seq(Threads)]
  /\ bridges \in [Mutexes -> BOOLEAN]
  /\ held \in [Threads -> SUBSET Mutexes]
  /\ blocked_on \in [Threads -> Mutexes \cup {None}]
  /\ at \in [Threads -> Mutexes \cup {None}]
  /\ seen \in [Threads -> Threads \cup {None}]
  /\ locked \in [Threads -> SUBSET Mutexes]
  /\ \A t \in Threads : state[t] = "running" <=> current[core[t]] = t
  /\ \A t \in Threads :
       pc[t] \in {"user", "asleep", "register", "prepare", "arm", "publish", "poll", "repick",
                  "commit", "disarm", "clear", "recognise", "leave", "unqueue",
                  "hand_over", "ready", "ceiling"}

\* Mutual exclusion: whoever lock() has returned to is the owner, with the
\* mutex in its slots, and a slot never names a mutex its thread does not own.
OwnerHolds ==
  \A t \in Threads, m \in Mutexes :
    /\ m \in locked[t] => m \in held[t]
    /\ m \in held[t] => owner[m] = t

WakeUnderWay(t) ==
  \/ \E u \in Threads : pc[u] = "ready" /\ seen[u] = t
  \/ t \in pending /\ core[t] \in doorbell

\* No lost handover (wake_one_and_commit commits both outcomes under the lock):
\* a thread parked in lock() is queued behind an owner, or has been made owner
\* and its wake is on the way.
ParkedHasOwner ==
  \A t \in Threads :
    state[t] = "blocked" /\ at[t] # None =>
      \/ Armed(queue[at[t]], t) /\ owner[at[t]] \notin {None, t}
      \/ owner[at[t]] = t /\ WakeUnderWay(t)

\* A thread that owns a mutex has no wait on it going on: it is never armed
\* there, save between taking it at its poll and leaving the queue (the assert
\* "Owner queued on itself").
OwnerNotQueued ==
  \A t \in Threads, m \in Mutexes :
    owner[m] = t /\ Armed(queue[m], t) => at[t] = m /\ pc[t] \in {"register", "leave", "unqueue"}

\* wait_queue::top may trust its cache: a queue with a waiter that holds
\* something, the owner aside, carries the hint.
BridgesHinted == \A m \in Mutexes : Bridges(m) # {} => bridges[m]

\* A ready holder is on the holder list, or the admission that re-files it is
\* on its way (make_ready's re-route).
HolderIsListed ==
  \A t \in Threads : held[t] # {} /\ filed[t] = "matrix" => WakeUnderWay(t)

\* Nothing is asked of core c, and nobody is between changing what urgency is
\* folded from and asking for the reschedule that follows from it.
Quiet(c) ==
  /\ c \notin doorbell /\ pending \cap OnCore(c) = {}
  /\ \A t \in Threads : pc[t] \notin {"publish", "poll", "repick", "hand_over", "ready", "ceiling"}

\* The scheduler honours urgency: on a quiet core no ready thread is more
\* urgent, by the fold, than the thread that runs.
UrgencyHonoured ==
  \A c \in Cores, t \in Threads :
    Quiet(c) /\ core[t] = c /\ state[t] = "ready" => urgency(current[c]) <= urgency(t)

\* What the README promises of an inheritance mutex: while a thread is parked
\* behind an owner that could run, no thread less urgent than the waiter runs in
\* the owner's place, once the core has taken the reschedules asked of it.
OwnerInherits ==
  \A m \in Mutexes, t \in Threads :
    owner[m] # None /\ state[t] = "blocked" /\ at[t] = m /\ Armed(queue[m], t)
      => LET c == core[owner[m]] IN
         state[owner[m]] = "ready" /\ c \notin doorbell => urgency(current[c]) <= prio[t]

\* Inheritance is transitive where it is registered: a thread whose slots name
\* a mutex is at least as urgent as every thread queued on it is.
SlotsDonate ==
  \A m \in Mutexes, t \in Threads :
    Armed(queue[m], t) /\ owner[m] \notin {None, t} /\ m \in held[owner[m]]
      => urgency(owner[m]) <= urgency(t)

\* A donation can be walked: a thread parked in lock() has published its edge.
ParkedHasEdge ==
  \A t \in Threads : state[t] = "blocked" /\ at[t] # None => blocked_on[t] = at[t]

\* In lock(m), from the CAS that failed to the return.
WaitsFor(t, m) == at[t] = m /\ pc[t] \notin {"hand_over", "ready", "ceiling"}
=============================================================================
