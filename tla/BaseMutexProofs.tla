--------------------------- MODULE BaseMutexProofs ---------------------------
(***************************************************************************)
(* The mutex core's safety for every number of threads, cores and mutexes, *)
(* whatever the order the threads nest them in: mutual exclusion across    *)
(* the barge-free handover, no lost handover, and the facts the urgency    *)
(* fold takes for granted.                                                 *)
(***************************************************************************)
EXTENDS BaseMutex

\* Every leaf that names no prover of its own is one for Zenon.
USE ZenonT(60)

States == {"ready", "running", "blocked"}
Filings == {"no", "matrix", "holders"}
Places == {"user", "asleep", "register", "prepare", "arm", "publish", "poll", "repick", "commit",
           "disarm", "clear", "recognise", "leave", "unqueue", "hand_over", "ready", "ceiling"}

\* In the wait of lock(), between the arm and the disarm.
Waiting == {"publish", "poll", "repick", "commit", "disarm"}

-----------------------------------------------------------------------------
(* The inductive invariant *)

\* TypeOK, the doorbells aside.
Typed ==
  /\ current \in [Cores -> Threads \cup {Idle}] /\ state \in [Threads -> States]
  /\ disposition \in [Threads -> {"none", "prepared"}] /\ pending \subseteq Threads
  /\ filed \in [Threads -> Filings]
  /\ owner \in [Mutexes -> Threads \cup {None}] /\ queue \in [Mutexes -> Seq(Threads)]
  /\ bridges \in [Mutexes -> BOOLEAN] /\ held \in [Threads -> SUBSET Mutexes]
  /\ blocked_on \in [Threads -> Mutexes \cup {None}] /\ pc \in [Threads -> Places]
  /\ at \in [Threads -> Mutexes \cup {None}] /\ seen \in [Threads -> Threads \cup {None}]
  /\ locked \in [Threads -> SUBSET Mutexes]

\* A core runs a thread of its own, and a thread is filed while it is ready.
CoresOK ==
  /\ \A c \in Cores : current[c] \in Threads => core[current[c]] = c
  /\ \A t \in Threads : /\ state[t] = "running" <=> current[core[t]] = t
                        /\ filed[t] = "no" <=> state[t] # "ready"

\* A core whose intake holds a thread has been rung.
RungOK == \A t \in pending : core[t] \in doorbell

QueuesOK == \A m \in Mutexes : NoDup(queue[m])

\* Where thread t is tells which of its locals are set, and where it may park.
PlaceAt(t) ==
  /\ at[t] = None <=> pc[t] \in {"user", "asleep"}
  /\ seen[t] = None <=> pc[t] \notin {"repick", "ready"}
  /\ pc[t] \in {"poll", "repick", "commit", "disarm", "clear", "leave"} => blocked_on[t] = at[t]
  /\ pc[t] \notin {"poll", "repick", "commit", "disarm", "clear", "leave", "register"} => blocked_on[t] = None
  /\ pc[t] = "register" => blocked_on[t] \in {None, at[t]}
  /\ state[t] = "blocked" => pc[t] \in {"disarm", "asleep"}

\* Thread t owns what its slots name, which is all it owns but for the mutex it
\* is taking or giving up.
OwnAt(t) ==
  \A m \in Mutexes :
    /\ m \in locked[t] => m \in held[t] /\ at[t] # m
    /\ m \in held[t] => owner[m] = t
    /\ owner[m] = t => \/ m \in locked[t]
                       \/ at[t] = m /\ pc[t] \in {"register", "hand_over"}
                       \/ at[t] = m /\ m \in held[t] /\ pc[t] \notin {"prepare", "arm", "ready", "ceiling"}
    /\ at[t] = m /\ pc[t] \in {"register", "leave", "unqueue", "hand_over"} => owner[m] = t
    /\ at[t] = m /\ pc[t] = "hand_over" => m \notin held[t]

\* Thread t is on the queue of the mutex it waits for until it is made owner,
\* and from a failed poll on that mutex has an owner.
QueuedAt(t) ==
  \A m \in Mutexes :
    /\ Armed(queue[m], t) => at[t] = m /\ pc[t] \in Waiting \cup {"register", "leave", "unqueue"}
    /\ at[t] = m /\ pc[t] \in Waiting => (Armed(queue[m], t) <=> owner[m] # t)
    /\ at[t] = m /\ pc[t] \in {"repick", "commit", "disarm"} => owner[m] # None
    /\ Armed(queue[m], t) /\ pc[t] = "register" => blocked_on[t] # None

\* Until thread t has parked it is on the queue, or a wake is on its way to it
\* or has revoked the park.
WaitAt(t) ==
  /\ at[t] # None
  /\ \/ pc[t] \in {"publish", "poll", "repick", "commit"} /\ disposition[t] = "prepared"
     \/ pc[t] = "disarm" /\ state[t] = "blocked"
  => Armed(queue[at[t]], t) \/ WakeUnderWay(t)

\* HolderIsListed and BridgesHinted, of one thread.
ListedAt(t) == held[t] # {} /\ filed[t] = "matrix" => WakeUnderWay(t)
\* A mutex that a thread with mutexes of its own waits for says so.
HintAt(t) == \A m \in Mutexes : Armed(queue[m], t) /\ held[t] # {} /\ t # owner[m] => bridges[m]

ThreadAt(t) == PlaceAt(t) /\ OwnAt(t) /\ QueuedAt(t) /\ WaitAt(t) /\ ListedAt(t) /\ HintAt(t)

\* The inductive invariant.
MInv == Typed /\ CoresOK /\ RungOK /\ QueuesOK /\ \A t \in Threads : ThreadAt(t)

-----------------------------------------------------------------------------
(* What a step owes the threads that do not take it *)

\* Nothing a wake is needed for is left of thread t.
Settled(t) ==
  /\ state'[t] # "blocked" /\ disposition'[t] # "prepared"
  /\ filed'[t] = "matrix" => held[t] = {}

\* The scheduler has brought thread t no nearer to a park, nor lost its wake.
Eased(t) ==
  /\ state'[t] = "blocked" => state[t] = "blocked"
  /\ disposition'[t] = "prepared" => disposition[t] = "prepared"
  /\ filed'[t] = "matrix" => filed[t] = "matrix" \/ held[t] = {}
  /\ WakeUnderWay(t) => WakeUnderWay(t)' \/ Settled(t)

\* The step is not thread t's own.
Follows(t) ==
  /\ pc'[t] = pc[t] /\ at'[t] = at[t] /\ seen'[t] = seen[t] /\ blocked_on'[t] = blocked_on[t]
  /\ locked'[t] = locked[t] /\ held'[t] = held[t]
  /\ Eased(t)
  /\ \A m \in Mutexes :
       /\ Armed(queue'[m], t) <=> Armed(queue[m], t)
       /\ owner'[m] = t <=> owner[m] = t
       /\ Armed(queue[m], t) => (owner[m] # None => owner'[m] # None) /\ (bridges[m] => bridges'[m])

\* What holds of a thread holds after a step that is not its own.
LEMMA FollowsKeeps ==
  ASSUME MutexAssumption, MInv, NEW t \in Threads, Follows(t)
  PROVE  ThreadAt(t)'
<1>0. ThreadAt(t) /\ None \notin Threads /\ at[t] \in Mutexes \cup {None}
  BY DEF MInv, MutexAssumption, Typed
<1>1. PlaceAt(t)'
  BY <1>0 DEF ThreadAt, PlaceAt, Follows, Eased
<1>2. OwnAt(t)'
  BY <1>0 DEF ThreadAt, OwnAt, Follows
<1>3. QueuedAt(t)'
  <2> SUFFICES ASSUME NEW m \in Mutexes
               PROVE  /\ Armed(queue[m], t)' => at'[t] = m /\ pc'[t] \in Waiting \cup {"register", "leave", "unqueue"}
                      /\ at'[t] = m /\ pc'[t] \in Waiting => (Armed(queue[m], t)' <=> owner'[m] # t)
                      /\ at'[t] = m /\ pc'[t] \in {"repick", "commit", "disarm"} => owner'[m] # None
                      /\ Armed(queue[m], t)' /\ pc'[t] = "register" => blocked_on'[t] # None
    BY DEF QueuedAt
  <2>1. Armed(queue'[m], t) <=> Armed(queue[m], t)
    BY DEF Follows
  <2> QED BY <1>0, <2>1 DEF ThreadAt, QueuedAt, Follows, Waiting
<1>4. WaitAt(t)' /\ ListedAt(t)'
  BY <1>0 DEF ThreadAt, WaitAt, ListedAt, Follows, Eased, Settled
<1>5. HintAt(t)'
  BY <1>0 DEF ThreadAt, HintAt, Follows
<1> QED BY <1>1, <1>2, <1>3, <1>4, <1>5 DEF ThreadAt

\* A step of thread t that touches the others' mutexes but not their places.
Local(t) ==
  /\ pc[t] # "ready" /\ current' = current /\ pending' = pending /\ doorbell \subseteq doorbell'
  /\ state' = state /\ filed' = filed
  /\ \A x \in Threads : x # t =>
       /\ pc'[x] = pc[x] /\ at'[x] = at[x] /\ seen'[x] = seen[x] /\ blocked_on'[x] = blocked_on[x]
       /\ locked'[x] = locked[x] /\ held'[x] = held[x] /\ disposition'[x] = disposition[x]
       /\ \A m \in Mutexes :
            /\ Armed(queue'[m], x) <=> Armed(queue[m], x)
            /\ owner'[m] = x <=> owner[m] = x
            /\ Armed(queue[m], x) => (owner[m] # None => owner'[m] # None) /\ (bridges[m] => bridges'[m])

\* Such a step keeps the invariant if it keeps it for thread t.
LEMMA LocalKeeps ==
  ASSUME MutexAssumption, MInv, NEW t \in Threads, Local(t), Typed', QueuesOK', ThreadAt(t)'
  PROVE  MInv'
<1>1. CoresOK' /\ RungOK'
  BY DEF MInv, CoresOK, RungOK, Local
<1>2. ASSUME NEW x \in Threads, x # t PROVE Follows(x)
  <2>1. WakeUnderWay(x) => WakeUnderWay(x)'
    BY <1>2 DEF WakeUnderWay, Local
  <2>2. Eased(x)
    BY <1>2, <2>1 DEF Eased, Local
  <2> QED BY <1>2, <2>2 DEF Follows, Local
<1>3. \A x \in Threads : ThreadAt(x)'
  BY <1>2, FollowsKeeps
<1> QED BY <1>1, <1>3 DEF MInv

\* The thread that takes a step is running, and is not filed.
LEMMA Runs ==
  ASSUME MutexAssumption, MInv, NEW t \in Threads, NEW p, At(t, p)
  PROVE  /\ pc[t] = p /\ state[t] = "running" /\ filed[t] = "no" /\ current[core[t]] = t
         /\ core[t] \in Cores /\ ThreadAt(t) /\ Typed /\ QueuesOK
         /\ None \notin Threads /\ None \notin Mutexes
         /\ p \notin {"user", "asleep"} => at[t] \in Mutexes
BY SMTT(60) DEF MInv, CoresOK, At, MutexAssumption, ThreadAt, PlaceAt, Typed

-----------------------------------------------------------------------------
(* The scheduler *)

\* What the scheduler starts from agrees with who runs.
Agree(st, fl) ==
  \A t \in Threads : /\ st[t] = "running" <=> current[core[t]] = t
                     /\ fl[t] = "no" <=> st[t] # "ready"

\* What a pick makes of the states st and filings fl.
Picked(c, st, fl) ==
  /\ current' \in [Cores -> Threads \cup {Idle}]
  /\ state' \in [Threads -> States] /\ filed' \in [Threads -> Filings]
  /\ CoresOK'
  /\ \A t \in Threads : \/ state'[t] = st[t] /\ filed'[t] = fl[t]
                        \/ state'[t] = "running" /\ filed'[t] = "no"

\* scheduler::run_next runs a ready thread of the core, or its idle thread.
LEMMA RunNextEffect ==
  ASSUME MutexAssumption, Typed, CoresOK, NEW c \in Cores,
         NEW st \in [Threads -> States], NEW fl \in [Threads -> Filings],
         \A t \in Threads : /\ st[t] = "running" <=> core[t] # c /\ current[core[t]] = t
                            /\ fl[t] = "no" <=> st[t] # "ready",
         run_next(c, st, fl)
  PROVE  Picked(c, st, fl)
<1>0. /\ current \in [Cores -> Threads \cup {Idle}] /\ Idle \notin Threads
      /\ core \in [Threads -> Cores]
  BY DEF Typed, MutexAssumption
<1>1. CASE /\ current' = [current EXCEPT ![c] = Idle]
           /\ state' = st /\ filed' = fl
  BY SMTT(60), <1>0, <1>1 DEF Picked, CoresOK
<1>2. CASE \E t \in OnCore(c) : /\ st[t] = "ready"
                                /\ current' = [current EXCEPT ![c] = t]
                                /\ state' = [st EXCEPT ![t] = "running"]
                                /\ filed' = [fl EXCEPT ![t] = "no"]
  <2>1. PICK t \in OnCore(c) : /\ st[t] = "ready"
                               /\ current' = [current EXCEPT ![c] = t]
                               /\ state' = [st EXCEPT ![t] = "running"]
                               /\ filed' = [fl EXCEPT ![t] = "no"]
    BY <1>2
  <2>2. t \in Threads /\ core[t] = c
    BY DEF OnCore
  <2>3. CoresOK'
    BY SMTT(60), <1>0, <2>1, <2>2 DEF CoresOK
  <2> QED BY SMTT(60), <1>0, <2>1, <2>2, <2>3 DEF Picked, States, Filings
<1> QED BY <1>1, <1>2 DEF run_next

\* What a decision makes of what it starts from: the intake is taken in, and
\* only a park may block a thread.
Decided(c, reason, st, ds, fl) ==
  /\ current' \in [Cores -> Threads \cup {Idle}] /\ state' \in [Threads -> States]
  /\ filed' \in [Threads -> Filings] /\ disposition' \in [Threads -> {"none", "prepared"}]
  /\ CoresOK' /\ pending' = pending \ OnCore(c)
  /\ \A t \in Threads :
       /\ state'[t] = "blocked" =>
            /\ st[t] = "blocked" \/ (reason = "parked" /\ t = current[c])
            /\ ~(t \in pending /\ core[t] = c)
       /\ disposition'[t] = "prepared" => ds[t] = "prepared" /\ ~(t \in pending /\ core[t] = c)
       /\ filed'[t] = "matrix" =>
            held[t] = {} \/ (fl[t] = "matrix" /\ ~(t \in pending /\ core[t] = c))

\* scheduler::decide readies what was on the intake, lets the running thread
\* depart, and picks.
LEMMA DecideEffect ==
  ASSUME MutexAssumption, Typed, CoresOK, NEW c \in Cores, NEW reason,
         NEW st \in [Threads -> States], NEW ds \in [Threads -> {"none", "prepared"}],
         NEW fl \in [Threads -> Filings], Agree(st, fl), decide(c, reason, st, ds, fl)
  PROVE  Decided(c, reason, st, ds, fl)
<1> DEFINE taken == pending \cap OnCore(c)
           departs(t) == t = current[c] /\ t \notin taken /\ st[t] = "running"
           parks(t) == departs(t) /\ reason = "parked"
           readied(t) == t \in taken \/ (departs(t) /\ ~parks(t))
           st1 == [t \in Threads |-> IF parks(t) THEN "blocked"
                                     ELSE IF readied(t) THEN "ready" ELSE st[t]]
           fl1 == [t \in Threads |-> IF readied(t) THEN Filing(t) ELSE fl[t]]
<1>0. /\ core \in [Threads -> Cores]
      /\ \A t \in Threads : t \in taken <=> t \in pending /\ core[t] = c
  BY DEF MutexAssumption, OnCore
<1>1. /\ pending' = pending \ OnCore(c)
      /\ disposition' = [t \in Threads |-> IF t \in taken \/ parks(t) THEN "none" ELSE ds[t]]
      /\ run_next(c, st1, fl1)
  BY DEF decide
<1>2. /\ st1 \in [Threads -> States] /\ fl1 \in [Threads -> Filings]
      /\ disposition' \in [Threads -> {"none", "prepared"}]
  BY <1>1 DEF States, Filings, Filing
<1>3. ASSUME NEW t \in Threads
      PROVE  /\ st1[t] = "running" <=> core[t] # c /\ current[core[t]] = t
             /\ fl1[t] = "no" <=> st1[t] # "ready"
  <2>1. core[t] = c /\ st[t] = "running" => t = current[c]
    BY DEF Agree
  <2>2. t = current[c] => core[t] = c
    BY SMTT(60) DEF CoresOK
  <2> QED BY <1>0, <2>1, <2>2 DEF Agree, Filing
<1>4. Picked(c, st1, fl1)
  <2> HIDE DEF st1, fl1
  <2> QED BY <1>1, <1>2, <1>3, RunNextEffect
<1>5. ASSUME NEW t \in Threads
      PROVE  /\ state'[t] = "blocked" =>
                  /\ st[t] = "blocked" \/ (reason = "parked" /\ t = current[c])
                  /\ ~(t \in pending /\ core[t] = c)
             /\ disposition'[t] = "prepared" => ds[t] = "prepared" /\ ~(t \in pending /\ core[t] = c)
             /\ filed'[t] = "matrix" =>
                  held[t] = {} \/ (fl[t] = "matrix" /\ ~(t \in pending /\ core[t] = c))
  BY <1>0, <1>1, <1>4 DEF Picked, Filing
<1> QED BY <1>1, <1>2, <1>4, <1>5 DEF Picked, Decided

\* A step of the scheduler, seen by thread t, which does not park in it.
EasedBy(t) ==
  /\ state'[t] = "blocked" => state[t] = "blocked"
  /\ disposition'[t] = "prepared" => disposition[t] = "prepared"
  /\ filed'[t] = "matrix" => filed[t] = "matrix" \/ held[t] = {}
  /\ t \in pending => t \in pending' \/ Settled(t)

\* What the scheduler leaves behind every decision.
Scheduled ==
  /\ current' \in [Cores -> Threads \cup {Idle}] /\ state' \in [Threads -> States]
  /\ filed' \in [Threads -> Filings] /\ disposition' \in [Threads -> {"none", "prepared"}]
  /\ pending' \subseteq Threads /\ CoresOK' /\ RungOK'

\* The scheduler may start from the state as it is.
LEMMA StartsAgreed ==
  ASSUME MInv
  PROVE  /\ Typed /\ CoresOK /\ Agree(state, filed)
         /\ state \in [Threads -> States] /\ filed \in [Threads -> Filings]
         /\ disposition \in [Threads -> {"none", "prepared"}]
BY DEF MInv, Typed, CoresOK, Agree

\* A reschedule parks nobody, and loses no wake on an intake.
LEMMA YieldSchedules ==
  ASSUME MutexAssumption, MInv, NEW c \in Cores, decide(c, "yielded", state, disposition, filed),
         doorbell' \in {doorbell, doorbell \ {c}}
  PROVE  Scheduled /\ \A t \in Threads : EasedBy(t)
<1>1. Decided(c, "yielded", state, disposition, filed)
  BY StartsAgreed, DecideEffect
<1>2. RungOK' /\ pending' \subseteq Threads
  BY <1>1 DEF Decided, MInv, RungOK, Typed, OnCore
<1>3. ASSUME NEW t \in Threads PROVE EasedBy(t)
  BY <1>1 DEF Decided, EasedBy, Settled, OnCore
<1> QED BY <1>1, <1>2, <1>3 DEF Decided, Scheduled

\* A park on core c may block the thread that runs there, unless a wake of it
\* is on the intake, and eases the others.
LEMMA ParkSchedules ==
  ASSUME MutexAssumption, MInv, NEW t \in Threads, current[core[t]] = t, UNCHANGED doorbell,
         decide(core[t], "parked", state, disposition, filed)
  PROVE  /\ Scheduled /\ \A x \in Threads : x # t => EasedBy(x)
         /\ state'[t] = "blocked" => t \notin pending
         /\ filed'[t] = "matrix" => held[t] = {}
<1>0. core[t] \in Cores /\ filed[t] = "no"
  BY DEF MutexAssumption, MInv, CoresOK
<1>1. Decided(core[t], "parked", state, disposition, filed)
  BY <1>0, StartsAgreed, DecideEffect
<1>2. RungOK' /\ pending' \subseteq Threads
  BY <1>1 DEF Decided, MInv, RungOK, Typed, OnCore
<1>3. ASSUME NEW x \in Threads, x # t PROVE EasedBy(x)
  BY <1>1, <1>3 DEF Decided, EasedBy, Settled, OnCore
<1> QED BY <1>0, <1>1, <1>2, <1>3 DEF Decided, Scheduled

\* scheduler::set_thread_ready readies the thread, re-files it by what it has
\* come to hold, or revokes its park.
LEMMA SetReadySchedules ==
  ASSUME MutexAssumption, MInv, NEW u \in Threads, set_thread_ready(u)
  PROVE  Scheduled /\ Settled(u) /\ \A t \in Threads : EasedBy(t)
<1> DEFINE news == state[u] = "blocked" \/ (filed[u] = "matrix" /\ held[u] # {})
           ds == [disposition EXCEPT ![u] = "none"]
           st == IF news THEN [state EXCEPT ![u] = "ready"] ELSE state
           fl == IF news THEN [filed EXCEPT ![u] = Filing(u)] ELSE filed
<1>0. core[u] \in Cores /\ Typed /\ CoresOK /\ RungOK
  BY DEF MutexAssumption, MInv
<1>1. /\ st \in [Threads -> States] /\ ds \in [Threads -> {"none", "prepared"}]
      /\ fl \in [Threads -> Filings]
  BY <1>0 DEF Typed, States, Filings, Filing
<1>2. ASSUME NEW t \in Threads
      PROVE  /\ t # u => st[t] = state[t] /\ ds[t] = disposition[t] /\ fl[t] = filed[t]
             /\ st[t] = "blocked" => state[t] = "blocked"
             /\ ds[t] = "prepared" => disposition[t] = "prepared"
             /\ fl[t] = "matrix" => filed[t] = "matrix" \/ held[t] = {}
  BY <1>0 DEF Typed, Filing
<1>3. st[u] # "blocked" /\ ds[u] = "none" /\ (fl[u] = "matrix" => held[u] = {})
  BY <1>0 DEF Typed, Filing
<1>4. Agree(st, fl)
  BY SMTT(60), <1>0 DEF Typed, CoresOK, Agree, Filing
<1>5. CASE decide(core[u], "preempted", st, ds, fl) /\ UNCHANGED doorbell
  <2> HIDE DEF st, ds, fl
  <2>1. Decided(core[u], "preempted", st, ds, fl)
    BY <1>0, <1>1, <1>4, <1>5, DecideEffect
  <2>2. RungOK' /\ pending' \subseteq Threads
    BY <1>0, <1>5, <2>1 DEF Decided, RungOK, Typed, OnCore
  <2>3. ASSUME NEW t \in Threads PROVE EasedBy(t)
    BY <1>2, <2>1 DEF Decided, EasedBy, Settled, OnCore
  <2>4. Settled(u)
    BY <1>3, <2>1 DEF Decided, Settled
  <2> QED BY <2>1, <2>2, <2>3, <2>4 DEF Decided, Scheduled
<1>6. CASE /\ state' = st /\ disposition' = ds /\ filed' = fl
           /\ UNCHANGED <<current, pending, doorbell>>
  <2> HIDE DEF st, ds, fl
  <2>1. CoresOK' /\ RungOK' /\ pending' \subseteq Threads
    BY <1>0, <1>4, <1>6 DEF CoresOK, Agree, RungOK, Typed
  <2>2. Scheduled
    BY <1>0, <1>1, <1>6, <2>1 DEF Scheduled, Typed
  <2> QED BY <1>2, <1>3, <1>6, <2>2 DEF EasedBy, Settled
<1> QED BY <1>5, <1>6 DEF set_thread_ready

\* global_ready_thread, on either road, wakes the thread it is given.
LEMMA ReadySchedules ==
  ASSUME MutexAssumption, MInv, NEW t \in Threads, NEW u \in Threads, global_ready_thread(t, u)
  PROVE  Scheduled /\ (u \in pending' \/ Settled(u)) /\ \A x \in Threads : EasedBy(x)
<1>0. core[u] \in Cores /\ Typed /\ CoresOK /\ RungOK
  BY DEF MutexAssumption, MInv
<1>1. CASE set_thread_ready(u)
  BY <1>1, SetReadySchedules
<1>2. CASE /\ pending' = pending \cup {u}
           /\ doorbell' = IF pending \cap OnCore(core[u]) = {}
                          THEN doorbell \cup {core[u]} ELSE doorbell
           /\ UNCHANGED <<current, state, disposition, filed>>
  <2>1. CoresOK' /\ RungOK' /\ pending' \subseteq Threads
    BY SMTT(60), <1>0, <1>2 DEF CoresOK, RungOK, Typed, OnCore
  <2> QED BY <1>0, <1>2, <2>1 DEF Scheduled, EasedBy, Typed
<1> QED BY <1>1, <1>2 DEF global_ready_thread

\* A switch loses no wake: not the one on an intake, nor the one a thread is
\* about to give.
LEMMA SwitchEases ==
  ASSUME Scheduled, NEW t \in Threads, EasedBy(t),
         (\E u \in Threads : pc[u] = "ready" /\ seen[u] = t) =>
            \/ \E u \in Threads : pc'[u] = "ready" /\ seen'[u] = t
            \/ t \in pending' \/ Settled(t)
  PROVE  Eased(t)
<1>1. t \in pending' => WakeUnderWay(t)'
  BY DEF WakeUnderWay, Scheduled, RungOK
<1>2. WakeUnderWay(t) => WakeUnderWay(t)' \/ Settled(t)
  BY <1>1 DEF WakeUnderWay, EasedBy
<1> QED BY <1>2 DEF Eased, EasedBy

\* A switch, with nothing else changed, keeps the invariant.
LEMMA SwitchKeeps ==
  ASSUME MutexAssumption, MInv, Scheduled, \A t \in Threads : EasedBy(t),
         UNCHANGED <<mutex, blocked_on, pc, at, seen, locked>>
  PROVE  MInv'
<1>1. Typed' /\ QueuesOK'
  BY DEF MInv, Typed, QueuesOK, Scheduled, mutex
<1>2. ASSUME NEW t \in Threads PROVE Follows(t)
  <2>1. Eased(t)
    BY SwitchEases
  <2> QED BY <2>1 DEF Follows, mutex
<1> QED BY <1>1, <1>2, FollowsKeeps DEF MInv, Scheduled

\* The reschedule a doorbell asks for and the look of the idle loop at the
\* intake keep the invariant.
LEMMA CoreSteps ==
  ASSUME MutexAssumption, MInv, NEW c \in Cores, CoreStep(c)
  PROVE  MInv'
BY YieldSchedules, SwitchKeeps DEF CoreStep, reschedule, idle_task

-----------------------------------------------------------------------------
(* The steps of lock() *)

\* A thread moves on alone.
LEMMA Moves ==
  ASSUME Typed, NEW t \in Threads, NEW p \in Places, Goto(t, p)
  PROVE  /\ pc' \in [Threads -> Places] /\ pc'[t] = p
         /\ \A x \in Threads : x # t => pc'[x] = pc[x]
<1>1. pc \in [Threads -> Places]
  BY DEF Typed
<1> QED BY <1>1 DEF Goto

\* The fast path takes a free mutex, or begins the wait.
LEMMA LockStepKeeps ==
  ASSUME MutexAssumption, MInv, NEW t \in Threads, NEW m \in Mutexes, lock(t, m)
  PROVE  MInv'
<1>0. /\ pc[t] = "user" /\ state[t] = "running" /\ filed[t] = "no" /\ ThreadAt(t) /\ Typed /\ QueuesOK
      /\ None \notin Threads /\ None \notin Mutexes
  BY Runs DEF lock
<1>1. /\ at' = [at EXCEPT ![t] = m]
      /\ \/ owner[m] = None /\ owner' = [owner EXCEPT ![m] = t] /\ Goto(t, "register")
         \/ owner[m] # None /\ owner' = owner /\ Goto(t, "prepare")
      /\ UNCHANGED <<current, state, disposition, pending, doorbell, filed, queue, bridges, held,
                     blocked_on, seen, locked>>
  BY DEF lock, sched
<1>2. /\ pc' \in [Threads -> Places] /\ \A x \in Threads : x # t => pc'[x] = pc[x]
      /\ \/ pc'[t] = "register" /\ owner[m] = None /\ owner' = [owner EXCEPT ![m] = t]
         \/ pc'[t] = "prepare" /\ owner[m] # None /\ owner' = owner
  BY <1>0, <1>1, Moves DEF Places
<1>3. Typed' /\ QueuesOK'
  <2>1. owner' \in [Mutexes -> Threads \cup {None}] /\ at' \in [Threads -> Mutexes \cup {None}]
    <3>1. owner \in [Mutexes -> Threads \cup {None}] /\ at \in [Threads -> Mutexes \cup {None}]
      BY <1>0 DEF Typed
    <3> QED BY <1>1, <1>2, <3>1
  <2> QED BY <1>0, <1>1, <1>2, <2>1 DEF Typed, QueuesOK
<1>4. /\ at'[t] = m
      /\ \A x \in Threads : x # t => at'[x] = at[x] /\ \A n \in Mutexes : owner'[n] = x <=> owner[n] = x
      /\ \A n \in Mutexes : owner'[n] = IF n = m /\ owner[m] = None THEN t ELSE owner[n]
  BY <1>0, <1>1, <1>2 DEF Typed
<1>5. Local(t)
  BY SMTT(60), <1>0, <1>1, <1>2, <1>4 DEF Local
<1>6. m \notin locked[t] /\ m \notin held[t] /\ ~Armed(queue[m], t) /\ owner[m] # t
  <2>1. rank[t][m] \in Nat
    BY SMTT(60) DEF MutexAssumption
  <2>2. m \notin locked[t]
    BY SMTT(60), <2>1 DEF lock
  <2>3. at[t] = None
    BY <1>0 DEF ThreadAt, PlaceAt
  <2> QED BY <1>0, <2>2, <2>3 DEF ThreadAt, OwnAt, QueuedAt
<1>7. PlaceAt(t)' /\ ListedAt(t)' /\ WaitAt(t)'
  BY <1>0, <1>1, <1>2, <1>4 DEF ThreadAt, PlaceAt, WaitAt, ListedAt
<1>8. OwnAt(t)'
  BY SMTT(60), <1>0, <1>1, <1>2, <1>4, <1>6 DEF ThreadAt, PlaceAt, OwnAt
<1>9. QueuedAt(t)' /\ HintAt(t)'
  BY <1>0, <1>1, <1>2, <1>4, <1>6 DEF ThreadAt, PlaceAt, QueuedAt, HintAt, Waiting
<1> QED BY <1>3, <1>5, <1>7, <1>8, <1>9, LocalKeeps DEF ThreadAt

\* The slot is claimed, by the owner and for what it owns.
LEMMA RegisterStep ==
  ASSUME MutexAssumption, MInv, NEW t \in Threads, register_held(t)
  PROVE  MInv'
<1> DEFINE m == at[t]
<1>0. /\ pc[t] = "register" /\ state[t] = "running" /\ filed[t] = "no" /\ ThreadAt(t) /\ Typed /\ QueuesOK
      /\ None \notin Threads /\ None \notin Mutexes /\ m \in Mutexes
  BY SMTT(60), Runs DEF register_held
<1>1. /\ held' = [held EXCEPT ![t] = held[t] \cup {m}]
      /\ \/ /\ blocked_on[t] = None /\ Goto(t, "user")
            /\ locked' = [locked EXCEPT ![t] = locked[t] \cup {m}] /\ at' = [at EXCEPT ![t] = None]
         \/ blocked_on[t] # None /\ Goto(t, "leave") /\ UNCHANGED <<at, locked>>
      /\ UNCHANGED <<current, state, disposition, pending, doorbell, filed, owner, queue, bridges,
                     blocked_on, seen>>
  BY DEF register_held, sched, Locked
<1>2. /\ pc' \in [Threads -> Places] /\ \A x \in Threads : x # t => pc'[x] = pc[x]
      /\ \/ pc'[t] = "user" /\ blocked_on[t] = None
         \/ pc'[t] = "leave" /\ blocked_on[t] # None
  BY <1>0, <1>1, Moves DEF Places
<1>3. /\ held' \in [Threads -> SUBSET Mutexes] /\ locked' \in [Threads -> SUBSET Mutexes]
      /\ at' \in [Threads -> Mutexes \cup {None}] /\ held'[t] = held[t] \cup {m}
      /\ \A x \in Threads : x # t => held'[x] = held[x] /\ locked'[x] = locked[x] /\ at'[x] = at[x]
      /\ \/ locked'[t] = locked[t] \cup {m} /\ at'[t] = None /\ blocked_on[t] = None
         \/ locked'[t] = locked[t] /\ at'[t] = m /\ blocked_on[t] # None
  <2>1. /\ held \in [Threads -> SUBSET Mutexes] /\ locked \in [Threads -> SUBSET Mutexes]
        /\ at \in [Threads -> Mutexes \cup {None}]
    BY <1>0 DEF Typed
  <2> QED BY SMTT(60), <1>0, <1>1, <2>1
<1>4. Typed' /\ QueuesOK'
  BY <1>0, <1>1, <1>2, <1>3 DEF Typed, QueuesOK
<1>5. Local(t)
  BY <1>0, <1>1, <1>2, <1>3 DEF Local
<1>6. owner[m] = t /\ (blocked_on[t] = None => ~Armed(queue[m], t)) /\ blocked_on[t] \in {None, m}
  BY <1>0 DEF ThreadAt, OwnAt, QueuedAt, PlaceAt
<1>7. PlaceAt(t)' /\ ListedAt(t)' /\ WaitAt(t)'
  BY <1>0, <1>1, <1>2, <1>3, <1>6 DEF ThreadAt, PlaceAt, WaitAt, ListedAt
<1>8. OwnAt(t)'
  BY SMTT(60), <1>0, <1>1, <1>2, <1>3, <1>6 DEF ThreadAt, OwnAt
<1>9. QueuedAt(t)' /\ HintAt(t)'
  BY <1>0, <1>1, <1>2, <1>3, <1>6 DEF ThreadAt, QueuedAt, HintAt, Waiting
<1> QED BY <1>4, <1>5, <1>7, <1>8, <1>9, LocalKeeps DEF ThreadAt

\* The park is announced before the thread is armed.
LEMMA PrepareStep ==
  ASSUME MutexAssumption, MInv, NEW t \in Threads, prepare(t)
  PROVE  MInv'
<1>0. /\ pc[t] = "prepare" /\ state[t] = "running" /\ filed[t] = "no" /\ ThreadAt(t) /\ Typed /\ QueuesOK
      /\ None \notin Mutexes /\ at[t] \in Mutexes
  BY SMTT(60), Runs DEF prepare
<1>1. /\ disposition' = [disposition EXCEPT ![t] = "prepared"] /\ Goto(t, "arm")
      /\ UNCHANGED <<current, state, pending, doorbell, filed, owner, queue, bridges, held,
                     blocked_on, at, seen, locked>>
  BY DEF prepare, mutex
<1>2. pc' \in [Threads -> Places] /\ pc'[t] = "arm" /\ \A x \in Threads : x # t => pc'[x] = pc[x]
  BY <1>0, <1>1, Moves DEF Places
<1>3. /\ disposition' \in [Threads -> {"none", "prepared"}]
      /\ \A x \in Threads : x # t => disposition'[x] = disposition[x]
  <2>1. disposition \in [Threads -> {"none", "prepared"}]
    BY <1>0 DEF Typed
  <2> QED BY <1>1, <2>1
<1>4. Typed' /\ QueuesOK'
  BY <1>0, <1>1, <1>2, <1>3 DEF Typed, QueuesOK
<1>5. Local(t)
  BY <1>0, <1>1, <1>2, <1>3 DEF Local
<1>6. ThreadAt(t)'
  BY <1>0, <1>1, <1>2 DEF ThreadAt, PlaceAt, OwnAt, QueuedAt, WaitAt, ListedAt, HintAt, Waiting
<1> QED BY <1>4, <1>5, <1>6, LocalKeeps

\* The node is linked under the queue's lock, with the hint of a bridge.
LEMMA ArmStep ==
  ASSUME MutexAssumption, MInv, NEW t \in Threads, arm(t)
  PROVE  MInv'
<1> DEFINE m == at[t]
<1>0. /\ pc[t] = "arm" /\ state[t] = "running" /\ filed[t] = "no" /\ ThreadAt(t) /\ Typed /\ QueuesOK
      /\ None \notin Mutexes /\ m \in Mutexes
  BY SMTT(60), Runs DEF arm
<1>1. /\ queue' = [queue EXCEPT ![m] = link(queue[m], t)]
      /\ bridges' = [bridges EXCEPT ![m] = bridges[m] \/ held[t] # {}] /\ Goto(t, "publish")
      /\ UNCHANGED <<current, state, disposition, pending, doorbell, filed, owner, held,
                     blocked_on, at, seen, locked>>
  BY DEF arm, sched
<1>2. pc' \in [Threads -> Places] /\ pc'[t] = "publish" /\ \A x \in Threads : x # t => pc'[x] = pc[x]
  BY <1>0, <1>1, Moves DEF Places
<1>3. /\ queue \in [Mutexes -> Seq(Threads)] /\ bridges \in [Mutexes -> BOOLEAN]
      /\ queue[m] \in Seq(Threads) /\ NoDup(queue[m])
  BY <1>0 DEF Typed, QueuesOK
<1>4. ~Armed(queue[m], t) /\ owner[m] # t
  BY <1>0 DEF ThreadAt, OwnAt, QueuedAt, Waiting
<1>5. /\ link(queue[m], t) \in Seq(Threads) /\ NoDup(link(queue[m], t))
      /\ \A x : Armed(link(queue[m], t), x) <=> Armed(queue[m], x) \/ x = t
  BY <1>3, <1>4, LinkArms, LinkNoDup
<1>6. /\ queue' \in [Mutexes -> Seq(Threads)] /\ bridges' \in [Mutexes -> BOOLEAN]
      /\ queue'[m] = link(queue[m], t) /\ bridges'[m] = (bridges[m] \/ held[t] # {})
      /\ \A n \in Mutexes : n # m => queue'[n] = queue[n] /\ bridges'[n] = bridges[n]
  BY <1>0, <1>1, <1>3, <1>5
<1>7. /\ \A n \in Mutexes, x \in Threads : Armed(queue'[n], x) <=> Armed(queue[n], x) \/ (n = m /\ x = t)
      /\ \A n \in Mutexes : bridges[n] => bridges'[n]
  BY <1>5, <1>6
<1>8. Typed' /\ QueuesOK'
  BY <1>0, <1>1, <1>2, <1>5, <1>6 DEF Typed, QueuesOK
<1>9. Local(t)
  BY <1>0, <1>1, <1>2, <1>7 DEF Local
<1>10. PlaceAt(t)' /\ ListedAt(t)' /\ OwnAt(t)'
  BY <1>0, <1>1, <1>2 DEF ThreadAt, PlaceAt, ListedAt, OwnAt
<1>11. QueuedAt(t)' /\ WaitAt(t)' /\ HintAt(t)'
  BY <1>0, <1>1, <1>2, <1>4, <1>6, <1>7 DEF ThreadAt, QueuedAt, WaitAt, HintAt, Waiting
<1> QED BY <1>8, <1>9, <1>10, <1>11, LocalKeeps DEF ThreadAt

\* The wait-for edge is published.
LEMMA PublishStep ==
  ASSUME MutexAssumption, MInv, NEW t \in Threads, publish(t)
  PROVE  MInv'
<1>0. /\ pc[t] = "publish" /\ state[t] = "running" /\ filed[t] = "no" /\ ThreadAt(t) /\ Typed /\ QueuesOK
      /\ None \notin Mutexes /\ at[t] \in Mutexes
  BY SMTT(60), Runs DEF publish
<1>1. /\ blocked_on' = [blocked_on EXCEPT ![t] = at[t]] /\ Goto(t, "poll")
      /\ UNCHANGED <<current, state, disposition, pending, doorbell, filed, owner, queue, bridges, held,
                     at, seen, locked>>
  BY DEF publish, sched, mutex
<1>2. pc' \in [Threads -> Places] /\ pc'[t] = "poll" /\ \A x \in Threads : x # t => pc'[x] = pc[x]
  BY <1>0, <1>1, Moves DEF Places
<1>3. /\ blocked_on' \in [Threads -> Mutexes \cup {None}] /\ blocked_on'[t] = at[t]
      /\ \A x \in Threads : x # t => blocked_on'[x] = blocked_on[x]
  <2>1. blocked_on \in [Threads -> Mutexes \cup {None}]
    BY <1>0 DEF Typed
  <2> QED BY <1>0, <1>1, <2>1
<1>4. Typed' /\ QueuesOK'
  BY <1>0, <1>1, <1>2, <1>3 DEF Typed, QueuesOK
<1>5. Local(t)
  BY <1>0, <1>1, <1>2, <1>3 DEF Local
<1>6. PlaceAt(t)' /\ ListedAt(t)' /\ OwnAt(t)'
  BY <1>0, <1>1, <1>2, <1>3 DEF ThreadAt, PlaceAt, ListedAt, OwnAt
<1>7. QueuedAt(t)' /\ WaitAt(t)' /\ HintAt(t)'
  <2>1. WakeUnderWay(t) => WakeUnderWay(t)'
    BY <1>0, <1>1, <1>2 DEF WakeUnderWay
  <2> QED BY <1>0, <1>1, <1>2, <1>3, <2>1 DEF ThreadAt, QueuedAt, WaitAt, HintAt, Waiting
<1> QED BY <1>4, <1>5, <1>6, <1>7, LocalKeeps DEF ThreadAt

\* The armed poll takes a free mutex, sees the handover, or sees an owner.
LEMMA PollStep ==
  ASSUME MutexAssumption, MInv, NEW t \in Threads, acquire_condition(t)
  PROVE  MInv'
<1> DEFINE m == at[t]
<1>0. /\ pc[t] = "poll" /\ state[t] = "running" /\ filed[t] = "no" /\ ThreadAt(t) /\ Typed /\ QueuesOK
      /\ None \notin Threads /\ None \notin Mutexes /\ m \in Mutexes
  BY SMTT(60), Runs DEF acquire_condition
<1>1. /\ \/ /\ owner[m] = None /\ owner' = [owner EXCEPT ![m] = t]
            /\ Goto(t, "register") /\ UNCHANGED seen
         \/ owner[m] = t /\ Goto(t, "leave") /\ UNCHANGED <<owner, seen>>
         \/ /\ owner[m] # None /\ owner[m] # t /\ seen' = [seen EXCEPT ![t] = owner[m]]
            /\ Goto(t, "repick") /\ UNCHANGED owner
      /\ UNCHANGED <<current, state, disposition, pending, doorbell, filed, queue, bridges, held,
                     blocked_on, at, locked>>
  BY DEF acquire_condition, sched
<1>2. /\ pc' \in [Threads -> Places] /\ \A x \in Threads : x # t => pc'[x] = pc[x]
      /\ \/ /\ owner[m] = None /\ owner' = [owner EXCEPT ![m] = t]
            /\ pc'[t] = "register" /\ UNCHANGED seen
         \/ owner[m] = t /\ pc'[t] = "leave" /\ UNCHANGED <<owner, seen>>
         \/ /\ owner[m] # None /\ owner[m] # t /\ seen' = [seen EXCEPT ![t] = owner[m]]
            /\ pc'[t] = "repick" /\ UNCHANGED owner
  BY <1>0, <1>1, Moves DEF Places
<1>3. /\ owner' \in [Mutexes -> Threads \cup {None}] /\ seen' \in [Threads -> Threads \cup {None}]
      /\ \A x \in Threads : x # t => seen'[x] = seen[x] /\ \A n \in Mutexes : owner'[n] = x <=> owner[n] = x
      /\ \A n \in Mutexes : owner'[n] = IF n = m /\ owner[m] = None THEN t ELSE owner[n]
      /\ seen'[t] = IF pc'[t] = "repick" THEN owner[m] ELSE seen[t]
      /\ owner[m] \in Threads \cup {None}
  <2>1. owner \in [Mutexes -> Threads \cup {None}] /\ seen \in [Threads -> Threads \cup {None}]
    BY <1>0 DEF Typed
  <2> QED BY SMTT(60), <1>0, <1>2, <2>1
<1>4. Typed' /\ QueuesOK'
  BY <1>0, <1>1, <1>2, <1>3 DEF Typed, QueuesOK
<1>5. Local(t)
  BY <1>0, <1>1, <1>2, <1>3 DEF Local
<1>6. PlaceAt(t)' /\ ListedAt(t)'
  BY <1>0, <1>1, <1>2, <1>3 DEF ThreadAt, PlaceAt, ListedAt
<1>7. OwnAt(t)'
  BY SMTT(60), <1>0, <1>1, <1>2, <1>3 DEF ThreadAt, OwnAt
<1>8. QueuedAt(t)'
  <2>1. blocked_on'[t] # None
    BY <1>0, <1>1 DEF ThreadAt, PlaceAt
  <2> QED BY <1>0, <1>1, <1>2, <1>3, <2>1 DEF ThreadAt, QueuedAt, Waiting
<1>9. WaitAt(t)'
  BY <1>0, <1>1, <1>2, <1>3 DEF ThreadAt, QueuedAt, WaitAt, Waiting
<1>10. HintAt(t)'
  <2>1. HintAt(t) /\ queue' = queue /\ held' = held /\ bridges' = bridges
    BY <1>0, <1>1 DEF ThreadAt
  <2>2. \A n \in Mutexes : owner[n] = t => owner'[n] = t
    BY <1>0, <1>3
  <2> QED BY <2>1, <2>2 DEF HintAt
<1> QED BY <1>4, <1>5, <1>6, <1>7, <1>8, <1>9, <1>10, LocalKeeps DEF ThreadAt

\* The donation asks the cores of the owners along the edges to reschedule.
LEMMA RepickStep ==
  ASSUME MutexAssumption, MInv, NEW t \in Threads, request_repick(t)
  PROVE  MInv'
<1>0. /\ pc[t] = "repick" /\ state[t] = "running" /\ filed[t] = "no" /\ ThreadAt(t) /\ Typed /\ QueuesOK
      /\ None \notin Threads /\ None \notin Mutexes /\ at[t] \in Mutexes
  BY SMTT(60), Runs DEF request_repick
<1>1. /\ doorbell \subseteq doorbell' /\ seen' = [seen EXCEPT ![t] = None] /\ Goto(t, "commit")
      /\ UNCHANGED <<current, state, disposition, pending, filed, owner, queue, bridges, held,
                     blocked_on, at, locked>>
  BY DEF request_repick, mutex
<1>2. pc' \in [Threads -> Places] /\ pc'[t] = "commit" /\ \A x \in Threads : x # t => pc'[x] = pc[x]
  BY <1>0, <1>1, Moves DEF Places
<1>3. /\ seen' \in [Threads -> Threads \cup {None}] /\ seen'[t] = None
      /\ \A x \in Threads : x # t => seen'[x] = seen[x]
  <2>1. seen \in [Threads -> Threads \cup {None}]
    BY <1>0 DEF Typed
  <2> QED BY <1>0, <1>1, <2>1
<1>4. Typed' /\ QueuesOK'
  BY <1>0, <1>1, <1>2, <1>3 DEF Typed, QueuesOK
<1>5. Local(t)
  BY <1>0, <1>1, <1>2, <1>3 DEF Local
<1>6. PlaceAt(t)' /\ ListedAt(t)' /\ OwnAt(t)'
  BY <1>0, <1>1, <1>2, <1>3 DEF ThreadAt, PlaceAt, ListedAt, OwnAt
<1>7. QueuedAt(t)' /\ WaitAt(t)' /\ HintAt(t)'
  <2>1. WakeUnderWay(t) => WakeUnderWay(t)'
    BY <1>0, <1>1, <1>2, <1>3 DEF WakeUnderWay
  <2> QED BY <1>0, <1>1, <1>2, <2>1 DEF ThreadAt, QueuedAt, WaitAt, HintAt, Waiting
<1> QED BY <1>4, <1>5, <1>6, <1>7, LocalKeeps DEF ThreadAt

\* The park that commit_to_block makes, or finds revoked.
LEMMA CommitStep ==
  ASSUME MutexAssumption, MInv, NEW t \in Threads, commit_to_block(t)
  PROVE  MInv'
<1>0. /\ pc[t] = "commit" /\ state[t] = "running" /\ filed[t] = "no" /\ ThreadAt(t) /\ Typed /\ QueuesOK
      /\ None \notin Threads /\ None \notin Mutexes /\ at[t] \in Mutexes /\ current[core[t]] = t
  BY SMTT(60), Runs DEF commit_to_block
<1>1. /\ Goto(t, "disarm")
      /\ UNCHANGED <<owner, queue, bridges, held, blocked_on, at, seen, locked>>
  BY DEF commit_to_block, mutex
<1>2. pc' \in [Threads -> Places] /\ pc'[t] = "disarm" /\ \A x \in Threads : x # t => pc'[x] = pc[x]
  BY <1>0, <1>1, Moves DEF Places
<1>3. OwnAt(t)' /\ QueuedAt(t)' /\ HintAt(t)'
  BY <1>0, <1>1, <1>2 DEF ThreadAt, OwnAt, QueuedAt, HintAt, Waiting
<1>4. QueuesOK'
  BY <1>0, <1>1 DEF QueuesOK
<1>5. CASE UNCHANGED sched
  <2> USE <1>5 DEF sched
  <2>1. Typed'
    BY <1>0, <1>1, <1>2 DEF Typed
  <2>2. Local(t)
    BY <1>0, <1>1, <1>2 DEF Local
  <2>3. PlaceAt(t)' /\ WaitAt(t)' /\ ListedAt(t)'
    BY <1>0, <1>1, <1>2 DEF ThreadAt, PlaceAt, WaitAt, ListedAt
  <2> QED BY <1>3, <1>4, <2>1, <2>2, <2>3, LocalKeeps DEF ThreadAt
<1>6. CASE /\ disposition[t] = "prepared" /\ UNCHANGED doorbell
           /\ decide(core[t], "parked", state, disposition, filed)
  <2>1. /\ Scheduled /\ \A x \in Threads : x # t => EasedBy(x)
        /\ state'[t] = "blocked" => t \notin pending
        /\ filed'[t] = "matrix" => held[t] = {}
    BY <1>0, <1>6, ParkSchedules
  <2>2. Typed'
    BY <1>0, <1>1, <1>2, <2>1 DEF Typed, Scheduled
  <2>3. ASSUME NEW x \in Threads, x # t PROVE ThreadAt(x)'
    <3>1. Eased(x)
      <4>1. ASSUME NEW u \in Threads, pc[u] = "ready", seen[u] = x
            PROVE  pc'[u] = "ready" /\ seen'[u] = x
        BY <1>0, <1>1, <1>2, <4>1
      <4> QED BY <2>1, <2>3, <4>1, SwitchEases
    <3>2. Follows(x)
      BY <1>1, <1>2, <2>3, <3>1 DEF Follows
    <3> QED BY <3>2, FollowsKeeps
  <2>4. PlaceAt(t)' /\ ListedAt(t)'
    BY <1>0, <1>1, <1>2, <2>1 DEF ThreadAt, PlaceAt, ListedAt
  <2>5. WaitAt(t)'
    <3>1. WakeUnderWay(t) => WakeUnderWay(t)' \/ state'[t] # "blocked"
      BY <1>0, <1>1, <1>2, <2>1 DEF WakeUnderWay
    <3> QED BY <1>0, <1>1, <1>2, <1>6, <3>1 DEF ThreadAt, WaitAt
  <2> QED BY <1>3, <1>4, <2>1, <2>2, <2>3, <2>4, <2>5 DEF MInv, ThreadAt, Scheduled
<1> QED BY <1>5, <1>6 DEF commit_to_block

\* A disarm takes its thread off one queue, and nobody else.
LEMMA DisarmEffect ==
  ASSUME MInv, NEW t \in Threads, at[t] \in Mutexes, Disarm(t)
  PROVE  /\ queue' \in [Mutexes -> Seq(Threads)] /\ bridges' \in [Mutexes -> BOOLEAN] /\ QueuesOK'
         /\ owner' = owner /\ held' = held /\ ~Armed(queue'[at[t]], t)
         /\ \A n \in Mutexes, x \in Threads : x # t =>
              /\ Armed(queue'[n], x) <=> Armed(queue[n], x)
              /\ Armed(queue[n], x) /\ bridges[n] => bridges'[n]
         /\ \A n \in Mutexes : Armed(queue'[n], t) => n # at[t] /\ Armed(queue[n], t)
<1> DEFINE m == at[t]
           q == unlink(queue[m], t)
<1>1. /\ queue \in [Mutexes -> Seq(Threads)] /\ bridges \in [Mutexes -> BOOLEAN] /\ QueuesOK
      /\ queue[m] \in Seq(Threads) /\ NoDup(queue[m])
  BY DEF MInv, Typed, QueuesOK
<1>2. /\ q \in Seq(Threads) /\ NoDup(q) /\ ~Armed(q, t)
      /\ \A x : x # t => (Armed(q, x) <=> Armed(queue[m], x))
  BY <1>1, UnlinkDisarms
<1>3. \A x : Armed(q, x) => q # <<>>
  BY EmptyArms
<1>4. /\ queue' = [queue EXCEPT ![m] = q] /\ owner' = owner /\ held' = held
      /\ bridges' = [bridges EXCEPT ![m] = bridges[m] /\ (q # <<>> \/ q = queue[m])]
  BY DEF Disarm
<1> HIDE DEF q
<1>5. /\ queue' \in [Mutexes -> Seq(Threads)] /\ bridges' \in [Mutexes -> BOOLEAN]
      /\ queue'[m] = q /\ bridges'[m] = (bridges[m] /\ (q # <<>> \/ q = queue[m]))
      /\ \A n \in Mutexes : n # m => queue'[n] = queue[n] /\ bridges'[n] = bridges[n]
  BY <1>1, <1>2, <1>4
<1>6. QueuesOK'
  BY <1>1, <1>2, <1>5 DEF QueuesOK
<1> QED BY <1>2, <1>3, <1>4, <1>5, <1>6

\* The wait over, the node goes.
LEMMA DisarmStep ==
  ASSUME MutexAssumption, MInv, NEW t \in Threads, disarm(t)
  PROVE  MInv'
<1>0. /\ pc[t] = "disarm" /\ state[t] = "running" /\ filed[t] = "no" /\ ThreadAt(t) /\ Typed
      /\ None \notin Mutexes /\ at[t] \in Mutexes
  BY SMTT(60), Runs DEF disarm
<1>1. /\ Goto(t, "clear") /\ Disarm(t)
      /\ UNCHANGED <<current, state, disposition, pending, doorbell, filed, blocked_on, at, seen, locked>>
  BY DEF disarm, sched
<1>2. pc' \in [Threads -> Places] /\ pc'[t] = "clear" /\ \A x \in Threads : x # t => pc'[x] = pc[x]
  BY <1>0, <1>1, Moves DEF Places
<1>3. /\ queue' \in [Mutexes -> Seq(Threads)] /\ bridges' \in [Mutexes -> BOOLEAN] /\ QueuesOK'
      /\ owner' = owner /\ held' = held /\ ~Armed(queue'[at[t]], t)
      /\ \A n \in Mutexes, x \in Threads : x # t =>
           /\ Armed(queue'[n], x) <=> Armed(queue[n], x)
           /\ Armed(queue[n], x) /\ bridges[n] => bridges'[n]
      /\ \A n \in Mutexes : Armed(queue'[n], t) => n # at[t] /\ Armed(queue[n], t)
  BY <1>0, <1>1, DisarmEffect
<1>4. Typed'
  BY <1>0, <1>1, <1>2, <1>3 DEF Typed
<1>5. Local(t)
  BY <1>0, <1>1, <1>2, <1>3 DEF Local
<1>6. PlaceAt(t)' /\ ListedAt(t)' /\ OwnAt(t)' /\ WaitAt(t)'
  BY <1>0, <1>1, <1>2, <1>3 DEF ThreadAt, PlaceAt, ListedAt, OwnAt, WaitAt
<1>7. QueuedAt(t)' /\ HintAt(t)'
  BY <1>0, <1>1, <1>2, <1>3 DEF ThreadAt, QueuedAt, HintAt, Waiting
<1> QED BY <1>3, <1>4, <1>5, <1>6, <1>7, LocalKeeps DEF ThreadAt

\* The edge is cleared after the node has gone.
LEMMA ClearStep ==
  ASSUME MutexAssumption, MInv, NEW t \in Threads, clear_edge(t)
  PROVE  MInv'
<1>0. /\ pc[t] = "clear" /\ state[t] = "running" /\ filed[t] = "no" /\ ThreadAt(t) /\ Typed /\ QueuesOK
      /\ None \notin Mutexes /\ at[t] \in Mutexes
  BY SMTT(60), Runs DEF clear_edge
<1>1. /\ blocked_on' = [blocked_on EXCEPT ![t] = None] /\ Goto(t, "recognise")
      /\ UNCHANGED <<current, state, disposition, pending, doorbell, filed, owner, queue, bridges, held,
                     at, seen, locked>>
  BY DEF clear_edge, sched, mutex
<1>2. pc' \in [Threads -> Places] /\ pc'[t] = "recognise" /\ \A x \in Threads : x # t => pc'[x] = pc[x]
  BY <1>0, <1>1, Moves DEF Places
<1>3. /\ blocked_on' \in [Threads -> Mutexes \cup {None}] /\ blocked_on'[t] = None
      /\ \A x \in Threads : x # t => blocked_on'[x] = blocked_on[x]
  <2>1. blocked_on \in [Threads -> Mutexes \cup {None}]
    BY <1>0 DEF Typed
  <2> QED BY <1>1, <2>1
<1>4. Typed' /\ QueuesOK'
  BY <1>0, <1>1, <1>2, <1>3 DEF Typed, QueuesOK
<1>5. Local(t)
  BY <1>0, <1>1, <1>2, <1>3 DEF Local
<1>6. PlaceAt(t)' /\ ListedAt(t)' /\ OwnAt(t)' /\ WaitAt(t)'
  BY <1>0, <1>1, <1>2, <1>3 DEF ThreadAt, PlaceAt, ListedAt, OwnAt, WaitAt
<1>7. QueuedAt(t)' /\ HintAt(t)'
  BY <1>0, <1>1, <1>2, <1>3 DEF ThreadAt, QueuedAt, HintAt, Waiting
<1> QED BY <1>4, <1>5, <1>6, <1>7, LocalKeeps DEF ThreadAt

\* A thread made owner returns from lock(); another goes round.
LEMMA RecogniseStep ==
  ASSUME MutexAssumption, MInv, NEW t \in Threads, recognise(t)
  PROVE  MInv'
<1> DEFINE m == at[t]
<1>0. /\ pc[t] = "recognise" /\ state[t] = "running" /\ filed[t] = "no" /\ ThreadAt(t) /\ Typed /\ QueuesOK
      /\ None \notin Mutexes /\ m \in Mutexes
  BY SMTT(60), Runs DEF recognise
<1>1. /\ \/ /\ owner[m] = t /\ disposition' = [disposition EXCEPT ![t] = "none"] /\ Goto(t, "user")
            /\ locked' = [locked EXCEPT ![t] = locked[t] \cup {m}] /\ at' = [at EXCEPT ![t] = None]
         \/ owner[m] # t /\ Goto(t, "prepare") /\ UNCHANGED <<disposition, at, locked>>
      /\ UNCHANGED <<current, state, pending, doorbell, filed, owner, queue, bridges, held,
                     blocked_on, seen>>
  BY DEF recognise, mutex, Locked
<1>2. /\ pc' \in [Threads -> Places] /\ \A x \in Threads : x # t => pc'[x] = pc[x]
      /\ \/ pc'[t] = "user" /\ owner[m] = t
         \/ pc'[t] = "prepare" /\ owner[m] # t
  BY <1>0, <1>1, Moves DEF Places
<1>3. /\ locked' \in [Threads -> SUBSET Mutexes] /\ at' \in [Threads -> Mutexes \cup {None}]
      /\ disposition' \in [Threads -> {"none", "prepared"}]
      /\ \A x \in Threads : x # t =>
           locked'[x] = locked[x] /\ at'[x] = at[x] /\ disposition'[x] = disposition[x]
      /\ \/ locked'[t] = locked[t] \cup {m} /\ at'[t] = None /\ owner[m] = t
         \/ locked'[t] = locked[t] /\ at'[t] = m /\ owner[m] # t
  <2>1. /\ locked \in [Threads -> SUBSET Mutexes] /\ disposition \in [Threads -> {"none", "prepared"}]
        /\ at \in [Threads -> Mutexes \cup {None}]
    BY <1>0 DEF Typed
  <2> QED BY SMTT(60), <1>0, <1>1, <2>1
<1>4. Typed' /\ QueuesOK'
  BY <1>0, <1>1, <1>2, <1>3 DEF Typed, QueuesOK
<1>5. Local(t)
  BY <1>0, <1>1, <1>2, <1>3 DEF Local
<1>6. PlaceAt(t)' /\ ListedAt(t)' /\ WaitAt(t)'
  BY <1>0, <1>1, <1>2, <1>3 DEF ThreadAt, PlaceAt, ListedAt, WaitAt
<1>7. OwnAt(t)'
  <2>1. OwnAt(t) /\ owner' = owner /\ held' = held
    BY <1>0, <1>1 DEF ThreadAt
  <2>2. CASE owner[m] = t
    <3>1. locked'[t] = locked[t] \cup {m} /\ at'[t] = None /\ m \in held[t]
      BY <1>0, <1>3, <2>1, <2>2 DEF OwnAt
    <3>2. \A n \in Mutexes : n # None
      BY <1>0
    <3> QED BY <1>0, <2>1, <2>2, <3>1, <3>2 DEF OwnAt
  <2>3. CASE owner[m] # t
    <3>1. locked'[t] = locked[t] /\ at'[t] = m /\ pc'[t] = "prepare"
      BY <1>2, <1>3, <2>3
    <3> QED BY <1>0, <2>1, <2>3, <3>1 DEF OwnAt
  <2> QED BY <2>2, <2>3
<1>8. QueuedAt(t)' /\ HintAt(t)'
  BY <1>0, <1>1, <1>2, <1>3 DEF ThreadAt, QueuedAt, HintAt, Waiting
<1> QED BY <1>4, <1>5, <1>6, <1>7, <1>8, LocalKeeps DEF ThreadAt

\* A thread that took the mutex while armed clears its edge and its park,
LEMMA LeaveStep ==
  ASSUME MutexAssumption, MInv, NEW t \in Threads, leave(t)
  PROVE  MInv'
<1>0. /\ pc[t] = "leave" /\ state[t] = "running" /\ filed[t] = "no" /\ ThreadAt(t) /\ Typed /\ QueuesOK
      /\ None \notin Mutexes /\ at[t] \in Mutexes
  BY SMTT(60), Runs DEF leave
<1>1. /\ blocked_on' = [blocked_on EXCEPT ![t] = None] /\ Goto(t, "unqueue")
      /\ disposition' = [disposition EXCEPT ![t] = "none"]
      /\ UNCHANGED <<current, state, pending, doorbell, filed, owner, queue, bridges, held,
                     at, seen, locked>>
  BY DEF leave, mutex
<1>2. pc' \in [Threads -> Places] /\ pc'[t] = "unqueue" /\ \A x \in Threads : x # t => pc'[x] = pc[x]
  BY <1>0, <1>1, Moves DEF Places
<1>3. /\ blocked_on' \in [Threads -> Mutexes \cup {None}] /\ blocked_on'[t] = None
      /\ disposition' \in [Threads -> {"none", "prepared"}]
      /\ \A x \in Threads : x # t =>
           blocked_on'[x] = blocked_on[x] /\ disposition'[x] = disposition[x]
  <2>1. /\ blocked_on \in [Threads -> Mutexes \cup {None}]
        /\ disposition \in [Threads -> {"none", "prepared"}]
    BY <1>0 DEF Typed
  <2> QED BY <1>1, <2>1
<1>4. Typed' /\ QueuesOK'
  BY <1>0, <1>1, <1>2, <1>3 DEF Typed, QueuesOK
<1>5. Local(t)
  BY <1>0, <1>1, <1>2, <1>3 DEF Local
<1>6. PlaceAt(t)' /\ ListedAt(t)' /\ OwnAt(t)' /\ WaitAt(t)'
  BY <1>0, <1>1, <1>2, <1>3 DEF ThreadAt, PlaceAt, ListedAt, OwnAt, WaitAt
<1>7. QueuedAt(t)' /\ HintAt(t)'
  BY <1>0, <1>1, <1>2, <1>3 DEF ThreadAt, QueuedAt, HintAt, Waiting
<1> QED BY <1>4, <1>5, <1>6, <1>7, LocalKeeps DEF ThreadAt

\* and leaves the queue before lock() returns.
LEMMA UnqueueStep ==
  ASSUME MutexAssumption, MInv, NEW t \in Threads, unqueue(t)
  PROVE  MInv'
<1> DEFINE m == at[t]
<1>0. /\ pc[t] = "unqueue" /\ state[t] = "running" /\ filed[t] = "no" /\ ThreadAt(t) /\ Typed
      /\ None \notin Mutexes /\ m \in Mutexes
  BY SMTT(60), Runs DEF unqueue
<1>1. /\ Goto(t, "user") /\ Disarm(t) /\ at' = [at EXCEPT ![t] = None]
      /\ locked' = [locked EXCEPT ![t] = locked[t] \cup {m}]
      /\ UNCHANGED <<current, state, disposition, pending, doorbell, filed, blocked_on, seen>>
  BY DEF unqueue, sched, Locked
<1>2. pc' \in [Threads -> Places] /\ pc'[t] = "user" /\ \A x \in Threads : x # t => pc'[x] = pc[x]
  BY <1>0, <1>1, Moves DEF Places
<1>3. /\ queue' \in [Mutexes -> Seq(Threads)] /\ bridges' \in [Mutexes -> BOOLEAN] /\ QueuesOK'
      /\ owner' = owner /\ held' = held /\ ~Armed(queue'[m], t)
      /\ \A n \in Mutexes, x \in Threads : x # t =>
           /\ Armed(queue'[n], x) <=> Armed(queue[n], x)
           /\ Armed(queue[n], x) /\ bridges[n] => bridges'[n]
      /\ \A n \in Mutexes : Armed(queue'[n], t) => n # m /\ Armed(queue[n], t)
  BY <1>0, <1>1, DisarmEffect
<1>4. /\ locked' \in [Threads -> SUBSET Mutexes] /\ at' \in [Threads -> Mutexes \cup {None}]
      /\ locked'[t] = locked[t] \cup {m} /\ at'[t] = None
      /\ \A x \in Threads : x # t => locked'[x] = locked[x] /\ at'[x] = at[x]
  <2>1. locked \in [Threads -> SUBSET Mutexes] /\ at \in [Threads -> Mutexes \cup {None}]
    BY <1>0 DEF Typed
  <2> QED BY <1>0, <1>1, <2>1
<1>5. Typed'
  BY <1>0, <1>1, <1>2, <1>3, <1>4 DEF Typed
<1>6. Local(t)
  BY <1>0, <1>1, <1>2, <1>3, <1>4 DEF Local
<1>7. PlaceAt(t)' /\ ListedAt(t)' /\ WaitAt(t)'
  BY <1>0, <1>1, <1>2, <1>3, <1>4 DEF ThreadAt, PlaceAt, ListedAt, WaitAt
<1>8. OwnAt(t)'
  BY <1>0, <1>1, <1>2, <1>3, <1>4 DEF ThreadAt, OwnAt
<1>9. QueuedAt(t)' /\ HintAt(t)'
  BY <1>0, <1>1, <1>2, <1>3, <1>4 DEF ThreadAt, QueuedAt, HintAt, Waiting
<1> QED BY <1>3, <1>5, <1>6, <1>7, <1>8, <1>9, LocalKeeps DEF ThreadAt

-----------------------------------------------------------------------------
(* The steps of unlock(), and the sleeps *)

\* The slot is retired while the thread still owns the mutex.
LEMMA UnlockStepKeeps ==
  ASSUME MutexAssumption, MInv, NEW t \in Threads, NEW m \in Mutexes, unlock(t, m)
  PROVE  MInv'
<1>0. /\ pc[t] = "user" /\ state[t] = "running" /\ filed[t] = "no" /\ ThreadAt(t) /\ Typed /\ QueuesOK
      /\ None \notin Threads /\ None \notin Mutexes
  BY Runs DEF unlock
<1>1. /\ locked' = [locked EXCEPT ![t] = locked[t] \ {m}] /\ held' = [held EXCEPT ![t] = held[t] \ {m}]
      /\ at' = [at EXCEPT ![t] = m] /\ Goto(t, "hand_over") /\ m \in locked[t]
      /\ UNCHANGED <<current, state, disposition, pending, doorbell, filed, owner, queue, bridges,
                     blocked_on, seen>>
  BY DEF unlock, sched
<1>2. pc' \in [Threads -> Places] /\ pc'[t] = "hand_over" /\ \A x \in Threads : x # t => pc'[x] = pc[x]
  BY <1>0, <1>1, Moves DEF Places
<1>3. /\ locked' \in [Threads -> SUBSET Mutexes] /\ held' \in [Threads -> SUBSET Mutexes]
      /\ at' \in [Threads -> Mutexes \cup {None}]
      /\ locked'[t] = locked[t] \ {m} /\ held'[t] = held[t] \ {m} /\ at'[t] = m
      /\ \A x \in Threads : x # t => held'[x] = held[x] /\ locked'[x] = locked[x] /\ at'[x] = at[x]
  <2>1. /\ held \in [Threads -> SUBSET Mutexes] /\ locked \in [Threads -> SUBSET Mutexes]
        /\ at \in [Threads -> Mutexes \cup {None}]
    BY <1>0 DEF Typed
  <2> QED BY <1>1, <2>1
<1>4. Typed' /\ QueuesOK'
  BY <1>0, <1>1, <1>2, <1>3 DEF Typed, QueuesOK
<1>5. Local(t)
  BY <1>0, <1>1, <1>2, <1>3 DEF Local
<1>6. PlaceAt(t)' /\ ListedAt(t)' /\ WaitAt(t)'
  BY <1>0, <1>1, <1>2, <1>3 DEF ThreadAt, PlaceAt, ListedAt, WaitAt
<1>7. OwnAt(t)'
  <2>1. at[t] = None /\ owner[m] = t
    BY <1>0, <1>1 DEF ThreadAt, PlaceAt, OwnAt
  <2> QED BY <1>0, <1>1, <1>2, <1>3, <2>1 DEF ThreadAt, OwnAt
<1>8. QueuedAt(t)' /\ HintAt(t)'
  BY <1>0, <1>1, <1>2, <1>3 DEF ThreadAt, QueuedAt, HintAt, Waiting
<1> QED BY <1>4, <1>5, <1>6, <1>7, <1>8, LocalKeeps DEF ThreadAt

\* The mutex goes to the best waiter under the queue's lock, or is freed when
\* nobody waits.
LEMMA HandOverStep ==
  ASSUME MutexAssumption, MInv, NEW t \in Threads, hand_over(t)
  PROVE  MInv'
<1> DEFINE m == at[t]
<1>0. /\ pc[t] = "hand_over" /\ state[t] = "running" /\ filed[t] = "no" /\ ThreadAt(t) /\ Typed /\ QueuesOK
      /\ None \notin Threads /\ None \notin Mutexes /\ m \in Mutexes
  BY SMTT(60), Runs DEF hand_over
<1>1. UNCHANGED <<current, state, disposition, pending, doorbell, filed, blocked_on, at, locked>>
  BY DEF hand_over, sched
<1>2. owner[m] = t /\ m \notin locked[t] /\ \A n \in Mutexes : ~Armed(queue[n], t)
  BY <1>0 DEF ThreadAt, OwnAt, QueuedAt, Waiting
<1>3. /\ owner \in [Mutexes -> Threads \cup {None}] /\ held \in [Threads -> SUBSET Mutexes]
      /\ seen \in [Threads -> Threads \cup {None}] /\ queue \in [Mutexes -> Seq(Threads)]
      /\ bridges \in [Mutexes -> BOOLEAN] /\ queue[m] \in Seq(Threads) /\ NoDup(queue[m])
  BY <1>0 DEF Typed, QueuesOK
<1>4. m \notin held[t]
  BY <1>0 DEF ThreadAt, OwnAt
<1>5. CASE /\ queue[m] = <<>> /\ owner' = [owner EXCEPT ![m] = None] /\ Goto(t, "ceiling")
           /\ UNCHANGED <<queue, bridges, held, seen>>
  <2>1. pc' \in [Threads -> Places] /\ pc'[t] = "ceiling" /\ \A x \in Threads : x # t => pc'[x] = pc[x]
    BY <1>0, <1>5, Moves DEF Places
  <2>2. /\ owner' \in [Mutexes -> Threads \cup {None}] /\ owner'[m] = None
        /\ \A n \in Mutexes : n # m => owner'[n] = owner[n]
    BY <1>0, <1>3, <1>5
  <2>3. \A x : ~Armed(queue[m], x)
    BY <1>5, EmptyArms
  <2>4. Typed' /\ QueuesOK'
    BY <1>0, <1>1, <1>5, <2>1, <2>2 DEF Typed, QueuesOK
  <2>5. Local(t)
    BY <1>0, <1>1, <1>2, <1>5, <2>1, <2>2, <2>3 DEF Local
  <2>6. PlaceAt(t)' /\ ListedAt(t)' /\ WaitAt(t)'
    BY <1>0, <1>1, <1>5, <2>1 DEF ThreadAt, PlaceAt, ListedAt, WaitAt
  <2>7. OwnAt(t)'
    BY <1>0, <1>1, <1>2, <1>4, <1>5, <2>1, <2>2 DEF ThreadAt, OwnAt
  <2>8. QueuedAt(t)' /\ HintAt(t)'
    BY <1>0, <1>1, <1>2, <1>5, <2>1 DEF QueuedAt, HintAt, Waiting
  <2> QED BY <2>4, <2>5, <2>6, <2>7, <2>8, LocalKeeps DEF ThreadAt
<1>6. CASE /\ queue[m] # <<>> /\ owner' = [owner EXCEPT ![m] = Head(queue[m])]
           /\ held' = [held EXCEPT ![Head(queue[m])] = held[Head(queue[m])] \cup {m}]
           /\ queue' = [queue EXCEPT ![m] = Tail(queue[m])]
           /\ bridges' = [bridges EXCEPT ![m] = bridges[m] /\ Tail(queue[m]) # <<>>]
           /\ seen' = [seen EXCEPT ![t] = Head(queue[m])] /\ Goto(t, "ready")
  <2>0. PICK u : u = Head(queue[m])
    OBVIOUS
  <2>1. PICK q : q = Tail(queue[m])
    OBVIOUS
  <2>2. /\ u \in Threads /\ Armed(queue[m], u) /\ q \in Seq(Threads) /\ NoDup(q) /\ ~Armed(q, u)
        /\ \A x : x # u => (Armed(q, x) <=> Armed(queue[m], x))
    BY <1>3, <1>6, <2>0, <2>1, TailDisarms
  <2>3. \A x : Armed(q, x) => q # <<>>
    BY EmptyArms
  <2>4. u # t /\ ThreadAt(u) /\ at[u] = m /\ pc[u] \in Waiting
    <3>1. u # t /\ ThreadAt(u)
      BY <1>0, <1>2, <2>2 DEF MInv
    <3> QED BY <1>0, <1>2, <2>2, <3>1 DEF ThreadAt, QueuedAt, OwnAt
  <2>5. pc' \in [Threads -> Places] /\ pc'[t] = "ready" /\ \A x \in Threads : x # t => pc'[x] = pc[x]
    BY <1>0, <1>6, Moves DEF Places
  <2>6. /\ owner' \in [Mutexes -> Threads \cup {None}] /\ owner'[m] = u
        /\ \A n \in Mutexes : n # m => owner'[n] = owner[n]
    BY <1>0, <1>3, <1>6, <2>0, <2>2
  <2>7. /\ held' \in [Threads -> SUBSET Mutexes] /\ held'[u] = held[u] \cup {m}
        /\ \A x \in Threads : x # u => held'[x] = held[x]
        /\ seen' \in [Threads -> Threads \cup {None}] /\ seen'[t] = u
        /\ \A x \in Threads : x # t => seen'[x] = seen[x]
    BY <1>0, <1>3, <1>6, <2>0, <2>2
  <2>8. /\ queue' \in [Mutexes -> Seq(Threads)] /\ queue'[m] = q
        /\ bridges' \in [Mutexes -> BOOLEAN] /\ bridges'[m] = (bridges[m] /\ q # <<>>)
        /\ \A n \in Mutexes : n # m => queue'[n] = queue[n] /\ bridges'[n] = bridges[n]
    BY <1>0, <1>3, <1>6, <2>1, <2>2
  <2>9. Typed' /\ QueuesOK'
    BY <1>0, <1>1, <2>2, <2>5, <2>6, <2>7, <2>8 DEF Typed, QueuesOK
  <2>10. CoresOK' /\ RungOK'
    BY <1>1 DEF MInv, CoresOK, RungOK
  <2>11. WakeUnderWay(u)'
    BY <2>5, <2>7 DEF WakeUnderWay
  <2>12. ASSUME NEW x \in Threads, x # t, x # u PROVE ThreadAt(x)'
    <3>1. WakeUnderWay(x) => WakeUnderWay(x)'
      BY <1>0, <1>1, <2>5, <2>7 DEF WakeUnderWay
    <3>2. Eased(x)
      BY <1>1, <3>1 DEF Eased
    <3>3. ASSUME NEW n \in Mutexes
          PROVE  /\ Armed(queue'[n], x) <=> Armed(queue[n], x)
                 /\ owner'[n] = x <=> owner[n] = x
                 /\ Armed(queue[n], x) =>
                      (owner[n] # None => owner'[n] # None) /\ (bridges[n] => bridges'[n])
      BY <1>0, <1>2, <2>2, <2>3, <2>6, <2>8, <2>12
    <3>4. Follows(x)
      BY <1>1, <2>5, <2>7, <2>12, <3>2, <3>3 DEF Follows
    <3> QED BY <3>4, FollowsKeeps
  <2>13. ThreadAt(u)'
    <3>0. pc'[u] = pc[u] /\ at'[u] = m /\ seen'[u] = seen[u] /\ m \notin locked[u]
      BY <1>1, <2>2, <2>4, <2>5, <2>7 DEF ThreadAt, OwnAt
    <3>1. PlaceAt(u)' /\ ListedAt(u)' /\ WaitAt(u)'
      BY <1>1, <2>4, <2>11, <3>0 DEF ThreadAt, PlaceAt, ListedAt, WaitAt
    <3>2. OwnAt(u)'
      BY <1>1, <2>4, <2>6, <2>7, <3>0 DEF ThreadAt, OwnAt, Waiting
    <3>3. \A n \in Mutexes : ~Armed(queue'[n], u)
      BY <2>2, <2>4, <2>8 DEF ThreadAt, QueuedAt
    <3>4. QueuedAt(u)' /\ HintAt(u)'
      BY SMTT(60), <1>0, <1>1, <2>2, <2>4, <2>5, <2>6, <3>3 DEF QueuedAt, HintAt, Waiting
    <3> QED BY <3>1, <3>2, <3>4 DEF ThreadAt
  <2>14. ThreadAt(t)'
    <3>1. PlaceAt(t)' /\ ListedAt(t)' /\ WaitAt(t)'
      BY <1>0, <1>1, <2>2, <2>5, <2>7 DEF ThreadAt, PlaceAt, ListedAt, WaitAt
    <3>2. OwnAt(t)'
      BY <1>0, <1>1, <1>2, <1>4, <2>4, <2>5, <2>6, <2>7 DEF ThreadAt, OwnAt
    <3>3. \A n \in Mutexes : ~Armed(queue'[n], t)
      BY <1>2, <2>2, <2>4, <2>8
    <3>4. QueuedAt(t)' /\ HintAt(t)'
      BY <2>5, <3>3 DEF QueuedAt, HintAt, Waiting
    <3> QED BY <3>1, <3>2, <3>4 DEF ThreadAt
  <2> QED BY <2>9, <2>10, <2>12, <2>13, <2>14 DEF MInv
<1> QED BY <1>5, <1>6 DEF hand_over

\* The new owner is readied outside the lock, by the road its core asks for.
LEMMA ReadyOwnerStep ==
  ASSUME MutexAssumption, MInv, NEW t \in Threads, ready_owner(t)
  PROVE  MInv'
<1>0. /\ pc[t] = "ready" /\ state[t] = "running" /\ filed[t] = "no" /\ ThreadAt(t) /\ Typed /\ QueuesOK
      /\ None \notin Threads /\ None \notin Mutexes /\ at[t] \in Mutexes
  BY SMTT(60), Runs DEF ready_owner
<1>1. /\ global_ready_thread(t, seen[t]) /\ seen' = [seen EXCEPT ![t] = None] /\ Goto(t, "ceiling")
      /\ UNCHANGED <<owner, queue, bridges, held, blocked_on, at, locked>>
  BY DEF ready_owner, mutex
<1>2. pc' \in [Threads -> Places] /\ pc'[t] = "ceiling" /\ \A x \in Threads : x # t => pc'[x] = pc[x]
  BY <1>0, <1>1, Moves DEF Places
<1>3. /\ seen[t] \in Threads /\ seen' \in [Threads -> Threads \cup {None}] /\ seen'[t] = None
      /\ \A x \in Threads : x # t => seen'[x] = seen[x]
  <2>1. seen \in [Threads -> Threads \cup {None}] /\ seen[t] # None
    BY <1>0 DEF Typed, ThreadAt, PlaceAt
  <2> QED BY <1>1, <2>1
<1>4. /\ Scheduled /\ (seen[t] \in pending' \/ Settled(seen[t]))
      /\ \A x \in Threads : EasedBy(x)
  BY <1>1, <1>3, ReadySchedules
<1>5. Typed' /\ QueuesOK'
  BY <1>0, <1>1, <1>2, <1>3, <1>4 DEF Typed, QueuesOK, Scheduled
<1>6. ASSUME NEW x \in Threads PROVE Eased(x)
  <2>1. ASSUME NEW u \in Threads, pc[u] = "ready", seen[u] = x
        PROVE  \/ pc'[u] = "ready" /\ seen'[u] = x
               \/ x \in pending' \/ Settled(x)
    BY <1>2, <1>3, <1>4, <2>1
  <2> QED BY <1>4, <2>1, SwitchEases
<1>7. ASSUME NEW x \in Threads, x # t PROVE ThreadAt(x)'
  <2>1. Follows(x)
    BY <1>1, <1>2, <1>3, <1>6, <1>7 DEF Follows
  <2> QED BY <2>1, FollowsKeeps
<1>8. ThreadAt(t)'
  <2>1. PlaceAt(t)' /\ WaitAt(t)'
    BY <1>0, <1>1, <1>2, <1>3, <1>4 DEF ThreadAt, PlaceAt, WaitAt, EasedBy
  <2>2. ListedAt(t)'
    BY <1>0, <1>1, <1>4 DEF ListedAt, EasedBy
  <2>3. OwnAt(t)' /\ QueuedAt(t)' /\ HintAt(t)'
    BY <1>0, <1>1, <1>2 DEF ThreadAt, OwnAt, QueuedAt, HintAt, Waiting
  <2> QED BY <2>1, <2>2, <2>3 DEF ThreadAt
<1> QED BY <1>4, <1>5, <1>7, <1>8 DEF MInv, Scheduled

\* A ceiling given up asks the thread's own core to reschedule.
LEMMA CeilingStep ==
  ASSUME MutexAssumption, MInv, NEW t \in Threads, give_up_ceiling(t)
  PROVE  MInv'
<1>0. /\ pc[t] = "ceiling" /\ state[t] = "running" /\ filed[t] = "no" /\ ThreadAt(t) /\ Typed /\ QueuesOK
      /\ None \notin Threads /\ None \notin Mutexes /\ at[t] \in Mutexes
  BY SMTT(60), Runs DEF give_up_ceiling
<1>1. /\ doorbell \subseteq doorbell' /\ at' = [at EXCEPT ![t] = None] /\ Goto(t, "user")
      /\ UNCHANGED <<current, state, disposition, pending, filed, owner, queue, bridges, held,
                     blocked_on, seen, locked>>
  BY DEF give_up_ceiling, mutex
<1>2. pc' \in [Threads -> Places] /\ pc'[t] = "user" /\ \A x \in Threads : x # t => pc'[x] = pc[x]
  BY <1>0, <1>1, Moves DEF Places
<1>3. /\ at' \in [Threads -> Mutexes \cup {None}] /\ at'[t] = None
      /\ \A x \in Threads : x # t => at'[x] = at[x]
  <2>1. at \in [Threads -> Mutexes \cup {None}]
    BY <1>0 DEF Typed
  <2> QED BY <1>1, <2>1
<1>4. Typed' /\ QueuesOK'
  BY <1>0, <1>1, <1>2, <1>3 DEF Typed, QueuesOK
<1>5. Local(t)
  BY <1>0, <1>1, <1>2, <1>3 DEF Local
<1>6. PlaceAt(t)' /\ ListedAt(t)' /\ WaitAt(t)'
  BY <1>0, <1>1, <1>2, <1>3 DEF ThreadAt, PlaceAt, ListedAt, WaitAt
<1>7. OwnAt(t)' /\ QueuedAt(t)' /\ HintAt(t)'
  BY <1>0, <1>1, <1>2, <1>3 DEF ThreadAt, OwnAt, QueuedAt, HintAt, Waiting
<1> QED BY <1>4, <1>5, <1>6, <1>7, LocalKeeps DEF ThreadAt

\* A sleep parks a thread that is in no lock() or unlock().
LEMMA SleepStep ==
  ASSUME MutexAssumption, MInv, NEW t \in Threads, sleep(t)
  PROVE  MInv'
<1>0. /\ pc[t] \in {"user", "asleep"} /\ filed[t] = "no" /\ ThreadAt(t) /\ Typed /\ QueuesOK
      /\ None \notin Threads /\ None \notin Mutexes /\ current[core[t]] = t
  BY SMTT(60), Runs DEF sleep
<1>1. /\ decide(core[t], "parked", state, disposition, filed) /\ UNCHANGED doorbell /\ Goto(t, "asleep")
      /\ UNCHANGED <<owner, queue, bridges, held, blocked_on, at, seen, locked>>
  BY DEF sleep, mutex
<1>2. pc' \in [Threads -> Places] /\ pc'[t] = "asleep" /\ \A x \in Threads : x # t => pc'[x] = pc[x]
  BY <1>0, <1>1, Moves DEF Places
<1>3. /\ Scheduled /\ \A x \in Threads : x # t => EasedBy(x)
      /\ filed'[t] = "matrix" => held[t] = {}
  BY <1>0, <1>1, ParkSchedules
<1>4. Typed' /\ QueuesOK'
  BY <1>0, <1>1, <1>2, <1>3 DEF Typed, QueuesOK, Scheduled
<1>5. ASSUME NEW x \in Threads, x # t PROVE ThreadAt(x)'
  <2>1. ASSUME NEW u \in Threads, pc[u] = "ready", seen[u] = x
        PROVE  pc'[u] = "ready" /\ seen'[u] = x
    BY <1>0, <1>1, <1>2, <2>1
  <2>2. Eased(x)
    BY <1>3, <1>5, <2>1, SwitchEases
  <2>3. Follows(x)
    BY <1>1, <1>2, <1>5, <2>2 DEF Follows
  <2> QED BY <2>3, FollowsKeeps
<1>6. PlaceAt(t)' /\ ListedAt(t)' /\ WaitAt(t)'
  BY <1>0, <1>1, <1>2, <1>3 DEF ThreadAt, PlaceAt, ListedAt, WaitAt
<1>7. OwnAt(t)' /\ QueuedAt(t)' /\ HintAt(t)'
  <2>1. at[t] = None
    BY <1>0 DEF ThreadAt, PlaceAt
  <2> QED BY <1>0, <1>1, <1>2, <2>1 DEF ThreadAt, OwnAt, QueuedAt, HintAt, Waiting
<1> QED BY <1>3, <1>4, <1>5, <1>6, <1>7 DEF MInv, ThreadAt, Scheduled

\* The timer readies a sleeper.
LEMMA TimerStep ==
  ASSUME MutexAssumption, MInv, NEW t \in Threads, timer_wake(t)
  PROVE  MInv'
<1>0. /\ pc[t] = "asleep" /\ ThreadAt(t) /\ Typed /\ QueuesOK /\ None \notin Mutexes
  BY DEF timer_wake, MInv, MutexAssumption
<1>1. /\ set_thread_ready(t) /\ Goto(t, "user")
      /\ UNCHANGED <<owner, queue, bridges, held, blocked_on, at, seen, locked>>
  BY DEF timer_wake, mutex
<1>2. pc' \in [Threads -> Places] /\ pc'[t] = "user" /\ \A x \in Threads : x # t => pc'[x] = pc[x]
  BY <1>0, <1>1, Moves DEF Places
<1>3. Scheduled /\ Settled(t) /\ \A x \in Threads : EasedBy(x)
  BY <1>1, SetReadySchedules
<1>4. Typed' /\ QueuesOK'
  BY <1>0, <1>1, <1>2, <1>3 DEF Typed, QueuesOK, Scheduled
<1>5. ASSUME NEW x \in Threads, x # t PROVE ThreadAt(x)'
  <2>1. ASSUME NEW u \in Threads, pc[u] = "ready", seen[u] = x
        PROVE  pc'[u] = "ready" /\ seen'[u] = x
    BY <1>0, <1>1, <1>2, <2>1
  <2>2. Eased(x)
    BY <1>3, <2>1, SwitchEases
  <2>3. Follows(x)
    BY <1>1, <1>2, <1>5, <2>2 DEF Follows
  <2> QED BY <2>3, FollowsKeeps
<1>6. PlaceAt(t)' /\ ListedAt(t)' /\ WaitAt(t)'
  BY <1>0, <1>1, <1>2, <1>3 DEF ThreadAt, PlaceAt, ListedAt, WaitAt, Settled
<1>7. OwnAt(t)' /\ QueuedAt(t)' /\ HintAt(t)'
  <2>1. at[t] = None
    BY <1>0 DEF ThreadAt, PlaceAt
  <2> QED BY <1>0, <1>1, <1>2, <2>1 DEF ThreadAt, OwnAt, QueuedAt, HintAt, Waiting
<1> QED BY <1>3, <1>4, <1>5, <1>6, <1>7 DEF MInv, ThreadAt, Scheduled

-----------------------------------------------------------------------------
(* The invariant, and what it gives *)

\* Nothing is owned or waited for when the cores have started.
LEMMA InitInvariant ==
  ASSUME MutexAssumption, Init
  PROVE  MInv
<1>0. core \in [Threads -> Cores] /\ Idle \notin Threads /\ None \notin Threads /\ None \notin Mutexes
  BY DEF MutexAssumption
<1>1. PICK asleep \in SUBSET Sleepers :
        /\ current \in [Cores -> Threads \cup {Idle}]
        /\ \A c \in Cores :
             LET ready == OnCore(c) \ asleep IN
             IF ready = {} THEN current[c] = Idle
             ELSE current[c] \in ready /\ \A t \in ready : prio[current[c]] <= prio[t]
        /\ state = [t \in Threads |-> IF t \in asleep THEN "blocked"
                                      ELSE IF current[core[t]] = t THEN "running" ELSE "ready"]
        /\ pc = [t \in Threads |-> IF t \in asleep THEN "asleep" ELSE "user"]
  BY DEF Init
<1>2. /\ filed = [t \in Threads |-> IF state[t] = "ready" THEN "matrix" ELSE "no"]
      /\ disposition = [t \in Threads |-> "none"] /\ pending = {}
      /\ owner = [m \in Mutexes |-> None] /\ queue = [m \in Mutexes |-> <<>>]
      /\ bridges = [m \in Mutexes |-> FALSE] /\ held = [t \in Threads |-> {}]
      /\ blocked_on = [t \in Threads |-> None] /\ at = [t \in Threads |-> None]
      /\ seen = [t \in Threads |-> None] /\ locked = [t \in Threads |-> {}]
  BY DEF Init
<1>3. \A c \in Cores : current[c] \in Threads => core[current[c]] = c /\ current[c] \notin asleep
  BY <1>0, <1>1 DEF OnCore
<1>4. Typed
  <2>1. state \in [Threads -> States] /\ pc \in [Threads -> Places]
    BY <1>1 DEF States, Places
  <2>2. filed \in [Threads -> Filings] /\ queue \in [Mutexes -> Seq(Threads)]
    BY SMTT(60), <1>2 DEF Filings
  <2> QED BY <1>1, <1>2, <2>1, <2>2 DEF Typed
<1>5. CoresOK /\ RungOK
  BY <1>0, <1>1, <1>2, <1>3 DEF CoresOK, RungOK
<1>6. \A m \in Mutexes : \A t : ~Armed(queue[m], t)
  BY <1>2, EmptyArms
<1>7. QueuesOK
  BY SMTT(60), <1>2 DEF QueuesOK, NoDup
<1>8. ASSUME NEW t \in Threads PROVE ThreadAt(t)
  BY <1>0, <1>1, <1>2, <1>6 DEF ThreadAt, PlaceAt, OwnAt, QueuedAt, WaitAt, ListedAt, HintAt, Waiting
<1> QED BY <1>4, <1>5, <1>7, <1>8 DEF MInv

\* Every step keeps the invariant.
LEMMA NextInvariant ==
  ASSUME MutexAssumption, MInv, [Next]_vars
  PROVE  MInv'
<1>1. CASE UNCHANGED vars
  <2> USE <1>1 DEF vars, sched, mutex
  <2>1. Typed' /\ CoresOK' /\ RungOK' /\ QueuesOK'
    BY DEF MInv, Typed, CoresOK, RungOK, QueuesOK
  <2>2. ASSUME NEW t \in Threads PROVE Follows(t)
    <3>1. WakeUnderWay(t) => WakeUnderWay(t)'
      BY DEF WakeUnderWay
    <3> QED BY <3>1 DEF Follows, Eased
  <2> QED BY <2>1, <2>2, FollowsKeeps DEF MInv
<1>2. ASSUME NEW t \in Threads, NEW m \in Mutexes, lock(t, m) \/ unlock(t, m) PROVE MInv'
  BY <1>2, LockStepKeeps, UnlockStepKeeps
<1>3. ASSUME NEW t \in Threads, LockStep(t) PROVE MInv'
  BY <1>3, RegisterStep, PrepareStep, ArmStep, PublishStep, PollStep, RepickStep, CommitStep,
     DisarmStep, ClearStep, RecogniseStep, LeaveStep, UnqueueStep DEF LockStep
<1>4. ASSUME NEW t \in Threads, UnlockStep(t) PROVE MInv'
  BY <1>4, HandOverStep, ReadyOwnerStep, CeilingStep DEF UnlockStep
<1> QED BY <1>1, <1>2, <1>3, <1>4, SleepStep, TimerStep, CoreSteps DEF Next

\* The mutex core keeps its invariant.
THEOREM MutexInvariance ==
  ASSUME MutexAssumption
  PROVE  Spec => []MInv
<1>1. Init => MInv
  BY InitInvariant
<1>2. MInv /\ [Next]_vars => MInv'
  BY NextInvariant
<1> QED BY <1>1, <1>2, PTL DEF Spec

\* base_mutex excludes: whoever lock() has returned to is the owner, a slot
\* names only what its thread owns, and no owner waits on its own mutex.
THEOREM MutualExclusion ==
  ASSUME MutexAssumption
  PROVE  Spec => [](OwnerHolds /\ OwnerNotQueued)
<1>1. MInv => OwnerHolds
  BY DEF MInv, ThreadAt, OwnAt, OwnerHolds
<1>2. MInv => OwnerNotQueued
  BY DEF MInv, ThreadAt, QueuedAt, OwnerNotQueued, Waiting
<1> QED BY <1>1, <1>2, MutexInvariance, PTL

\* unlock's handover loses nobody: a thread parked in lock() is queued behind
\* an owner, or has been made owner and its wake is on the way.
THEOREM NoLostHandover ==
  ASSUME MutexAssumption
  PROVE  Spec => []ParkedHasOwner
<1>1. ASSUME MInv, NEW t \in Threads, state[t] = "blocked", at[t] # None
      PROVE  \/ Armed(queue[at[t]], t) /\ owner[at[t]] \notin {None, t}
             \/ owner[at[t]] = t /\ WakeUnderWay(t)
  <2>1. at[t] \in Mutexes /\ ThreadAt(t) /\ pc[t] = "disarm"
    BY <1>1 DEF MInv, Typed, ThreadAt, PlaceAt
  <2>2. /\ Armed(queue[at[t]], t) <=> owner[at[t]] # t
        /\ owner[at[t]] # None
    BY <2>1 DEF ThreadAt, QueuedAt, Waiting
  <2>3. Armed(queue[at[t]], t) \/ WakeUnderWay(t)
    BY <1>1, <2>1 DEF ThreadAt, WaitAt
  <2> QED BY <2>2, <2>3
<1>2. MInv => ParkedHasOwner
  BY <1>1 DEF ParkedHasOwner
<1> QED BY <1>2, MutexInvariance, PTL

\* What the urgency fold takes for granted: a thread parked in lock() has its
\* wait-for edge published, and a queue with a bridge carries the hint.
THEOREM DonationsAreSeen ==
  ASSUME MutexAssumption
  PROVE  Spec => [](ParkedHasEdge /\ BridgesHinted)
<1>1. MInv => ParkedHasEdge
  BY DEF MInv, ThreadAt, PlaceAt, ParkedHasEdge
<1>2. MInv => BridgesHinted
  BY DEF MInv, ThreadAt, HintAt, BridgesHinted, Bridges
<1> QED BY <1>1, <1>2, MutexInvariance, PTL

\* make_ready's re-route: a ready holder is on the holder list, or the
\* admission that re-files it is on its way.
THEOREM HoldersAreListed ==
  ASSUME MutexAssumption
  PROVE  Spec => []HolderIsListed
<1>1. MInv => HolderIsListed
  BY DEF MInv, ThreadAt, ListedAt, HolderIsListed
<1> QED BY <1>1, MutexInvariance, PTL
=============================================================================
