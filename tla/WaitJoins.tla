----------------------------- MODULE WaitJoins ------------------------------
(***************************************************************************)
(* A joiner outlasts the raise of the termination it waits for, so what the *)
(* raise still walks is not destroyed under it: JInv, which every step of  *)
(* WaitEngine keeps.                                                       *)
(***************************************************************************)
EXTENDS WaitEngineProofs

\* Every leaf that names no prover of its own is one for Zenon.
USE ZenonT(60)

\* Whoever has ended stays ended, and a core turns only to a thread it runs.
KeepsEnded ==
  /\ \A t \in Threads : state[t] = "terminated" => state'[t] = "terminated"
  /\ \A c \in Cores : current'[c] \in Threads =>
       current'[c] = current[c] \/ state'[current'[c]] = "running"

\* A thread whose termination has been raised has ended.
EndedAt(t) ==
  raised[t] \/ pc[t] = "dead" \/ (pc[t] = "raising" /\ on[t] = t) => state[t] = "terminated"

\* A thread that has left its core for good is not on it.
CurrentLives == \A c \in Cores : current[c] \in Threads => pc[current[c]] # "dead"

\* Only the thread that ends raises its termination, and a wake of a joiner
\* comes after it.
RaisesAt(a) ==
  /\ pc[a] \in {"peek", "wake", "raising"} /\ on[a] \in Threads => raised[on[a]]
  /\ pc[a] = "raising" /\ on[a] \in Threads => on[a] = a

\* A joiner has been taken off the queue, or seen the flag, only by a raise, and
\* has passed its disarm only once that raise was over.
JoinAt(t) ==
  /\ on[t] \in Threads /\ pc[t] \in {"poll", "commit", "disarm"}
     /\ (satisfied[t] \/ ~Armed(queue[on[t]], t)) => raised[on[t]]
  /\ on[t] \in Threads /\ pc[t] = "after" /\ (satisfied[t] \/ gone[t])
     => raised[on[t]] /\ pc[on[t]] = "dead"
  /\ satisfied[t] => pc[t] \in {"disarm", "disarm_cancel", "after"}

\* The inductive invariant of the joins, on top of IInv.
JInv ==
  /\ CurrentLives
  /\ \A t \in Threads : EndedAt(t) /\ JoinAt(t)
  /\ \A a \in Actors : RaisesAt(a)

\* scheduler::decide ends nobody it was not given as ended, and runs nobody ended.
LEMMA DecideEnds ==
  ASSUME IInv, NEW c \in Cores, NEW reason, NEW st \in [Threads -> States],
         NEW ds \in [Threads -> Dispositions], decide(c, reason, st, ds),
         \A t \in Threads : state[t] = "terminated" => st[t] = "terminated"
  PROVE  KeepsEnded
<1>1. Decided(c, reason, st, ds)
  BY DecideEffect DEF IInv
<1> QED BY <1>1 DEF Decided, KeepsEnded

\* global_ready_thread, whether it readies here or posts, ends nobody.
LEMMA ReadyEnds ==
  ASSUME IInv, NEW a \in Actors, NEW u \in Threads, NEW policy, global_ready_thread(a, u, policy)
  PROVE  KeepsEnded
<1>0. /\ state \in [Threads -> States] /\ disposition \in [Threads -> Dispositions]
      /\ core[u] \in Cores
  BY SMTT(60), ConstantsAssumption DEF IInv, TypeOK, States, Dispositions, Actors
<1>1. CASE UNCHANGED <<current, state>>
  BY <1>1 DEF KeepsEnded
<1>2. CASE set_thread_ready(u, policy)
  <2> DEFINE ds == [disposition EXCEPT ![u] = "none"]
             st == IF state[u] = "blocked" THEN [state EXCEPT ![u] = "ready"] ELSE state
  <2>1. /\ st \in [Threads -> States] /\ ds \in [Threads -> Dispositions]
        /\ \A t \in Threads : state[t] = "terminated" => st[t] = "terminated"
    BY <1>0 DEF States, Dispositions
  <2>2. decide(core[u], "preempted", st, ds) \/ (state' = st /\ UNCHANGED current)
    BY <1>2 DEF set_thread_ready
  <2> HIDE DEF st, ds
  <2> QED BY <1>0, <2>1, <2>2, DecideEnds DEF KeepsEnded
<1> QED BY <1>1, <1>2 DEF global_ready_thread, post_intake, sched

\* A step of a that ends nobody.
LEMMA EndsKept ==
  ASSUME IInv, JInv, NEW a \in Actors, KeepsEnded,
         \A b \in Actors \ {a} : pc'[b] = pc[b] /\ on'[b] = on[b],
         \A t \in Threads : raised'[t] = raised[t],
         a \in Threads => /\ pc'[a] # "dead"
                          /\ pc'[a] = "raising" /\ on'[a] = a => pc[a] = "raising" /\ on[a] = a
  PROVE  CurrentLives' /\ \A t \in Threads : EndedAt(t)'
<1>1. ASSUME NEW t \in Threads PROVE EndedAt(t)'
  BY SMTT(60) DEF JInv, EndedAt, KeepsEnded, Actors
<1>2. ASSUME NEW c \in Cores, current'[c] \in Threads PROVE pc'[current'[c]] # "dead"
  <2>1. CASE current'[c] = current[c]
    BY <1>2, <2>1 DEF JInv, CurrentLives, Actors
  <2>2. CASE state'[current'[c]] = "running"
    BY <1>1, <1>2, <2>2 DEF EndedAt
  <2> QED BY <1>2, <2>1, <2>2 DEF KeepsEnded
<1> QED BY <1>1, <1>2 DEF CurrentLives

\* A step of a that takes others off the queues only of what has been raised.
LEMMA JoinsKept ==
  ASSUME IInv, JInv, NEW a \in Actors,
         \A b \in Actors \ {a} :
           pc'[b] = pc[b] /\ on'[b] = on[b] /\ satisfied'[b] = satisfied[b] /\ gone'[b] = gone[b],
         \A t \in Threads : raised[t] => raised'[t],
         a \in Threads => (pc[a] = "dead" => pc'[a] = "dead"),
         \A w, b \in Threads : b # a /\ Armed(queue[w], b) => Armed(queue'[w], b) \/ raised[w],
         RaisesAt(a)', a \in Threads => JoinAt(a)'
  PROVE  (\A b \in Actors : RaisesAt(b)') /\ (\A t \in Threads : JoinAt(t)')
<1>1. ASSUME NEW b \in Actors PROVE RaisesAt(b)'
  BY DEF JInv, RaisesAt
<1>2. ASSUME NEW t \in Threads PROVE JoinAt(t)'
  BY SMTT(60) DEF JInv, JoinAt, Actors
<1> QED BY <1>1, <1>2

\* A step of a that ends nobody, resets no termination, and takes others off the
\* queues only of what has been raised.
Calm(a) ==
  /\ KeepsEnded
  /\ \A b \in Actors \ {a} :
       pc'[b] = pc[b] /\ on'[b] = on[b] /\ satisfied'[b] = satisfied[b] /\ gone'[b] = gone[b]
  /\ \A t \in Threads : raised'[t] = raised[t]
  /\ a \in Threads => /\ pc[a] # "dead" /\ pc'[a] # "dead"
                      /\ pc'[a] = "raising" /\ on'[a] = a => pc[a] = "raising" /\ on[a] = a
  /\ \A w, b \in Threads : b # a /\ Armed(queue[w], b) => Armed(queue'[w], b) \/ raised[w]

\* Calm steps keep the joins, given what they make of their own actor.
LEMMA CalmKeeps ==
  ASSUME IInv, JInv, NEW a \in Actors, Calm(a), RaisesAt(a)', a \in Threads => JoinAt(a)'
  PROVE  JInv'
<1>1. CurrentLives' /\ \A t \in Threads : EndedAt(t)'
  BY EndsKept DEF Calm
<1>2. (\A b \in Actors : RaisesAt(b)') /\ (\A t \in Threads : JoinAt(t)')
  BY JoinsKept DEF Calm
<1> QED BY <1>1, <1>2 DEF JInv

\* A step that leaves the scheduler alone ends nobody.
LEMMA UnchangedEnds == ASSUME UNCHANGED sched PROVE KeepsEnded
BY DEF sched, KeepsEnded

\* Where a call begins nothing is owed to a join.
LEMMA CallKeeps ==
  ASSUME IInv, JInv, NEW a \in Actors, Call(a)
  PROVE  JInv'
<1>0. TypeOK /\ None \notin Threads /\ Sem \notin Threads /\ Signals \cap Threads = {}
  BY SMTT(60), ConstantsAssumption DEF IInv, Waitables, AllSignals
<1>1. ASSUME NEW op, NEW x, Calls(a, op, x)
      PROVE  pc[a] \in {"user", "idle"} /\ on[a] = None /\ (a \in Threads => ~satisfied[a])
  BY <1>1, CallsRun DEF JInv, JoinAt, CallsAt
<1> USE <1>0 DEF Goto
<1>2. CASE release(a)
  <2>1. pc[a] \in {"user", "idle"} /\ (a \in Threads => ~satisfied[a])
    BY <1>1, <1>2 DEF release
  <2>2. Calm(a)
    BY <1>2, <2>1, UnchangedEnds DEF release, Calm, TypeOK
  <2>3. RaisesAt(a)' /\ (a \in Threads => JoinAt(a)')
    BY <1>2, <2>1 DEF release, RaisesAt, JoinAt, TypeOK
  <2> QED BY <2>2, <2>3, CalmKeeps
<1>3. ASSUME NEW s \in Signals, raise(a, s) PROVE JInv'
  <2>1. pc[a] \in {"user", "idle"} /\ (a \in Threads => ~satisfied[a]) /\ s \notin Threads
    BY <1>1, <1>3 DEF raise
  <2>2. Calm(a)
    BY <1>3, <2>1, UnchangedEnds DEF raise, Calm, TypeOK, AllSignals
  <2>3. RaisesAt(a)' /\ (a \in Threads => JoinAt(a)')
    BY <1>3, <2>1 DEF raise, RaisesAt, JoinAt, TypeOK
  <2> QED BY <2>2, <2>3, CalmKeeps
<1>4. ASSUME NEW u \in Threads, resume(a, u) PROVE JInv'
  <2>1. pc[a] \in {"user", "idle"} /\ (a \in Threads => ~satisfied[a])
    BY <1>1, <1>4 DEF resume
  <2>2. Calm(a)
    BY <1>4, <2>1, UnchangedEnds DEF resume, Calm, TypeOK
  <2>3. RaisesAt(a)' /\ (a \in Threads => JoinAt(a)')
    BY <1>4, <2>1 DEF resume, RaisesAt, JoinAt, TypeOK
  <2> QED BY <2>2, <2>3, CalmKeeps
<1> QED BY <1>2, <1>3, <1>4 DEF Call

\* A step that goes on to place p, with its queues and signals left alone.
LEMMA GoesCalm ==
  ASSUME IInv, JInv, NEW a \in Actors, NEW p, pc[a] # "dead", p # "dead", p # "raising",
         KeepsEnded, Goto(a, p),
         UNCHANGED <<on, queue, raised>>,
         \A b \in Actors \ {a} : satisfied'[b] = satisfied[b] /\ gone'[b] = gone[b]
  PROVE  Calm(a)
BY DEF Calm, Goto, IInv, TypeOK

\* A call that returns leaves nothing owed.
LEMMA ReturnKeepsJoins ==
  ASSUME IInv, JInv, NEW a \in Actors, pc[a] # "dead", Return(a), KeepsEnded,
         \A t \in Threads : raised'[t] = raised[t],
         \A w, b \in Threads : b # a /\ Armed(queue[w], b) => Armed(queue'[w], b) \/ raised[w]
  PROVE  JInv'
<1>0. TypeOK /\ None \notin Threads
  BY SMTT(60), ConstantsAssumption DEF IInv, Waitables, AllSignals
<1>1. Calm(a)
  BY <1>0 DEF Return, Goto, Calm, TypeOK
<1>2. RaisesAt(a)' /\ (a \in Threads => JoinAt(a)')
  BY <1>0 DEF Return, Goto, RaisesAt, JoinAt, TypeOK
<1> QED BY <1>1, <1>2, CalmKeeps

\* A thread begins a call of its own.
LEMMA ThreadCallKeeps ==
  ASSUME IInv, JInv, NEW t \in Threads, ThreadCall(t)
  PROVE  JInv'
<1>0. /\ TypeOK /\ None \notin Threads /\ Sem \notin Threads /\ Signals \cap Threads = {}
      /\ t \in Actors /\ core[t] \in Cores
  BY SMTT(60), ConstantsAssumption DEF IInv, Waitables, AllSignals, Actors
<1>1. ASSUME NEW op, NEW x, Calls(t, op, x)
      PROVE  pc[t] = "user" /\ on[t] = None /\ ~satisfied[t]
  BY <1>0, <1>1, CallsRun DEF JInv, JoinAt, CallsAt
<1>2. state \in [Threads -> States] /\ disposition \in [Threads -> Dispositions]
  BY <1>0 DEF TypeOK, States, Dispositions
<1> USE <1>0
<1>3. CASE Call(t)
  BY <1>3, CallKeeps
<1>4. CASE yield(t)
  <2>1. KeepsEnded
    BY <1>2, <1>4, DecideEnds DEF yield
  <2>2. pc[t] = "user" /\ on[t] = None /\ ~satisfied[t]
    BY <1>1, <1>4 DEF yield
  <2>3. Calm(t)
    BY <1>4, <2>1, <2>2 DEF yield, Calm, objs, locals
  <2>4. RaisesAt(t)' /\ JoinAt(t)'
    BY <1>4, <2>2 DEF yield, RaisesAt, JoinAt, objs, locals
  <2> QED BY <2>3, <2>4, CalmKeeps
<1>5. CASE thread_exit(t)
  <2>1. pc[t] = "user" /\ on[t] = None /\ ~satisfied[t] /\ KeepsEnded
    BY <1>1, <1>5 DEF thread_exit, KeepsEnded
  <2>2. Calm(t)
    BY <1>5, <2>1, GoesCalm DEF thread_exit, objs, locals
  <2>3. RaisesAt(t)' /\ JoinAt(t)'
    BY <1>5, <2>1 DEF thread_exit, RaisesAt, JoinAt, objs, locals, Goto
  <2> QED BY <2>2, <2>3, CalmKeeps
<1>6. CASE suspend(t)
  <2>1. pc[t] = "user" /\ on[t] = None /\ ~satisfied[t] /\ KeepsEnded
    BY <1>1, <1>6, UnchangedEnds DEF suspend
  <2>2. Calm(t)
    BY <1>6, <2>1, GoesCalm DEF suspend, objs, locals
  <2>3. RaisesAt(t)' /\ JoinAt(t)'
    BY <1>6, <2>1 DEF suspend, RaisesAt, JoinAt, objs, locals, Goto
  <2> QED BY <2>2, <2>3, CalmKeeps
<1>7. ASSUME NEW op, NEW x, Calls(t, op, x), NEW w, NEW s, Wait(t, w, s) PROVE JInv'
  <2>1. pc[t] = "user" /\ ~satisfied[t] /\ KeepsEnded
    BY <1>1, <1>7, UnchangedEnds DEF Wait
  <2>2. Calm(t)
    BY <1>7, <2>1 DEF Wait, Calm, objs, Goto, TypeOK
  <2>3. RaisesAt(t)' /\ JoinAt(t)'
    BY <1>7, <2>1 DEF Wait, RaisesAt, JoinAt, objs, Goto, TypeOK
  <2> QED BY <2>2, <2>3, CalmKeeps
<1>8. ASSUME NEW s \in Signals \cup {None}, acquire(t, s) PROVE JInv'
  <2>1. CASE Wait(t, Sem, s)
    BY <1>7, <1>8, <2>1 DEF acquire
  <2>2. CASE UNCHANGED <<sched, queue, raised, token, pc, locals>>
    <3>1. pc[t] = "user" /\ ~satisfied[t] /\ KeepsEnded
      BY <1>1, <1>8, <2>2, UnchangedEnds DEF acquire
    <3>2. Calm(t)
      BY <2>2, <3>1 DEF Calm, locals
    <3>3. RaisesAt(t)' /\ JoinAt(t)'
      BY <2>2, <3>1 DEF RaisesAt, JoinAt, locals
    <3> QED BY <3>2, <3>3, CalmKeeps
  <2> QED BY <1>8, <2>1, <2>2 DEF acquire
<1>9. ASSUME NEW s \in AllSignals, wait_on(t, s) PROVE JInv'
  BY <1>7, <1>9 DEF wait_on
<1>10. ASSUME NEW s \in Signals, reset(t, s) PROVE JInv'
  <2>1. pc[t] = "user" /\ ~satisfied[t] /\ KeepsEnded
    BY <1>1, <1>10, UnchangedEnds DEF reset
  <2>2. Calm(t)
    BY <1>10, <2>1 DEF reset, Calm, locals, TypeOK, AllSignals
  <2>3. RaisesAt(t)' /\ JoinAt(t)'
    BY <1>10, <2>1 DEF reset, RaisesAt, JoinAt, locals
  <2> QED BY <2>2, <2>3, CalmKeeps
<1> QED BY <1>3, <1>4, <1>5, <1>6, <1>8, <1>9, <1>10 DEF ThreadCall

\* A wait goes on.
LEMMA WaitStepKeeps ==
  ASSUME IInv, JInv, NEW t \in Threads, WaitStep(t), ~thread_yield(t)
  PROVE  JInv'
<1>0. /\ TypeOK /\ None \notin Threads /\ Sem \notin Threads /\ Signals \cap Threads = {}
      /\ t \in Actors /\ core[t] \in Cores /\ JoinAt(t) /\ RaisesAt(t) /\ CallsAt(t) /\ NodesAt(t)
  BY SMTT(60), ConstantsAssumption DEF IInv, JInv, Waitables, AllSignals, Actors, ThreadAt
<1>1. state \in [Threads -> States] /\ disposition \in [Threads -> Dispositions]
  BY <1>0 DEF TypeOK, States, Dispositions
<1> USE <1>0
<1>2. CASE prepare(t)
  <2>1. Calm(t)
    BY <1>2, GoesCalm DEF prepare, At, KeepsEnded, objs, locals
  <2>2. RaisesAt(t)' /\ JoinAt(t)'
    BY <1>2 DEF prepare, At, RaisesAt, JoinAt, objs, locals, Goto, TypeOK
  <2> QED BY <2>1, <2>2, CalmKeeps
<1>3. CASE arm(t)
  <2>0. pc[t] = "arm" /\ on[t] \in Waitables /\ ~satisfied[t]
    BY <1>3 DEF arm, At, CallsAt, TypeOK, JoinAt
  <2>1. \A v \in Waitables, u \in Threads :
          Armed(queue'[v], u) <=> Armed(queue[v], u) \/ (v = on[t] /\ u = t)
    BY <1>3, <2>0, LinkKeeps DEF arm, NodesAt
  <2>2. Calm(t)
    BY SMTT(60), <1>3, <2>0, <2>1, UnchangedEnds DEF arm, Calm, locals, Goto, TypeOK, Waitables, AllSignals
  <2>3. RaisesAt(t)' /\ JoinAt(t)'
    BY <1>3, <2>0, <2>1 DEF arm, RaisesAt, JoinAt, locals, Goto, TypeOK
  <2> QED BY <2>2, <2>3, CalmKeeps
<1>4. CASE arm_cancel(t)
  <2>0. pc[t] = "arm_cancel" /\ cancel[t] \in Waitables /\ on[t] = Sem /\ cancel[t] # Sem /\ ~satisfied[t]
    BY <1>4, SMTT(60), ConstantsAssumption DEF arm_cancel, At, CallsAt, TypeOK, JoinAt, Waitables
  <2>1. \A v \in Waitables, u \in Threads :
          Armed(queue'[v], u) <=> Armed(queue[v], u) \/ (v = cancel[t] /\ u = t)
    BY <1>4, <2>0, LinkKeeps DEF arm_cancel, NodesAt
  <2>2. Calm(t)
    BY SMTT(60), <1>4, <2>0, <2>1, UnchangedEnds DEF arm_cancel, Calm, locals, Goto, TypeOK, Waitables, AllSignals
  <2>3. RaisesAt(t)' /\ JoinAt(t)'
    BY <1>4, <2>0, <2>1 DEF arm_cancel, RaisesAt, JoinAt, locals, Goto, TypeOK
  <2> QED BY <2>2, <2>3, CalmKeeps
<1>5. CASE poll(t)
  <2>1. pc[t] = "poll" /\ KeepsEnded
    BY <1>5 DEF poll, At, KeepsEnded
  <2>2. Calm(t)
    BY SMTT(60), <1>5, <2>1 DEF poll, Calm, Goto, TypeOK
  <2>3. RaisesAt(t)' /\ JoinAt(t)'
    BY SMTT(60), <1>5, <2>1 DEF poll, RaisesAt, JoinAt, Goto, TypeOK, Satisfiable
  <2> QED BY <2>2, <2>3, CalmKeeps
<1>6. CASE poll_cancel(t)
  <2>0. pc[t] = "poll_cancel" /\ on[t] = Sem /\ ~satisfied[t]
    BY <1>6 DEF poll_cancel, At, CallsAt, JoinAt
  <2>1. Calm(t)
    BY <1>6, <2>0, GoesCalm DEF poll_cancel, KeepsEnded, objs, locals
  <2>2. RaisesAt(t)' /\ JoinAt(t)'
    BY <1>6, <2>0 DEF poll_cancel, RaisesAt, JoinAt, objs, locals, Goto, TypeOK
  <2> QED BY <2>1, <2>2, CalmKeeps
<1>7. CASE commit_to_block(t)
  <2>1. KeepsEnded
    BY <1>1, <1>7, DecideEnds, UnchangedEnds DEF commit_to_block
  <2>2. Calm(t)
    BY <1>7, <2>1, GoesCalm DEF commit_to_block, At, objs, locals
  <2>3. RaisesAt(t)' /\ JoinAt(t)'
    BY <1>7 DEF commit_to_block, At, RaisesAt, JoinAt, objs, locals, Goto, TypeOK
  <2> QED BY <2>2, <2>3, CalmKeeps
<1>8. CASE disarm(t)
  <2>0. pc[t] = "disarm" /\ on[t] \in Waitables /\ ~Locked(on[t])
    BY <1>8 DEF disarm, At, CallsAt, TypeOK
  <2>1. \A v \in Waitables, u \in Threads :
          Armed(queue'[v], u) <=> Armed(queue[v], u) /\ ~(v = on[t] /\ u = t)
    BY <1>8, <2>0, UnlinkKeeps DEF disarm
  <2>2. on[t] \in Threads /\ raised[on[t]] => pc[on[t]] = "dead"
    BY <2>0 DEF JInv, EndedAt, IInv, ThreadAt, EndsAt, Locked, Actors
  <2>3. on[t] \in Threads /\ pc[on[t]] = "dead" => on[t] # t
    BY <2>0
  <2>4. Calm(t)
    BY <1>8, <2>0, <2>1, UnchangedEnds DEF disarm, Calm, Goto, TypeOK, Waitables, AllSignals
  <2>5. JoinAt(t)'
    BY SMTT(60), <1>8, <2>0, <2>1, <2>2, <2>3 DEF disarm, JoinAt, Goto, TypeOK
  <2>6. RaisesAt(t)'
    BY <1>8, <2>0 DEF disarm, RaisesAt, Goto, TypeOK
  <2> QED BY <2>4, <2>5, <2>6, CalmKeeps
<1>9. CASE disarm_cancel(t)
  <2>0. pc[t] = "disarm_cancel" /\ cancel[t] \in Waitables /\ on[t] = Sem
    BY <1>9, SMTT(60), ConstantsAssumption DEF disarm_cancel, At, CallsAt, TypeOK, Waitables
  <2>1. \A v \in Waitables, u \in Threads :
          Armed(queue'[v], u) <=> Armed(queue[v], u) /\ ~(v = cancel[t] /\ u = t)
    BY <1>9, <2>0, UnlinkKeeps DEF disarm_cancel
  <2>2. Calm(t)
    BY <1>9, <2>0, <2>1, UnchangedEnds DEF disarm_cancel, Calm, locals, Goto, TypeOK, Waitables, AllSignals
  <2>3. RaisesAt(t)' /\ JoinAt(t)'
    BY <1>9, <2>0, <2>1 DEF disarm_cancel, RaisesAt, JoinAt, locals, Goto, TypeOK
  <2> QED BY <2>2, <2>3, CalmKeeps
<1>10. CASE conclude(t)
  <2>0. pc[t] = "after" /\ satisfied[t] /\ KeepsEnded
    BY <1>10, UnchangedEnds DEF conclude, At
  <2>1. CASE Return(t)
    BY <1>10, <2>0, <2>1, ReturnKeepsJoins DEF conclude, objs
  <2>2. CASE ~Return(t)
    <3>1. Calm(t)
      BY SMTT(60), <1>10, <2>0, <2>2 DEF conclude, Calm, objs, Goto, TypeOK
    <3>2. RaisesAt(t)' /\ JoinAt(t)'
      BY SMTT(60), <1>10, <2>0, <2>2 DEF conclude, RaisesAt, JoinAt, objs, Goto, TypeOK
    <3> QED BY <3>1, <3>2, CalmKeeps
  <2> QED BY <2>1, <2>2
<1>11. CASE repoll(t)
  <2>0. pc[t] = "after" /\ ~satisfied[t] /\ KeepsEnded
    BY <1>11, UnchangedEnds DEF repoll, At
  <2>1. CASE Return(t)
    BY <1>11, <2>0, <2>1, ReturnKeepsJoins DEF repoll
  <2>2. CASE ~Return(t)
    <3>1. Calm(t)
      BY <1>11, <2>0, <2>2, GoesCalm DEF repoll, TypeOK
    <3>2. RaisesAt(t)' /\ JoinAt(t)'
      BY SMTT(60), <1>11, <2>0, <2>2 DEF repoll, RaisesAt, JoinAt, Goto, TypeOK
    <3> QED BY <3>1, <3>2, CalmKeeps
  <2> QED BY <2>1, <2>2
<1>12. CASE recheck(t)
  <2>0. pc[t] = "recheck" /\ ~satisfied[t] /\ KeepsEnded
    BY <1>12, UnchangedEnds DEF recheck, At, JoinAt
  <2>1. CASE Return(t)
    BY <1>12, <2>0, <2>1, ReturnKeepsJoins DEF recheck, objs
  <2>2. CASE ~Return(t)
    <3>1. Calm(t)
      BY <1>12, <2>0, <2>2, GoesCalm DEF recheck, objs, locals
    <3>2. RaisesAt(t)' /\ JoinAt(t)'
      BY SMTT(60), <1>12, <2>0, <2>2 DEF recheck, RaisesAt, JoinAt, Goto, TypeOK, objs, locals
    <3> QED BY <3>1, <3>2, CalmKeeps
  <2> QED BY <2>1, <2>2
<1>13. CASE suspend_prepare(t)
  <2>1. Calm(t)
    BY <1>13, GoesCalm DEF suspend_prepare, At, KeepsEnded, objs, locals
  <2>2. RaisesAt(t)' /\ JoinAt(t)'
    BY <1>13 DEF suspend_prepare, At, RaisesAt, JoinAt, objs, locals, Goto, TypeOK
  <2> QED BY <2>1, <2>2, CalmKeeps
<1>14. CASE suspend_look(t)
  <2>0. pc[t] = "look" /\ on[t] = None /\ ~satisfied[t]
    BY <1>14 DEF suspend_look, At, CallsAt, JoinAt
  <2>1. Calm(t)
    BY <1>14, <2>0, GoesCalm DEF suspend_look, KeepsEnded, locals
  <2>2. RaisesAt(t)' /\ JoinAt(t)'
    BY <1>14, <2>0 DEF suspend_look, RaisesAt, JoinAt, locals, Goto, TypeOK
  <2> QED BY <2>1, <2>2, CalmKeeps
<1> QED BY <1>2, <1>3, <1>4, <1>5, <1>6, <1>7, <1>8, <1>9, <1>10, <1>11, <1>12, <1>13, <1>14
        DEF WaitStep

\* A wake or a raise goes on.
LEMMA WakeStepKeeps ==
  ASSUME IInv, JInv, NEW a \in Actors, WakeStep(a)
  PROVE  JInv'
<1>0. /\ TypeOK /\ None \notin Threads /\ Sem \notin Threads
      /\ core[a] \in Cores /\ RaisesAt(a) /\ CallsAt(a) /\ (a \in Threads => JoinAt(a))
  BY SMTT(60), ConstantsAssumption DEF IInv, JInv, Waitables, AllSignals
<1>1. state \in [Threads -> States] /\ disposition \in [Threads -> Dispositions]
  BY <1>0 DEF TypeOK, States, Dispositions
<1> USE <1>0
<1>2. CASE may_have_waiters(a)
  <2>0. pc[a] = "peek" /\ KeepsEnded
    BY <1>2, UnchangedEnds DEF may_have_waiters, At
  <2>1. CASE Return(a)
    BY <1>2, <2>0, <2>1, ReturnKeepsJoins DEF may_have_waiters, objs
  <2>2. CASE ~Return(a)
    <3>1. Calm(a)
      BY <1>2, <2>0, <2>2, GoesCalm DEF may_have_waiters, objs, locals
    <3>2. RaisesAt(a)' /\ (a \in Threads => JoinAt(a)')
      BY <1>2, <2>0, <2>2 DEF may_have_waiters, RaisesAt, JoinAt, objs, locals, Goto, TypeOK
    <3> QED BY <3>1, <3>2, CalmKeeps
  <2> QED BY <2>1, <2>2
<1>3. CASE wake_one(a)
  <2>0. pc[a] = "wake" /\ on[a] \in Waitables /\ KeepsEnded
    BY <1>3, UnchangedEnds DEF wake_one, At, CallsAt, TypeOK
  <2>1. CASE Return(a)
    <3>1. UNCHANGED queue
      BY <1>3, <2>0, <2>1 DEF wake_one, Return, Goto, TypeOK
    <3> QED BY <1>3, <2>0, <2>1, <3>1, ReturnKeepsJoins DEF wake_one
  <2>2. CASE ~Return(a)
    <3>1. \A v \in Waitables, u \in Threads :
            Armed(queue'[v], u) <=> Armed(queue[v], u) /\ ~(v = on[a] /\ u = Head(queue[on[a]]))
      BY <1>3, <2>0, <2>2, PopKeeps DEF wake_one
    <3>4. /\ \A b \in Actors \ {a} : pc'[b] = pc[b] /\ on'[b] = on[b]
          /\ pc'[a] = "ready" /\ UNCHANGED <<satisfied, gone, raised>>
      BY <1>3, <2>2 DEF wake_one, Goto, TypeOK
    <3>5. \A w, b \in Threads : Armed(queue[w], b) => Armed(queue'[w], b) \/ raised[w]
      BY <2>0, <3>1 DEF RaisesAt, Waitables, AllSignals
    <3>2. Calm(a)
      BY <2>0, <3>4, <3>5 DEF Calm
    <3>3. RaisesAt(a)' /\ (a \in Threads => JoinAt(a)')
      BY <2>0, <3>4 DEF RaisesAt, JoinAt
    <3> QED BY <3>2, <3>3, CalmKeeps
  <2> QED BY <2>1, <2>2
<1>4. CASE ready_chosen(a)
  <2>1. pc[a] = "ready" /\ chosen[a] \in Threads
    BY <1>4 DEF ready_chosen, At, CallsAt, TypeOK
  <2>2. KeepsEnded
    BY <1>4, <2>1, ReadyEnds DEF ready_chosen
  <2> QED BY <1>4, <2>1, <2>2, ReturnKeepsJoins DEF ready_chosen, objs
<1>5. CASE raise_next(a)
  <2>0. pc[a] = "raising" /\ on[a] \in Waitables /\ queue[on[a]] # <<>>
    BY <1>5 DEF raise_next, At, CallsAt, TypeOK
  <2>1. /\ Head(queue[on[a]]) \in Threads
        /\ \A v \in Waitables, u \in Threads :
             Armed(queue'[v], u) <=> Armed(queue[v], u) /\ ~(v = on[a] /\ u = Head(queue[on[a]]))
    BY <1>5, <2>0, PopKeeps DEF raise_next
  <2>2. KeepsEnded
    BY <1>5, <2>1, ReadyEnds DEF raise_next
  <2>3. Calm(a)
    BY <1>5, <2>0, <2>1, <2>2 DEF raise_next, Calm, Waitables, AllSignals, RaisesAt
  <2>4. RaisesAt(a)' /\ (a \in Threads => JoinAt(a)')
    BY <1>5, <2>0 DEF raise_next, RaisesAt, JoinAt
  <2> QED BY <2>3, <2>4, CalmKeeps
<1>6. CASE raise_unlock(a)
  <2>0. pc[a] = "raising"
    BY <1>6 DEF raise_unlock, At
  <2>1. CASE on[a] # a
    <3>1. KeepsEnded
      BY <1>6, <2>1 DEF raise_unlock, KeepsEnded
    <3>2. Calm(a)
      BY <1>6, <2>0, <2>1, <3>1 DEF raise_unlock, Calm, Goto, TypeOK, objs
    <3>3. RaisesAt(a)' /\ (a \in Threads => JoinAt(a)')
      BY <1>6, <2>0, <2>1 DEF raise_unlock, RaisesAt, JoinAt, Goto, TypeOK, objs
    <3> QED BY <3>2, <3>3, CalmKeeps
  <2>2. CASE on[a] = a
    <3>0. a \in Threads /\ state[a] = "terminated" /\ current[core[a]] = a /\ ~satisfied[a]
      <4>1. a \in Threads
        BY SMTT(60), <1>6, <2>0, <2>2, ConstantsAssumption DEF TypeOK, CallsAt, Waitables, AllSignals, Actors
      <4> QED BY <1>6, <4>1, <2>0, <2>2 DEF JInv, EndedAt, raise_unlock, At, JoinAt
    <3>1. Picked(core[a], state)
      BY <1>1, <1>6, <2>2, RunNextEffect DEF raise_unlock
    <3>2. /\ \A b \in Actors \ {a} : pc'[b] = pc[b] /\ on'[b] = on[b]
          /\ pc'[a] = "dead" /\ on'[a] = None
          /\ UNCHANGED <<queue, raised, satisfied, gone>>
      BY <1>6, <2>0, <2>2 DEF raise_unlock, Goto, TypeOK, objs
    <3>3. ASSUME NEW t \in Threads PROVE EndedAt(t)'
      <4>1. EndedAt(t) /\ (state[t] = "terminated" => state'[t] = "terminated")
        BY <3>1 DEF JInv, Picked
      <4> QED BY <3>0, <3>2, <4>1 DEF EndedAt, Actors
    <3>4. CurrentLives'
      <4> SUFFICES ASSUME NEW c \in Cores, current'[c] \in Threads
                   PROVE  pc'[current'[c]] # "dead"
        BY DEF CurrentLives
      <4>1. CASE c = core[a]
        BY <3>1, <3>3, <4>1 DEF Picked, EndedAt
      <4>2. CASE c # core[a]
        BY SMTT(60), <3>1, <3>2, <4>2 DEF Picked, IInv, CurrentOK, JInv, CurrentLives, Actors
      <4> QED BY <4>1, <4>2
    <3>5. RaisesAt(a)' /\ JoinAt(a)'
      BY <3>0, <3>2 DEF RaisesAt, JoinAt
    <3>6. (\A b \in Actors : RaisesAt(b)') /\ (\A t \in Threads : JoinAt(t)')
      BY <3>2, <3>5, JoinsKept
    <3> QED BY <3>3, <3>4, <3>6 DEF JInv
  <2> QED BY <2>1, <2>2
<1>7. CASE preempt_enable(a)
  <2>1. pc[a] = "enable" /\ KeepsEnded
    BY <1>7 DEF preempt_enable, At, KeepsEnded
  <2> QED BY <1>7, <2>1, ReturnKeepsJoins DEF preempt_enable, objs
<1> QED BY <1>2, <1>3, <1>4, <1>5, <1>6, <1>7 DEF WakeStep

\* A thread that leaves for good (set_thread_terminated) has not left before.
LEMMA RetireKeepsJoins ==
  ASSUME IInv, JInv, NEW t \in Threads, pc[t] = "exiting", Retire(t)
  PROVE  JInv'
<1>0. TypeOK /\ t \in Actors /\ JoinAt(t) /\ EndsAt(t)
  BY SMTT(60) DEF IInv, JInv, Actors, ThreadAt
<1>1. /\ \A b \in Actors \ {t} : pc'[b] = pc[b] /\ on'[b] = on[b]
      /\ pc'[t] = "raising" /\ on'[t] = t /\ raised'[t]
      /\ \A u \in Threads : u # t => raised'[u] = raised[u]
      /\ UNCHANGED <<current, queue, satisfied, gone>>
  BY <1>0 DEF Retire, Goto, TypeOK, AllSignals
<1>2. state'[t] = "terminated" /\ \A u \in Threads : state[u] = "terminated" => state'[u] = "terminated"
  BY <1>0 DEF Retire, DrainedState, TypeOK
<1>3. ASSUME NEW u \in Threads PROVE EndedAt(u)'
  BY <1>1, <1>2 DEF JInv, EndedAt, Actors
<1>4. CurrentLives'
  BY <1>1 DEF JInv, CurrentLives, Actors
<1>5. RaisesAt(t)' /\ JoinAt(t)'
  BY <1>0, <1>1 DEF RaisesAt, JoinAt
<1>6. (\A b \in Actors : RaisesAt(b)') /\ (\A u \in Threads : JoinAt(u)')
  BY <1>0, <1>1, <1>5, JoinsKept
<1> QED BY <1>3, <1>4, <1>6 DEF JInv

\* A core switches, or retires the thread that has ended on it.
LEMMA CoreStepKeeps ==
  ASSUME IInv, JInv, NEW c \in Cores, CoreStep(c)
  PROVE  JInv'
<1>0. TypeOK /\ CurrentOK /\ state \in [Threads -> States] /\ disposition \in [Threads -> Dispositions]
  BY SMTT(60) DEF IInv, TypeOK, States, Dispositions
<1>1. CASE decide(c, "yielded", state, disposition) /\ UNCHANGED <<objs, pc, locals>>
  <2>1. KeepsEnded
    BY <1>0, <1>1, DecideEnds
  <2>2. ASSUME NEW t \in Threads PROVE EndedAt(t)' /\ JoinAt(t)'
    BY <1>1, <2>1 DEF JInv, EndedAt, JoinAt, KeepsEnded, objs, locals
  <2>3. ASSUME NEW a \in Actors PROVE RaisesAt(a)'
    BY <1>1 DEF JInv, RaisesAt, objs, locals
  <2>4. CurrentLives'
    BY <1>1, <2>1, <2>2 DEF JInv, CurrentLives, EndedAt, KeepsEnded
  <2> QED BY <2>2, <2>3, <2>4 DEF JInv
<1>2. CASE /\ current[c] \in Threads /\ disposition[current[c]] = "terminating"
           /\ Preemptible(c) /\ Retire(current[c])
  <2>1. pc[current[c]] = "exiting"
    BY <1>0, <1>2 DEF Preemptible, RunningAt, JInv, CurrentLives, IInv, ThreadAt, EndsAt
  <2> QED BY <1>2, <2>1, RetireKeepsJoins
<1> QED BY <1>1, <1>2 DEF CoreStep, reschedule, idle_task

\* Every step of the engine keeps the joins.
LEMMA JoinsInvariant == IInv /\ JInv /\ [Next]_vars => JInv'
<1> SUFFICES ASSUME IInv, JInv, [Next]_vars PROVE JInv'
  OBVIOUS
<1>1. CASE UNCHANGED vars
  BY <1>1 DEF vars, sched, objs, locals, JInv, CurrentLives, EndedAt, JoinAt, RaisesAt
<1>2. ASSUME NEW t \in Threads, WaitStep(t) PROVE JInv'
  BY <1>2, WaitStepKeeps, RetireKeepsJoins DEF thread_yield, At
<1> QED BY <1>1, <1>2, CallKeeps, ThreadCallKeeps, WakeStepKeeps, CoreStepKeeps DEF Next, Actors

\* Before the first step nothing has been raised and nobody joins.
LEMMA JoinsInit == Init => JInv
<1> SUFFICES ASSUME Init PROVE JInv
  OBVIOUS
<1>0. None \notin Threads
  BY SMTT(60), ConstantsAssumption DEF Waitables, AllSignals
<1>1. ASSUME NEW t \in Threads PROVE EndedAt(t) /\ JoinAt(t)
  BY <1>0 DEF Init, EndedAt, JoinAt, Actors, AllSignals
<1>2. ASSUME NEW a \in Actors PROVE RaisesAt(a)
  BY DEF Init, RaisesAt
<1>3. CurrentLives
  BY DEF Init, CurrentLives, Actors
<1> QED BY <1>1, <1>2, <1>3 DEF JInv

\* raise_all's promise: a joiner that the raise of a termination took off the
\* queue, or whose armed poll saw the flag, gets past its disarm only when the
\* raise has let go of the queue.
THEOREM JoinersOutlastRaise == Spec => []JoinerOutlastsRaise
<1>1. IInv /\ JInv => JoinerOutlastsRaise
  BY SMTT(60) DEF JInv, JoinAt, RaisesAt, JoinerOutlastsRaise, Locked
<1> QED BY <1>1, JoinsInit, JoinsInvariant, Invariance, PTL DEF Spec
=============================================================================
