----------------------------- MODULE WaitTokens -----------------------------
(***************************************************************************)
(* No token is left behind a thread that waits for one: WakeOwed, which    *)
(* every step of WaitEngine keeps.                                         *)
(***************************************************************************)
EXTENDS WaitEngineProofs, FiniteSetTheorems

\* Every leaf that names no prover of its own is one for Zenon.
USE ZenonT(60)

\* A step of a leaves the other actors in their places, and on the semaphore's
\* queue or off it.
Apart(a) ==
  \A b \in Actors \ {a} :
    /\ pc'[b] = pc[b] /\ on'[b] = on[b] /\ satisfied'[b] = satisfied[b] /\ gone'[b] = gone[b]
    /\ Armed(queue'[Sem], b) <=> Armed(queue[Sem], b)

\* Where the actors are, as far as a token is concerned.
Typed ==
  /\ pc \in [Actors -> Places] /\ on \in [Actors -> Waitables \cup {None}]
  /\ satisfied \in [Actors -> BOOLEAN] /\ gone \in [Actors -> BOOLEAN]
  /\ counter \in Nat

\* What a step of a may do to the count: leave a token to its owner, take one,
\* or give one together with the wake owed for it.
Balanced(a) ==
  \/ counter' <= counter /\ (OwesWake(a) => OwesWake(a)')
  \/ counter' <= counter - 1
  \/ counter' = counter + 1 /\ ~OwesWake(a) /\ OwesWake(a)'

\* The actors whose wake is still owed for a token they gave.
Owing == {a \in Actors : OwesWake(a)}

\* The owed wakes can be counted, before a step of the engine ...
LEMMA OwingFinite == IsFiniteSet(Owing) /\ Cardinality(Owing) \in Nat
BY ConstantsAssumption, FS_Subset, FS_CardinalityType DEF Owing

\* ... and after it.
LEMMA OwingFinitePrime == IsFiniteSet(Owing') /\ Cardinality(Owing') \in Nat
BY ConstantsAssumption, FS_Subset, FS_CardinalityType DEF Owing

\* A balanced step strands no token: semaphore.release counts up only together
\* with the wake it then owes, and a wake is dropped only when a token is taken.
LEMMA ApartKeeps ==
  ASSUME IInv, WakeOwed, NEW a \in Actors, Apart(a), counter' \in Nat, Balanced(a),
         a \in Threads => (WaitsForToken(a)' => WaitsForToken(a))
  PROVE  WakeOwed'
<1>0. counter \in Nat
  BY DEF IInv, TypeOK
<1> SUFFICES ASSUME NEW t \in Threads, WaitsForToken(t)' PROVE counter' <= Cardinality(Owing')
  BY DEF WakeOwed, Owing
<1>1. WaitsForToken(t)
  BY DEF Apart, WaitsForToken, Actors
<1>2. counter <= Cardinality(Owing)
  BY <1>1 DEF WakeOwed, Owing
<1>3. \A b \in Actors \ {a} : OwesWake(b)' <=> OwesWake(b)
  BY DEF Apart, OwesWake
<1>4. Cardinality(Owing \cup {a}) = IF a \in Owing THEN Cardinality(Owing) ELSE Cardinality(Owing) + 1
  BY OwingFinite, FS_AddElement
<1>5. Cardinality(Owing \ {a}) = IF a \in Owing THEN Cardinality(Owing) - 1 ELSE Cardinality(Owing)
  BY OwingFinite, FS_RemoveElement
<1>6. Owing' = IF OwesWake(a)' THEN Owing \cup {a} ELSE Owing \ {a}
  BY <1>3 DEF Owing
<1>7. a \in Owing <=> OwesWake(a)
  BY DEF Owing
<1> QED BY SMTT(60), <1>0, <1>2, <1>4, <1>5, <1>6, <1>7, OwingFinite DEF Balanced

\* With no token to give, or nobody behind a failed poll, nothing is owed.
LEMMA NothingOwed ==
  ASSUME counter' = 0 \/ \A t \in Threads : ~Armed(queue'[Sem], t)
  PROVE  WakeOwed'
<1>1. CASE counter' = 0
  BY SMTT(60), <1>1, OwingFinitePrime DEF WakeOwed, Owing
<1>2. CASE \A t \in Threads : ~Armed(queue'[Sem], t)
  BY <1>2 DEF WakeOwed, WaitsForToken
<1> QED BY <1>1, <1>2

\* A step of a that keeps the count, and a wake that a owes.
LEMMA OwnerKeeps ==
  ASSUME IInv, WakeOwed, NEW a \in Actors, Apart(a), UNCHANGED counter,
         OwesWake(a) => OwesWake(a)',
         a \in Threads => (WaitsForToken(a)' => WaitsForToken(a))
  PROVE  WakeOwed'
<1>1. counter \in Nat
  BY DEF IInv, TypeOK
<1>2. Balanced(a)
  BY SMTT(60), <1>1 DEF Balanced
<1> QED BY <1>1, <1>2, ApartKeeps

\* A step that touches no queue is apart.
LEMMA QueuesApart ==
  ASSUME NEW a \in Actors, UNCHANGED queue,
         \A b \in Actors \ {a} :
           pc'[b] = pc[b] /\ on'[b] = on[b] /\ satisfied'[b] = satisfied[b] /\ gone'[b] = gone[b]
  PROVE  Apart(a)
BY DEF Apart

\* A step that goes on to p, when neither place owes or waits for a token.
Neutral == {"user", "idle", "prepare", "arm", "recheck", "ready", "raising", "enable",
            "suspend", "look", "exiting", "dead"}

\* A step between two such places, which gives no token, strands none.
LEMMA NeutralKeeps ==
  ASSUME IInv, WakeOwed, NEW a \in Actors, Apart(a), counter' \in Nat, counter' <= counter,
         pc[a] \in Neutral, pc'[a] \in Neutral
  PROVE  WakeOwed'
<1>1. ~OwesWake(a)
  BY DEF OwesWake, Neutral
<1>3. Balanced(a)
  BY <1>1 DEF Balanced
<1>2. ~WaitsForToken(a)'
  BY DEF WaitsForToken, Neutral
<1> QED BY <1>2, <1>3, ApartKeeps

\* The same, when the count is left alone.
LEMMA NeutralStays ==
  ASSUME IInv, WakeOwed, NEW a \in Actors, Apart(a), UNCHANGED counter,
         pc[a] \in Neutral, pc'[a] \in Neutral
  PROVE  WakeOwed'
<1>1. counter \in Nat
  BY DEF IInv, TypeOK
<1> QED BY SMTT(60), <1>1, NeutralKeeps

\* A call that returns from a place that owes nothing.
LEMMA ReturnOwes ==
  ASSUME IInv, WakeOwed, NEW a \in Actors, Return(a), UNCHANGED <<queue, counter>>, ~OwesWake(a)
  PROVE  WakeOwed'
<1>0. Typed
  BY DEF IInv, TypeOK, Typed
<1>1. Apart(a)
  BY <1>0, QueuesApart DEF Return, Goto, Typed
<1>2. ~WaitsForToken(a)'
  BY <1>0 DEF Return, Goto, Typed, WaitsForToken
<1> QED BY <1>1, <1>2, OwnerKeeps

\* A call that returns with a token.
LEMMA ReturnTakes ==
  ASSUME IInv, WakeOwed, NEW a \in Actors, Return(a), UNCHANGED queue, counter > 0, counter' = counter - 1
  PROVE  WakeOwed'
<1>0. Typed
  BY DEF IInv, TypeOK, Typed
<1>1. Apart(a)
  BY <1>0, QueuesApart DEF Return, Goto, Typed
<1>2. ~WaitsForToken(a)'
  BY <1>0 DEF Return, Goto, Typed, WaitsForToken
<1>3. counter' \in Nat /\ Balanced(a)
  BY SMTT(60), <1>0 DEF Typed, Balanced
<1> QED BY <1>1, <1>2, <1>3, ApartKeeps

\* A call begins: a release owes the wake of the token it brings.
LEMMA CallOwes ==
  ASSUME IInv, WakeOwed, NEW a \in Actors, Call(a)
  PROVE  WakeOwed'
<1>0. Typed /\ counter \in Nat
  BY DEF IInv, TypeOK, Typed
<1>1. ASSUME NEW op, NEW x, Calls(a, op, x) PROVE pc[a] \in {"user", "idle"}
  BY <1>1, CallsRun
<1> USE <1>0
<1>2. CASE release(a)
  <2>1. pc[a] \in {"user", "idle"} /\ pc'[a] = "peek" /\ on'[a] = Sem /\ counter' = counter + 1
    BY <1>1, <1>2 DEF release, Goto, Typed
  <2>2. Apart(a)
    BY <1>2, QueuesApart DEF release, Goto, Typed
  <2>3. ~OwesWake(a) /\ OwesWake(a)' /\ ~WaitsForToken(a)'
    BY <2>1 DEF OwesWake, WaitsForToken
  <2>4. Balanced(a)
    BY <2>1, <2>3 DEF Balanced
  <2> QED BY SMTT(60), <2>1, <2>2, <2>3, <2>4, ApartKeeps
<1>3. ASSUME NEW s \in Signals, raise(a, s) PROVE WakeOwed'
  <2>1. pc[a] \in Neutral /\ pc'[a] \in Neutral /\ UNCHANGED counter
    BY <1>1, <1>3 DEF raise, Goto, Typed, Neutral, objs
  <2>2. Apart(a)
    BY <1>3, QueuesApart DEF raise, Goto, Typed
  <2> QED BY <1>3, <2>1, <2>2, NeutralStays
<1>4. ASSUME NEW u \in Threads, resume(a, u) PROVE WakeOwed'
  <2>1. pc[a] \in Neutral /\ pc'[a] \in Neutral /\ UNCHANGED counter
    BY <1>1, <1>4 DEF resume, Goto, Typed, Neutral, objs
  <2>2. Apart(a)
    BY <1>4, QueuesApart DEF resume, Goto, Typed
  <2> QED BY <1>4, <2>1, <2>2, NeutralStays
<1> QED BY <1>2, <1>3, <1>4 DEF Call

\* A thread's calls (wait, try_acquire, suspend, exit and the rest) strand no token.
LEMMA ThreadCallOwes ==
  ASSUME IInv, WakeOwed, NEW t \in Threads, ThreadCall(t)
  PROVE  WakeOwed'
<1>0. Typed /\ counter \in Nat /\ t \in Actors
  BY DEF IInv, TypeOK, Typed, Actors
<1>1. ASSUME NEW op, NEW x, Calls(t, op, x) PROVE pc[t] \in Neutral
  BY <1>0, <1>1, CallsRun DEF Neutral
<1> USE <1>0
<1>2. CASE yield(t)
  <2>1. pc[t] \in Neutral /\ UNCHANGED <<pc, counter>> /\ Apart(t)
    BY <1>1, <1>2, QueuesApart DEF yield, objs, locals
  <2> QED BY <2>1, NeutralStays
<1>3. CASE thread_exit(t)
  <2>1. pc[t] \in Neutral /\ pc'[t] \in Neutral /\ Apart(t) /\ UNCHANGED counter
    BY <1>1, <1>3, QueuesApart DEF thread_exit, objs, locals, Goto, Typed, Neutral
  <2> QED BY <2>1, NeutralStays
<1>4. CASE suspend(t)
  <2>1. pc[t] \in Neutral /\ pc'[t] \in Neutral /\ Apart(t) /\ UNCHANGED counter
    BY <1>1, <1>4, QueuesApart DEF suspend, objs, locals, Goto, Typed, Neutral
  <2> QED BY <2>1, NeutralStays
<1>5. ASSUME NEW op, NEW x, Calls(t, op, x), NEW w, NEW s, Wait(t, w, s) PROVE WakeOwed'
  <2>1. pc'[t] \in Neutral /\ Apart(t) /\ UNCHANGED counter
    BY <1>5, QueuesApart DEF Wait, objs, Goto, Typed, Neutral
  <2> QED BY <1>1, <1>5, <2>1, NeutralStays
<1>6. ASSUME NEW s \in Signals \cup {None}, acquire(t, s) PROVE WakeOwed'
  <2>1. CASE counter > 0 /\ counter' = counter - 1 /\ UNCHANGED <<sched, queue, raised, token, pc, locals>>
    <3>1. pc[t] \in Neutral /\ pc'[t] = pc[t] /\ Apart(t)
      BY <1>1, <1>6, <2>1, QueuesApart DEF acquire, locals
    <3> QED BY SMTT(60), <2>1, <3>1, NeutralKeeps
  <2> QED BY <1>5, <1>6, <2>1 DEF acquire
<1>7. ASSUME NEW s \in AllSignals, wait_on(t, s) PROVE WakeOwed'
  BY <1>5, <1>7 DEF wait_on
<1>8. ASSUME NEW s \in Signals, reset(t, s) PROVE WakeOwed'
  <2>1. pc[t] \in Neutral /\ UNCHANGED <<pc, counter>> /\ Apart(t)
    BY <1>1, <1>8, QueuesApart DEF reset, locals
  <2> QED BY <2>1, NeutralStays
<1> QED BY <1>2, <1>3, <1>4, <1>6, <1>7, <1>8, CallOwes DEF ThreadCall

\* A wake or a raise goes on: the thread a wake takes owes what its waker did.
LEMMA WakeStepOwes ==
  ASSUME IInv, WakeOwed, NEW a \in Actors, WakeStep(a)
  PROVE  WakeOwed'
<1>0. /\ TypeOK /\ Typed /\ counter \in Nat /\ CallsAt(a) /\ Sem \in Waitables /\ Sem # None
      /\ None \notin Threads /\ Sem \notin AllSignals
  BY SMTT(60), ConstantsAssumption DEF IInv, TypeOK, Typed, Waitables, AllSignals
<1>1. ASSUME queue[Sem] = <<>>, NEW t PROVE ~Armed(queue[Sem], t)
  BY <1>1, EmptyArms
<1> USE <1>0
<1>2. CASE may_have_waiters(a)
  <2>0. pc[a] = "peek" /\ UNCHANGED <<queue, counter>>
    BY <1>2 DEF may_have_waiters, At, objs
  <2>1. CASE queue[on[a]] = <<>> /\ Return(a)
    <3>1. CASE on[a] = Sem
      BY <1>1, <2>0, <2>1, <3>1, NothingOwed
    <3>2. CASE on[a] # Sem
      <4>1. ~OwesWake(a)
        BY <3>2 DEF OwesWake
      <4> QED BY <2>0, <2>1, <4>1, ReturnOwes
    <3> QED BY <3>1, <3>2
  <2>2. CASE Goto(a, "wake") /\ UNCHANGED locals
    <3>1. pc'[a] = "wake" /\ on'[a] = on[a] /\ Apart(a)
      BY <2>0, <2>2, QueuesApart DEF Goto, locals, Typed
    <3>2. (OwesWake(a) => OwesWake(a)') /\ ~WaitsForToken(a)'
      BY <2>0, <3>1 DEF OwesWake, WaitsForToken
    <3> QED BY <2>0, <3>1, <3>2, OwnerKeeps
  <2> QED BY <1>2, <2>1, <2>2 DEF may_have_waiters
<1>3. CASE wake_one(a)
  <2>0. pc[a] = "wake" /\ on[a] \in Waitables /\ UNCHANGED counter
    BY <1>3 DEF wake_one, At, CallsAt, TypeOK
  <2>1. CASE queue[on[a]] = <<>> /\ Return(a) /\ UNCHANGED queue
    <3>1. CASE on[a] = Sem
      BY <1>1, <2>0, <2>1, <3>1, NothingOwed
    <3>2. CASE on[a] # Sem
      <4>1. ~OwesWake(a)
        BY <3>2 DEF OwesWake
      <4> QED BY <2>0, <2>1, <4>1, ReturnOwes
    <3> QED BY <3>1, <3>2
  <2>2. CASE /\ queue[on[a]] # <<>>
             /\ queue' = [queue EXCEPT ![on[a]] = Tail(@)]
             /\ on' = [on EXCEPT ![a] = None]
             /\ Goto(a, "ready")
             /\ UNCHANGED <<cancel, satisfied, gone, hint>>
    <3>0. PICK u \in Threads : u = Head(queue[on[a]])
      BY <2>0, <2>2, PopKeeps
    <3>1. \A t \in Threads :
            Armed(queue'[Sem], t) <=> Armed(queue[Sem], t) /\ ~(Sem = on[a] /\ t = u)
      BY <2>0, <2>2, <3>0, PopKeeps
    <3>2. /\ pc'[a] = "ready" /\ on'[a] = None
          /\ \A b \in Actors \ {a} : pc'[b] = pc[b] /\ on'[b] = on[b]
      BY <2>2 DEF Goto, Typed
    <3>3. queue[Sem] \in Seq(Threads) /\ queue'[Sem] \in Seq(Threads)
      BY <2>0, <2>2, PopKeeps DEF TypeOK
    <3>4. \A b \in Actors : b \notin Threads => ~Armed(queue[Sem], b) /\ ~Armed(queue'[Sem], b)
      BY SMTT(60), <3>3 DEF Armed
    <3>5. CASE on[a] # Sem
      <4>1. Apart(a)
        BY <2>2, <3>1, <3>2, <3>4, <3>5 DEF Apart
      <4>2. (OwesWake(a) => OwesWake(a)') /\ ~WaitsForToken(a)'
        BY <2>0, <3>2, <3>5 DEF OwesWake, WaitsForToken
      <4> QED BY <2>0, <4>1, <4>2, OwnerKeeps
    <3>6. CASE on[a] = Sem
      <4>0. Armed(queue[Sem], u) /\ u \in Actors
        <5>1. queue[Sem][1] = u /\ 1 \in DOMAIN queue[Sem]
          BY SMTT(60), <2>2, <3>0, <3>3, <3>6
        <5> QED BY <3>1, <5>1 DEF Armed, Actors
      <4>1. on[u] = Sem /\ pc[u] \in {"arm_cancel", "poll", "poll_cancel", "commit", "disarm"} /\ u # a
        <5>1. NodesAt(u) /\ cancel[u] # Sem
          BY <3>1, <4>0 DEF IInv, ThreadAt, TypeOK
        <5> QED BY <2>0, <4>0, <5>1 DEF NodesAt
      <4>2. OwesWake(a) /\ ~OwesWake(a)' /\ ~OwesWake(u) /\ OwesWake(u)'
        <5>1. ~Armed(queue'[Sem], u) /\ pc'[u] = pc[u] /\ on'[u] = on[u]
          BY <3>1, <3>2, <3>6, <4>0, <4>1
        <5>2. OwesWake(u)' /\ ~OwesWake(u)
          BY <4>0, <4>1, <5>1 DEF OwesWake
        <5> QED BY <2>0, <3>2, <3>6, <5>2 DEF OwesWake
      <4>3. \A b \in Actors \ {a, u} : OwesWake(b)' <=> OwesWake(b)
        BY <2>2, <3>1, <3>2, <3>4 DEF OwesWake
      <4>4. Owing' = (Owing \ {a}) \cup {u}
        <5>1. ASSUME NEW b PROVE b \in Owing' <=> b \in (Owing \ {a}) \cup {u}
          <6>1. CASE b = a
            BY <4>1, <4>2, <6>1 DEF Owing
          <6>2. CASE b = u
            BY <4>0, <4>2, <6>2 DEF Owing
          <6>3. CASE b # a /\ b # u
            BY <4>3, <6>3 DEF Owing
          <6> QED BY <6>1, <6>2, <6>3
        <5> QED BY <5>1
      <4>5. Cardinality(Owing \ {a}) = Cardinality(Owing) - 1 /\ IsFiniteSet(Owing \ {a})
        BY <4>2, OwingFinite, FS_RemoveElement DEF Owing
      <4>6. Cardinality(Owing') = Cardinality(Owing)
        <5>1. u \notin Owing \ {a}
          BY <4>2 DEF Owing
        <5>2. Cardinality((Owing \ {a}) \cup {u}) = Cardinality(Owing \ {a}) + 1
          BY <4>5, <5>1, FS_AddElement
        <5> QED BY SMTT(60), <4>4, <4>5, <5>2, OwingFinite
      <4>7. ASSUME NEW t \in Threads, WaitsForToken(t)' PROVE WaitsForToken(t)
        BY <2>2, <3>1, <3>2, <4>7 DEF WaitsForToken, Actors
      <4> QED BY <2>0, <4>6, <4>7 DEF WakeOwed, Owing
    <3> QED BY <3>5, <3>6
  <2> QED BY <1>3, <2>1, <2>2 DEF wake_one
<1>4. CASE ready_chosen(a)
  <2>1. ~OwesWake(a) /\ Return(a) /\ UNCHANGED <<queue, counter>>
    BY <1>4 DEF ready_chosen, objs, At, OwesWake
  <2> QED BY <2>1, ReturnOwes
<1>5. CASE raise_unlock(a)
  <2>1. pc[a] \in Neutral /\ pc'[a] \in Neutral /\ Apart(a) /\ UNCHANGED counter
    BY <1>5, QueuesApart DEF raise_unlock, At, objs, Goto, Typed, Neutral
  <2> QED BY <2>1, NeutralStays
<1>6. CASE preempt_enable(a)
  <2>1. ~OwesWake(a) /\ Return(a) /\ UNCHANGED <<queue, counter>>
    BY <1>6 DEF preempt_enable, objs, At, OwesWake
  <2> QED BY <2>1, ReturnOwes
<1>7. CASE raise_next(a)
  <2>0. pc[a] = "raising" /\ on[a] \in Waitables /\ queue[on[a]] # <<>>
    BY <1>7 DEF raise_next, At, CallsAt, TypeOK
  <2>1. \A t \in Threads :
          Armed(queue'[Sem], t) <=> Armed(queue[Sem], t) /\ ~(Sem = on[a] /\ t = Head(queue[on[a]]))
    BY <1>7, <2>0, PopKeeps DEF raise_next
  <2>2. queue[Sem] \in Seq(Threads) /\ queue'[Sem] \in Seq(Threads)
    BY <1>7, <2>0, PopKeeps DEF raise_next, TypeOK
  <2>3. \A b \in Actors : Armed(queue'[Sem], b) => Armed(queue[Sem], b)
    BY SMTT(60), <2>1, <2>2 DEF Armed
  <2>4. Owing \subseteq Owing'
    BY <1>7, <2>3 DEF Owing, OwesWake, raise_next
  <2>5. Cardinality(Owing) <= Cardinality(Owing')
    BY <2>4, OwingFinitePrime, FS_Subset
  <2>6. ASSUME NEW t \in Threads, WaitsForToken(t)' PROVE WaitsForToken(t)
    BY <1>7, <2>1, <2>6 DEF WaitsForToken, raise_next
  <2>7. UNCHANGED counter
    BY <1>7 DEF raise_next
  <2>8. (\E t \in Threads : WaitsForToken(t)') => counter' <= Cardinality(Owing')
    BY SMTT(60), <2>5, <2>6, <2>7, OwingFinite, OwingFinitePrime DEF WakeOwed, Owing
  <2> QED BY <2>8 DEF WakeOwed, Owing
<1> QED BY <1>2, <1>3, <1>4, <1>5, <1>6, <1>7 DEF WakeStep

\* A step that links or unlinks only its own node is apart.
LEMMA NodeApart ==
  ASSUME IInv, NEW a \in Actors, queue' \in [Waitables -> Seq(Threads)],
         \A b \in Actors \ {a} :
           pc'[b] = pc[b] /\ on'[b] = on[b] /\ satisfied'[b] = satisfied[b] /\ gone'[b] = gone[b],
         \A v \in Waitables, u \in Threads : u # a => (Armed(queue'[v], u) <=> Armed(queue[v], u))
  PROVE  Apart(a)
<1>1. Sem \in Waitables /\ queue[Sem] \in Seq(Threads) /\ queue'[Sem] \in Seq(Threads)
  BY DEF IInv, TypeOK, Waitables
<1>2. \A b \in Actors : b \notin Threads => ~Armed(queue[Sem], b) /\ ~Armed(queue'[Sem], b)
  BY SMTT(60), <1>1 DEF Armed
<1> QED BY <1>1, <1>2 DEF Apart

\* A wait goes on: it takes a token, passes its wake on, or finds none to take.
LEMMA WaitStepOwes ==
  ASSUME IInv, WakeOwed, NEW t \in Threads, WaitStep(t)
  PROVE  WakeOwed'
<1>0. /\ TypeOK /\ Typed /\ counter \in Nat /\ t \in Actors /\ CallsAt(t) /\ NodesAt(t)
      /\ Sem \in Waitables /\ Sem # None /\ Sem \notin AllSignals
  BY SMTT(60), ConstantsAssumption DEF IInv, ThreadAt, TypeOK, Typed, Actors, Waitables, AllSignals
<1> USE <1>0
<1>1. CASE prepare(t)
  <2>1. pc[t] \in Neutral /\ pc'[t] \in Neutral /\ Apart(t) /\ UNCHANGED counter
    BY <1>1, QueuesApart DEF prepare, At, objs, locals, Goto, Typed, Neutral
  <2> QED BY <2>1, NeutralStays
<1>2. CASE arm(t)
  <2>0. pc[t] = "arm" /\ on[t] \in Waitables
    BY <1>2 DEF arm, At, CallsAt, TypeOK
  <2>1. /\ queue' \in [Waitables -> Seq(Threads)]
        /\ \A v \in Waitables, u \in Threads :
             Armed(queue'[v], u) <=> Armed(queue[v], u) \/ (v = on[t] /\ u = t)
    BY <1>2, <2>0, LinkKeeps DEF arm, NodesAt
  <2>2. pc'[t] \in {"poll", "arm_cancel"} /\ on'[t] = on[t] /\ UNCHANGED counter
    BY <1>2 DEF arm, Goto, locals, Typed
  <2>3. Apart(t)
    BY <1>2, <2>1, NodeApart DEF arm, Goto, locals, Typed
  <2>4. (OwesWake(t) => OwesWake(t)') /\ ~WaitsForToken(t)'
    BY <2>0, <2>1, <2>2 DEF OwesWake, WaitsForToken
  <2> QED BY <2>2, <2>3, <2>4, OwnerKeeps
<1>3. CASE arm_cancel(t)
  <2>0. pc[t] = "arm_cancel" /\ cancel[t] \in Waitables /\ cancel[t] # Sem /\ on[t] = Sem
    BY <1>3 DEF arm_cancel, At, CallsAt, TypeOK, Waitables
  <2>1. /\ queue' \in [Waitables -> Seq(Threads)]
        /\ \A v \in Waitables, u \in Threads :
             Armed(queue'[v], u) <=> Armed(queue[v], u) \/ (v = cancel[t] /\ u = t)
    BY <1>3, <2>0, LinkKeeps DEF arm_cancel, NodesAt
  <2>2. pc'[t] = "poll" /\ on'[t] = on[t] /\ UNCHANGED counter
    BY <1>3 DEF arm_cancel, Goto, locals, Typed
  <2>3. Apart(t)
    BY <1>3, <2>1, NodeApart DEF arm_cancel, Goto, locals, Typed
  <2>4. (OwesWake(t) => OwesWake(t)') /\ ~WaitsForToken(t)'
    BY <2>0, <2>1, <2>2 DEF OwesWake, WaitsForToken
  <2> QED BY <2>2, <2>3, <2>4, OwnerKeeps
<1>4. CASE poll(t)
  <2>0. pc[t] = "poll" /\ Apart(t) /\ UNCHANGED <<queue, on>>
    BY <1>4, QueuesApart DEF poll, At, Goto, Typed
  <2>1. CASE Satisfiable(on[t]) /\ Take(on[t]) /\ satisfied' = [satisfied EXCEPT ![t] = TRUE] /\ Goto(t, "disarm")
    <3>1. counter' \in Nat /\ counter' <= counter /\ satisfied'[t] /\ pc'[t] = "disarm"
      BY SMTT(60), <2>1 DEF Satisfiable, Take, Goto, Typed
    <3>2. (OwesWake(t) => OwesWake(t)') /\ ~WaitsForToken(t)'
      BY <2>0, <3>1 DEF OwesWake, WaitsForToken
    <3>3. Balanced(t)
      BY <3>1, <3>2 DEF Balanced
    <3> QED BY <2>0, <3>1, <3>2, <3>3, ApartKeeps
  <2>2. CASE ~Satisfiable(on[t]) /\ UNCHANGED counter /\ pc'[t] \in {"commit", "poll_cancel"}
    <3>1. CASE on[t] = Sem
      <4>1. counter' = 0
        BY SMTT(60), <2>2, <3>1 DEF Satisfiable
      <4> QED BY <4>1, NothingOwed
    <3>2. CASE on[t] # Sem
      <4>1. (OwesWake(t) => OwesWake(t)') /\ ~WaitsForToken(t)'
        BY <2>0, <2>2, <3>2 DEF OwesWake, WaitsForToken
      <4> QED BY <2>0, <2>2, <4>1, OwnerKeeps
    <3> QED BY <3>1, <3>2
  <2> QED BY <1>4, <2>1, <2>2 DEF poll, Goto, Typed
<1>5. CASE poll_cancel(t)
  <2>1. /\ pc[t] = "poll_cancel" /\ pc'[t] \in {"disarm", "commit"} /\ Apart(t)
        /\ UNCHANGED <<queue, counter, on, satisfied>>
    BY SMTT(60), <1>5, QueuesApart DEF poll_cancel, At, Goto, objs, locals, Typed
  <2>2. (OwesWake(t) => OwesWake(t)') /\ (WaitsForToken(t)' => WaitsForToken(t))
    BY <2>1 DEF OwesWake, WaitsForToken
  <2> QED BY <2>1, <2>2, OwnerKeeps
<1>6. CASE commit_to_block(t)
  <2>1. /\ pc[t] = "commit" /\ pc'[t] = (IF on[t] = None THEN "suspend" ELSE "disarm") /\ Apart(t)
        /\ UNCHANGED <<queue, counter, on, satisfied>>
    BY <1>6, QueuesApart DEF commit_to_block, At, Goto, objs, locals, Typed
  <2>2. (OwesWake(t) => OwesWake(t)') /\ (WaitsForToken(t)' => WaitsForToken(t))
    BY <2>1 DEF OwesWake, WaitsForToken
  <2> QED BY <2>1, <2>2, OwnerKeeps
<1>7. CASE disarm(t)
  <2>0. pc[t] = "disarm" /\ on[t] \in Waitables
    BY <1>7 DEF disarm, At, CallsAt, TypeOK
  <2>1. /\ queue' \in [Waitables -> Seq(Threads)]
        /\ \A v \in Waitables, u \in Threads :
             Armed(queue'[v], u) <=> Armed(queue[v], u) /\ ~(v = on[t] /\ u = t)
    BY <1>7, <2>0, UnlinkKeeps DEF disarm
  <2>2. /\ pc'[t] \in {"after", "disarm_cancel"} /\ UNCHANGED <<counter, on>>
        /\ gone'[t] <=> ~Armed(queue[on[t]], t)
    BY <1>7 DEF disarm, Goto, Typed
  <2>3. Apart(t)
    BY <1>7, <2>1, NodeApart DEF disarm, Goto, Typed
  <2>4. (OwesWake(t) => OwesWake(t)') /\ ~WaitsForToken(t)'
    BY <2>0, <2>2 DEF OwesWake, WaitsForToken
  <2> QED BY <2>2, <2>3, <2>4, OwnerKeeps
<1>8. CASE disarm_cancel(t)
  <2>0. pc[t] = "disarm_cancel" /\ cancel[t] \in Waitables
    BY <1>8 DEF disarm_cancel, At, CallsAt, TypeOK, Waitables
  <2>1. /\ queue' \in [Waitables -> Seq(Threads)]
        /\ \A v \in Waitables, u \in Threads :
             Armed(queue'[v], u) <=> Armed(queue[v], u) /\ ~(v = cancel[t] /\ u = t)
    BY <1>8, <2>0, UnlinkKeeps DEF disarm_cancel
  <2>2. pc'[t] = "after" /\ UNCHANGED <<counter, on, gone>>
    BY <1>8 DEF disarm_cancel, Goto, locals, Typed
  <2>3. Apart(t)
    BY <1>8, <2>1, NodeApart DEF disarm_cancel, Goto, locals, Typed
  <2>4. (OwesWake(t) => OwesWake(t)') /\ ~WaitsForToken(t)'
    BY <2>0, <2>2 DEF OwesWake, WaitsForToken
  <2> QED BY <2>2, <2>3, <2>4, OwnerKeeps
<1>9. CASE conclude(t)
  <2>0. pc[t] = "after" /\ UNCHANGED <<queue, counter>>
    BY <1>9 DEF conclude, At, objs
  <2>1. CASE ~gone[t] /\ Return(t)
    <3>1. ~OwesWake(t)
      BY <2>0, <2>1 DEF OwesWake
    <3> QED BY <2>0, <2>1, <3>1, ReturnOwes
  <2>2. CASE Goto(t, "wake") /\ UNCHANGED on
    <3>1. pc'[t] = "wake" /\ on'[t] = on[t] /\ Apart(t)
      BY <1>9, <2>0, <2>2, QueuesApart DEF conclude, Return, Goto, Typed
    <3>2. (OwesWake(t) => OwesWake(t)') /\ ~WaitsForToken(t)'
      BY <2>0, <3>1 DEF OwesWake, WaitsForToken
    <3> QED BY <2>0, <3>1, <3>2, OwnerKeeps
  <2> QED BY <1>9, <2>1, <2>2 DEF conclude
<1>10. CASE repoll(t)
  <2>0. pc[t] = "after" /\ UNCHANGED queue
    BY <1>10 DEF repoll, At
  <2>1. CASE Satisfiable(on[t]) /\ Take(on[t]) /\ Return(t)
    <3>1. CASE on[t] = Sem
      <4>1. counter > 0 /\ counter' = counter - 1
        BY <2>1, <3>1 DEF Satisfiable, Take
      <4> QED BY <2>0, <2>1, <4>1, ReturnTakes
    <3>2. CASE on[t] # Sem
      <4>1. ~OwesWake(t) /\ UNCHANGED counter
        BY <2>1, <3>2 DEF OwesWake, Take
      <4> QED BY <2>0, <2>1, <4>1, ReturnOwes
    <3> QED BY <3>1, <3>2
  <2>2. CASE ~Satisfiable(on[t]) /\ pc'[t] \in {"prepare", "recheck"} /\ UNCHANGED <<counter, on>>
    <3>1. CASE on[t] = Sem
      <4>1. counter' = 0
        BY SMTT(60), <2>2, <3>1 DEF Satisfiable
      <4> QED BY <4>1, NothingOwed
    <3>2. CASE on[t] # Sem
      <4>1. Apart(t)
        BY <1>10, <2>0, QueuesApart DEF repoll, Goto, Return, Typed
      <4>2. (OwesWake(t) => OwesWake(t)') /\ ~WaitsForToken(t)'
        BY <2>0, <2>2, <3>2 DEF OwesWake, WaitsForToken
      <4> QED BY <2>2, <4>1, <4>2, OwnerKeeps
    <3> QED BY <3>1, <3>2
  <2> QED BY <1>10, <2>1, <2>2 DEF repoll, Goto, Typed
<1>11. CASE recheck(t)
  <2>0. pc[t] = "recheck" /\ UNCHANGED <<queue, counter>>
    BY <1>11 DEF recheck, At, objs
  <2>1. CASE Return(t)
    BY <2>0, <2>1, ReturnOwes DEF OwesWake
  <2>2. CASE Goto(t, "prepare") /\ UNCHANGED locals
    <3>1. pc[t] \in Neutral /\ pc'[t] \in Neutral
      BY <2>0, <2>2 DEF Goto, Typed, Neutral
    <3>2. Apart(t)
      BY <2>0, <2>2, QueuesApart DEF Goto, Typed, locals
    <3> QED BY <2>0, <3>1, <3>2, NeutralStays
  <2> QED BY <1>11, <2>1, <2>2 DEF recheck
<1>12. CASE suspend_prepare(t) \/ suspend_look(t) \/ thread_yield(t)
  <2>1. pc[t] \in Neutral /\ pc'[t] \in Neutral \cup {"commit"} /\ Apart(t) /\ UNCHANGED counter
    BY <1>12, QueuesApart DEF suspend_prepare, suspend_look, thread_yield, Retire, At, objs, locals, Goto,
       Return, Typed, Neutral
  <2>2. pc'[t] = "commit" => on'[t] # Sem
    BY <1>12 DEF suspend_prepare, suspend_look, thread_yield, Retire, At, objs, locals, Goto,
       Return, TypeOK, CallsAt
  <2>3. (OwesWake(t) => OwesWake(t)') /\ ~WaitsForToken(t)'
    BY <2>1, <2>2 DEF OwesWake, WaitsForToken, Neutral
  <2> QED BY <2>1, <2>3, OwnerKeeps
<1> QED BY <1>1, <1>2, <1>3, <1>4, <1>5, <1>6, <1>7, <1>8, <1>9, <1>10, <1>11, <1>12 DEF WaitStep

\* Every step leaves a wake owed for every token that a waiter could take.
LEMMA TokensInvariant == IInv /\ WakeOwed /\ [Next]_vars => WakeOwed'
<1> SUFFICES ASSUME IInv, WakeOwed, [Next]_vars PROVE WakeOwed'
  OBVIOUS
<1>1. ASSUME UNCHANGED <<counter, queue, pc, on, satisfied, gone>> PROVE WakeOwed'
  BY <1>1 DEF WakeOwed, WaitsForToken, OwesWake
<1>2. ASSUME NEW c \in Cores, CoreStep(c) PROVE WakeOwed'
  <2>1. CASE UNCHANGED <<objs, pc, locals>>
    BY <1>1, <2>1 DEF objs, locals
  <2>2. CASE current[c] \in Threads /\ disposition[current[c]] = "terminating" /\ Retire(current[c])
    <3>1. PICK t \in Threads : t = current[c]
      BY <2>2
    <3>2. Typed /\ t \in Actors /\ pc[t] \in Neutral
      BY <2>2, <3>1 DEF IInv, TypeOK, Typed, ThreadAt, EndsAt, Actors, Neutral
    <3>3. pc'[t] \in Neutral /\ Apart(t) /\ UNCHANGED counter
      BY <2>2, <3>1, <3>2, QueuesApart DEF Retire, Goto, Typed, Neutral
    <3> QED BY <3>2, <3>3, NeutralStays
  <2> QED BY <1>2, <2>1, <2>2 DEF CoreStep, reschedule, idle_task
<1>3. CASE UNCHANGED vars
  BY <1>1, <1>3 DEF vars, objs, locals
<1> QED BY <1>2, <1>3, CallOwes, ThreadCallOwes, WakeStepOwes, WaitStepOwes DEF Next, Actors

\* No token is stranded (the engine's rules 1 and 2): while a thread waits behind
\* its failed poll, every token of the semaphore has a wake still owed for it.
THEOREM TokensAreOwed == Spec => []WakeOwed
<1>1. Init => WakeOwed
  <2>1. ASSUME Init PROVE counter = 0 /\ Cardinality(Owing) \in Nat
    BY <2>1, OwingFinite DEF Init
  <2> QED BY SMTT(60), <2>1 DEF WakeOwed, Owing
<1> QED BY <1>1, TokensInvariant, Invariance, PTL DEF Spec
=============================================================================
