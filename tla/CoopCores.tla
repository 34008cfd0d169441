----------------------------- MODULE CoopCores ------------------------------
(***************************************************************************)
(* The simulated cores of the cooperative Linux port: a core with nothing  *)
(* ready sleeps on its condition variable, another core's IPI sets its     *)
(* pending flag and signals, and the core that retires the last thread     *)
(* asks all of them to stop.  A core's threads are counted, not named.     *)
(***************************************************************************)
EXTENDS Naturals, Sequences, SequencesExt, Functions

CONSTANTS Cores, Jobs   \* Jobs[c]: the threads that start on core c

CoresAssumption == Jobs \in [Cores -> Nat]

VARIABLES ready, blocked,   \* each core's threads
          posted,           \* of the blocked, those on the core's intake
          pending,          \* core_poke.pending
          holder,           \* the owner of core_poke.mutex, or no one
          active_contexts, shutdown_requested,
          pc,               \* where each core is
          pokes             \* the cores it has yet to poke

cores == <<ready, blocked, posted, pending, holder, active_contexts,
           shutdown_requested, pc, pokes>>

Nobody == "nobody"

Init ==
    /\ ready = Jobs
    /\ blocked = [c \in Cores |-> 0]
    /\ posted = [c \in Cores |-> 0]
    /\ pending = [c \in Cores |-> FALSE]
    /\ holder = [c \in Cores |-> Nobody]
    /\ active_contexts = FoldFunction(+, 0, Jobs)
    /\ shutdown_requested = FALSE
    /\ pc = [c \in Cores |-> "pump"]
    /\ pokes = [c \in Cores |-> <<>>]

Goes(c, where) == pc' = [pc EXCEPT ![c] = where]

\* drain_intake and the pick, after which r of the core's threads are ready
\* and b blocked.
reschedule(c, r, b) ==
    /\ ready' = [ready EXCEPT ![c] = r + posted[c]]
    /\ blocked' = [blocked EXCEPT ![c] = b - posted[c]]
    /\ posted' = [posted EXCEPT ![c] = 0]
    /\ Goes(c, IF r + posted[c] > 0 THEN "thread" ELSE "idle")

\* One turn of the pump in the core's scheduler context.
scheduler_trampoline(c) ==
    /\ pc[c] = "pump"
    /\ IF shutdown_requested THEN Goes(c, "done") /\ UNCHANGED <<ready, blocked, posted>>
       ELSE reschedule(c, ready[c], blocked[c])
    /\ UNCHANGED <<pending, holder, active_contexts, shutdown_requested, pokes>>

\* A thread parks, on the thread's road.
park(c) ==
    /\ pc[c] = "thread"
    /\ reschedule(c, ready[c] - 1, blocked[c] + 1)
    /\ UNCHANGED <<pending, holder, active_contexts, shutdown_requested, pokes>>

\* A thread wakes one on another core: the first on an empty intake pokes.
post_intake(c, d) ==
    /\ pc[c] = "thread" /\ c # d
    /\ posted[d] < blocked[d]
    /\ posted' = [posted EXCEPT ![d] = @ + 1]
    /\ IF posted[d] = 0 THEN pokes' = [pokes EXCEPT ![c] = <<d>>] /\ Goes(c, "poke")
       ELSE UNCHANGED <<pokes, pc>>
    /\ UNCHANGED <<ready, blocked, pending, holder, active_contexts, shutdown_requested>>

\* Mutant: the core that asks for the shutdown does not poke itself.
PokesOthers(c) ==
    /\ pc[c] = "thread"
    /\ ready' = [ready EXCEPT ![c] = @ - 1]
    /\ active_contexts' = active_contexts - 1
    /\ IF active_contexts' > 0 \/ shutdown_requested
         THEN UNCHANGED <<shutdown_requested, pokes>> /\ Goes(c, "retired")
       ELSE /\ shutdown_requested' = TRUE
            /\ \E all \in SetToSeqs(Cores \ {c}) : pokes' = [pokes EXCEPT ![c] = all]
            /\ Goes(c, "poke")
    /\ UNCHANGED <<blocked, posted, pending, holder>>

\* Mutant: the count leaves out a core, so one thread is left when it fires.
QuiescesEarly(c) ==
    /\ pc[c] = "thread"
    /\ ready' = [ready EXCEPT ![c] = @ - 1]
    /\ active_contexts' = active_contexts - 1
    /\ IF active_contexts' > 1 \/ shutdown_requested
         THEN UNCHANGED <<shutdown_requested, pokes>> /\ Goes(c, "retired")
       ELSE /\ shutdown_requested' = TRUE
            /\ \E all \in SetToSeqs(Cores) : pokes' = [pokes EXCEPT ![c] = all]
            /\ Goes(c, "poke")
    /\ UNCHANGED <<blocked, posted, pending, holder>>

\* A thread exits: its context is destroyed in the scheduler's, the last one
\* latches the shutdown and pokes every core, and the core picks again.
cyros_port_context_destroy(c) ==
    /\ pc[c] = "thread"
    /\ ready' = [ready EXCEPT ![c] = @ - 1]
    /\ active_contexts' = active_contexts - 1
    /\ IF active_contexts' > 0 \/ shutdown_requested
         THEN UNCHANGED <<shutdown_requested, pokes>> /\ Goes(c, "retired")
       ELSE /\ shutdown_requested' = TRUE
            /\ \E all \in SetToSeqs(Cores) : pokes' = [pokes EXCEPT ![c] = all]
            /\ Goes(c, "poke")
    /\ UNCHANGED <<blocked, posted, pending, holder>>

\* The pick of the reschedule that retired a thread.
run_next(c) ==
    /\ pc[c] = "retired"
    /\ reschedule(c, ready[c], blocked[c])
    /\ UNCHANGED <<pending, holder, active_contexts, shutdown_requested, pokes>>

\* cyros_port_send_reschedule_ipi: pending first, then the signal under the
\* target's mutex.
store_pending(c) ==
    /\ pc[c] = "poke"
    /\ pending' = [pending EXCEPT ![Head(pokes[c])] = TRUE]
    /\ Goes(c, "signal")
    /\ UNCHANGED <<ready, blocked, posted, holder, active_contexts, shutdown_requested, pokes>>

\* Where a poker goes once the core has been signalled, and who it wakes.
Signalled(c) ==
    /\ pokes' = [pokes EXCEPT ![c] = Tail(@)]
    /\ pc' = [d \in Cores |->
                IF d = c THEN IF Len(pokes[c]) > 1 THEN "poke"
                              ELSE IF ready[c] = 0 THEN "retired" ELSE "thread"
                ELSE IF d = Head(pokes[c]) /\ pc[d] = "asleep" THEN "woken" ELSE pc[d]]
    /\ UNCHANGED <<ready, blocked, posted, pending, holder, active_contexts, shutdown_requested>>

\* Mutant: the signal does not take the mutex.
SignalsUnlocked(c) == pc[c] = "signal" /\ Signalled(c)

cond_signal(c) ==
    /\ pc[c] = "signal"
    /\ holder[Head(pokes[c])] = Nobody
    /\ Signalled(c)

\* idle_task's look at the intake.
idle_task(c) ==
    /\ pc[c] = "idle"
    /\ IF posted[c] > 0 THEN reschedule(c, ready[c], blocked[c])
       ELSE Goes(c, "exchange") /\ UNCHANGED <<ready, blocked, posted>>
    /\ UNCHANGED <<pending, holder, active_contexts, shutdown_requested, pokes>>

\* cyros_port_idle: the fast path, the mutex, and the look under it.
cyros_port_idle(c) ==
    /\ pc[c] = "exchange"
    /\ pending' = [pending EXCEPT ![c] = FALSE]
    /\ Goes(c, IF pending[c] THEN "pump" ELSE "lock")
    /\ UNCHANGED <<ready, blocked, posted, holder, active_contexts, shutdown_requested, pokes>>

mutex_lock(c) ==
    /\ pc[c] \in {"lock", "woken"}
    /\ holder[c] = Nobody
    /\ holder' = [holder EXCEPT ![c] = c]
    /\ Goes(c, "recheck")
    /\ UNCHANGED <<ready, blocked, posted, pending, active_contexts, shutdown_requested, pokes>>

\* Mutant: the core sleeps on what the fast path saw.
SleepsOnTheFastPath(c) ==
    /\ pc[c] = "recheck"
    /\ Goes(c, "wait")
    /\ UNCHANGED <<ready, blocked, posted, pending, holder, active_contexts,
                   shutdown_requested, pokes>>

recheck(c) ==
    /\ pc[c] = "recheck"
    /\ pending' = [pending EXCEPT ![c] = FALSE]
    /\ Goes(c, IF pending[c] THEN "unlock" ELSE "wait")
    /\ UNCHANGED <<ready, blocked, posted, holder, active_contexts, shutdown_requested, pokes>>

\* pthread_cond_wait lets the mutex go as it sleeps; the way out unlocks it
\* and hands the core to the pump.
mutex_unlock(c) ==
    /\ pc[c] \in {"wait", "unlock"}
    /\ holder' = [holder EXCEPT ![c] = Nobody]
    /\ Goes(c, IF pc[c] = "wait" THEN "asleep" ELSE "pump")
    /\ UNCHANGED <<ready, blocked, posted, pending, active_contexts, shutdown_requested, pokes>>

\* A wait may end with no signal.
spurious(c) ==
    /\ pc[c] = "asleep"
    /\ Goes(c, "woken")
    /\ UNCHANGED <<ready, blocked, posted, pending, holder, active_contexts,
                   shutdown_requested, pokes>>

CoreStep(c) ==
    \/ scheduler_trampoline(c) \/ run_next(c) \/ store_pending(c) \/ cond_signal(c)
    \/ idle_task(c) \/ cyros_port_idle(c) \/ mutex_lock(c) \/ recheck(c) \/ mutex_unlock(c)

\* What the application may do, and the system need not.
ThreadStep(c) ==
    \/ park(c) \/ cyros_port_context_destroy(c) \/ spurious(c)
    \/ \E d \in Cores : post_intake(c, d)

Next == \E c \in Cores : CoreStep(c) \/ ThreadStep(c)

----------------------------------------------------------------------------
\* No core sleeps through what it was poked for: while one waits on its
\* condition variable with work posted to it or the shutdown asked for,
\* another core has yet to poke it.
NoSleepOnWork ==
    \A c \in Cores :
        pc[c] = "asleep" /\ (posted[c] > 0 \/ shutdown_requested) =>
            \E d \in Cores \ {c} : Contains(pokes[d], c)

\* A core is left only once no thread is left anywhere, so no core goes
\* while another could still wake a thread on it.
LeftTogether == (\E c \in Cores : pc[c] = "done") => \A c \in Cores : ready[c] + blocked[c] = 0

\* Once the shutdown is asked for, every core leaves, and
\* cyros_port_start_cores joins them all.
EveryCoreLeaves == shutdown_requested ~> \A c \in Cores : pc[c] = "done"
=============================================================================
