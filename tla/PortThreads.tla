----------------------------- MODULE PortThreads -----------------------------
(***************************************************************************)
(* What drives every port on one core: the threads of the core, and the   *)
(* kernel at the three places it meets a port (scheduler.cpp, Switching    *)
(* threads).  Which thread the kernel picks is left open, since no port    *)
(* may depend on it.  A thread's registers are the pair of its name and    *)
(* its progress: `live' is what the core holds, saved[t] what t's context  *)
(* holds.  The regions a thread holds are the tokens it has not yet given  *)
(* back.                                                                   *)
(***************************************************************************)
EXTENDS Naturals, Sequences, SequencesExt

CONSTANTS Threads,    \* the threads of this core
          None,       \* a null context
          MaxRegions  \* bound on the nesting of each kind of region

VARIABLES running,   \* scheduler::current_thread
          live,      \* the registers on the core
          saved,     \* the registers each context holds
          stage,     \* "runs", "exiting" (disposition terminating), or "yielded"
          irqs,      \* tokens of the thread's cyros_port_irq_save calls, outermost first
          preempts,  \* tokens of its cyros_port_preempt_disable calls
          asked,     \* a reschedule asked for and not yet served
          handed     \* the contexts the kernel has handed cyros_port_switch

threads == <<running, live, saved, stage, irqs, preempts, asked, handed>>

Nothing == [from |-> None, to |-> None]

Fresh(t) == [thread |-> t, at |-> 0]

ThreadsInit ==
    /\ running \in Threads
    /\ live = Fresh(running)
    /\ saved = [t \in Threads |-> Fresh(t)]
    /\ stage = [t \in Threads |-> "runs"]
    /\ irqs = <<>> /\ preempts = <<>>
    /\ asked = "no"
    /\ handed = Nothing

\* The thread on the core, and whether its own code still runs.
Runs == stage[live.thread] = "runs"
Open == irqs = <<>> /\ preempts = <<>>

\* A thread's own instructions, which touch nothing but its registers.
Computes ==
    /\ Runs
    /\ live' = [live EXCEPT !.at = 1 - @]
    /\ UNCHANGED <<running, saved, stage, irqs, preempts, asked, handed>>

\* this_thread::thread_exit flags the thread, and then yields to the handler.
Terminates ==
    /\ Runs /\ Open
    /\ stage' = [stage EXCEPT ![live.thread] = "exiting"]
    /\ UNCHANGED <<running, live, saved, irqs, preempts, asked, handed>>

Yields ==
    /\ stage[live.thread] = "exiting"
    /\ stage' = [stage EXCEPT ![live.thread] = "yielded"]
    /\ asked' = "now"
    /\ UNCHANGED <<running, live, saved, irqs, preempts, handed>>

\* Someone on this core asks for a reschedule (cyros_port_pend_reschedule).
Asks ==
    /\ asked' = "now"
    /\ UNCHANGED <<running, live, saved, stage, irqs, preempts, handed>>

\* scheduler::decide: other cores' wakes are taken in, the running thread is
\* filed, and the pick is made the running thread.
decide(to) ==
    /\ to # running
    /\ running' = to
    /\ asked' = "no"
    /\ UNCHANGED <<live, saved, stage, irqs, preempts, handed>>

\* scheduler::reschedule, up to the call of cyros_port_switch.  A terminating
\* thread is retired: the port is told to discard what the core holds.
reschedule ==
    /\ \E to \in Threads :
          IF stage[running] = "runs"
          THEN /\ handed' = [from |-> running, to |-> to]
               /\ running' = to
               /\ UNCHANGED stage
          ELSE /\ to # running
               /\ handed' = [from |-> None, to |-> to]
               /\ running' = to
               /\ stage' = [stage EXCEPT ![running] = "runs"]
    /\ asked' = "no"
    /\ UNCHANGED <<live, saved, irqs, preempts>>

\* What a port's switch does with registers: the core's go to `from', unless
\* they are discarded, and those of `to' come to the core.  A thread created
\* in a retired one's place starts from cyros_port_context_init.
Swap(from, to) ==
    /\ saved' = IF from = None THEN [saved EXCEPT ![live.thread] = Fresh(@.thread)]
                               ELSE [saved EXCEPT ![from] = live]
    /\ live' = saved'[to]

irq_saves(token) ==
    /\ Len(irqs) < MaxRegions
    /\ irqs' = Append(irqs, token)
    /\ UNCHANGED <<running, live, saved, stage, preempts, asked, handed>>

irq_restores ==
    /\ irqs # <<>>
    /\ irqs' = Front(irqs)
    /\ UNCHANGED <<running, live, saved, stage, preempts, asked, handed>>

preempt_disables(token) ==
    /\ Len(preempts) < MaxRegions
    /\ preempts' = Append(preempts, token)
    /\ UNCHANGED <<running, live, saved, stage, irqs, asked, handed>>

preempt_enables ==
    /\ preempts # <<>>
    /\ preempts' = Front(preempts)
    /\ UNCHANGED <<running, live, saved, stage, irqs, asked, handed>>

\* The contract every port keeps (port_core.h), with each thread's progress
\* read where the thread's registers are.
Promise == INSTANCE Switching WITH
    cpu     <- live.thread,
    work    <- [t \in Threads |-> IF live.thread = t THEN live.at ELSE saved[t].at],
    open    <- Open,
    retired <- handed.to # None /\ handed.from = None
=============================================================================
