------------------------------- MODULE Armv7m -------------------------------
(***************************************************************************)
(* The Cortex-M Mainline core port (armv7m_armv8m): every switch is made  *)
(* by the PendSV exception, at the lowest priority.  The thread's road and *)
(* an interrupt's wake record the switch as owed and pend PendSV; PendSV   *)
(* carries it out, and calls the kernel only when something asked.         *)
(* Interrupts nest, and are taken anywhere PRIMASK is clear, PendSV's own  *)
(* handler included.                                                       *)
(***************************************************************************)
EXTENDS PortThreads

CONSTANTS MaxNest     \* bound on interrupts nested in one another

VARIABLES owed,       \* owed_switches[core]: from, to and reschedule
          pendsv,     \* ICSR.PENDSVSET
          primask, basepri,
          interrupts, \* interrupt handlers active, above PendSV
          phase       \* where PendSV's handler is, "none" when it is not active

armv7m == <<threads, owed, pendsv, primask, basepri, interrupts, phase>>

Init ==
    /\ ThreadsInit
    /\ owed = [from |-> None, to |-> None, reschedule |-> FALSE]
    /\ pendsv = FALSE /\ primask = FALSE /\ basepri = FALSE
    /\ interrupts = 0
    /\ phase = "none"

in_interrupt_handler == interrupts > 0

\* PendSV is taken as soon as nothing masks it and no handler is above it.
Takes == pendsv /\ ~primask /\ ~basepri /\ ~in_interrupt_handler /\ phase = "none"

ThreadMode == phase = "none" /\ ~in_interrupt_handler /\ ~Takes

----------------------------------------------------------------------------
\* The calls a thread makes.

thread_computes ==
    /\ ThreadMode
    /\ Computes
    /\ UNCHANGED <<owed, pendsv, primask, basepri, interrupts, phase>>

thread_exit ==
    /\ ThreadMode
    /\ Terminates
    /\ UNCHANGED <<owed, pendsv, primask, basepri, interrupts, phase>>

cyros_port_thread_yield ==
    /\ ThreadMode
    /\ Yields
    /\ pendsv' = TRUE
    /\ UNCHANGED <<owed, primask, basepri, interrupts, phase>>

cyros_port_irq_save ==
    /\ ThreadMode /\ Runs
    /\ irq_saves(primask)
    /\ primask' = TRUE
    /\ UNCHANGED <<owed, pendsv, basepri, interrupts, phase>>

cyros_port_irq_restore ==
    /\ ThreadMode /\ Runs
    /\ irq_restores
    /\ primask' = Last(irqs)
    /\ UNCHANGED <<owed, pendsv, basepri, interrupts, phase>>

cyros_port_preempt_disable ==
    /\ ThreadMode /\ Runs
    /\ preempt_disables(basepri)
    /\ basepri' = TRUE
    /\ UNCHANGED <<owed, pendsv, primask, interrupts, phase>>

cyros_port_preempt_enable ==
    /\ ThreadMode /\ Runs
    /\ preempt_enables
    /\ basepri' = Last(preempts)
    /\ UNCHANGED <<owed, pendsv, primask, interrupts, phase>>

cyros_port_masked_from_baseline(token) == ~token /\ ThreadMode /\ ~basepri

\* The kernel masks, decides and calls, and the port unmasks: PendSV or an
\* interrupt already waiting is next.
cyros_port_direct_switch(to) ==
    /\ Runs
    /\ cyros_port_masked_from_baseline(primask)
    /\ decide(to)
    /\ owed' = [owed EXCEPT !.from = running, !.to = to]
    /\ pendsv' = TRUE
    /\ UNCHANGED <<primask, basepri, interrupts, phase>>

----------------------------------------------------------------------------
\* From anywhere: a thread, or an interrupt handler.

\* Mutant: a request made while a switch is owed only pends PendSV.
PendsOnly ==
    /\ (ThreadMode /\ Runs) \/ in_interrupt_handler
    /\ Asks
    /\ pendsv' = TRUE
    /\ UNCHANGED <<owed, primask, basepri, interrupts, phase>>

cyros_port_pend_reschedule ==
    /\ (ThreadMode /\ Runs) \/ in_interrupt_handler
    /\ Asks
    /\ owed' = IF owed.to # None THEN [owed EXCEPT !.reschedule = TRUE] ELSE owed
    /\ pendsv' = TRUE
    /\ UNCHANGED <<primask, basepri, interrupts, phase>>

interrupt_enter ==
    /\ ~primask /\ interrupts < MaxNest
    /\ interrupts' = interrupts + 1
    /\ UNCHANGED <<threads, owed, pendsv, primask, basepri, phase>>

interrupt_exit ==
    /\ in_interrupt_handler
    /\ interrupts' = interrupts - 1
    /\ UNCHANGED <<threads, owed, pendsv, primask, basepri, phase>>

\* Mutant: an interrupt above PendSV's handler decides too.
DecidesAbovePendSV == in_interrupt_handler /\ ~basepri

cyros_port_interrupted_at_baseline ==
    /\ in_interrupt_handler
    /\ ~basepri
    /\ phase = "none"

\* Mutant: a later decision replaces the source as well.
ReplacesSource(from, to) ==
    /\ owed' = [owed EXCEPT !.from = from, !.to = to]
    /\ pendsv' = TRUE

cyros_port_owe_switch(from, to) ==
    /\ owed' = [owed EXCEPT !.from = IF owed.to = None THEN from ELSE @, !.to = to]
    /\ pendsv' = TRUE

\* scheduler::interrupt_reschedule, in a handler.  The pick is the thread the
\* wake readied, or one another core did, and no wake readies a terminating one.
interrupt_reschedule(to) ==
    /\ cyros_port_interrupted_at_baseline
    /\ stage[to] = "runs"
    /\ decide(to)
    /\ cyros_port_owe_switch(running, to)
    /\ UNCHANGED <<primask, basepri, interrupts, phase>>

----------------------------------------------------------------------------
\* PendSV, between whose instructions interrupts may be taken.

PendSV_Handler ==
    /\ Takes
    /\ pendsv' = FALSE
    /\ phase' = "dispatch"
    /\ UNCHANGED <<threads, owed, primask, basepri, interrupts>>

switch_stacks(from, to) ==
    /\ Swap(from, to)
    /\ handed' = Nothing
    /\ UNCHANGED <<running, stage, irqs, preempts, asked>>

\* Mutant: a request in the owed switch's place is served before it.
KernelFirst ==
    /\ phase = "dispatch" /\ ~in_interrupt_handler
    /\ IF owed.to # None /\ ~owed.reschedule
       THEN switch_stacks(owed.from, owed.to) /\ phase' = "clear"
       ELSE UNCHANGED threads /\ phase' = "kernel"
    /\ UNCHANGED <<owed, pendsv, primask, basepri, interrupts>>

cyros_port_pendsv_dispatch ==
    /\ phase = "dispatch" /\ ~in_interrupt_handler
    /\ IF owed.to # None
       THEN switch_stacks(owed.from, owed.to) /\ phase' = "clear"
       ELSE UNCHANGED threads /\ phase' = "kernel"
    /\ UNCHANGED <<owed, pendsv, primask, basepri, interrupts>>

clear_owed ==
    /\ phase = "clear" /\ ~in_interrupt_handler
    /\ owed' = [owed EXCEPT !.to = None]
    /\ phase' = "look"
    /\ UNCHANGED <<threads, pendsv, primask, basepri, interrupts>>

look_for_reschedule ==
    /\ phase = "look" /\ ~in_interrupt_handler
    /\ owed' = [owed EXCEPT !.reschedule = FALSE]
    /\ phase' = IF owed.reschedule THEN "kernel" ELSE "none"
    /\ UNCHANGED <<threads, pendsv, primask, basepri, interrupts>>

reschedule_handler ==
    /\ phase = "kernel" /\ ~in_interrupt_handler
    /\ reschedule
    /\ phase' = "switch"
    /\ UNCHANGED <<owed, pendsv, primask, basepri, interrupts>>

cyros_port_switch ==
    /\ phase = "switch" /\ ~in_interrupt_handler
    /\ switch_stacks(handed.from, handed.to)
    /\ phase' = "none"
    /\ UNCHANGED <<owed, pendsv, primask, basepri, interrupts>>

----------------------------------------------------------------------------
Next ==
    \/ thread_computes \/ thread_exit \/ cyros_port_thread_yield
    \/ cyros_port_irq_save \/ cyros_port_irq_restore
    \/ cyros_port_preempt_disable \/ cyros_port_preempt_enable
    \/ \E to \in Threads : cyros_port_direct_switch(to) \/ interrupt_reschedule(to)
    \/ cyros_port_pend_reschedule \/ interrupt_enter \/ interrupt_exit
    \/ PendSV_Handler \/ cyros_port_pendsv_dispatch \/ clear_owed
    \/ look_for_reschedule \/ reschedule_handler \/ cyros_port_switch

\* The port keeps the switching contract of port_core.h.
KeepsContract == Promise!Contract

\* A yield is a full reschedule round trip: a thread that has yielded to exit
\* is never back on the core with nothing pending (port_core.h on
\* cyros_port_thread_yield, and thread_exit's UNREACHABLE behind it).
YieldIsServed == ~(ThreadMode /\ stage[live.thread] = "yielded")
=============================================================================
