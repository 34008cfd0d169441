------------------------------- MODULE Armv6m -------------------------------
(***************************************************************************)
(* The Cortex-M Baseline core port (armv6m).  There is no BASEPRI: PendSV *)
(* is taken under a preempt-disabled region too, finds the depth raised,   *)
(* and defers the request to the region's outermost enable.  Nor can an    *)
(* interrupt ask whether PendSV is active beneath it, so PendSV reads and  *)
(* clears its owed switch masked, and interrupts decide above it.          *)
(***************************************************************************)
EXTENDS PortThreads

CONSTANTS MaxNest

VARIABLES owed,      \* owed_switches[core]
          pendsv,    \* ICSR.PENDSVSET
          primask,
          depth,     \* preempt_depth[core]
          deferred,  \* reschedule_deferred[core]
          enabling,  \* cyros_port_preempt_enable is between its store and its look
          interrupts,
          phase

armv6m == <<threads, owed, pendsv, primask, depth, deferred, enabling, interrupts, phase>>

Init ==
    /\ ThreadsInit
    /\ owed = [from |-> None, to |-> None, reschedule |-> FALSE]
    /\ pendsv = FALSE /\ primask = FALSE
    /\ depth = 0 /\ deferred = FALSE /\ enabling = FALSE
    /\ interrupts = 0
    /\ phase = "none"

in_interrupt_handler == interrupts > 0

Takes == pendsv /\ ~primask /\ ~in_interrupt_handler /\ phase = "none"

ThreadMode == phase = "none" /\ ~in_interrupt_handler /\ ~Takes

Calls == ThreadMode /\ ~enabling /\ Runs

----------------------------------------------------------------------------
thread_computes ==
    /\ Calls
    /\ Computes
    /\ UNCHANGED <<owed, pendsv, primask, depth, deferred, enabling, interrupts, phase>>

thread_exit ==
    /\ Calls
    /\ Terminates
    /\ UNCHANGED <<owed, pendsv, primask, depth, deferred, enabling, interrupts, phase>>

cyros_port_thread_yield ==
    /\ ThreadMode
    /\ Yields
    /\ pendsv' = TRUE
    /\ UNCHANGED <<owed, primask, depth, deferred, enabling, interrupts, phase>>

cyros_port_irq_save ==
    /\ Calls
    /\ irq_saves(primask)
    /\ primask' = TRUE
    /\ UNCHANGED <<owed, pendsv, depth, deferred, enabling, interrupts, phase>>

cyros_port_irq_restore ==
    /\ Calls
    /\ irq_restores
    /\ primask' = Last(irqs)
    /\ UNCHANGED <<owed, pendsv, depth, deferred, enabling, interrupts, phase>>

cyros_port_preempt_disable ==
    /\ Calls
    /\ preempt_disables(depth)
    /\ depth' = depth + 1
    /\ UNCHANGED <<owed, pendsv, primask, deferred, enabling, interrupts, phase>>

\* Mutant: the enable restores the depth and looks no further.
ForgetsDeferred ==
    /\ Calls
    /\ preempt_enables
    /\ depth' = Last(preempts)
    /\ UNCHANGED <<owed, pendsv, primask, deferred, enabling, interrupts, phase>>

\* The depth first, then the look: PendSV may come between them.
cyros_port_preempt_enable ==
    /\ Calls
    /\ preempt_enables
    /\ depth' = Last(preempts)
    /\ enabling' = TRUE
    /\ UNCHANGED <<owed, pendsv, primask, deferred, interrupts, phase>>

deliver_deferred ==
    /\ ThreadMode /\ enabling
    /\ enabling' = FALSE
    /\ IF depth = 0 /\ deferred THEN pendsv' = TRUE /\ deferred' = FALSE
                                ELSE UNCHANGED <<pendsv, deferred>>
    /\ UNCHANGED <<threads, owed, primask, depth, interrupts, phase>>

cyros_port_masked_from_baseline(token) == ~token /\ ThreadMode /\ depth = 0

cyros_port_direct_switch(to) ==
    /\ Calls
    /\ cyros_port_masked_from_baseline(primask)
    /\ decide(to)
    /\ owed' = [owed EXCEPT !.from = running, !.to = to]
    /\ pendsv' = TRUE
    /\ UNCHANGED <<primask, depth, deferred, enabling, interrupts, phase>>

----------------------------------------------------------------------------
\* Mutant: a request made while a switch is owed only pends PendSV.
PendsOnly ==
    /\ Calls \/ in_interrupt_handler
    /\ Asks
    /\ pendsv' = TRUE
    /\ UNCHANGED <<owed, primask, depth, deferred, enabling, interrupts, phase>>

cyros_port_pend_reschedule ==
    /\ Calls \/ in_interrupt_handler
    /\ Asks
    /\ owed' = IF owed.to # None THEN [owed EXCEPT !.reschedule = TRUE] ELSE owed
    /\ pendsv' = TRUE
    /\ UNCHANGED <<primask, depth, deferred, enabling, interrupts, phase>>

interrupt_enter ==
    /\ ~primask /\ interrupts < MaxNest
    /\ interrupts' = interrupts + 1
    /\ UNCHANGED <<threads, owed, pendsv, primask, depth, deferred, enabling, phase>>

interrupt_exit ==
    /\ in_interrupt_handler
    /\ interrupts' = interrupts - 1
    /\ UNCHANGED <<threads, owed, pendsv, primask, depth, deferred, enabling, phase>>

cyros_port_interrupted_at_baseline == in_interrupt_handler /\ depth = 0

cyros_port_owe_switch(from, to) ==
    /\ owed' = [owed EXCEPT !.from = IF owed.to = None THEN from ELSE @, !.to = to]
    /\ pendsv' = TRUE

interrupt_reschedule(to) ==
    /\ cyros_port_interrupted_at_baseline
    /\ stage[to] = "runs"
    /\ decide(to)
    /\ cyros_port_owe_switch(running, to)
    /\ UNCHANGED <<primask, depth, deferred, enabling, interrupts, phase>>

----------------------------------------------------------------------------
PendSV_Handler ==
    /\ Takes
    /\ pendsv' = FALSE
    /\ phase' = "dispatch"
    /\ UNCHANGED <<threads, owed, primask, depth, deferred, enabling, interrupts>>

switch_stacks(from, to) ==
    /\ Swap(from, to)
    /\ handed' = Nothing
    /\ UNCHANGED <<running, stage, irqs, preempts, asked>>

\* Masked from the read of the owed switch to the look at its request.
cyros_port_pendsv_dispatch ==
    /\ phase = "dispatch" /\ ~in_interrupt_handler
    /\ IF owed.to # None
       THEN /\ switch_stacks(owed.from, owed.to)
            /\ phase' = IF owed.reschedule THEN "deliver" ELSE "none"
            /\ owed' = [owed EXCEPT !.to = None, !.reschedule = FALSE]
       ELSE /\ phase' = "deliver"
            /\ UNCHANGED <<threads, owed>>
    /\ UNCHANGED <<pendsv, primask, depth, deferred, enabling, interrupts>>


defer_or_deliver ==
    /\ phase = "deliver" /\ ~in_interrupt_handler
    /\ deferred' = (depth # 0)
    /\ phase' = IF depth # 0 THEN "none" ELSE "kernel"
    /\ UNCHANGED <<threads, owed, pendsv, primask, depth, enabling, interrupts>>

reschedule_handler ==
    /\ phase = "kernel" /\ ~in_interrupt_handler
    /\ reschedule
    /\ phase' = "switch"
    /\ UNCHANGED <<owed, pendsv, primask, depth, deferred, enabling, interrupts>>

cyros_port_switch ==
    /\ phase = "switch" /\ ~in_interrupt_handler
    /\ switch_stacks(handed.from, handed.to)
    /\ phase' = "none"
    /\ UNCHANGED <<owed, pendsv, primask, depth, deferred, enabling, interrupts>>

----------------------------------------------------------------------------
Next ==
    \/ thread_computes \/ thread_exit \/ cyros_port_thread_yield
    \/ cyros_port_irq_save \/ cyros_port_irq_restore
    \/ cyros_port_preempt_disable \/ cyros_port_preempt_enable \/ deliver_deferred
    \/ \E to \in Threads : cyros_port_direct_switch(to) \/ interrupt_reschedule(to)
    \/ cyros_port_pend_reschedule \/ interrupt_enter \/ interrupt_exit
    \/ PendSV_Handler \/ cyros_port_pendsv_dispatch \/ defer_or_deliver
    \/ reschedule_handler \/ cyros_port_switch

\* Under a preempt-disabled region PendSV comes and goes, yet no request is
\* lost: a thread at baseline runs its own code with none unserved.
DeferredIsDelivered == Calls /\ Open => asked # "now"


\* The kernel's handler never runs while the thread it counts as running is not
\* the one PSP holds (cyros_port_pendsv_dispatch's comment; port_core.h).
KernelSeesItsThread == phase = "kernel" /\ ~in_interrupt_handler => running = live.thread
=============================================================================
