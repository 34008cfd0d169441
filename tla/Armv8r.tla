------------------------------- MODULE Armv8r -------------------------------
(***************************************************************************)
(* The Cortex-R core port (armv8r).  Every exception stores a whole frame, *)
(* the CPSR and with it the I bit included, and runs with I set, so        *)
(* handlers never nest.  A yield and a decided switch are SVCs; the        *)
(* reschedule is SGI 0, acknowledged and ended before the kernel runs; a   *)
(* switch an interrupt's handler owes is made as its dispatch ends.        *)
(***************************************************************************)
EXTENDS PortThreads

VARIABLES owed,     \* core_state::owed_from and owed_to
          i,        \* the I bit of the thread on the core
          framed,   \* the I bit in each context's frame
          pmr,      \* ICC_PMR is below the reschedule's priority
          sgi,      \* SGI 0: "low", "rising" (sent, not yet pending), "high"
          phase     \* where the exception path is, "none" outside it

armv8r == <<threads, owed, i, framed, pmr, sgi, phase>>

Init ==
    /\ ThreadsInit
    /\ owed = Nothing
    /\ i = FALSE /\ pmr = FALSE
    /\ framed = [t \in Threads |-> FALSE]
    /\ sgi = "low"
    /\ phase = "none"

in_irq == phase = "handler"

Takes == phase = "none" /\ ~i /\ ~pmr /\ sgi = "high"

\* Inside cyros_port_direct_switch: masked with no token of the thread's own.
Switching == i /\ irqs = <<>>

ThreadMode == phase = "none" /\ ~Takes /\ ~Switching /\ handed = Nothing

----------------------------------------------------------------------------
thread_computes ==
    /\ ThreadMode
    /\ Computes
    /\ UNCHANGED <<owed, i, framed, pmr, sgi, phase>>

thread_exit ==
    /\ ThreadMode
    /\ Terminates
    /\ UNCHANGED <<owed, i, framed, pmr, sgi, phase>>

\* svc 0
cyros_port_thread_yield ==
    /\ ThreadMode
    /\ Yields
    /\ phase' = "kernel"
    /\ UNCHANGED <<owed, i, framed, pmr, sgi>>

cyros_port_irq_save ==
    /\ ThreadMode /\ Runs
    /\ irq_saves(i)
    /\ i' = TRUE
    /\ UNCHANGED <<owed, framed, pmr, sgi, phase>>

cyros_port_irq_restore ==
    /\ ThreadMode /\ Runs
    /\ irq_restores
    /\ i' = Last(irqs)
    /\ UNCHANGED <<owed, framed, pmr, sgi, phase>>

cyros_port_preempt_disable ==
    /\ ThreadMode /\ Runs
    /\ preempt_disables(pmr)
    /\ pmr' = TRUE
    /\ UNCHANGED <<owed, i, framed, sgi, phase>>

cyros_port_preempt_enable ==
    /\ ThreadMode /\ Runs
    /\ preempt_enables
    /\ pmr' = Last(preempts)
    /\ UNCHANGED <<owed, i, framed, sgi, phase>>

cyros_port_masked_from_baseline(token) == ~token /\ ~pmr

\* scheduler::direct_reschedule masks, decides, and calls the port.
direct_reschedule(to) ==
    /\ ThreadMode /\ Runs
    /\ cyros_port_masked_from_baseline(i)
    /\ to # running
    /\ handed' = [from |-> running, to |-> to]
    /\ running' = to
    /\ asked' = "no"
    /\ i' = TRUE
    /\ UNCHANGED <<live, saved, stage, irqs, preempts>>
    /\ UNCHANGED <<owed, framed, pmr, sgi, phase>>

\* The frame the exception stored goes to `from', and the exit loads the other's.
switch_frames(from, to) ==
    /\ Swap(from, to)
    /\ framed' = IF from = None THEN [framed EXCEPT ![live.thread] = FALSE]
                                ELSE [framed EXCEPT ![from] = i]
    /\ i' = framed'[to]
    /\ UNCHANGED <<running, stage, irqs, preempts, asked>>


\* svc 1, taken masked.
cyros_port_direct_switch ==
    /\ phase = "none" /\ handed # Nothing
    /\ switch_frames(handed.from, handed.to)
    /\ handed' = Nothing
    /\ UNCHANGED <<owed, pmr, sgi, phase>>

\* Back in a thread that switched away by that road: it restores its token.
direct_switch_returns ==
    /\ phase = "none" /\ Switching /\ handed = Nothing
    /\ i' = FALSE
    /\ UNCHANGED <<threads, owed, framed, pmr, sgi, phase>>

----------------------------------------------------------------------------
\* A request is due once SGI 0 is pending at the GIC.
raise_reschedule ==
    /\ sgi' = IF sgi = "low" THEN "rising" ELSE sgi
    /\ asked' = IF sgi = "high" \/ asked = "now" THEN "now" ELSE "coming"
    /\ UNCHANGED <<running, live, saved, stage, irqs, preempts, handed>>
    /\ UNCHANGED <<owed, i, framed, pmr, phase>>

cyros_port_pend_reschedule ==
    /\ (ThreadMode /\ Runs) \/ in_irq
    /\ raise_reschedule

\* Another core's, at any moment.
cyros_port_send_reschedule_ipi == raise_reschedule

sgi_pends ==
    /\ sgi = "rising"
    /\ sgi' = "high"
    /\ asked' = IF asked = "coming" THEN "now" ELSE asked
    /\ UNCHANGED <<running, live, saved, stage, irqs, preempts, handed>>
    /\ UNCHANGED <<owed, i, framed, pmr, phase>>

----------------------------------------------------------------------------
\* IRQs: a device's or the timer's, and SGI 0.
irq_entry ==
    /\ phase = "none" /\ ~i
    /\ phase' = "handler"
    /\ UNCHANGED <<threads, owed, i, framed, pmr, sgi>>

cyros_port_interrupted_at_baseline == in_irq /\ ~pmr

cyros_port_owe_switch(from, to) ==
    owed' = [from |-> IF owed.to = None THEN from ELSE owed.from, to |-> to]

interrupt_reschedule(to) ==
    /\ cyros_port_interrupted_at_baseline
    /\ stage[to] = "runs"
    /\ decide(to)
    /\ cyros_port_owe_switch(running, to)
    /\ UNCHANGED <<i, framed, pmr, sgi, phase>>

\* Mutant: the switch owed is left for the next reschedule.
LeavesOwed ==
    /\ in_irq
    /\ UNCHANGED <<threads, owed, i, framed, pmr, sgi>>
    /\ phase' = "none"

exception_dispatch ==
    /\ in_irq
    /\ IF owed.to # None THEN switch_frames(owed.from, owed.to) /\ owed' = Nothing
                         ELSE UNCHANGED <<running, live, saved, stage, irqs, preempts, asked, owed, i, framed>>
    /\ phase' = "none"
    /\ UNCHANGED <<handed, pmr, sgi>>

\* Acknowledged and ended before the reschedule: a later request pends anew.
sgi_dispatch ==
    /\ Takes
    /\ sgi' = "low"
    /\ phase' = "kernel"
    /\ UNCHANGED <<threads, owed, i, framed, pmr>>

run_reschedule ==
    /\ phase = "kernel"
    /\ reschedule
    /\ phase' = "switch"
    /\ UNCHANGED <<owed, i, framed, pmr, sgi>>

\* Mutant: the SGI is ended, and with it any request since, after the switch.
EndsAfter ==
    /\ phase = "switch"
    /\ switch_frames(handed.from, handed.to)
    /\ handed' = Nothing
    /\ sgi' = "low"
    /\ phase' = "none"
    /\ UNCHANGED <<owed, pmr>>

cyros_port_switch ==
    /\ phase = "switch"
    /\ switch_frames(handed.from, handed.to)
    /\ handed' = Nothing
    /\ phase' = "none"
    /\ UNCHANGED <<owed, pmr, sgi>>

----------------------------------------------------------------------------
Next ==
    \/ thread_computes \/ thread_exit \/ cyros_port_thread_yield
    \/ cyros_port_irq_save \/ cyros_port_irq_restore
    \/ cyros_port_preempt_disable \/ cyros_port_preempt_enable
    \/ \E to \in Threads : direct_reschedule(to) \/ interrupt_reschedule(to)
    \/ cyros_port_direct_switch \/ direct_switch_returns
    \/ cyros_port_pend_reschedule \/ cyros_port_send_reschedule_ipi \/ sgi_pends
    \/ irq_entry \/ exception_dispatch \/ sgi_dispatch
    \/ run_reschedule \/ cyros_port_switch

\* The port keeps the switching contract of port_core.h.
KeepsContract == Promise!Contract
=============================================================================
