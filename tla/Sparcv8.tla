------------------------------ MODULE Sparcv8 -------------------------------
(***************************************************************************)
(* The SPARC core port's trap path (sparcv8).  PIL holds both masks: the   *)
(* interrupt field and the preemption field, each thread's kept with its   *)
(* PSR in its frame.  Every handler runs at its own level, so interrupts   *)
(* nest, into the reschedule too; only the outermost trap holds the        *)
(* thread's frame, and a switch owed by any handler is made as it ends.    *)
(* The register windows the same traps manage are RegisterWindows'.        *)
(***************************************************************************)
EXTENDS PortThreads

CONSTANTS MaxNest         \* bound on traps nested in the outermost one

VARIABLES owed,           \* interrupt_decision::owed_from and owed_to
          outer_interrupt,
          irq, preempt,   \* the two fields of PIL, of the thread on the core
          framed,         \* the interrupt field in each context's frame
          level1,         \* the reschedule's level: "low", "rising" or "high"
          phase,          \* where the outermost trap is, "none" outside one
          nested          \* interrupt handlers above the outermost trap

sparcv8 == <<threads, owed, outer_interrupt, irq, preempt, framed, level1, phase, nested>>

Init ==
    /\ ThreadsInit
    /\ owed = Nothing
    /\ outer_interrupt = FALSE
    /\ irq = FALSE /\ preempt = FALSE
    /\ framed = [t \in Threads |-> FALSE]
    /\ level1 = "low"
    /\ phase = "none"
    /\ nested = 0

Takes == phase = "none" /\ ~irq /\ ~preempt /\ level1 = "high"

\* Inside cyros_port_direct_switch: masked with no token of the thread's own.
Switching == irq /\ irqs = <<>>

ThreadMode == phase = "none" /\ ~Takes /\ ~Switching /\ handed = Nothing

InHandler == phase = "handler" \/ nested > 0

----------------------------------------------------------------------------
thread_computes ==
    /\ ThreadMode
    /\ Computes
    /\ UNCHANGED <<owed, outer_interrupt, irq, preempt, framed, level1, phase, nested>>

thread_exit ==
    /\ ThreadMode
    /\ Terminates
    /\ UNCHANGED <<owed, outer_interrupt, irq, preempt, framed, level1, phase, nested>>

\* ta 9, whose handler runs the reschedule at its own level.
cyros_port_thread_yield ==
    /\ ThreadMode
    /\ Yields
    /\ phase' = "kernel"
    /\ UNCHANGED <<owed, outer_interrupt, irq, preempt, framed, level1, nested>>

cyros_port_irq_save ==
    /\ ThreadMode /\ Runs
    /\ irq_saves(irq)
    /\ irq' = TRUE
    /\ UNCHANGED <<owed, outer_interrupt, preempt, framed, level1, phase, nested>>

\* Mutant: the token replaces the whole of PIL, the preemption field with it.
RestoresAll ==
    /\ ThreadMode /\ Runs
    /\ irq_restores
    /\ irq' = Last(irqs) /\ preempt' = FALSE
    /\ UNCHANGED <<owed, outer_interrupt, framed, level1, phase, nested>>

cyros_port_irq_restore ==
    /\ ThreadMode /\ Runs
    /\ irq_restores
    /\ irq' = Last(irqs)
    /\ UNCHANGED <<owed, outer_interrupt, preempt, framed, level1, phase, nested>>

cyros_port_preempt_disable ==
    /\ ThreadMode /\ Runs
    /\ preempt_disables(preempt)
    /\ preempt' = TRUE
    /\ UNCHANGED <<owed, outer_interrupt, irq, framed, level1, phase, nested>>

cyros_port_preempt_enable ==
    /\ ThreadMode /\ Runs
    /\ preempt_enables
    /\ preempt' = Last(preempts)
    /\ UNCHANGED <<owed, outer_interrupt, irq, framed, level1, phase, nested>>

cyros_port_masked_from_baseline(token) == ~token /\ phase = "none" /\ ~preempt

\* scheduler::direct_reschedule masks, decides, and calls the port.
direct_reschedule(to) ==
    /\ ThreadMode /\ Runs
    /\ cyros_port_masked_from_baseline(irq)
    /\ to # running
    /\ handed' = [from |-> running, to |-> to]
    /\ running' = to
    /\ asked' = "no"
    /\ irq' = TRUE
    /\ UNCHANGED <<live, saved, stage, irqs, preempts>>
    /\ UNCHANGED <<owed, outer_interrupt, preempt, framed, level1, phase, nested>>

\* The outermost trap's frame goes to `from', and the exit resumes the other's.
switch_frames(from, to) ==
    /\ Swap(from, to)
    /\ framed' = IF from = None THEN [framed EXCEPT ![live.thread] = FALSE]
                                ELSE [framed EXCEPT ![from] = irq]
    /\ irq' = framed'[to]
    /\ UNCHANGED <<running, stage, irqs, preempts, asked>>

\* ta 10, taken masked, whose handler swaps the frames at PIL 15.
cyros_port_direct_switch ==
    /\ phase = "none" /\ handed # Nothing
    /\ switch_frames(handed.from, handed.to)
    /\ handed' = Nothing
    /\ UNCHANGED <<owed, outer_interrupt, preempt, level1, phase, nested>>

direct_switch_returns ==
    /\ phase = "none" /\ Switching /\ handed = Nothing
    /\ irq' = FALSE
    /\ UNCHANGED <<threads, owed, outer_interrupt, preempt, framed, level1, phase, nested>>

----------------------------------------------------------------------------
reschedule_raise ==
    /\ level1' = IF level1 = "low" THEN "rising" ELSE level1
    /\ asked' = IF level1 = "high" \/ asked = "now" THEN "now" ELSE "coming"
    /\ UNCHANGED <<running, live, saved, stage, irqs, preempts, handed>>
    /\ UNCHANGED <<owed, outer_interrupt, irq, preempt, framed, phase, nested>>

cyros_port_pend_reschedule ==
    /\ (ThreadMode /\ Runs) \/ InHandler
    /\ reschedule_raise

\* Another core's, at any moment.
cyros_port_send_reschedule_ipi == reschedule_raise

level1_pends ==
    /\ level1 = "rising"
    /\ level1' = "high"
    /\ asked' = IF asked = "coming" THEN "now" ELSE asked
    /\ UNCHANGED <<running, live, saved, stage, irqs, preempts, handed>>
    /\ UNCHANGED <<owed, outer_interrupt, irq, preempt, framed, phase, nested>>

----------------------------------------------------------------------------
\* An interrupt from the thread: the handler's level is set before
\* outer_interrupt is, and a higher one may nest in between.
trap_entry ==
    /\ phase = "none" /\ ~irq
    /\ phase' = "entered"
    /\ UNCHANGED <<threads, owed, outer_interrupt, irq, preempt, framed, level1, nested>>

outermost ==
    /\ phase = "entered" /\ nested = 0
    /\ outer_interrupt' = TRUE
    /\ phase' = "handler"
    /\ UNCHANGED <<threads, owed, irq, preempt, framed, level1, nested>>

\* Mutant: a nested trap takes itself for the outermost.
AllOutermost ==
    /\ phase # "none" /\ nested < MaxNest
    /\ nested' = nested + 1
    /\ outer_interrupt' = TRUE
    /\ UNCHANGED <<threads, owed, irq, preempt, framed, level1, phase>>

nest ==
    /\ phase # "none" /\ nested < MaxNest
    /\ nested' = nested + 1
    /\ UNCHANGED <<threads, owed, outer_interrupt, irq, preempt, framed, level1, phase>>

unnest ==
    /\ nested > 0
    /\ nested' = nested - 1
    /\ UNCHANGED <<threads, owed, outer_interrupt, irq, preempt, framed, level1, phase>>

\* Mutant: the preemption field of the thread beneath is not looked at.
AnyInterrupt == outer_interrupt

cyros_port_interrupted_at_baseline == outer_interrupt /\ ~preempt

cyros_port_owe_switch(from, to) ==
    owed' = [from |-> IF owed.to = None THEN from ELSE owed.from, to |-> to]

interrupt_reschedule(to) ==
    /\ InHandler
    /\ cyros_port_interrupted_at_baseline
    /\ stage[to] = "runs"
    /\ decide(to)
    /\ cyros_port_owe_switch(running, to)
    /\ UNCHANGED <<outer_interrupt, irq, preempt, framed, level1, phase, nested>>

\* The outermost handler's end, back at PIL 15.
trap_dispatch ==
    /\ phase = "handler" /\ nested = 0
    /\ outer_interrupt' = FALSE
    /\ IF owed.to # None THEN switch_frames(owed.from, owed.to) /\ owed' = Nothing
                         ELSE UNCHANGED <<running, live, saved, stage, irqs, preempts, asked, owed, irq, framed>>
    /\ phase' = "none"
    /\ UNCHANGED <<handed, preempt, level1, nested>>

\* The interrupt controller drops the request as the trap is taken.
level1_dispatch ==
    /\ Takes
    /\ level1' = "low"
    /\ phase' = "kernel"
    /\ UNCHANGED <<threads, owed, outer_interrupt, irq, preempt, framed, nested>>

run_reschedule ==
    /\ phase = "kernel" /\ nested = 0
    /\ reschedule
    /\ phase' = "switch"
    /\ UNCHANGED <<owed, outer_interrupt, irq, preempt, framed, level1, nested>>

cyros_port_switch ==
    /\ phase = "switch" /\ nested = 0
    /\ switch_frames(handed.from, handed.to)
    /\ handed' = Nothing
    /\ phase' = "none"
    /\ UNCHANGED <<owed, outer_interrupt, preempt, level1, nested>>

----------------------------------------------------------------------------
Next ==
    \/ thread_computes \/ thread_exit \/ cyros_port_thread_yield
    \/ cyros_port_irq_save \/ cyros_port_irq_restore
    \/ cyros_port_preempt_disable \/ cyros_port_preempt_enable
    \/ \E to \in Threads : direct_reschedule(to) \/ interrupt_reschedule(to)
    \/ cyros_port_direct_switch \/ direct_switch_returns
    \/ cyros_port_pend_reschedule \/ cyros_port_send_reschedule_ipi \/ level1_pends
    \/ trap_entry \/ outermost \/ nest \/ unnest \/ trap_dispatch
    \/ level1_dispatch \/ run_reschedule \/ cyros_port_switch

\* The port keeps the switching contract of port_core.h.
KeepsContract == Promise!Contract
=============================================================================
