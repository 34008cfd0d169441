------------------------------ MODULE LinuxCoop ------------------------------
(***************************************************************************)
(* The cooperative Linux port, on one simulated core: no interrupts, two   *)
(* nesting depths, and jumps between contexts.  A jump empties the handle  *)
(* it goes through, and whoever it arrives at stores where it came from:   *)
(* the scheduler's continuation in thread_caller, a thread's in the        *)
(* context that current_context names.  The thread's road jumps straight   *)
(* from thread to thread, past the cyros_port_switch suspended beneath.    *)
(***************************************************************************)
EXTENDS PortThreads

VARIABLES current_context,     \* null in the scheduler context
          interrupt_disable_depth, preempt_disable_depth,
          reschedule_pending,
          phase                \* "none" in a thread, otherwise where the core is

coop == <<threads, current_context, interrupt_disable_depth, preempt_disable_depth,
          reschedule_pending, phase>>

Init ==
    /\ ThreadsInit
    /\ current_context = running
    /\ interrupt_disable_depth = 0 /\ preempt_disable_depth = 0
    /\ reschedule_pending = FALSE
    /\ phase = "none"

ThreadMode == phase = "none"
Baseline == interrupt_disable_depth = 0 /\ preempt_disable_depth = 0

\* The jump to thread_caller, as cyros_port_switch resumes: the thread's
\* continuation goes to whichever context is current.
switch_to_scheduler_context ==
    /\ saved' = [saved EXCEPT ![current_context] = live]
    /\ current_context' = None
    /\ phase' = "kernel"

\* The rest of the state of a thread, when only its jump matters.
Jumps ==
    /\ switch_to_scheduler_context
    /\ UNCHANGED <<running, live, stage, irqs, preempts, handed>>

----------------------------------------------------------------------------
thread_computes ==
    /\ ThreadMode
    /\ Computes
    /\ UNCHANGED <<current_context, interrupt_disable_depth, preempt_disable_depth,
                   reschedule_pending, phase>>

thread_exit ==
    /\ ThreadMode
    /\ Terminates
    /\ UNCHANGED <<current_context, interrupt_disable_depth, preempt_disable_depth,
                   reschedule_pending, phase>>

cyros_port_thread_yield ==
    /\ ThreadMode /\ Baseline
    /\ stage[live.thread] = "exiting"
    /\ stage' = [stage EXCEPT ![live.thread] = "yielded"]
    /\ asked' = "now"
    /\ switch_to_scheduler_context
    /\ UNCHANGED <<running, live, irqs, preempts, handed>>
    /\ UNCHANGED <<interrupt_disable_depth, preempt_disable_depth, reschedule_pending>>

cyros_port_irq_save ==
    /\ ThreadMode /\ Runs
    /\ irq_saves(0)
    /\ interrupt_disable_depth' = interrupt_disable_depth + 1
    /\ UNCHANGED <<current_context, preempt_disable_depth, reschedule_pending, phase>>

cyros_port_preempt_disable ==
    /\ ThreadMode /\ Runs
    /\ preempt_disables(0)
    /\ preempt_disable_depth' = preempt_disable_depth + 1
    /\ UNCHANGED <<current_context, interrupt_disable_depth, reschedule_pending, phase>>

\* Mutant: one depth at zero is taken for the baseline.
EitherDepth ==
    IF reschedule_pending /\ (interrupt_disable_depth' = 0 \/ preempt_disable_depth' = 0)
    THEN reschedule_pending' = FALSE /\ switch_to_scheduler_context
    ELSE UNCHANGED <<saved, current_context, phase, reschedule_pending>>

resolve_pending_reschedule_if_baseline ==
    IF /\ reschedule_pending
       /\ interrupt_disable_depth' = 0 /\ preempt_disable_depth' = 0
    THEN reschedule_pending' = FALSE /\ switch_to_scheduler_context
    ELSE UNCHANGED <<saved, current_context, phase, reschedule_pending>>

cyros_port_irq_restore ==
    /\ ThreadMode /\ Runs /\ irqs # <<>>
    /\ interrupt_disable_depth' = interrupt_disable_depth - 1
    /\ UNCHANGED preempt_disable_depth
    /\ resolve_pending_reschedule_if_baseline
    /\ irqs' = Front(irqs)
    /\ UNCHANGED <<running, live, stage, preempts, asked, handed>>

cyros_port_preempt_enable ==
    /\ ThreadMode /\ Runs /\ preempts # <<>>
    /\ preempt_disable_depth' = preempt_disable_depth - 1
    /\ UNCHANGED interrupt_disable_depth
    /\ resolve_pending_reschedule_if_baseline
    /\ preempts' = Front(preempts)
    /\ UNCHANGED <<running, live, stage, irqs, asked, handed>>

cyros_port_pend_reschedule ==
    /\ ThreadMode /\ Runs
    /\ asked' = "now"
    /\ IF Baseline
       THEN /\ reschedule_pending' = FALSE
            /\ Jumps
       ELSE /\ reschedule_pending' = TRUE
            /\ UNCHANGED <<running, live, saved, stage, irqs, preempts, handed>>
            /\ UNCHANGED <<current_context, phase>>
    /\ UNCHANGED <<interrupt_disable_depth, preempt_disable_depth>>

\* Before the kernel's own mask, which masked_from_baseline counts as one.
cyros_port_masked_from_baseline ==
    current_context # None /\ interrupt_disable_depth = 0 /\ preempt_disable_depth = 0

direct_reschedule(to) ==
    /\ ThreadMode /\ Runs
    /\ cyros_port_masked_from_baseline
    /\ to # running
    /\ handed' = [from |-> running, to |-> to]
    /\ running' = to
    /\ asked' = "no"
    /\ interrupt_disable_depth' = 1
    /\ phase' = "direct"
    /\ UNCHANGED <<live, saved, stage, irqs, preempts>>
    /\ UNCHANGED <<current_context, preempt_disable_depth, reschedule_pending>>

\* Mutant: the thread arriving does not become the current context.
ArrivesUnnoted(from, to) ==
    /\ saved' = IF from # None THEN [saved EXCEPT ![from] = live] ELSE saved
    /\ live' = saved'[to]
    /\ current_context' = IF from # None THEN current_context ELSE to

\* What the thread jumped into does first: it stores the continuation it was
\* entered from, its own handle now spent, and notes that it runs.
arrive(from, to) ==
    /\ saved' = IF from # None THEN [saved EXCEPT ![from] = live] ELSE saved
    /\ live' = saved'[to]
    /\ current_context' = to

cyros_port_direct_switch ==
    /\ phase = "direct"
    /\ interrupt_disable_depth' = 0
    /\ arrive(handed.from, handed.to)
    /\ handed' = Nothing
    /\ phase' = "none"
    /\ UNCHANGED <<running, stage, irqs, preempts, asked>>
    /\ UNCHANGED <<preempt_disable_depth, reschedule_pending>>

----------------------------------------------------------------------------
\* The pump: scheduler_trampoline's loop calls the kernel, which switches.
scheduler_trampoline ==
    /\ phase = "kernel"
    /\ reschedule
    /\ phase' = "switch"
    /\ UNCHANGED <<current_context, interrupt_disable_depth, preempt_disable_depth,
                   reschedule_pending>>

\* A retired thread's context was destroyed, its continuation dropped with it;
\* the thread made in its place has a fresh one.
cyros_port_switch ==
    /\ phase = "switch"
    /\ LET kept == IF handed.from = None THEN [saved EXCEPT ![live.thread] = Fresh(@.thread)]
                                         ELSE saved
       IN  saved' = kept /\ live' = kept[handed.to]
    /\ current_context' = handed.to
    /\ handed' = Nothing
    /\ phase' = "none"
    /\ UNCHANGED <<running, stage, irqs, preempts, asked>>
    /\ UNCHANGED <<interrupt_disable_depth, preempt_disable_depth, reschedule_pending>>

----------------------------------------------------------------------------
Next ==
    \/ thread_computes \/ thread_exit \/ cyros_port_thread_yield
    \/ cyros_port_irq_save \/ cyros_port_irq_restore
    \/ cyros_port_preempt_disable \/ cyros_port_preempt_enable
    \/ cyros_port_pend_reschedule
    \/ \E to \in Threads : direct_reschedule(to)
    \/ cyros_port_direct_switch \/ scheduler_trampoline \/ cyros_port_switch

\* The port keeps the switching contract of port_core.h.
KeepsContract == Promise!Contract
=============================================================================
