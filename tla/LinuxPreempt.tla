---------------------------- MODULE LinuxPreempt ----------------------------
(***************************************************************************)
(* The linux_preempt core port on one simulated core: a pthread whose      *)
(* reschedule signal stands for PendSV and whose timer signal stands for   *)
(* an interrupt.  The signal mask is derived from two depth counters, and  *)
(* the two are changed in separate instructions, between which the timer   *)
(* may land.  Bring-up, shutdown and another core's IPI are included.      *)
(***************************************************************************)
EXTENDS PortThreads

VARIABLES power,    \* "dormant", "starting" (start_first called), "up", "unwound"
          shutdown, \* global.shutdown_requested
          owed,     \* owed_from, owed_to, owed_reschedule
          pending,  \* the reschedule signal is pending on this thread
          blocked,  \* the owned signals the executing context blocks
          irq_depth, preempt_depth,
          half,     \* "disabling"/"enabling": between a mask's change and a depth's
          phase,    \* where on_reschedule is, "none" outside it
          isr,      \* where the timer's handler is: "none", "entered", "body", "left"
          isr_mask, \* the mask the timer's return restores
          isr_from_baseline,
          ipi       \* another core's IPI: "idle", or "said" (ipi_asked stored)

VARIABLES ipi_asked,
          remote_asked \* on_reschedule's local copy

preempt == <<threads, power, shutdown, owed, pending, blocked, irq_depth, preempt_depth,
             half, phase, isr, isr_mask, isr_from_baseline, ipi, ipi_asked, remote_asked>>
signals == <<pending, blocked, irq_depth, preempt_depth, half>>
handler == <<phase, isr, isr_mask, isr_from_baseline>>
remote  == <<ipi, ipi_asked, remote_asked>>
boot    == <<power, shutdown>>

Owned == {"reschedule", "timer"}

should_block(s, i, p) == i > 0 \/ (s = "reschedule" /\ p > 0)

Blocks(i, p) == {s \in Owned : should_block(s, i, p)}

Init ==
    /\ ThreadsInit
    /\ power = "dormant" /\ shutdown = FALSE
    /\ owed = [from |-> None, to |-> None, reschedule |-> FALSE]
    /\ pending = FALSE
    /\ blocked = Owned
    /\ irq_depth = 1 /\ preempt_depth = 0      \* enter_dormant_region
    /\ half = "none" /\ phase = "none"
    /\ isr = "none" /\ isr_mask = {} /\ isr_from_baseline = FALSE
    /\ ipi = "idle" /\ ipi_asked = FALSE /\ remote_asked = FALSE

\* The reschedule signal is delivered before the context beneath runs on.
Delivers == pending /\ "reschedule" \notin blocked /\ isr = "none" /\ phase = "none"

Threading == power = "up" /\ phase = "none" /\ isr = "none" /\ ~Delivers

----------------------------------------------------------------------------
\* Bring-up, and the unwinding at shutdown.

cyros_port_start_first ==
    /\ power = "dormant"
    /\ power' = "starting"
    /\ pending' = TRUE
    /\ irq_depth' = irq_depth - 1              \* leave_dormant_region
    /\ blocked' = Blocks(irq_depth - 1, preempt_depth)
    /\ UNCHANGED <<threads, shutdown, owed, preempt_depth, half, handler, remote>>

\* A stale reschedule is drained while masked, and the next run starts afresh.
cyros_port_start_cores ==
    /\ power = "unwound"
    /\ power' = "dormant" /\ shutdown' = FALSE
    /\ \E t \in Threads :
          /\ running' = t /\ live' = Fresh(t)
          /\ saved' = [u \in Threads |-> Fresh(u)]
          /\ stage' = [u \in Threads |-> "runs"]
    /\ irqs' = <<>> /\ preempts' = <<>> /\ asked' = "no" /\ handed' = Nothing
    /\ owed' = [from |-> None, to |-> None, reschedule |-> FALSE]
    /\ pending' = FALSE /\ ipi_asked' = FALSE
    /\ UNCHANGED <<blocked, irq_depth, preempt_depth, half, handler, ipi, remote_asked>>

----------------------------------------------------------------------------
\* The calls a thread makes.

thread_computes ==
    /\ Threading /\ half = "none"
    /\ Computes
    /\ UNCHANGED <<boot, owed, signals, handler, remote>>

thread_exit ==
    /\ Threading /\ half = "none"
    /\ Terminates
    /\ UNCHANGED <<boot, owed, signals, handler, remote>>

cyros_port_thread_yield ==
    /\ Threading /\ half = "none"
    /\ Yields
    /\ pending' = TRUE
    /\ UNCHANGED <<boot, owed, blocked, irq_depth, preempt_depth, half, handler, remote>>

\* Both signals are blocked by one call, so nothing lands before the raise.
cyros_port_irq_save ==
    /\ Threading /\ half = "none" /\ Runs
    /\ irq_saves(blocked)
    /\ blocked' = blocked \cup Blocks(irq_depth + 1, preempt_depth)
    /\ irq_depth' = irq_depth + 1
    /\ UNCHANGED <<boot, owed, pending, preempt_depth, half, handler, remote>>

cyros_port_irq_restore ==
    /\ Threading /\ half = "none" /\ Runs
    /\ irq_restores
    /\ irq_depth' = irq_depth - 1
    /\ blocked' = Blocks(irq_depth - 1, preempt_depth)
    /\ UNCHANGED <<boot, owed, pending, preempt_depth, half, handler, remote>>

\* Mutant: the depth is raised before the mask is tightened.
RaisesFirst ==
    /\ Threading /\ Runs
    /\ \/ /\ half = "none"
          /\ preempt_disables(blocked)
          /\ preempt_depth' = preempt_depth + 1
          /\ half' = "disabling"
          /\ UNCHANGED blocked
       \/ /\ half = "disabling"
          /\ blocked' = blocked \cup Blocks(irq_depth, preempt_depth)
          /\ half' = "none"
          /\ UNCHANGED <<threads, preempt_depth>>
    /\ UNCHANGED <<boot, owed, pending, irq_depth, handler, remote>>

cyros_port_preempt_disable ==
    /\ Threading /\ Runs
    /\ \/ /\ half = "none" /\ Len(preempts) < MaxRegions   \* block_for
          /\ blocked' = blocked \cup Blocks(irq_depth, preempt_depth + 1)
          /\ half' = "disabling"
          /\ UNCHANGED <<threads, preempt_depth>>
       \/ /\ half = "disabling"
          /\ preempt_disables(blocked)
          /\ preempt_depth' = preempt_depth + 1
          /\ half' = "none"
          /\ UNCHANGED blocked
    /\ UNCHANGED <<boot, owed, pending, irq_depth, handler, remote>>

cyros_port_preempt_enable ==
    /\ Threading /\ Runs
    /\ \/ /\ half = "none"
          /\ preempt_enables
          /\ preempt_depth' = preempt_depth - 1
          /\ half' = "enabling"
          /\ UNCHANGED blocked
       \/ /\ half = "enabling"                             \* apply_mask
          /\ blocked' = Blocks(irq_depth, preempt_depth)
          /\ half' = "none"
          /\ UNCHANGED <<threads, preempt_depth>>
    /\ UNCHANGED <<boot, owed, pending, irq_depth, handler, remote>>

cyros_port_masked_from_baseline == Threading /\ irq_depth = 0 /\ preempt_depth = 0

\* The kernel's mask blocks both signals from before the decision until the
\* restore, which delivers the signal raised meanwhile.
cyros_port_direct_switch(to) ==
    /\ cyros_port_masked_from_baseline /\ half = "none" /\ Runs
    /\ decide(to)
    /\ owed' = [owed EXCEPT !.from = running, !.to = to]
    /\ pending' = TRUE
    /\ UNCHANGED <<boot, blocked, irq_depth, preempt_depth, half, handler, remote>>

cyros_port_pend_reschedule ==
    /\ (Threading /\ half = "none" /\ Runs) \/ (isr = "body" /\ power = "up")
    /\ Asks
    /\ owed' = IF owed.to # None THEN [owed EXCEPT !.reschedule = TRUE] ELSE owed
    /\ pending' = TRUE
    /\ UNCHANGED <<boot, blocked, irq_depth, preempt_depth, half, handler, remote>>

----------------------------------------------------------------------------
\* The timer's handler, interrupting anything that does not block its signal.

timer_delivered ==
    /\ isr = "none" /\ "timer" \notin blocked /\ power \in {"starting", "up"}
    /\ isr' = "entered"
    /\ isr_mask' = blocked
    /\ blocked' = Owned
    /\ UNCHANGED <<threads, boot, owed, pending, irq_depth, preempt_depth, half, phase,
                   isr_from_baseline, remote>>

isr_region_enter ==
    /\ isr = "entered"
    /\ isr_from_baseline' = (power = "up" /\ irq_depth = 0 /\ preempt_depth = 0)
    /\ irq_depth' = irq_depth + 1
    /\ isr' = "body"
    /\ UNCHANGED <<threads, boot, owed, pending, blocked, preempt_depth, half, phase,
                   isr_mask, remote>>

cyros_port_interrupted_at_baseline == isr = "body" /\ isr_from_baseline

\* Mutant: a later decision replaces the source as well.
ReplacesSource(from, to) ==
    owed' = [owed EXCEPT !.from = from, !.to = to]

cyros_port_owe_switch(from, to) ==
    owed' = [owed EXCEPT !.from = IF owed.to = None THEN from ELSE @, !.to = to]

interrupt_reschedule(to) ==
    /\ cyros_port_interrupted_at_baseline
    /\ stage[to] = "runs"
    /\ decide(to)
    /\ cyros_port_owe_switch(running, to)
    /\ pending' = TRUE
    /\ UNCHANGED <<boot, blocked, irq_depth, preempt_depth, half, handler, remote>>

isr_region_leave ==
    /\ isr = "body"
    /\ irq_depth' = irq_depth - 1
    /\ isr' = "left"
    /\ UNCHANGED <<threads, boot, owed, pending, blocked, preempt_depth, half, phase,
                   isr_mask, isr_from_baseline, remote>>

timer_returns ==
    /\ isr = "left"
    /\ isr' = "none"
    /\ blocked' = isr_mask
    /\ isr_mask' = {} /\ isr_from_baseline' = FALSE
    /\ UNCHANGED <<threads, boot, owed, pending, irq_depth, preempt_depth, half, phase, remote>>

----------------------------------------------------------------------------
\* Another core's IPI, in its two stores.

\* Mutant: the IPI is the signal alone.
SignalsOnly ==
    /\ power = "up"
    /\ \/ ipi = "idle" /\ ipi' = "said" /\ UNCHANGED <<pending, asked>>
       \/ ipi = "said" /\ ipi' = "idle" /\ pending' = TRUE /\ asked' = "now"
    /\ UNCHANGED <<running, live, saved, stage, irqs, preempts, handed, boot, owed, blocked,
                   irq_depth, preempt_depth, half, handler, ipi_asked, remote_asked>>

cyros_port_send_reschedule_ipi ==
    /\ power = "up"
    /\ \/ /\ ipi = "idle" /\ ipi' = "said"
          /\ ipi_asked' = TRUE
          /\ asked' = IF asked = "no" THEN "coming" ELSE asked
          /\ UNCHANGED pending
       \/ /\ ipi = "said" /\ ipi' = "idle"
          /\ pending' = TRUE
          /\ asked' = IF asked = "coming" THEN "now" ELSE asked
          /\ UNCHANGED ipi_asked
    /\ UNCHANGED <<running, live, saved, stage, irqs, preempts, handed, boot, owed, blocked,
                   irq_depth, preempt_depth, half, handler, remote_asked>>

----------------------------------------------------------------------------
\* The reschedule signal's handler, which the timer may land on at any step.

reschedule_delivered ==
    /\ Delivers
    /\ pending' = FALSE
    /\ blocked' = blocked \cup {"reschedule"}
    /\ phase' = "entered"
    /\ UNCHANGED <<threads, boot, owed, irq_depth, preempt_depth, half, isr, isr_mask,
                   isr_from_baseline, remote>>

\* Entered at baseline.  Whether another core asked is taken on every pass.
preempt_region_enter ==
    /\ phase = "entered" /\ isr = "none"
    /\ preempt_depth' = preempt_depth + 1
    /\ \/ shutdown /\ phase' = "unwind" /\ UNCHANGED remote
       \/ ~shutdown /\ power = "starting" /\ phase' = "first" /\ UNCHANGED remote
       \/ /\ ~shutdown /\ power = "up"
          /\ phase' = "owed"
          /\ remote_asked' = ipi_asked
          /\ ipi_asked' = FALSE
          /\ UNCHANGED ipi
    /\ UNCHANGED <<threads, boot, owed, pending, blocked, irq_depth, half, isr, isr_mask,
                   isr_from_baseline>>

start_first_thread ==
    /\ phase = "first" /\ isr = "none"
    /\ power' = "up"
    /\ phase' = "leave"
    /\ UNCHANGED <<threads, shutdown, owed, signals, isr, isr_mask, isr_from_baseline, remote>>

\* The bring-up point is resumed with the signal blocked, and goes dormant.
unwind ==
    /\ phase = "unwind" /\ isr = "none"
    /\ power' = "unwound"
    /\ preempt_depth' = preempt_depth - 1
    /\ blocked' = Owned /\ irq_depth' = irq_depth + 1
    /\ phase' = "none"
    /\ UNCHANGED <<threads, shutdown, owed, pending, half, isr, isr_mask, isr_from_baseline,
                   remote>>

carry_out_owed ==
    /\ phase = "owed" /\ isr = "none"
    /\ IF owed.to # None
       THEN /\ Swap(owed.from, owed.to)
            /\ owed' = [owed EXCEPT !.to = None]
            /\ phase' = "look"
       ELSE /\ phase' = "kernel"
            /\ UNCHANGED <<live, saved, owed>>
    /\ UNCHANGED <<running, stage, irqs, preempts, asked, handed, boot, signals, isr, isr_mask,
                   isr_from_baseline, remote>>

\* Mutant: only this core's own requests follow an owed switch.
LooksLocally ==
    /\ phase = "look" /\ isr = "none"
    /\ phase' = IF owed.reschedule THEN "kernel" ELSE "leave"
    /\ owed' = [owed EXCEPT !.reschedule = FALSE]
    /\ UNCHANGED <<threads, boot, signals, isr, isr_mask, isr_from_baseline, remote>>

look_for_reschedule ==
    /\ phase = "look" /\ isr = "none"
    /\ phase' = IF owed.reschedule \/ remote_asked THEN "kernel" ELSE "leave"
    /\ owed' = [owed EXCEPT !.reschedule = FALSE]
    /\ UNCHANGED <<threads, boot, signals, isr, isr_mask, isr_from_baseline, remote>>

\* A retired thread's context is destroyed inside the handler, and the last but
\* the idle ones asks every core to unwind (cyros_port_context_destroy).
reschedule_handler ==
    /\ phase = "kernel" /\ isr = "none"
    /\ reschedule
    /\ \/ UNCHANGED <<shutdown, pending>>
       \/ handed'.from = None /\ shutdown' = TRUE /\ pending' = TRUE
    /\ phase' = "switch"
    /\ UNCHANGED <<power, owed, blocked, irq_depth, preempt_depth, half, isr, isr_mask,
                   isr_from_baseline, remote>>

cyros_port_switch ==
    /\ phase = "switch" /\ isr = "none"
    /\ Swap(handed.from, handed.to)
    /\ handed' = Nothing
    /\ phase' = "leave"
    /\ UNCHANGED <<running, stage, irqs, preempts, asked, boot, owed, signals, isr, isr_mask,
                   isr_from_baseline, remote>>

preempt_region_leave ==
    /\ phase = "leave" /\ isr = "none"
    /\ preempt_depth' = preempt_depth - 1
    /\ phase' = "return"
    /\ UNCHANGED <<threads, boot, owed, pending, blocked, irq_depth, half, isr, isr_mask,
                   isr_from_baseline, remote>>

\* The resumed context brings its own mask, captured at baseline.
sigreturn ==
    /\ phase = "return" /\ isr = "none"
    /\ blocked' = {}
    /\ phase' = "none"
    /\ remote_asked' = FALSE
    /\ UNCHANGED <<threads, boot, owed, pending, irq_depth, preempt_depth, half, isr, isr_mask,
                   isr_from_baseline, ipi, ipi_asked>>

----------------------------------------------------------------------------
Next ==
    \/ cyros_port_start_first \/ cyros_port_start_cores
    \/ thread_computes \/ thread_exit \/ cyros_port_thread_yield
    \/ cyros_port_irq_save \/ cyros_port_irq_restore
    \/ cyros_port_preempt_disable \/ cyros_port_preempt_enable
    \/ \E to \in Threads : cyros_port_direct_switch(to) \/ interrupt_reschedule(to)
    \/ cyros_port_pend_reschedule \/ cyros_port_send_reschedule_ipi
    \/ timer_delivered \/ isr_region_enter \/ isr_region_leave \/ timer_returns
    \/ reschedule_delivered \/ preempt_region_enter \/ start_first_thread \/ unwind
    \/ carry_out_owed \/ look_for_reschedule \/ reschedule_handler \/ cyros_port_switch
    \/ preempt_region_leave \/ sigreturn

\* The signal is only ever taken at baseline: on_reschedule is entered with both
\* depths zero, whatever regions overlapped before (on_reschedule's comment).
TakenAtBaseline == phase = "entered" /\ isr = "none" => irq_depth = 0 /\ preempt_depth = 0

\* A thread at baseline, about to run its own code, has no request waiting
\* unserved: every request is still a pending signal, here or from another core.
RequestIsHeld == Threading /\ half = "none" /\ Open => asked # "now"

\* However decisions, interrupts and the two roads interleave, a thread's
\* context holds that thread's registers, and an owed switch's source is the
\* thread the core holds.
ContextsAreOwn ==
    /\ \A t \in Threads : saved[t].thread = t
    /\ owed.to # None /\ phase \in {"none", "entered", "owed"} => owed.from = live.thread

\* A switch the kernel decided in the timer's handler is made before the thread
\* it took runs on (cyros_port_interrupted_at_baseline's comment).
SwitchedBeforeRunning == Threading /\ half = "none" => running = live.thread
=============================================================================
