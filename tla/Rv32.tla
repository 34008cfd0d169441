-------------------------------- MODULE Rv32 --------------------------------
(***************************************************************************)
(* The RISC-V core port (rv32).  Traps run with MIE clear and so never     *)
(* nest, apart from faults.  A yield, and a thread's own switch, are calls *)
(* that save what a call keeps; an interrupt saves the clobbered half of   *)
(* the registers on entry, and the kept half only when its exit has a      *)
(* switch or a reschedule to make.  The reschedule is the software         *)
(* interrupt: raised by a store that shows in mip some time later, lowered *)
(* before the kernel runs.                                                 *)
(***************************************************************************)
EXTENDS PortThreads

VARIABLES owed,    \* core_state::owed_from and owed_to
          mie,     \* mstatus.MIE, as the thread on the core left it
          msie,    \* mie.MSIE: the preempt grade
          msip,    \* the software interrupt: "low", "rising" or "high"
          cause,   \* mcause, kept until the next trap
          whole,   \* the frame holds the kept half too
          called,  \* the threads whose last frame is a call's, not a trap's
          phase    \* where the core is, "none" when a thread's code runs

rv32 == <<threads, owed, mie, msie, msip, cause, whole, called, phase>>

Init ==
    /\ ThreadsInit
    /\ owed = Nothing
    /\ mie = TRUE /\ msie = TRUE
    /\ msip = "low"
    /\ cause = "interrupt"
    /\ whole = FALSE
    /\ called = {}
    /\ phase = "none"

trap_depth == IF phase \in {"handler", "kernel", "switch"} THEN 1 ELSE 0
in_reschedule == phase \in {"kernel", "switch"}

Takes == phase = "none" /\ mie /\ msie /\ msip = "high"
ThreadMode == phase = "none" /\ ~Takes

----------------------------------------------------------------------------
\* Switching.  A context whose frame is not whole keeps what it had before,
\* and a trap frame taken for a call's brings back only half of its thread.

Half(registers) == [registers EXCEPT !.at = 1 - @]

Leave(from, to) ==
    /\ saved' = IF from = None THEN [saved EXCEPT ![live.thread] = Fresh(@.thread)]
                ELSE [saved EXCEPT ![from] = IF whole THEN live ELSE Half(live)]
    /\ called' = IF from = None THEN called \ {live.thread} ELSE called
    /\ live' = saved'[to]
    /\ UNCHANGED <<running, stage, irqs, preempts, asked>>

\* Mutant: the thread's road returns into any frame as if it were its own.
ReturnsIntoAny(from, to) ==
    /\ saved' = [saved EXCEPT ![from] = live]
    /\ called' = called \cup {from}
    /\ live' = IF to \in called THEN saved'[to] ELSE Half(saved'[to])
    /\ UNCHANGED <<running, stage, irqs, preempts, asked>>

\* The call's two ends: what a call keeps goes to the outgoing stack, and a
\* frame is returned into, or left to the trap exit when it is a trap's.
direct_switch(from, to) ==
    /\ saved' = [saved EXCEPT ![from] = live]
    /\ called' = called \cup {from}
    /\ live' = saved'[to]
    /\ UNCHANGED <<running, stage, irqs, preempts, asked>>

----------------------------------------------------------------------------
\* The calls a thread makes.

thread_computes ==
    /\ ThreadMode
    /\ Computes
    /\ UNCHANGED <<owed, mie, msie, msip, cause, whole, called, phase>>

thread_exit ==
    /\ ThreadMode
    /\ Terminates
    /\ UNCHANGED <<owed, mie, msie, msip, cause, whole, called, phase>>

\* A call frame is whole as soon as it is stored: the caller expects no more.
yield_entry ==
    /\ whole' = TRUE
    /\ phase' = "kernel"
    /\ called' = called \cup {live.thread}

cyros_port_thread_yield ==
    /\ ThreadMode
    /\ Yields
    /\ yield_entry
    /\ UNCHANGED <<owed, mie, msie, msip, cause>>

cyros_port_irq_save ==
    /\ ThreadMode /\ Runs
    /\ irq_saves(mie)
    /\ mie' = FALSE
    /\ UNCHANGED <<owed, msie, msip, cause, whole, called, phase>>

cyros_port_irq_restore ==
    /\ ThreadMode /\ Runs
    /\ irq_restores
    /\ mie' = Last(irqs)
    /\ UNCHANGED <<owed, msie, msip, cause, whole, called, phase>>

cyros_port_preempt_disable ==
    /\ ThreadMode /\ Runs
    /\ preempt_disables(msie)
    /\ msie' = FALSE
    /\ UNCHANGED <<owed, mie, msip, cause, whole, called, phase>>

cyros_port_preempt_enable ==
    /\ ThreadMode /\ Runs
    /\ preempt_enables
    /\ msie' = Last(preempts)
    /\ UNCHANGED <<owed, mie, msip, cause, whole, called, phase>>

cyros_port_masked_from_baseline(token) == token /\ msie

\* scheduler::direct_reschedule decides with interrupts masked, and then calls.
direct_reschedule(to) ==
    /\ ThreadMode /\ Runs
    /\ cyros_port_masked_from_baseline(mie)
    /\ to # running
    /\ handed' = [from |-> running, to |-> to]
    /\ running' = to
    /\ asked' = "no"
    /\ phase' = "direct"
    /\ UNCHANGED <<live, saved, stage, irqs, preempts>>
    /\ UNCHANGED <<owed, mie, msie, msip, cause, whole, called>>

cyros_port_direct_switch ==
    /\ phase = "direct"
    /\ direct_switch(handed.from, handed.to)
    /\ handed' = Nothing
    /\ phase' = "none"
    /\ UNCHANGED <<owed, mie, msie, msip, cause, whole>>

----------------------------------------------------------------------------
\* Requests.

soft_irq_raise == msip' = IF msip = "low" THEN "rising" ELSE msip

\* A request is due once mip shows it.
Rings ==
    /\ soft_irq_raise
    /\ asked' = IF msip = "high" \/ asked = "now" THEN "now" ELSE "coming"
    /\ UNCHANGED <<running, live, saved, stage, irqs, preempts, handed>>

cyros_port_pend_reschedule ==
    \/ /\ ThreadMode /\ Runs /\ mie /\ msie
       /\ Asks
       /\ yield_entry
       /\ UNCHANGED <<owed, mie, msie, msip, cause>>
    \/ /\ (ThreadMode /\ Runs /\ ~(mie /\ msie)) \/ phase = "handler"
       /\ Rings
       /\ UNCHANGED <<owed, mie, msie, cause, whole, called, phase>>

\* Another core's doorbell, at any moment.
cyros_port_send_reschedule_ipi ==
    /\ Rings
    /\ UNCHANGED <<owed, mie, msie, cause, whole, called, phase>>

mip_rises ==
    /\ msip = "rising"
    /\ msip' = "high"
    /\ asked' = IF asked = "coming" THEN "now" ELSE asked
    /\ UNCHANGED <<running, live, saved, stage, irqs, preempts, handed>>
    /\ UNCHANGED <<owed, mie, msie, cause, whole, called, phase>>

----------------------------------------------------------------------------
\* Interrupts and faults.

trap_entry(why) ==
    /\ why = "interrupt" => mie
    /\ ThreadMode /\ Runs
    /\ cause' = why
    /\ whole' = (why = "fault")
    /\ called' = called \ {live.thread}
    /\ phase' = "handler"
    /\ UNCHANGED <<threads, owed, mie, msie, msip>>

\* Mutant: the reschedule passes for a handler too.
AnyDepth == trap_depth = 1 /\ cause = "interrupt" /\ msie

cyros_port_interrupted_at_baseline ==
    /\ trap_depth = 1
    /\ ~in_reschedule
    /\ cause = "interrupt"
    /\ msie

cyros_port_owe_switch(from, to) ==
    owed' = [from |-> IF owed.to = None THEN from ELSE owed.from, to |-> to]

interrupt_reschedule(to) ==
    /\ cyros_port_interrupted_at_baseline
    /\ stage[to] = "runs"
    /\ decide(to)
    /\ cyros_port_owe_switch(running, to)
    /\ UNCHANGED <<mie, msie, msip, cause, whole, called, phase>>

fault_dispatch ==
    /\ phase = "handler" /\ cause = "fault"
    /\ phase' = "none"
    /\ UNCHANGED <<threads, owed, mie, msie, msip, cause, whole, called>>

\* Interrupts never nest, so a request already shown is taken on the way out.
take_pended_reschedule == msip = "high" /\ msie

\* Mutant: the exit stores the kept half only for the reschedule.
StoresHalf ==
    /\ phase = "handler" /\ cause = "interrupt"
    /\ msip' = IF take_pended_reschedule THEN "low" ELSE msip
    /\ whole' = take_pended_reschedule
    /\ phase' = CASE owed.to # None -> IF take_pended_reschedule THEN "owed+kernel" ELSE "owed"
                  [] owed.to = None /\ take_pended_reschedule -> "kernel"
                  [] OTHER -> "none"
    /\ UNCHANGED <<threads, owed, mie, msie, cause, called>>

\* The end of an interrupt's handler: what its exit must do.
interrupt_dispatch ==
    /\ phase = "handler" /\ cause = "interrupt"
    /\ msip' = IF take_pended_reschedule THEN "low" ELSE msip
    /\ whole' = (take_pended_reschedule \/ owed.to # None)
    /\ phase' = CASE owed.to # None -> IF take_pended_reschedule THEN "owed+kernel" ELSE "owed"
                  [] owed.to = None /\ take_pended_reschedule -> "kernel"
                  [] OTHER -> "none"
    /\ UNCHANGED <<threads, owed, mie, msie, cause, called>>

\* The switch first, and then the reschedule from the incoming thread's frame.
owed_switch_dispatch ==
    /\ phase \in {"owed", "owed+kernel"}
    /\ Leave(owed.from, owed.to)
    /\ owed' = Nothing
    /\ phase' = IF phase = "owed" THEN "none" ELSE "kernel"
    /\ UNCHANGED <<handed, mie, msie, msip, cause, whole>>

soft_irq_entry ==
    /\ Takes
    /\ cause' = "interrupt"
    /\ whole' = TRUE
    /\ called' = called \ {live.thread}
    /\ phase' = "soft"
    /\ UNCHANGED <<threads, owed, mie, msie, msip>>

soft_irq_dispatch ==
    /\ phase = "soft"
    /\ msip' = "low"
    /\ phase' = "kernel"
    /\ UNCHANGED <<threads, owed, mie, msie, cause, whole, called>>

run_reschedule ==
    /\ phase = "kernel"
    /\ reschedule
    /\ phase' = "switch"
    /\ UNCHANGED <<owed, mie, msie, msip, cause, whole, called>>

\* Mutant: the line is lowered once the reschedule has run.
LowersAfter ==
    /\ phase = "switch"
    /\ Leave(handed.from, handed.to)
    /\ msip' = "low"
    /\ handed' = Nothing
    /\ phase' = "none"
    /\ UNCHANGED <<owed, mie, msie, cause, whole>>

\* The context takes the frame the trap holds, and the trap exit resumes the
\* other's: whole from a trap, a call's otherwise.
cyros_port_switch ==
    /\ phase = "switch"
    /\ Leave(handed.from, handed.to)
    /\ handed' = Nothing
    /\ phase' = "none"
    /\ UNCHANGED <<owed, mie, msie, msip, cause, whole>>

----------------------------------------------------------------------------
Next ==
    \/ thread_computes \/ thread_exit \/ cyros_port_thread_yield
    \/ cyros_port_irq_save \/ cyros_port_irq_restore
    \/ cyros_port_preempt_disable \/ cyros_port_preempt_enable
    \/ \E to \in Threads : direct_reschedule(to) \/ interrupt_reschedule(to)
    \/ cyros_port_direct_switch
    \/ cyros_port_pend_reschedule \/ cyros_port_send_reschedule_ipi \/ mip_rises
    \/ \E why \in {"interrupt", "fault"} : trap_entry(why)
    \/ fault_dispatch \/ interrupt_dispatch \/ owed_switch_dispatch
    \/ soft_irq_entry \/ soft_irq_dispatch \/ run_reschedule \/ cyros_port_switch

\* The port keeps the switching contract of port_core.h.
KeepsContract == Promise!Contract
=============================================================================
