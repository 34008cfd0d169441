------------------------------ MODULE Switching ------------------------------
(***************************************************************************)
(* What a port promises the kernel about switching threads on one core,   *)
(* from the contract of port_core.h.  The kernel counts one thread as      *)
(* `running'; the core holds the registers of one thread, `cpu'.  The two  *)
(* may differ for a moment, when the kernel has decided a switch the port  *)
(* still owes, and in that moment neither a thread nor the reschedule      *)
(* handler may run.  `work' is each thread's own progress: only the thread *)
(* itself moves it, so a context saved to the wrong place, or restored     *)
(* from a stale one, is not a step of this module.                         *)
(***************************************************************************)
EXTENDS Naturals

CONSTANTS Threads

VARIABLES running,  \* the kernel's running thread
          cpu,      \* the thread whose registers are on the core
          work,     \* each thread's progress, as its registers and stack hold it
          asked,    \* a reschedule asked for since the kernel last decided
          open,     \* the thread on the core is at baseline: it holds no region
          retired   \* the thread on the core has been retired, its context discarded

contract == <<running, cpu, work, asked, open, retired>>

Init ==
    /\ running \in Threads
    /\ cpu = running
    /\ work = [t \in Threads |-> 0]
    /\ asked = "no"
    /\ open = TRUE
    /\ retired = FALSE

\* A thread executes only as the kernel's running thread, and at baseline only
\* when no reschedule is due: a request is resolved at the next safe point.
MayRun == running = cpu /\ ~retired /\ (open => asked # "now")

Work ==
    /\ MayRun
    /\ work' = [work EXCEPT ![cpu] = 1 - @]
    /\ UNCHANGED <<running, cpu, asked, open, retired>>

\* The outermost region is entered from baseline, and left again.
Region ==
    /\ running = cpu
    /\ open => MayRun
    /\ open' = ~open
    /\ UNCHANGED <<running, cpu, work, asked, retired>>

\* A request: "coming" while another core's doorbell is on its way, "now" once
\* this core holds it.
Ask ==
    /\ asked' \in {"coming", "now"}
    /\ asked = "now" => asked' = "now"
    /\ UNCHANGED <<running, cpu, work, open, retired>>

\* The thread's road and an interrupt's wake: the kernel makes another thread
\* its running one, only where the thread beneath is at baseline.  The decision
\* takes in everything asked for so far; what is asked later is asked anew.
Decide ==
    /\ open /\ ~retired
    /\ running' \in Threads \ {running}
    /\ asked' \in {asked, "no"}
    /\ UNCHANGED <<cpu, work, open, retired>>

\* The handler's road: the kernel's handler is called with its running thread
\* on the core, at baseline, and serves what was asked.
Serve ==
    /\ running = cpu /\ open /\ ~retired
    /\ running' \in Threads
    /\ asked' = "no"
    /\ retired' \in BOOLEAN
    /\ retired' => running' # cpu
    /\ UNCHANGED <<cpu, work, open>>

\* The core is given to the thread the kernel chose.  A retired thread's
\* context is not written back; a thread made in its place starts afresh.
CarryOut ==
    /\ running # cpu /\ open
    /\ cpu' = running
    /\ work' = IF retired THEN [work EXCEPT ![cpu] = 0] ELSE work
    /\ retired' = FALSE
    /\ UNCHANGED <<running, asked, open>>

Next == Work \/ Region \/ Ask \/ Decide \/ Serve \/ CarryOut

Contract == Init /\ [][Next]_contract
=============================================================================
