----------------------------- MODULE TimeSource -----------------------------
(***************************************************************************)
(* One core's OS timer, as the time half of port_mcu.h gives it to the     *)
(* drivers, on three of its implementations: "mtime" (port/common's        *)
(* port_time_mtime.cpp over a compare register), "linux" (the preemptive   *)
(* port's POSIX timer and its signal) and "coop" (the counter the tests    *)
(* pump).  The calls are made masked, so each is one step.                 *)
(***************************************************************************)
EXTENDS Integers, FiniteSetsExt

CONSTANTS Sources, Modes,   \* the timers and the drivers' modes to compose
          TickPeriod,       \* counts of the clock to a periodic tick
          MaxTime,          \* bound on the clock
          Never             \* UINT64_MAX, above every deadline of the model

TimeSourceAssumption ==
  /\ Sources \subseteq {"mtime", "linux", "coop"}
  /\ Modes \subseteq {"periodic", "tickless"}
  /\ TickPeriod \in Nat \ {0} /\ MaxTime \in Nat /\ Never \in Nat

VARIABLES
  source, mode,      \* chosen once
  raw,               \* MTIME, CLOCK_MONOTONIC, or the tests' counter
  ticks, next_tick,  \* mtime periodic: the count and the compare after it
  armed,             \* the earliest deadline recorded
  compare,           \* when the hardware will interrupt
  delivery,          \* irq_enable
  queued,            \* linux: the timer's signal is pending on the thread
  ready              \* setup() has run and no teardown since

choice == <<source, mode>>
line == <<armed, compare, delivery>>
hardware == <<choice, raw, ticks, next_tick, line, queued, ready>>

SourceInit ==
  /\ source \in Sources /\ mode \in Modes
  /\ raw = 0 /\ ticks = 0 /\ next_tick = 0
  /\ armed = Never /\ compare = Never
  /\ delivery = FALSE /\ queued = FALSE /\ ready = FALSE

cyros_port_time_now == IF source = "mtime" /\ mode = "periodic" THEN ticks ELSE raw

-----------------------------------------------------------------------------
(* port_time_mtime.cpp *)

mtime_setup ==
  /\ delivery' = FALSE /\ armed' = Never
  /\ IF mode = "periodic"
     THEN ticks' = 0 /\ next_tick' = raw + TickPeriod /\ compare' = raw + TickPeriod
     ELSE compare' = Never /\ UNCHANGED <<ticks, next_tick>>

\* A later deadline than the one recorded changes nothing.
mtime_arm(d) ==
  /\ IF d < armed THEN armed' = d /\ compare' = d ELSE UNCHANGED <<armed, compare>>
  /\ UNCHANGED delivery

mtime_raised == source = "mtime" /\ ready /\ raw >= compare

\* The missed ticks are all counted, the callback runs once.
missed_ticks == (raw - next_tick) \div TickPeriod + 1

\* Whether interrupt() goes on to the driver's handler.
reached == mode = "periodic" \/ (armed # Never /\ raw >= armed)

mtime_interrupt ==
  /\ mtime_raised
  /\ IF mode = "periodic"
     THEN /\ next_tick' = next_tick + missed_ticks * TickPeriod
          /\ compare' = next_tick'
          /\ ticks' = ticks + missed_ticks
          /\ UNCHANGED armed
     ELSE /\ armed' = IF reached THEN Never ELSE armed
          /\ compare' = armed'
          /\ UNCHANGED <<ticks, next_tick>>
  /\ UNCHANGED <<choice, raw, delivery, queued, ready>>

-----------------------------------------------------------------------------
(* port_time_linux_preempt.cpp *)

\* timer_settime to an absolute time, and one already past is due at once.
program(d) == compare' = IF ready THEN d ELSE compare

linux_arm(d) ==
  /\ armed' = Min({armed, d})
  /\ program(d)
  /\ UNCHANGED delivery

linux_irq_enable ==
  /\ CASE ~ready -> UNCHANGED compare
       [] mode = "periodic" -> compare' = raw + TickPeriod
       [] OTHER -> IF armed # Never THEN program(armed) ELSE UNCHANGED compare
  /\ UNCHANGED <<armed, delivery>>

\* The timer expires: its signal is queued, once, and an interval begins again.
linux_expire ==
  /\ source = "linux" /\ ready /\ compare # Never /\ raw >= compare
  /\ queued' = TRUE
  /\ compare' = IF mode = "periodic"
                THEN compare + TickPeriod * ((raw - compare) \div TickPeriod + 1) ELSE Never
  /\ UNCHANGED <<choice, raw, ticks, next_tick, armed, delivery, ready>>

on_timer_signal ==
  /\ queued
  /\ queued' = FALSE
  /\ UNCHANGED <<choice, raw, ticks, next_tick, line, ready>>

-----------------------------------------------------------------------------
(* The contract's calls, by source *)

\* The linux setup leaves the recorded deadline, which stop() has cleared.
cyros_port_time_setup ==
  /\ ready' = TRUE
  /\ CASE source = "mtime" -> mtime_setup
       [] source = "linux" -> compare' = Never /\ UNCHANGED <<ticks, next_tick, armed, delivery>>
       [] OTHER -> UNCHANGED <<ticks, next_tick, line>>
  /\ UNCHANGED <<choice, raw, queued>>

cyros_port_time_teardown ==
  /\ ready' = FALSE /\ armed' = Never /\ compare' = Never
  /\ delivery' = FALSE /\ queued' = FALSE
  /\ UNCHANGED <<choice, raw, ticks, next_tick>>

cyros_port_time_arm(d) ==
  CASE source = "mtime" -> mtime_arm(d)
    [] source = "linux" -> linux_arm(d)
    [] OTHER -> armed' = Min({armed, d}) /\ UNCHANGED <<compare, delivery>>

cyros_port_time_disarm == armed' = Never /\ compare' = Never /\ UNCHANGED delivery

cyros_port_time_irq_enable ==
  IF source = "linux" THEN linux_irq_enable
  ELSE delivery' = TRUE /\ UNCHANGED <<armed, compare>>

cyros_port_time_irq_disable ==
  IF source = "linux" THEN compare' = Never /\ UNCHANGED <<armed, delivery>>
  ELSE delivery' = FALSE /\ UNCHANGED <<armed, compare>>

\* The tests pump this one, and only while they have it enabled.
cyros_port_time_fire_isr == source = "coop" /\ delivery /\ UNCHANGED hardware

\* The interrupt.  Called says whether the driver's handler is called.
Interrupt(Called(_)) ==
  \/ mtime_interrupt /\ Called(reached /\ delivery)
  \/ (on_timer_signal \/ cyros_port_time_fire_isr) /\ Called(TRUE)

\* A signal queued is taken before the thread it interrupts goes on.
Interruptible == queued

Clock ==
  /\ raw < MaxTime
  /\ raw' = raw + 1
  /\ UNCHANGED <<choice, ticks, next_tick, line, queued, ready>>
=============================================================================
