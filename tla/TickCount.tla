----------------------------- MODULE TickCount -----------------------------
(***************************************************************************)
(* The periodic tick count that every core reads and one core's interrupt  *)
(* advances, as two 32-bit words: the count of port_time_mtime.cpp         *)
(* (src/port/common), whose carry goes first, and that of                  *)
(* port_time_systick_smp.cpp (src/port/arm/cortex_m33_smp), whose low word *)
(* goes first.  One core advances, another reads.                          *)
(***************************************************************************)
EXTENDS Naturals

CONSTANTS HalfRange,   \* 2^32
          MaxTicks     \* bound on the count

VARIABLES
  advances,             \* "mtime" or "systick_smp"
  tick_low, tick_high,
  total,                \* the ticks there have been
  advancing,            \* the store the interrupt has yet to make
  loads,                \* the reader: its place and the words it has loaded
  seen                  \* the last count returned, and the one before

tick_vars == <<advances, tick_low, tick_high, total, advancing, loads, seen>>

TickInit ==
  /\ advances \in {"mtime", "systick_smp"}
  /\ tick_low = 0 /\ tick_high = 0 /\ total = 0 /\ advancing = "none"
  /\ loads = [at |-> "high", high |-> 0, low |-> 0]
  /\ seen = [last |-> 0, before |-> 0]

next_low == (tick_low + 1) % HalfRange

\* advance_count(1): a carry is stored to the high word first.
advance_count ==
  /\ advances = "mtime" /\ advancing = "none" /\ total < MaxTicks
  /\ total' = total + 1
  /\ IF next_low < tick_low
     THEN tick_high' = tick_high + 1 /\ advancing' = "low" /\ UNCHANGED tick_low
     ELSE tick_low' = next_low /\ UNCHANGED <<tick_high, advancing>>
  /\ UNCHANGED <<advances, loads, seen>>

\* SysTick_Handler on the time core: the low word first.
SysTick_Handler ==
  /\ advances = "systick_smp" /\ advancing = "none" /\ total < MaxTicks
  /\ total' = total + 1
  /\ tick_low' = next_low
  /\ advancing' = IF next_low = 0 THEN "high" ELSE "none"
  /\ UNCHANGED <<advances, tick_high, loads, seen>>

\* The second store of either.
second_store ==
  /\ advancing # "none" /\ advancing' = "none"
  /\ IF advancing = "low" THEN tick_low' = next_low /\ UNCHANGED tick_high
     ELSE tick_high' = tick_high + 1 /\ UNCHANGED tick_low
  /\ UNCHANGED <<advances, total, loads, seen>>

\* periodic_count() and cyros_port_time_now: high, low, high.
periodic_count ==
  /\ CASE loads.at = "high" ->
            loads' = [loads EXCEPT !.at = "low", !.high = tick_high] /\ UNCHANGED seen
       [] loads.at = "low" ->
            loads' = [loads EXCEPT !.at = "again", !.low = tick_low] /\ UNCHANGED seen
       [] loads.at = "again" ->
            /\ loads' = [loads EXCEPT !.at = "high"]
            /\ seen' = IF tick_high = loads.high
                       THEN [last |-> loads.high * HalfRange + loads.low, before |-> seen.last]
                       ELSE seen
  /\ UNCHANGED <<advances, tick_low, tick_high, total, advancing>>

TickNext == advance_count \/ SysTick_Handler \/ second_store \/ periodic_count

TickSpec == TickInit /\ [][TickNext]_tick_vars

-----------------------------------------------------------------------------
(* Properties *)

\* port_mcu.h of cyros_port_time_now: "Must be monotonic 64-bit".  The high
\* word is the same on both sides of a low word loaded between the two stores
\* of a carry, and the count returned is a whole turn out.
TicksAreMonotonic == seen.before <= seen.last
=============================================================================
