------------------------------- MODULE SysTick -------------------------------
(***************************************************************************)
(* The tickless half of port_time_systick.cpp (src/port/arm/common), at    *)
(* the grain of its register accesses: a down counter with no compare      *)
(* register, whose high bits live in software, read and restarted while it *)
(* runs.  After each access the counter goes on by one to Gap counts.      *)
(***************************************************************************)
EXTENDS Integers, FiniteSetsExt

CONSTANTS MinPeriod, MaxPeriod,   \* 64, and 2^24
          Gap,                    \* the counts an access may take
          MaxCycles,              \* bound on the run
          SysDeadlines,              \* what the driver arms
          MaskedCalls,            \* the calls a masked section of the driver makes
          NoDeadline              \* never

SysTickAssumption ==
  /\ MinPeriod \in Nat \ {0, 1} /\ MaxPeriod \in Nat /\ MaxPeriod >= MinPeriod
  \* The two reads of a restart are closer together than the shortest interval.
  /\ Gap \in Nat \ {0} /\ 3 * Gap < MinPeriod

VARIABLES
  hw,         \* VAL, LOAD, COUNTFLAG, the pending exception, and the true count
  base, current_reload, armed_deadline, delivery_enabled,
  at,         \* the next access, "out" of any masked section, or "in" between calls
  who,        \* the procedure it belongs to, and whether in the exception
  local,      \* val as read, from, first, next, raw_second
  calls,      \* what the masked section may still call
  reading     \* the last value now() returned, and the one before

soft == <<base, current_reload, armed_deadline, delivery_enabled>>
systick == <<hw, soft, at, who, local, calls, reading>>

none == [val |-> 0, from |-> 0, first |-> 0, next |-> 0, second |-> 0]

-----------------------------------------------------------------------------
(* The counter, external: ARMv7-M's SysTick *)

\* One count: from zero the counter reloads, and reaching zero it flags and
\* pends its exception.
Count(h) ==
  IF h.val = 0 THEN [h EXCEPT !.val = h.load, !.cycles = @ + 1]
  ELSE [h EXCEPT !.val = @ - 1, !.cycles = @ + 1,
                 !.flag = @ \/ h.val = 1, !.pend = @ \/ h.val = 1]

RECURSIVE Counts(_, _)
Counts(h, n) == IF n = 0 THEN h ELSE Counts(Count(h), n - 1)

\* The access leaves h, and the counter goes on.
Then(h) == \E n \in 1..Gap : h.cycles + n <= MaxCycles /\ hw' = Counts(h, n)

-----------------------------------------------------------------------------
(* Sizing an interval *)

\* Mutant: every interval is a full one.
FullInterval(from) == MaxPeriod - 1

desired_reload(from) ==
  IF armed_deadline = NoDeadline THEN MaxPeriod - 1
  ELSE Min({Max({armed_deadline - from, MinPeriod}), MaxPeriod}) - 1

interval_end == base + current_reload + 1

\* setup(0): the counter restarted for a full interval with nothing armed.
SysTickInit ==
  /\ hw = [val |-> 0, load |-> MaxPeriod - 1, flag |-> FALSE, pend |-> FALSE, cycles |-> 0]
  /\ base = 0 /\ current_reload = MaxPeriod - 1
  /\ armed_deadline = NoDeadline /\ delivery_enabled \in BOOLEAN
  /\ at = "out" /\ who = [call |-> "none", isr |-> FALSE]
  /\ local = none /\ calls = 0
  /\ reading = [now |-> 0, before |-> 0]

-----------------------------------------------------------------------------
(* now_tickless_locked *)

read_val ==
  /\ at = "val" /\ at' = "ctrl"
  /\ local' = [local EXCEPT !.val = hw.val]
  /\ Then(hw)
  /\ UNCHANGED <<soft, who, calls, reading>>

\* The call ends, and the masked section goes on.
Returns == at' = "in" /\ who' = [who EXCEPT !.call = "none"] /\ local' = none

\* What the count is used for: now() returns it, arm() and the exception size
\* the next interval by it.
With(from, first) ==
  IF who.call = "now"
  THEN Returns /\ reading' = [now |-> from, before |-> reading.now]
  ELSE /\ IF who.call = "resize" /\ desired_reload(from) = current_reload
          THEN Returns
          ELSE /\ at' = "second" /\ UNCHANGED who
               /\ local' = [local EXCEPT !.from = from, !.first = first,
                                         !.next = desired_reload(from)]
       /\ UNCHANGED reading

\* With COUNTFLAG clear a zero is a counter not reloaded yet.
unwrapped(val) ==
  IF val = 0 THEN [from |-> base, first |-> current_reload + 1]
  ELSE [from |-> base + (current_reload - val), first |-> val]

\* Reading CTRL clears COUNTFLAG.  Set, VAL is taken again.
read_ctrl ==
  /\ at = "ctrl"
  /\ Then([hw EXCEPT !.flag = FALSE])
  /\ IF hw.flag
     THEN at' = "reval" /\ UNCHANGED <<who, local, reading>>
     ELSE With(unwrapped(local.val).from, unwrapped(local.val).first)
  /\ UNCHANGED <<soft, calls>>

reread_val ==
  /\ at = "reval"
  /\ With(base + (current_reload + 1) + (current_reload - hw.val), hw.val)
  /\ Then(hw)
  /\ UNCHANGED <<soft, calls>>

-----------------------------------------------------------------------------
(* restart_from_now_locked *)

read_second ==
  /\ at = "second" /\ at' = "load"
  /\ local' = [local EXCEPT !.second = IF hw.val = 0 THEN current_reload + 1 ELSE hw.val]
  /\ Then(hw)
  /\ UNCHANGED <<soft, who, calls, reading>>

write_load ==
  /\ at = "load" /\ at' = "write"
  /\ Then([hw EXCEPT !.load = local.next])
  /\ UNCHANGED <<soft, who, local, calls, reading>>

\* Any write to VAL zeroes it and clears COUNTFLAG.
write_val ==
  /\ at = "write" /\ at' = "clear"
  /\ Then([hw EXCEPT !.val = 0, !.flag = FALSE])
  /\ UNCHANGED <<soft, who, local, calls, reading>>

\* A second reading above the first is a counter that has reloaded.
between ==
  IF local.second <= local.first THEN local.first - local.second
  ELSE local.first + (current_reload + 1 - local.second)

\* Mutant: the exception of the interval restarted is left pending.
KeepsPending(h) == h

pendstclr(h) == [h EXCEPT !.pend = FALSE]

clear_pending ==
  /\ at = "clear"
  /\ Then(pendstclr(hw))
  /\ base' = local.from + between
  /\ current_reload' = local.next
  /\ Returns
  /\ UNCHANGED <<armed_deadline, delivery_enabled, calls, reading>>

-----------------------------------------------------------------------------
(* The driver's masked sections *)

\* The kernel masks, here or in the callback of the exception.
Section == at = "in" /\ calls > 0 /\ calls' = calls - 1

mask ==
  /\ at = "out" /\ at' = "in"
  /\ calls' = MaskedCalls
  /\ Then(hw)
  /\ UNCHANGED <<soft, who, local, reading>>

unmask ==
  /\ at = "in" /\ at' = "out"
  /\ calls' = 0 /\ who' = [who EXCEPT !.isr = FALSE]
  /\ Then(hw)
  /\ UNCHANGED <<soft, local, reading>>

systick_now ==
  /\ Section
  /\ at' = "val" /\ who' = [who EXCEPT !.call = "now"]
  /\ UNCHANGED <<hw, soft, local, reading>>

\* The hardware is disturbed only when the interval would end too late.
systick_arm(d) ==
  /\ Section
  /\ armed_deadline' = Min({armed_deadline, d})
  /\ IF armed_deadline' < interval_end
     THEN at' = "val" /\ who' = [who EXCEPT !.call = "retime"]
     ELSE UNCHANGED <<at, who>>
  /\ UNCHANGED <<hw, base, current_reload, delivery_enabled, local, reading>>

systick_disarm ==
  /\ Section
  /\ armed_deadline' = NoDeadline
  /\ UNCHANGED <<hw, base, current_reload, delivery_enabled, at, who, local, reading>>

\* irq_enable and irq_disable gate the callback and leave the exception on.
systick_irq ==
  /\ Section
  /\ delivery_enabled' = ~delivery_enabled
  /\ UNCHANGED <<hw, base, current_reload, armed_deadline, at, who, local, reading>>

\* Nothing of the port runs.
elsewhere ==
  /\ at = "out" /\ ~hw.pend
  /\ Then(hw)
  /\ UNCHANGED <<soft, at, who, local, calls, reading>>

-----------------------------------------------------------------------------
(* The exception *)

hit == armed_deadline # NoDeadline /\ base' >= armed_deadline

\* Taking it clears the pending bit, and its first read consumes the wrap.
SysTick_Handler ==
  /\ at = "out" /\ hw.pend
  /\ Then([hw EXCEPT !.pend = FALSE, !.flag = FALSE])
  /\ base' = base + current_reload + 1
  /\ armed_deadline' = IF hit THEN NoDeadline ELSE armed_deadline
  /\ calls' = IF hit /\ delivery_enabled THEN MaskedCalls ELSE 0
  /\ at' = "val" /\ who' = [call |-> "resize", isr |-> TRUE]
  /\ UNCHANGED <<current_reload, delivery_enabled, local, reading>>

SysTickNext ==
  \/ mask \/ unmask \/ elsewhere \/ SysTick_Handler
  \/ systick_now \/ systick_disarm \/ systick_irq
  \/ \E d \in SysDeadlines : systick_arm(d)
  \/ read_val \/ read_ctrl \/ reread_val
  \/ read_second \/ write_load \/ write_val \/ clear_pending

SysTickSpec == SysTickInit /\ [][SysTickNext]_systick

-----------------------------------------------------------------------------
(* Properties *)

\* now() never runs ahead of the counter, wherever a wrap falls among the
\* accesses of a read, a restart or the exception: a wrap folded into base is
\* never counted again by the exception it pended (the leap of a whole period
\* that restart_interval_locked and restart_from_now_locked describe).
NowNeverAhead == reading.now <= hw.cycles /\ base <= hw.cycles

\* No interval runs past the deadline armed by more than the accesses that
\* started it: arm() restarts whatever would end too late, and the exception
\* sizes the next interval by what is still armed.
DeadlineWithinInterval ==
  (at \in {"in", "out"} /\ armed_deadline # NoDeadline) =>
     interval_end <= Max({armed_deadline, base + MinPeriod}) + 3 * Gap

\* port_mcu.h of cyros_port_time_now: "Must be monotonic 64-bit in "port
\* ticks"".  A wrap that lands while a section is masked is seen by its first
\* read, which clears COUNTFLAG, and by no later one.
NowIsMonotonic == reading.before <= reading.now
=============================================================================
