-------------------------------- MODULE Mtime --------------------------------
(***************************************************************************)
(* What the MTIME time source needs of a target (src/port/common's         *)
(* mtime.hpp), register by register: the count read as two words, the      *)
(* compare written as three stores (riscv_virt, and the RP2350's cores),   *)
(* and the compare the RP2040 builds over an alarm that only matches the   *)
(* low word.  The count goes on between any two accesses.                  *)
(***************************************************************************)
EXTENDS Integers, FiniteSetsExt

CONSTANTS Word,        \* 2^32
          MaxMtime,    \* bound on the count
          Compares,    \* what the time source asks for
          NoCompare    \* never

MtimeAssumption == Word \in Nat \ {0, 1} /\ MaxMtime \in Nat

VARIABLES
  target_kind,  \* "mtimecmp" or "alarm"
  mtime,        \* the count
  mtimecmp,     \* high and low words of the compare
  alarm,        \* the RP2040's: ALARM, ARMED, INTR and INTF
  access,       \* the next access, "none" between calls
  reader,       \* the words read, the count when the read began, the last value
  compare       \* the compare asked for, and the one before

mtime_vars == <<target_kind, mtime, mtimecmp, alarm, access, reader, compare>>

high(v) == v \div Word
low(v) == v % Word
last == Word * Word - 1

MtimeInit ==
  /\ target_kind \in {"mtimecmp", "alarm"}
  /\ mtime = 0
  /\ mtimecmp = [high |-> Word - 1, low |-> Word - 1]
  /\ alarm = [value |-> 0, armed |-> FALSE, intr |-> FALSE, intf |-> FALSE]
  /\ access = "none"
  /\ reader = [high |-> 0, low |-> 0, began |-> 0, value |-> 0, for |-> "none"]
  /\ compare = [asked |-> NoCompare, before |-> NoCompare]

\* The count goes on, and an armed alarm fires once as it passes its value.
Passes ==
  /\ mtime < MaxMtime
  /\ mtime' = mtime + 1
  /\ alarm' = IF alarm.armed /\ low(mtime') = alarm.value
              THEN [alarm EXCEPT !.armed = FALSE, !.intr = TRUE] ELSE alarm
  /\ UNCHANGED <<target_kind, mtimecmp, access, reader, compare>>

\* The interrupt's line: the level of a compare, or what the alarm holds.
raised ==
  IF target_kind = "mtimecmp" THEN mtime >= mtimecmp.high * Word + mtimecmp.low
  ELSE alarm.intr \/ alarm.intf

-----------------------------------------------------------------------------
(* read(): high, low, and high again until it is the same *)

Reads(for) == access' = "high" /\ reader' = [reader EXCEPT !.began = mtime, !.for = for]

read ==
  /\ access = "none" /\ Reads("none")
  /\ UNCHANGED <<target_kind, mtime, mtimecmp, alarm, compare>>

read_high ==
  /\ access = "high" /\ access' = "low"
  /\ reader' = [reader EXCEPT !.high = high(mtime)]
  /\ UNCHANGED <<target_kind, mtime, mtimecmp, alarm, compare>>

read_low ==
  /\ access = "low" /\ access' = "again"
  /\ reader' = [reader EXCEPT !.low = low(mtime)]
  /\ UNCHANGED <<target_kind, mtime, mtimecmp, alarm, compare>>

\* Mutant: the high word is not looked at again.
NeverRetries == TRUE

unmoved == high(mtime) = reader.high

\* Where the RP2040's compare_write goes on with the count it has read.
decides(now) ==
  CASE reader.for = "none" -> "none"
    [] reader.for = "ahead" -> IF now < compare.asked THEN "alarm" ELSE "force"
    [] reader.for = "passed" -> IF now < compare.asked THEN "none" ELSE "armed"

read_again ==
  /\ access = "again"
  /\ IF unmoved
     THEN LET now == reader.high * Word + reader.low
          IN access' = decides(now) /\ reader' = [reader EXCEPT !.value = now]
     ELSE access' = "high" /\ UNCHANGED reader
  /\ UNCHANGED <<target_kind, mtime, mtimecmp, alarm, compare>>

-----------------------------------------------------------------------------
(* compare_write *)

\* The first store of each: all ones, or the alarm disarmed.
compare_write(v) ==
  /\ access = "none"
  /\ compare' = [asked |-> v, before |-> compare.asked]
  /\ access' = IF target_kind = "mtimecmp" THEN "ones" ELSE "disarm"
  /\ UNCHANGED <<target_kind, mtime, mtimecmp, alarm, reader>>

\* Mutant: the low word keeps what it held.
KeepsLow == mtimecmp.low

all_ones == Word - 1

write_ones ==
  /\ access = "ones" /\ access' = "cmph"
  /\ mtimecmp' = [mtimecmp EXCEPT !.low = all_ones]
  /\ UNCHANGED <<target_kind, mtime, alarm, reader, compare>>

asked_value == IF compare.asked = NoCompare THEN last ELSE compare.asked

write_high ==
  /\ access = "cmph" /\ access' = "cmp"
  /\ mtimecmp' = [mtimecmp EXCEPT !.high = high(asked_value)]
  /\ UNCHANGED <<target_kind, mtime, alarm, reader, compare>>

write_low ==
  /\ access = "cmp" /\ access' = "none"
  /\ mtimecmp' = [mtimecmp EXCEPT !.low = low(asked_value)]
  /\ UNCHANGED <<target_kind, mtime, alarm, reader, compare>>

AlarmStep(from, to, a) ==
  /\ access = from /\ access' = to
  /\ alarm' = a
  /\ UNCHANGED <<target_kind, mtime, mtimecmp, reader, compare>>

alarm_disarm == AlarmStep("disarm", "intr", [alarm EXCEPT !.armed = FALSE])
alarm_lower_intr == AlarmStep("intr", "intf", [alarm EXCEPT !.intr = FALSE])

\* INTF cleared, and a compare of never is done.
alarm_lower_intf ==
  /\ access = "intf"
  /\ alarm' = [alarm EXCEPT !.intf = FALSE]
  /\ IF compare.asked = NoCompare THEN access' = "none" /\ UNCHANGED reader
     ELSE Reads("ahead")
  /\ UNCHANGED <<target_kind, mtime, mtimecmp, compare>>

\* Mutant: the count is not looked at after arming.
ArmsAndReturns == access' = "none" /\ UNCHANGED reader

looks_after_arming == Reads("passed")

\* Writing ALARM arms it.
alarm_arm ==
  /\ access = "alarm"
  /\ alarm' = [alarm EXCEPT !.value = low(compare.asked), !.armed = TRUE]
  /\ looks_after_arming
  /\ UNCHANGED <<target_kind, mtime, mtimecmp, compare>>

\* Passed: disarmed means fired, and still armed that the arm came too late.
alarm_check_armed ==
  AlarmStep("armed", IF alarm.armed THEN "undo" ELSE "none", alarm)

alarm_undo == AlarmStep("undo", "force", [alarm EXCEPT !.armed = FALSE])
alarm_force == AlarmStep("force", "none", [alarm EXCEPT !.intf = TRUE])

MtimeNext ==
  \/ Passes
  \/ read \/ read_high \/ read_low \/ read_again
  \/ \E v \in Compares : compare_write(v)
  \/ write_ones \/ write_high \/ write_low
  \/ alarm_disarm \/ alarm_lower_intr \/ alarm_lower_intf \/ alarm_arm
  \/ alarm_check_armed \/ alarm_undo \/ alarm_force

MtimeSpec == MtimeInit /\ [][MtimeNext]_mtime_vars

-----------------------------------------------------------------------------
(* Properties *)

\* mtime.hpp of read(): "MTIME, all 64 bits, as one consistent value".  A carry
\* between the two words, at any point of the three loads, is never returned.
ReadIsConsistent ==
  access \notin {"high", "low", "again"} => reader.value \in reader.began..mtime

\* mtime.hpp of compare_write: "without a spurious interrupt in between".  No
\* store of the sequence leaves a compare below both the old and the new one.
NoSpuriousCompare ==
  (target_kind = "mtimecmp" /\ raised) =>
     \E v \in {compare.asked, compare.before} : v # NoCompare /\ v <= mtime

\* The RP2040's alarm serves as a compare: whichever of its steps the count
\* passes the value in, a value reached holds the line until the next write.
AlarmHoldsTheLine ==
  (target_kind = "alarm" /\ access = "none" /\ compare.asked # NoCompare
     /\ compare.asked <= mtime) => raised
=============================================================================
