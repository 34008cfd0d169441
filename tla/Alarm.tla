-------------------------------- MODULE Alarm --------------------------------
(***************************************************************************)
(* chrono::alarm (src/userlib/chrono) and the callback that raises it:     *)
(* one thread arms an alarm, waits on it, alone or as the deadline of a    *)
(* wait on something else, disarms it and lets it go.  On a hardware       *)
(* driver the callback is the timer interrupt of the thread's own core;    *)
(* under simulation it runs in the pump, outside the pump's lock.          *)
(***************************************************************************)
EXTENDS Naturals

CONSTANT AlarmDrivers   \* of {"hardware", "simulation"}

VARIABLES
  alarmDriver,
  timer,       \* "scheduled" while the driver has it in its table, or "none"
  callback_at, \* how far raise() has come
  raised_flag,
  linked,      \* the thread's node is in the alarm's wait_queue
  sleeper      \* where the thread is

alarm_vars == <<alarmDriver, timer, callback_at, raised_flag, linked, sleeper>>

AlarmInit ==
  /\ alarmDriver \in AlarmDrivers
  /\ timer = "none" /\ callback_at = "idle" /\ raised_flag = FALSE /\ linked = FALSE
  /\ sleeper = "out"

\* raise_all holds the lock of the wait_queue over its steps.
QueueLocked == callback_at \in {"flag", "ready"}

\* The thread does not run while its core's interrupt does.
Runs == alarmDriver = "hardware" => callback_at = "idle"

Thread(from, to) == Runs /\ sleeper = from /\ sleeper' = to

-----------------------------------------------------------------------------
(* The thread *)

\* reset(), and schedule_at.
arm_at ==
  /\ Thread("out", "armed")
  /\ raised_flag' = FALSE /\ timer' = "scheduled"
  /\ UNCHANGED <<alarmDriver, callback_at, linked>>

\* wait_on: the node is armed, the flag polled, and the thread parks.
wait_arm ==
  /\ Thread("armed", "poll")
  /\ ~QueueLocked /\ linked' = TRUE
  /\ UNCHANGED <<alarmDriver, timer, callback_at, raised_flag>>

wait_poll ==
  /\ Thread("poll", IF raised_flag THEN "unlink" ELSE "parked")
  /\ UNCHANGED <<alarmDriver, timer, callback_at, raised_flag, linked>>

\* What the thread waits on besides wakes it, or is there before it parks.
satisfied_first ==
  /\ Runs /\ sleeper \in {"armed", "parked"}
  /\ sleeper' = IF sleeper = "armed" THEN "disarm" ELSE "unlink"
  /\ UNCHANGED <<alarmDriver, timer, callback_at, raised_flag, linked>>

wait_disarm ==
  /\ Thread("unlink", "disarm")
  /\ ~QueueLocked /\ linked' = FALSE
  /\ UNCHANGED <<alarmDriver, timer, callback_at, raised_flag>>

\* disarm(): the cancel, and when it missed the wait for the callback.
disarm_cancel ==
  /\ Thread("disarm", IF timer = "scheduled" THEN "reset" ELSE "spin")
  /\ timer' = IF timer = "scheduled" THEN "none" ELSE timer
  /\ UNCHANGED <<alarmDriver, callback_at, raised_flag, linked>>

disarm_spin ==
  /\ raised_flag /\ Thread("spin", "reset")
  /\ UNCHANGED <<alarmDriver, timer, callback_at, raised_flag, linked>>

\* timer = {}, reset(), and the alarm may be destroyed, or armed again.
disarm_return ==
  /\ Thread("reset", "out")
  /\ raised_flag' = FALSE
  /\ UNCHANGED <<alarmDriver, timer, callback_at, linked>>

-----------------------------------------------------------------------------
(* The driver, and on_timer *)

\* The deadline: the driver takes the timer off its table and calls.
fire ==
  /\ timer = "scheduled" /\ callback_at = "idle"
  /\ timer' = "none" /\ callback_at' = "lock"
  /\ UNCHANGED <<alarmDriver, raised_flag, linked, sleeper>>

raise_lock ==
  /\ callback_at = "lock" /\ callback_at' = "flag"
  /\ UNCHANGED <<alarmDriver, timer, raised_flag, linked, sleeper>>


stores_flag == raised_flag' = TRUE

raise_flag ==
  /\ callback_at = "flag" /\ callback_at' = "ready"
  /\ stores_flag
  /\ UNCHANGED <<alarmDriver, timer, linked, sleeper>>

\* The waiter is readied inside the lock, and the lock released.
raise_ready ==
  /\ callback_at = "ready" /\ callback_at' = "idle"
  /\ linked' = FALSE
  /\ sleeper' = IF linked /\ sleeper = "parked" THEN "unlink" ELSE sleeper
  /\ UNCHANGED <<alarmDriver, timer, raised_flag>>

on_timer == raise_lock \/ raise_flag \/ raise_ready

AlarmNext ==
  \/ arm_at \/ wait_arm \/ wait_poll \/ satisfied_first \/ wait_disarm
  \/ disarm_cancel \/ disarm_spin \/ disarm_return
  \/ fire \/ on_timer

\* What the thread does without a choice of its own.
SleeperStep ==
  \/ wait_arm \/ wait_poll \/ wait_disarm
  \/ disarm_cancel \/ disarm_spin \/ disarm_return

AlarmSpec == AlarmInit /\ [][AlarmNext]_alarm_vars

-----------------------------------------------------------------------------
(* Properties *)

\* alarm.hpp of disarm: "returning from disarm always means the callback is
\* finished with this object".  Under simulation the spin ends on the flag,
\* which raise_all stores with the wakes and its unlock still to come.
DisarmIsTheEnd == (sleeper = "out") => callback_at = "idle"
=============================================================================
