------------------------------- MODULE MCTime -------------------------------
(***************************************************************************)
(* Small instances of the time drivers and of the time sources under them, *)
(* side by side: a behaviour is of one of them, chosen at the start and    *)
(* kept in `kind', and the variables that one does not have stay None.     *)
(***************************************************************************)
EXTENDS Integers, FiniteSets, TLC

CONSTANT None

VARIABLES kind,
  source, mode, raw, ticks, next_tick, armed, delivery, queued, ready,    \* TimeDriver
  slots, next_id, started, handles, life, isr, ran,
  events, sim_next_id, simMode, running, simStarted, virtual_now, wall,   \* Simulation
  pump, opening, fired,
  hw, base, current_reload, armed_deadline, delivery_enabled,             \* SysTick
  at, who, local, calls, reading,
  target_kind, mtime, mtimecmp, alarm, access, reader,                    \* Mtime
  gcount, timer_lock, compares, forced, timer2, deadline, step, mine, misread,   \* Gptimer
  compare, epoch           \* of TimeDriver and Mtime, of Simulation and Gptimer

drivers == <<source, mode, raw, ticks, next_tick, armed, delivery, queued, ready, slots,
             next_id, started, handles, life, isr, ran>>
sims == <<events, sim_next_id, simMode, running, simStarted, virtual_now, wall, pump,
          opening, fired>>
systicks == <<hw, base, current_reload, armed_deadline, delivery_enabled, at, who,
              local, calls, reading>>
mtimes == <<target_kind, mtime, mtimecmp, alarm, access, reader>>
gptimers == <<gcount, timer_lock, compares, forced, timer2, deadline, step, mine,
              misread>>
oneCompare == <<compare>>
oneEpoch == <<epoch>>
vars == <<kind, drivers, sims, systicks, mtimes, gptimers, oneCompare, oneEpoch>>

NoDriver ==
  /\ source = None /\ mode = None /\ raw = None /\ ticks = None /\ next_tick = None
  /\ armed = None /\ delivery = None /\ queued = None /\ ready = None /\ slots = None
  /\ next_id = None /\ started = None /\ handles = None /\ life = None /\ isr = None
  /\ ran = None

NoSimulation ==
  /\ events = None /\ sim_next_id = None /\ simMode = None /\ running = None
  /\ simStarted = None /\ virtual_now = None /\ wall = None /\ pump = None
  /\ opening = None /\ fired = None

NoSysTick ==
  /\ hw = None /\ base = None /\ current_reload = None /\ armed_deadline = None
  /\ delivery_enabled = None /\ at = None /\ who = None /\ local = None /\ calls = None
  /\ reading = None

NoMtime ==
  /\ target_kind = None /\ mtime = None /\ mtimecmp = None /\ alarm = None
  /\ access = None /\ reader = None

NoGptimer ==
  /\ gcount = None /\ timer_lock = None /\ compares = None /\ forced = None
  /\ timer2 = None /\ deadline = None /\ step = None /\ mine = None /\ misread = None

NoCompareReg ==
  /\ compare = None

NoEpoch ==
  /\ epoch = None

-----------------------------------------------------------------------------
\* Both hardware drivers over the POSIX timer, the machine timer and the tests'
\* counter; two slots, deadlines at zero and beyond a tick, ids that wrap.
driver == INSTANCE TimeDriver
  WITH Sources <- {"linux", "mtime", "coop"}, Modes <- {"periodic", "tickless"},
       TickPeriod <- 2, MaxTime <- 4, Never <- 99, Slots <- 2, IdSpace <- 4,
       Deadlines <- {0, 2}, Intervals <- {1}, StopRaces <- FALSE

\* Two cores' lists, each with one timer, one-shot or recurring.
simulation == INSTANCE Simulation
  WITH CoreCount <- 2, Ids <- 1, MaxNow <- 2, SimDeadlines <- {1}, SimIntervals <- {1}

\* Intervals of four to ten counts, and deadlines nearer and farther than one.
systick_timer == INSTANCE SysTick
  WITH MinPeriod <- 4, MaxPeriod <- 10, Gap <- 1, MaxCycles <- 26, SysDeadlines <- {5, 12},
       MaskedCalls <- 2, NoDeadline <- 999

\* Words of four counts, so that a carry falls inside a read and a write.
mtimer == INSTANCE Mtime WITH Word <- 4, MaxMtime <- 9, Compares <- {3, 6, 8, 99}, NoCompare <- 99

\* Two cores, the second reading and both arming across a wrap of the count.
gptimer == INSTANCE Gptimer
  WITH GpCores <- {0, 1}, GpReaders <- {1}, Radix <- 4, LongestArm <- 2, MaxCount <- 4,
       GpDeadlines <- {3, 99}, GpNever <- 99

ASSUME InstancesAssumption ==
  /\ driver!TimeSourceAssumption /\ driver!TimeDriverAssumption
  /\ simulation!SimulationAssumption
  /\ systick_timer!SysTickAssumption
  /\ mtimer!MtimeAssumption
  /\ gptimer!GptimerAssumption

-----------------------------------------------------------------------------
Init ==
  \/ kind = "driver" /\ driver!DriverInit
     /\ NoSimulation /\ NoSysTick /\ NoMtime /\ NoGptimer /\ NoEpoch
  \/ kind = "simulation" /\ simulation!SimInit
     /\ NoDriver /\ NoSysTick /\ NoMtime /\ NoGptimer /\ NoCompareReg
  \/ kind = "systick" /\ systick_timer!SysTickInit
     /\ NoDriver /\ NoSimulation /\ NoMtime /\ NoGptimer /\ NoCompareReg /\ NoEpoch
  \/ kind = "mtime" /\ mtimer!MtimeInit
     /\ NoDriver /\ NoSimulation /\ NoSysTick /\ NoGptimer /\ NoEpoch
  \/ kind = "gptimer" /\ gptimer!GptimerInit
     /\ NoDriver /\ NoSimulation /\ NoSysTick /\ NoMtime /\ NoCompareReg

\* The bound on the counts ends a behaviour of the SysTick.
Rests == kind = "systick" /\ UNCHANGED vars

Next ==
  \/ kind = "driver" /\ driver!DriverNext
     /\ UNCHANGED <<kind, sims, systicks, mtimes, gptimers, oneEpoch>>
  \/ kind = "simulation" /\ simulation!SimNext
     /\ UNCHANGED <<kind, drivers, systicks, mtimes, gptimers, oneCompare>>
  \/ kind = "systick" /\ systick_timer!SysTickNext
     /\ UNCHANGED <<kind, drivers, sims, mtimes, gptimers, oneCompare, oneEpoch>>
  \/ kind = "mtime" /\ mtimer!MtimeNext
     /\ UNCHANGED <<kind, drivers, sims, systicks, gptimers, oneEpoch>>
  \/ kind = "gptimer" /\ gptimer!GptimerNext
     /\ UNCHANGED <<kind, drivers, sims, systicks, mtimes, oneCompare>>
  \/ Rests

Spec == Init /\ [][Next]_vars

-----------------------------------------------------------------------------
(* Properties, each of the instances it is about *)

\* The timers of either driver, and a service with none for the others.
service == INSTANCE TimerService
  WITH Pended <- 100,
       timers  <- CASE kind = "driver"     -> driver!Timers
                    [] kind = "simulation" -> simulation!SimTimers
                    [] OTHER               -> {},
       clock   <- CASE kind = "driver"     -> driver!cyros_port_time_now
                    [] kind = "simulation" -> simulation!PumpClock
                    [] OTHER               -> 0,
       going   <- CASE kind = "driver"     -> started
                    [] kind = "simulation" -> simulation!SimGoing
                    [] OTHER               -> FALSE,
       serving <- CASE kind = "driver"     -> isr.now
                    [] kind = "simulation" -> pump.now
                    [] OTHER               -> 0,
       ran     <- CASE kind = "driver"     -> ran
                    [] kind = "simulation" -> fired
                    [] OTHER               -> {}


\* cyros_port_time_now is right wherever the accesses of a read fall.  The
\* SysTick's never runs ahead of the counter, a wrap folded into base being
\* counted once; the machine timer's is "all 64 bits, as one consistent value",
\* whatever carry falls between its words; and the LEON3's count() is one its
\* timer showed while it ran, never made of two epochs.
NowIsTrue ==
  /\ kind = "systick" => systick_timer!NowNeverAhead
  /\ kind = "mtime" => mtimer!ReadIsConsistent
  /\ kind = "gptimer" => gptimer!CountIsTrue

\* A deadline keeps an interrupt on its way.  The tickless driver's started core
\* has one for its earliest live deadline (rearm_locked, irq_enable); no SysTick
\* interval runs past the deadline armed (desired_reload); the RP2040's equality
\* alarm holds its line for a value the count has passed, and a compare written
\* as two words brings no interrupt of its own; on the LEON3, whichever core
\* takes the one timer's interrupt, every core's deadline is still covered.
DeadlineIsCovered ==
  /\ kind = "driver" => driver!EarliestIsArmed
  /\ kind = "systick" => systick_timer!DeadlineWithinInterval
  /\ kind = "mtime" => mtimer!AlarmHoldsTheLine /\ mtimer!NoSpuriousCompare
  /\ kind = "gptimer" => gptimer!DueIsCovered
=============================================================================
