----------------------------- MODULE TimeDriver -----------------------------
(***************************************************************************)
(* The periodic and tickless time drivers (src/time), on one core: its     *)
(* timetable, the calls of its threads, and its timer interrupt, whose     *)
(* callbacks may call the driver again.  A section under irq_guard is one  *)
(* step; start and stop, which are not wholly under one, are several.      *)
(***************************************************************************)
EXTENDS TimeSource

CONSTANTS Slots,       \* MAX_SCHEDULED_CALLBACKS
          IdSpace,     \* 2^32, the values of an id
          Deadlines,   \* what clients ask schedule_at for
          Intervals,   \* and schedule_recurring
          StopRaces    \* whether other threads of the core call while one is in stop()

TimeDriverAssumption == Slots \in Nat /\ IdSpace \in Nat \ {0, 1} /\ 0 \notin Intervals

VARIABLES
  slots, next_id, started,
  handles,   \* the ids issued since initialise()
  life,      \* how far start() or stop() has come
  isr,       \* the interrupt: whether it runs, is in a callback, its slot and its now
  ran        \* the ids whose callback was called

ttable == <<slots, next_id, started, handles>>
td == <<hardware, ttable, life, isr, ran>>

Table == 1..Slots
free == [id |-> 0, when |-> 0, period |-> 0]
quiet == [runs |-> FALSE, calls |-> FALSE, at |-> 1, now |-> 0]

\* A table whose ids are about to run out of bits is as possible as a new one.
DriverInit ==
  /\ SourceInit
  /\ slots = [i \in Table |-> free]
  /\ next_id \in {1, IdSpace - 1}
  /\ started = FALSE /\ handles = {} /\ life = "idle" /\ isr = quiet /\ ran = {}

Used == {i \in Table : slots[i].id # 0}

next_handle_id == IF next_id = 0 THEN 1 ELSE next_id

\* The loop of the interrupt, one period at a time.
RECURSIVE advanced(_, _, _)
advanced(when, period, now) ==
  IF when + period <= now THEN advanced(when + period, period, now) ELSE when + period

earliest(s) == Min({Never} \cup {s[i].when : i \in {j \in Table : s[j].id # 0}})

\* Mutant: the one-shot stays where it was.
ArmsNothing(s) == UNCHANGED line

rearm_locked(s) ==
  IF earliest(s) = Never THEN cyros_port_time_disarm ELSE cyros_port_time_arm(earliest(s))

\* The periodic driver has no one-shot, and a core not started none yet.
Rearmed(s) ==
  /\ IF mode = "tickless" /\ started THEN rearm_locked(s) ELSE UNCHANGED line
  /\ UNCHANGED <<choice, raw, ticks, next_tick, queued, ready>>

-----------------------------------------------------------------------------
(* The calls, of a thread or of a callback *)

\* The first free slot.  handles bounds the model to ids not issued before.
Place(when, period) ==
  LET i == Min(Table \ Used)
      s == [slots EXCEPT ![i] = [id |-> next_handle_id, when |-> when, period |-> period]]
  IN /\ Table # Used
     /\ next_handle_id \notin handles
     /\ slots' = s
     /\ next_id' = (next_handle_id + 1) % IdSpace
     /\ handles' = handles \cup {next_handle_id}
     /\ Rearmed(s)
     /\ UNCHANGED started

schedule_at(tp) == Place(tp, 0)

\* Pended on a core not started: when = 0 until start() anchors it.
schedule_recurring(p) == Place(IF started THEN cyros_port_time_now + p ELSE 0, p)

\* A handle of a timer that has fired or was cancelled finds nothing.
cancel(h) ==
  \E i \in Used :
    LET s == [slots EXCEPT ![i] = free]
    IN /\ slots[i].id = h
       /\ slots' = s
       /\ Rearmed(s)
       /\ UNCHANGED <<next_id, started, handles>>

Call ==
  \/ \E tp \in Deadlines : schedule_at(tp)
  \/ \E p \in Intervals : schedule_recurring(p)
  \/ \E h \in handles : cancel(h)

thread_call ==
  /\ ~isr.runs /\ ~Interruptible
  /\ StopRaces \/ life \notin {"disarm", "stop"}
  /\ Call
  /\ UNCHANGED <<life, isr, ran>>

-----------------------------------------------------------------------------
(* start and stop, by the core's own thread *)

LifeStep(from, to) ==
  /\ ~isr.runs /\ ~Interruptible
  /\ life = from /\ life' = to
  /\ UNCHANGED <<isr, ran>>

start_setup ==
  /\ LifeStep("idle", "anchor")
  /\ ~started
  /\ cyros_port_time_setup
  /\ UNCHANGED ttable

\* Mutant: only the first recurring timer is anchored.
AnchorsOne ==
  LET pended == {i \in Used : slots[i].period # 0 /\ slots[i].when = 0}
  IN [i \in Table |-> IF i \in pended /\ i = Min(pended)
                      THEN [slots[i] EXCEPT !.when = cyros_port_time_now + slots[i].period]
                      ELSE slots[i]]

anchor_pended_recurring ==
  [i \in Table |-> IF i \in Used /\ slots[i].period # 0 /\ slots[i].when = 0
                   THEN [slots[i] EXCEPT !.when = cyros_port_time_now + slots[i].period]
                   ELSE slots[i]]

start_anchor ==
  /\ LifeStep("anchor", "enable")
  /\ slots' = anchor_pended_recurring
  /\ started' = TRUE
  /\ IF mode = "tickless" THEN rearm_locked(slots') ELSE UNCHANGED line
  /\ UNCHANGED <<choice, raw, ticks, next_tick, queued, ready, next_id, handles>>

start_enable ==
  /\ LifeStep("enable", "idle")
  /\ cyros_port_time_irq_enable
  /\ UNCHANGED <<choice, raw, ticks, next_tick, queued, ready, ttable>>

\* irq_disable, and for the one-shot disarm.
stop_disable ==
  /\ LifeStep("idle", IF mode = "tickless" THEN "disarm" ELSE "stop")
  /\ started
  /\ cyros_port_time_irq_disable
  /\ UNCHANGED <<choice, raw, ticks, next_tick, queued, ready, ttable>>

stop_disarm ==
  /\ LifeStep("disarm", "stop")
  /\ cyros_port_time_disarm
  /\ UNCHANGED <<choice, raw, ticks, next_tick, queued, ready, ttable>>

stop ==
  /\ LifeStep("stop", "idle")
  /\ started' = FALSE
  /\ UNCHANGED <<hardware, slots, next_id, handles>>

\* finalise(), with the kernel stopped, and the next initialise().
finalise ==
  /\ ~isr.runs /\ life = "idle"
  /\ cyros_port_time_teardown
  /\ slots' = [i \in Table |-> free]
  /\ next_id' = 1 /\ started' = FALSE /\ handles' = {} /\ ran' = {}
  /\ UNCHANGED <<life, isr>>

-----------------------------------------------------------------------------
(* The interrupt *)

\* on_timer_isr reads the time once, on entry.
interrupt ==
  /\ ~isr.runs
  /\ Interrupt(LAMBDA called :
       isr' = IF called THEN [quiet EXCEPT !.runs = TRUE, !.now = cyros_port_time_now']
              ELSE quiet)
  /\ UNCHANGED <<ttable, life, ran>>

Due(n, from) == {i \in Used : i >= from /\ slots[i].when <= n}

\* Mutant: the callback runs with its one-shot still in the table.
FreesAfter(i) ==
  slots' = [slots EXCEPT ![i].when = IF slots[i].period = 0 THEN @
                                     ELSE advanced(@, slots[i].period, isr.now)]

\* The slot is freed or advanced before the callback is called.
taken(i) ==
  slots' = [slots EXCEPT ![i] =
              IF slots[i].period = 0 THEN free
              ELSE [@ EXCEPT !.when = advanced(@, slots[i].period, isr.now)]]

\* The walk goes on behind the slot fired, so a callback's own schedule is seen
\* by this walk only in a later slot.
fire_due_isr ==
  /\ isr.runs /\ ~isr.calls
  /\ Due(isr.now, isr.at) # {}
  /\ LET i == Min(Due(isr.now, isr.at))
     IN /\ taken(i)
        /\ ran' = ran \cup {slots[i].id}
        /\ isr' = [isr EXCEPT !.calls = TRUE, !.at = i + 1]
  /\ UNCHANGED <<hardware, next_id, started, handles, life>>

callback ==
  /\ isr.runs /\ isr.calls
  /\ isr' = [isr EXCEPT !.calls = FALSE]
  /\ Call \/ UNCHANGED <<hardware, ttable>>
  /\ UNCHANGED <<life, ran>>

\* The walk is done: the tickless driver arms for what is left.
isr_rearm ==
  /\ isr.runs /\ ~isr.calls
  /\ Due(isr.now, isr.at) = {}
  /\ IF mode = "tickless" THEN rearm_locked(slots) ELSE UNCHANGED line
  /\ isr' = quiet
  /\ UNCHANGED <<choice, raw, ticks, next_tick, queued, ready, ttable, life, ran>>

clock == Clock /\ UNCHANGED <<ttable, life, isr, ran>>
expire == linux_expire /\ UNCHANGED <<ttable, life, isr, ran>>

DriverNext ==
  \/ thread_call \/ start_setup \/ start_anchor \/ start_enable
  \/ stop_disable \/ stop_disarm \/ stop \/ finalise
  \/ interrupt \/ fire_due_isr \/ callback \/ isr_rearm
  \/ clock \/ expire

DriverSpec == DriverInit /\ [][DriverNext]_td

-----------------------------------------------------------------------------
(* Properties *)

Pended == Never + 1

\* The timers scheduled; a recurring one whose sentinel start() has yet to
\* anchor is pended.
Timers ==
  {IF slots[i].period # 0 /\ slots[i].when = 0
   THEN [slots[i] EXCEPT !.when = Pended] ELSE slots[i] : i \in Used}

\* What would interrupt for the earliest deadline.
Covered == (compare <= earliest(slots)) \/ queued \/ isr.runs

\* The tickless driver's started core always has an interrupt on its way for
\* its earliest live deadline: rearm_locked runs after every change of the
\* table, wherever a start, an interrupt or its callbacks make it, and
\* irq_enable programs the POSIX timer again from the record.
EarliestIsArmed ==
  (mode = "tickless" /\ source = "linux" /\ started /\ life = "idle") => Covered

\* port_mcu.h of cyros_port_time_setup: "The port must deliver the registered
\* ISR handler when time_now() >= armed deadline."  The compare interrupt of
\* port_time_mtime.cpp that arrives between start()'s arm and its irq_enable
\* clears the deadline it does not deliver, and nothing arms it again.
DeadlineIsKept ==
  (mode = "tickless" /\ source = "mtime" /\ started /\ life = "idle") => Covered
=============================================================================
