----------------------------- MODULE Simulation -----------------------------
(***************************************************************************)
(* The simulation time driver (src/time/simulation): one clock for every   *)
(* core, virtual or real, each core's list of events, and the pump that    *)
(* takes the due ones off every list and calls them outside the locks,     *)
(* while other threads schedule and cancel.  A hold of a list's mutex is   *)
(* one step.                                                               *)
(***************************************************************************)
EXTENDS Integers, Sequences, SequencesExt

CONSTANTS CoreCount,
          Ids,                       \* ids a core may issue, before the bound
          MaxNow,                    \* bound on either clock
          SimDeadlines, SimIntervals \* what clients ask for

SimulationAssumption == CoreCount \in Nat \ {0} /\ Ids \in Nat /\ 0 \notin SimIntervals

VARIABLES
  events, sim_next_id,             \* per core
  simMode, running, simStarted,
  virtual_now, wall, epoch,    \* the two clocks, and the real one's zero
  pump,                        \* the pump: its place, core, now, and the event taken
  opening,                     \* how far a real_time start() has come
  fired                        \* the events whose callback was called

lists == <<events, sim_next_id>>
clocks == <<virtual_now, wall, epoch>>
state == <<simMode, running, simStarted>>
sim == <<lists, state, clocks, pump, opening, fired>>

SimCores == 0..(CoreCount - 1)
resting == [at |-> "idle", core |-> 0, now |-> 0]

SimInit ==
  /\ events = [c \in SimCores |-> <<>>]
  /\ sim_next_id = [c \in SimCores |-> 1]
  /\ simMode = "virtual_time" /\ running = FALSE /\ simStarted = FALSE
  /\ virtual_now = 0 /\ wall = 0 /\ epoch = 0
  /\ pump = resting /\ opening = "no" /\ fired = {}

realtime_now_ticks == IF simStarted THEN wall - epoch ELSE 0

sim_now == IF simMode = "virtual_time" THEN virtual_now ELSE realtime_now_ticks

-----------------------------------------------------------------------------
(* Clients: any thread, and the callbacks the pump calls *)

push_back(c, when, period) ==
  /\ sim_next_id[c] <= Ids
  /\ events' = [events EXCEPT ![c] =
                  Append(@, [id |-> sim_next_id[c], when |-> when, period |-> period,
                             cancelled |-> FALSE])]
  /\ sim_next_id' = [sim_next_id EXCEPT ![c] = @ + 1]

sim_schedule_at(c, tp) == push_back(c, tp, 0)

sim_schedule_recurring(c, p) == push_back(c, sim_now + p, p)

\* Marked, and erased by the next pass of the pump.
sim_cancel(c, h) ==
  /\ \E i \in DOMAIN events[c] :
       /\ events[c][i].id = h /\ ~events[c][i].cancelled
       /\ events' = [events EXCEPT ![c][i].cancelled = TRUE]
  /\ UNCHANGED sim_next_id

SimCall ==
  \E c \in SimCores :
    \/ \E tp \in SimDeadlines : sim_schedule_at(c, tp)
    \/ \E p \in SimIntervals : sim_schedule_recurring(c, p)
    \/ \E h \in 1..Ids : sim_cancel(c, h)

sim_client == SimCall /\ UNCHANGED <<state, clocks, pump, opening, fired>>

-----------------------------------------------------------------------------
(* fire_due_callbacks *)

due(e) == ~e.cancelled /\ e.when <= pump.now

\* Mutant: the recurring event moves one period, whatever was missed.
StepsOnce(e) == IF e.period = 0 THEN <<>> ELSE <<[e EXCEPT !.when = @ + e.period]>>

\* What the list keeps of the event taken: the next point of its grid after now.
kept(e) ==
  IF e.period = 0 THEN <<>>
  ELSE <<[e EXCEPT !.when = e.when + e.period * ((pump.now - e.when) \div e.period + 1)]>>

\* One pass: the cancelled are erased, and the first due event is taken and
\* called before the next is looked for.
fire_pass ==
  LET c == pump.core
      live == SelectSeq(events[c], LAMBDA e : ~e.cancelled)
      i == SelectInSeq(live, due)
  IN /\ pump.at = "pass" /\ c \in SimCores
     /\ IF i = 0
        THEN /\ events' = [events EXCEPT ![c] = live]
             /\ pump' = [pump EXCEPT !.core = c + 1]
             /\ UNCHANGED fired
        ELSE /\ events' = [events EXCEPT ![c] =
                             SubSeq(live, 1, i - 1) \o kept(live[i])
                               \o SubSeq(live, i + 1, Len(live))]
             /\ pump' = [pump EXCEPT !.at = "call"]
             /\ fired' = fired \cup {live[i].id + c * (Ids + 1)}
     /\ UNCHANGED <<sim_next_id, state, clocks, opening>>

\* The callback, outside the lock, may itself schedule and cancel.
fire_call ==
  /\ pump.at = "call"
  /\ pump' = [pump EXCEPT !.at = "pass"]
  /\ SimCall \/ UNCHANGED lists
  /\ UNCHANGED <<state, clocks, opening, fired>>

\* Every core's list has been served.
fire_done ==
  /\ pump.at = "pass" /\ pump.core = CoreCount
  /\ pump' = resting
  /\ UNCHANGED <<lists, state, clocks, opening, fired>>

pump_due(now) == pump.at = "idle" /\ pump' = [resting EXCEPT !.at = "pass", !.now = now]

-----------------------------------------------------------------------------
(* The clocks *)


advance_target(tp) == IF tp > virtual_now THEN tp ELSE virtual_now

\* advance_to, and advance_by through it.
advance_to(tp) ==
  /\ simMode = "virtual_time"
  /\ virtual_now' = advance_target(tp)
  /\ pump_due(virtual_now')
  /\ UNCHANGED <<lists, state, wall, epoch, opening, fired>>

\* The background thread of real_time: a millisecond's sleep, then a pump.
realtime_thread_main ==
  /\ running /\ opening = "no"
  /\ pump_due(sim_now)
  /\ UNCHANGED <<lists, state, clocks, opening, fired>>

wall_clock ==
  /\ simMode = "real_time" /\ wall < MaxNow
  /\ wall' = wall + 1
  /\ UNCHANGED <<lists, state, virtual_now, epoch, pump, opening, fired>>

\* started is set before the epoch, and now() is wrong in between.
sim_start ==
  /\ opening = "no" /\ (simMode = "virtual_time" => ~simStarted)
  /\ simStarted' = TRUE
  /\ IF simMode = "real_time" /\ ~running
     THEN running' = TRUE /\ opening' = "epoch"
     ELSE UNCHANGED <<running, opening>>
  /\ UNCHANGED <<lists, simMode, clocks, pump, fired>>

sim_start_epoch ==
  /\ opening = "epoch"
  /\ epoch' = wall /\ opening' = "no"
  /\ UNCHANGED <<lists, state, virtual_now, wall, pump, fired>>

\* stop() joins the thread, so its last pump is over.
sim_stop ==
  /\ running /\ opening = "no" /\ pump.at = "idle"
  /\ running' = FALSE
  /\ UNCHANGED <<lists, simMode, simStarted, clocks, pump, opening, fired>>

set_mode(m) ==
  /\ ~running /\ pump.at = "idle"
  /\ simMode' = m
  /\ UNCHANGED <<lists, running, simStarted, clocks, pump, opening, fired>>

reset(tp) ==
  /\ ~running /\ pump.at = "idle"
  /\ events' = [c \in SimCores |-> <<>>]
  /\ sim_next_id' = [c \in SimCores |-> 1]
  /\ virtual_now' = tp /\ simStarted' = FALSE /\ epoch' = 0
  /\ fired' = {}
  /\ UNCHANGED <<simMode, running, wall, pump, opening>>

SimNext ==
  \/ sim_client
  \/ fire_pass \/ fire_call \/ fire_done
  \/ \E tp \in 0..MaxNow : advance_to(tp)
  \/ \E tp \in SimDeadlines : reset(tp)
  \/ realtime_thread_main \/ wall_clock
  \/ sim_start \/ sim_start_epoch \/ sim_stop
  \/ \E m \in {"virtual_time", "real_time"} : set_mode(m)

SimSpec == SimInit /\ [][SimNext]_sim

-----------------------------------------------------------------------------
(* Properties *)

\* The pump's clock: the one its passes are measured against.
PumpClock == IF simMode = "virtual_time" THEN virtual_now
             ELSE IF simStarted /\ opening = "no" THEN wall - epoch ELSE 0

\* The timers scheduled, over every core's list.
SimTimers ==
  UNION {{[id |-> e.id + c * (Ids + 1), when |-> e.when, period |-> e.period] :
            e \in {x \in Range(events[c]) : ~x.cancelled}} : c \in SimCores}

SimGoing == simMode = "virtual_time" \/ (running /\ opening = "no")
=============================================================================
