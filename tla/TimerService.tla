---------------------------- MODULE TimerService ----------------------------
(***************************************************************************)
(* What a time driver promises (the contract of src/time's time.hpp): a    *)
(* set of timers against one clock.  A timer runs at or after its          *)
(* deadline, a one-shot once, a recurring one on a fixed grid, and a       *)
(* cancelled one never again.                                              *)
(***************************************************************************)
EXTENDS Naturals

CONSTANT Pended   \* the deadline of a recurring timer whose clock has not started

VARIABLES timers,         \* the timers scheduled, records of id, when and period
          clock, going,   \* and whether it is started
          serving,        \* the time the callbacks are being called for
          ran             \* the ids whose callback has been called

service == <<timers, clock, going, serving, ran>>

ServiceInit ==
  /\ timers = {} /\ clock \in Nat /\ going \in BOOLEAN /\ serving = 0
  /\ ran = {}

\* A fresh id, so that a handle names at most one timer.  The first point of a
\* recurring timer's grid is one period from now, once the clock goes.
Schedule(t) ==
  /\ (going /\ t.period # 0) => t.when = clock + t.period
  /\ \A u \in timers : u.id # t.id
  /\ t.id # 0 /\ t.id \notin ran
  /\ timers' = timers \cup {t}
  /\ UNCHANGED <<clock, going, serving, ran>>

Cancel(t) ==
  /\ timers' = timers \ {t}
  /\ UNCHANGED <<clock, going, serving, ran>>

\* The first point of the timer's grid after the time served: however many
\* were missed, the callback is called once.
Next_on_grid(t) == t.when + t.period * (((serving - t.when) \div t.period) + 1)

\* Never early, and a one-shot never again.
Fire(t) ==
  /\ t.when # Pended /\ t.when <= serving
  /\ timers' = (timers \ {t}) \cup
                 IF t.period = 0 THEN {} ELSE {[t EXCEPT !.when = Next_on_grid(t)]}
  /\ ran' = ran \cup {t.id}
  /\ UNCHANGED <<clock, going, serving>>

\* start(): the clock may begin anew, and what was pended begins with it.
Start ==
  /\ ~going /\ going' = TRUE
  /\ clock' \in Nat
  /\ timers' = {IF t.when = Pended THEN [t EXCEPT !.when = clock' + t.period] ELSE t :
                  t \in timers}
  /\ UNCHANGED <<serving, ran>>

Stop == going /\ going' = FALSE /\ clock' \in Nat /\ UNCHANGED <<timers, serving, ran>>

\* A started clock never runs back; one not started may be set up anew.  What
\* is due now may be served, and a service end.
Tick ==
  /\ clock' \in Nat /\ (going => clock' >= clock)
  /\ serving' \in {serving, clock', 0}
  /\ UNCHANGED <<timers, going, ran>>

\* finalise() and reset(): nothing scheduled survives.
Clear == timers' = {} /\ clock' \in Nat /\ going' \in BOOLEAN /\ ran' = {} /\ serving' = 0

\* A timer an implementation may add: what the quantifier ranges over is
\* whatever the step added.
Added == timers' \ timers

ServiceNext ==
  \/ \E t \in Added : Schedule(t)
  \/ \E t \in timers : Cancel(t) \/ Fire(t)
  \/ Start \/ Stop \/ Tick \/ Clear

ServiceSpec == ServiceInit /\ [][ServiceNext]_service
=============================================================================
