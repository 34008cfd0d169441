------------------------------- MODULE Gptimer -------------------------------
(***************************************************************************)
(* The LEON3's MTIME (src/port/sparc/leon3): a 64-bit count that every     *)
(* core extends from a 32-bit timer by an epoch under a sequence count,    *)
(* and a compare per core built from one timer that whichever core takes   *)
(* its interrupt shares out.  The epoch's base and its raw count are       *)
(* loaded and stored apart.                                                *)
(***************************************************************************)
EXTENDS Integers, FiniteSetsExt

CONSTANTS GpCores,
          GpReaders,   \* the cores whose threads read the time
          Radix,       \* 2^32
          LongestArm,  \* the furthest the compare timer is loaded for, 2^31
          MaxCount,    \* bound on the count
          GpDeadlines, \* what the time source arms
          GpNever

GptimerAssumption ==
  /\ LongestArm \in Nat \ {0} /\ Radix \in Nat /\ LongestArm < Radix /\ MaxCount \in Nat

VARIABLES
  gcount,     \* the counts since timer 1 began
  epoch,      \* whether its sequence is odd, its base and raw count, and the count it was taken at
  timer_lock, \* the core holding it
  compares,
  forced,     \* the cores whose timer level is forced
  timer2,     \* the compare timer: whether it runs, what is left, and its interrupt
  deadline,   \* per core, the time source's record of what is armed
  step, mine, \* per core, its next access and its locals
  misread     \* whether count() has returned what the timer never showed

gpt == <<gcount, epoch, timer_lock, compares, forced, timer2, deadline, step, mine, misread>>

Nobody == [free |-> TRUE]
Owner(c) == [free |-> FALSE, core |-> c]
raw_count == (Radix - 1 - gcount) % Radix
idle_locals == [moved |-> FALSE, base |-> 0, raw |-> 0, began |-> 0, now |-> 0,
                isr |-> FALSE]

\* ensure_counting() has started timer 1 and taken the first epoch.
GptimerInit ==
  /\ gcount = 0
  /\ epoch = [odd |-> FALSE, base |-> 0, raw |-> Radix - 1, at |-> 0]
  /\ timer_lock = Nobody
  /\ compares = [c \in GpCores |-> GpNever] /\ deadline = [c \in GpCores |-> GpNever]
  /\ forced = {} /\ timer2 = [on |-> FALSE, left |-> 0, pend |-> FALSE]
  /\ step = [c \in GpCores |-> "idle"] /\ mine = [c \in GpCores |-> idle_locals]
  /\ misread = FALSE

Goes(c, from, to) == step[c] = from /\ step' = [step EXCEPT ![c] = to]
Sets(c, field, value) == mine' = [mine EXCEPT ![c][field] = value]

\* A masked section that has read the counter, and is to load the compare timer.
Writing(c) == step[c] \in {"odd", "store_base", "store_raw", "even", "rearm"}

\* Both timers count.  The epoch is never a whole turn of the counter old, in
\* memory or in a reader's hands, and a masked section takes less than half.
Counting ==
  /\ gcount < MaxCount =>
       /\ gcount + 1 - epoch.at < Radix
       /\ \A c \in GpCores : step[c] = "now" => gcount + 1 - mine[c].base < Radix
       /\ \A c \in GpCores : Writing(c) => gcount + 1 - mine[c].now < Radix - LongestArm
  /\ gcount' = Min({gcount + 1, MaxCount})
  /\ timer2.on \/ gcount < MaxCount
  /\ timer2' = IF ~timer2.on THEN timer2
               ELSE IF timer2.left = 1 THEN [on |-> FALSE, left |-> 0, pend |-> TRUE]
               ELSE [timer2 EXCEPT !.left = @ - 1]
  /\ UNCHANGED <<epoch, timer_lock, compares, forced, deadline, step, mine, misread>>

-----------------------------------------------------------------------------
(* count(): lock-free, and tried again whenever the sequence has moved *)

\* An odd sequence is tried again.
load_sequence(c) ==
  /\ ~epoch.odd
  /\ Goes(c, "sequence", "base")
  /\ Sets(c, "moved", FALSE)
  /\ UNCHANGED <<gcount, epoch, timer_lock, compares, forced, timer2, deadline, misread>>

\* The two words of the base, apart from the raw count it was taken at.
load_base(c) ==
  /\ Goes(c, "base", "raw") /\ Sets(c, "base", epoch.base)
  /\ UNCHANGED <<gcount, epoch, timer_lock, compares, forced, timer2, deadline, misread>>

load_raw(c) ==
  /\ Goes(c, "raw", "again") /\ Sets(c, "raw", epoch.raw)
  /\ UNCHANGED <<gcount, epoch, timer_lock, compares, forced, timer2, deadline, misread>>

\* Mutant: what was read is used whatever the sequence says.
NotCompared(c) == TRUE

sequence_held(c) == ~mine[c].moved

load_again(c) ==
  /\ Goes(c, "again", IF sequence_held(c) THEN "now" ELSE "sequence")
  /\ UNCHANGED <<gcount, epoch, timer_lock, compares, forced, timer2, deadline, mine, misread>>

\* The elapsed counts are modulo the word.  now() is done, and the interrupt
\* clears a deadline that is reached and writes its compare either way.
count(c) ==
  LET now == mine[c].base + ((mine[c].raw - raw_count) % Radix)
  IN /\ Goes(c, "now", IF mine[c].isr THEN "lock" ELSE "idle")
     /\ mine' = [mine EXCEPT ![c] = [idle_locals EXCEPT !.isr = mine[c].isr]]
     /\ misread' = (misread \/ now \notin mine[c].began..gcount)
     /\ deadline' = IF mine[c].isr /\ now >= deadline[c]
                    THEN [deadline EXCEPT ![c] = GpNever] ELSE deadline
     /\ UNCHANGED <<gcount, epoch, timer_lock, compares, forced, timer2>>

-----------------------------------------------------------------------------
(* compare_write(), masked and under the timer lock *)

lock(c) ==
  /\ timer_lock = Nobody /\ timer_lock' = Owner(c)
  /\ Goes(c, "lock", "renew")
  /\ UNCHANGED <<gcount, epoch, compares, forced, timer2, deadline, mine, misread>>

\* renew_epoch() reads the counter, and writes the epoch word by word.
renew_epoch(c) ==
  /\ Goes(c, "renew", "odd")
  /\ mine' = [mine EXCEPT ![c].raw = raw_count,
                          ![c].now = epoch.base
                                       + ((epoch.raw - raw_count) % Radix)]
  /\ UNCHANGED <<gcount, epoch, timer_lock, compares, forced, timer2, deadline, misread>>

EpochStep(c, from, to, e) ==
  /\ Goes(c, from, to) /\ epoch' = e
  /\ UNCHANGED <<gcount, timer_lock, compares, forced, timer2, deadline, mine, misread>>

\* Every reader that has loaded the sequence will find it moved.
store_odd(c) ==
  /\ Goes(c, "odd", "store_base")
  /\ epoch' = [epoch EXCEPT !.odd = TRUE]
  /\ mine' = [k \in GpCores |-> IF step[k] \in {"base", "raw", "again"}
                               THEN [mine[k] EXCEPT !.moved = TRUE] ELSE mine[k]]
  /\ UNCHANGED <<gcount, timer_lock, compares, forced, timer2, deadline, misread>>

store_base(c) == EpochStep(c, "store_base", "store_raw", [epoch EXCEPT !.base = mine[c].now])
store_raw(c) ==
  EpochStep(c, "store_raw", "even", [epoch EXCEPT !.raw = mine[c].raw, !.at = mine[c].now])

store_even(c) == EpochStep(c, "even", "rearm", [epoch EXCEPT !.odd = FALSE])

\* Mutant: only the writer's own level is forced.
ForcesItself(reached, c) == reached \cap {c}

forces(reached, c) == reached

\* Every compare reached is forced on its core, and timer 2 takes the rest.
rearm(c) ==
  LET cmp == [compares EXCEPT ![c] = deadline[c]]
      now == mine[c].now
      reached == {k \in GpCores : cmp[k] <= now}
      distance == Min({LongestArm} \cup {cmp[k] - now : k \in {j \in GpCores : cmp[j] > now}})
  IN /\ Goes(c, "rearm", "idle")
     /\ compares' = cmp
     /\ forced' = forced \cup forces(reached, c)
     /\ timer2' = [timer2 EXCEPT !.on = TRUE, !.left = distance]
     /\ timer_lock' = Nobody
     /\ mine' = [mine EXCEPT ![c] = idle_locals]
     /\ UNCHANGED <<gcount, epoch, deadline, misread>>

-----------------------------------------------------------------------------
(* The callers *)

Pending(c) == c \in forced \/ timer2.pend

\* The core takes its level: its forced bit, or the timer's one interrupt.
interrupt(c) ==
  /\ step[c] = "idle" /\ Pending(c)
  /\ IF c \in forced THEN forced' = forced \ {c} /\ UNCHANGED timer2
     ELSE timer2' = [timer2 EXCEPT !.pend = FALSE] /\ UNCHANGED forced
  /\ Goes(c, "idle", IF deadline[c] = GpNever THEN "lock" ELSE "sequence")
  /\ mine' = [mine EXCEPT ![c] = [idle_locals EXCEPT !.isr = TRUE, !.began = gcount]]
  /\ UNCHANGED <<gcount, epoch, timer_lock, compares, deadline, misread>>

\* arm(), when it is the earliest, and disarm().
arm(c, d) ==
  /\ ~Pending(c)
  /\ d < deadline[c] \/ (d = GpNever /\ deadline[c] # GpNever)
  /\ Goes(c, "idle", "lock")
  /\ deadline' = [deadline EXCEPT ![c] = d]
  /\ UNCHANGED <<gcount, epoch, timer_lock, compares, forced, timer2, mine, misread>>

read_count(c) ==
  /\ ~Pending(c)
  /\ Goes(c, "idle", "sequence")
  /\ mine' = [mine EXCEPT ![c] = [idle_locals EXCEPT !.began = gcount]]
  /\ UNCHANGED <<gcount, epoch, timer_lock, compares, forced, timer2, deadline, misread>>

Access(c) ==
  \/ load_sequence(c) \/ load_base(c) \/ load_raw(c) \/ load_again(c) \/ count(c)
  \/ lock(c) \/ renew_epoch(c) \/ store_odd(c) \/ store_base(c) \/ store_raw(c)
  \/ store_even(c) \/ rearm(c) \/ interrupt(c)

GptimerNext ==
  \/ Counting
  \/ \E c \in GpCores : Access(c) \/ \E d \in GpDeadlines : arm(c, d)
  \/ \E c \in GpReaders : read_count(c)

GptimerSpec == GptimerInit /\ [][GptimerNext]_gpt

-----------------------------------------------------------------------------
(* Properties *)

\* count() returns a count the timer showed while it ran: no reader combines
\* words of two epochs, or an epoch with a counter that has turned since.
CountIsTrue == ~misread

Serving(c) == step[c] # "idle" /\ (mine[c].isr \/ Writing(c) \/ step[c] \in {"lock", "renew"})

\* Whichever core takes the one timer's interrupt, and whatever another core
\* arms meanwhile, every deadline keeps an interrupt on its way to its own
\* core: forced, pending, or due from timer 2 no later than a masked section
\* after the deadline.
DueIsCovered ==
  (\A k \in GpCores : ~Serving(k)) =>
     \A c \in GpCores : deadline[c] # GpNever =>
       \/ Pending(c)
       \/ /\ timer2.on
          /\ gcount + timer2.left < Max({deadline[c], gcount}) + Radix - LongestArm
=============================================================================
