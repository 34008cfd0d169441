-------------------------- MODULE HandoffSemaphore --------------------------
(***************************************************************************)
(* sync::handoff_semaphore (src/userlib/sync/handoff_semaphore.cpp) and    *)
(* its timed acquires: a release hands each token to the most urgent       *)
(* waiter under the queue's lock, and counts it only when nobody waits.    *)
(* Tokens are held by the actors, so that none can be made or lost         *)
(* unnoticed: the wakers hold the first ones, as producers do.             *)
(***************************************************************************)
EXTENDS WaitLoop, Integers, FiniteSetsExt

CONSTANTS Handoff,   \* its wait_queue
          Tokens     \* how many tokens each waker starts with

VARIABLES
  counter,      \* the counted tokens
  held,         \* how many tokens each actor holds, between its calls
  todo,         \* how many tokens its release has yet to place or to take back
  reclaiming,   \* the actors inside reclaim
  counted,      \* the threads whose record says took_counted
  since         \* history: the releases under way when a thread armed

pool == <<counter, held, todo, reclaiming, counted, since>>
handoff == <<loop, pool>>

HandoffInit ==
  /\ LoopInit
  /\ counter = 0
  /\ held = [a \in Actors |-> IF a \in Wakers THEN Tokens ELSE 0]
  /\ todo = [a \in Actors |-> 0]
  /\ reclaiming = {} /\ counted = {}
  /\ since = [t \in Threads |-> {}]

\* A release of n tokens begins with its first look for waiters, and is at p.
Begins(a, n) ==
  /\ todo' = [todo EXCEPT ![a] = n]
  /\ UNCHANGED <<counter, reclaiming, since>>
FirstLook == IF queue[Handoff] # <<>> THEN "hand" ELSE "count"

release(a, n) ==
  /\ pc[a] = "user" /\ "release" \in Calls[a] /\ n \in 1..held[a]
  /\ held' = [held EXCEPT ![a] = @ - n]
  /\ Begins(a, n)
  /\ Goto(a, FirstLook)
  /\ UNCHANGED <<queue, prepared, pending, on, timed, expired, satisfied, gone,
                 chosen, batch, counted>>

\* The release is over: nothing more is owed for it.
Ends(a) ==
  /\ todo' = [todo EXCEPT ![a] = 0]
  /\ reclaiming' = reclaiming \ {a}
  /\ since' = [t \in Threads |-> since[t] \ {a}]
  /\ Goto(a, "user")
  /\ UNCHANGED <<queue, prepared, pending, on, timed, expired, satisfied, gone,
                 chosen, batch>>

count(a) ==
  /\ pc[a] = "count"
  /\ counter' = counter + todo[a]
  /\ Goto(a, "recount")
  /\ UNCHANGED <<queue, prepared, pending, on, timed, expired, satisfied, gone,
                 chosen, batch, held, todo, reclaiming, counted, since>>

\* Mutant: the tokens are in, and nobody looks for a waiter again.
NeverLooksAgain(a) ==
  /\ pc[a] = "recount"
  /\ Ends(a)
  /\ UNCHANGED <<counter, held, counted>>

recount(a) ==
  /\ pc[a] = "recount"
  /\ \/ queue[Handoff] = <<>> /\ Ends(a)
     \/ /\ queue[Handoff] # <<>>
        /\ reclaiming' = reclaiming \cup {a}
        /\ Goto(a, "reclaim")
        /\ UNCHANGED <<queue, prepared, pending, on, timed, expired, satisfied,
                       gone, chosen, batch, todo, since>>
  /\ UNCHANGED <<counter, held, counted>>

\* The loop of reclaim: a token still counted is taken back, to be handed over.
reclaim(a) ==
  /\ pc[a] = "reclaim"
  /\ \/ /\ todo[a] > 0 /\ counter > 0
        /\ counter' = counter - 1
        /\ Goto(a, "hand")
        /\ UNCHANGED <<queue, prepared, pending, on, timed, expired, satisfied,
                       gone, chosen, batch, todo, reclaiming, since>>
     \/ (todo[a] = 0 \/ counter = 0) /\ Ends(a) /\ UNCHANGED counter
  /\ UNCHANGED <<held, counted>>

\* Where a release goes once it has n tokens left to place.
Onward(a, n) ==
  IF a \in reclaiming THEN "reclaim" ELSE IF n > 0 THEN "hand" ELSE "over"

\* wake_one_and_transfer: the pop, and the count when nobody waits, are one
\* hold of the lock.
hand_over(a) ==
  /\ pc[a] = "hand"
  /\ Pop(a, Handoff, Onward(a, todo[a] - 1))
  /\ counter' = IF queue[Handoff] = <<>> THEN counter + 1 ELSE counter
  /\ todo' = [todo EXCEPT ![a] = @ - 1]
  /\ UNCHANGED <<held, reclaiming, counted, since>>

hand_over_ready(a) == Ready(a, Onward(a, todo[a])) /\ UNCHANGED pool

hand_over_each(a) ==
  /\ pc[a] = "over"
  /\ Ends(a)
  /\ UNCHANGED <<counter, held, counted>>

-----------------------------------------------------------------------------

try_acquire(t) ==
  /\ pc[t] = "user" /\ Calls[t] \cap {"acquire", "timed"} # {} /\ counter > 0
  /\ counter' = counter - 1
  /\ held' = [held EXCEPT ![t] = @ + 1]
  /\ UNCHANGED <<loop, todo, reclaiming, counted, since>>

\* acquire and try_acquire_until, whose try_acquire has failed.
acquire(t, call) ==
  /\ pc[t] = "user" /\ call \in Calls[t] \ {"release"} /\ counter = 0
  /\ Wait(t, Handoff, call = "timed")
  /\ UNCHANGED pool

\* What the poll of t answers: the token handed to it, a counted one, or none.
try_satisfy(t) ==
  IF t \in chosen THEN "handed" ELSE IF counter > 0 THEN "counted" ELSE "none"

Satisfy(t) ==
  /\ counter' = IF try_satisfy(t) = "counted" THEN counter - 1 ELSE counter
  /\ counted' = IF try_satisfy(t) = "counted" THEN counted \cup {t} ELSE counted
  /\ UNCHANGED <<held, todo, reclaiming, since>>

handoff_poll(t) ==
  /\ pc[t] = "poll"
  /\ Satisfy(t)
  /\ Polled(t, try_satisfy(t) # "none")

handoff_repoll(t) ==
  /\ pc[t] = "after" /\ t \notin satisfied
  /\ Satisfy(t)
  /\ Repolled(t, try_satisfy(t) # "none")

\* Mutant: a second token is kept.
SettlesNothing(t) ==
  /\ pc[t] = "done"
  /\ held' = IF t \in satisfied THEN [held EXCEPT ![t] = @ + 1] ELSE held
  /\ counted' = counted \ {t}
  /\ UNCHANGED <<counter, todo, reclaiming, since>>
  /\ Returned(t, "user")

\* The wait's end: a thread handed a token beside the counted one it took
\* releases one again.
settle(t) ==
  /\ pc[t] = "done"
  /\ held' = IF t \in satisfied THEN [held EXCEPT ![t] = @ + 1] ELSE held
  /\ counted' = counted \ {t}
  /\ IF t \in counted \cap chosen
     THEN Begins(t, 1) /\ Returned(t, FirstLook)
     ELSE UNCHANGED <<counter, todo, reclaiming, since>> /\ Returned(t, "user")

Releasing == {a \in Actors : todo[a] > 0 \/ pc[a] \in {"over", "reclaim"}}

handoff_arm(t) ==
  /\ arm(t)
  /\ since' = [since EXCEPT ![t] = Releasing]
  /\ UNCHANGED <<counter, held, todo, reclaiming, counted>>

ReleaseStep(a) ==
  \/ count(a) \/ recount(a) \/ reclaim(a)
  \/ hand_over(a) \/ hand_over_ready(a) \/ hand_over_each(a)
AcquireStep(t) ==
  \/ handoff_arm(t) \/ handoff_poll(t) \/ handoff_repoll(t) \/ settle(t)
  \/ (commit_to_block(t) \/ drain_intake(t) \/ disarm(t) \/ conclude(t) \/ recheck(t))
     /\ UNCHANGED pool

HandoffNext ==
  \/ \E a \in Actors : ReleaseStep(a) \/ \E n \in 1..2 : release(a, n)
  \/ \E t \in Threads :
       \/ AcquireStep(t) \/ try_acquire(t) \/ \E call \in Calls[t] : acquire(t, call)
       \/ expire(t) /\ UNCHANGED pool

-----------------------------------------------------------------------------
(* Properties *)

\* A wake has handed t a token its wait has yet to return with.
Handed(t) == Woken(t, Handoff) \/ (on[t] = Handoff /\ t \in chosen)

\* The tokens a release has in hand: neither counted nor handed over.
InHand(a) ==
  IF a \in reclaiming THEN (IF pc[a] = "hand" THEN 1 ELSE 0)
  ELSE IF pc[a] = "recount" THEN 0 ELSE todo[a]

\* No token is made or lost, whichever way the deadline, the hand-over, the
\* counted take and reclaim interleave: each is counted, held, in the hands of
\* a release, handed to a waiter or taken by its poll.
TokensConserved ==
  counter + MapThenSumSet(LAMBDA a : held[a] + InHand(a), Actors)
    + Cardinality({t \in Threads : Handed(t)}) + Cardinality(counted)
  = Tokens * Cardinality(Wakers)

\* What a release under way still owes a waiter: the tokens it counted and has
\* yet to look for again.
Owed(a) ==
  IF pc[a] = "recount" \/ a \in reclaiming THEN todo[a] - InHand(a) ELSE 0

\* handoff_semaphore's promise: a token is counted only while nobody waits, and
\* "a waiter queued before a release began is never overtaken".  While t waits,
\* every counted token is one that a release which began before t was queued
\* will yet take back and hand over.
NotOvertaken ==
  \A t \in Threads :
    Waits(t, Handoff) => counter <= MapThenSumSet(Owed, since[t])

\* Parked, with a token counted that nobody is on the way to hand over.
WaitsBesideToken(t) == counter > 0 /\ pc[t] = "parked" /\ on[t] = Handoff
=============================================================================
