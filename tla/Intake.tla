------------------------------- MODULE Intake -------------------------------
(***************************************************************************)
(* A core's intake, instruction by instruction: other cores resume threads *)
(* pinned here (the token, then the request, then the push and the IPI),   *)
(* the threads suspend on their tokens, and every switch of the core       *)
(* first drains the intake.  `intake' in Scheduler is this one, seen as a  *)
(* sequence whose steps are whole calls.                                   *)
(***************************************************************************)
EXTENDS Naturals, Sequences, FiniteSets

CONSTANTS Pinned,      \* the threads pinned to this core
          Producers,   \* the other cores, and this one's interrupts posting
          Idle, Null

VARIABLES
  pending_requests, intake_next, resume_token,   \* the TCBs' fields
  disposition, state,
  intake_head, current, ready,   \* the scheduler's; `ready' at one priority
  at,       \* where each thread is in suspend()
  drain,    \* where the core is: "none", "take", "walk", "claim", "serve"
  reason,   \* why it switches: departure_reason
  node, fifo, rest,   \* drain_intake's locals
  doorbell,           \* the reschedule IPI is pending
  pc, target, prev,   \* each producer's place, its TCB and push_intake's prev
  arrived   \* the threads exchanged onto the intake and not yet served, in order

fields  == <<pending_requests, intake_next, resume_token>>
core    == <<disposition, state, current, ready, at, reason>>
drains  == <<drain, node, fifo, rest>>
posting == <<pc, target, prev>>
intakes == <<fields, core, drains, posting, intake_head, doorbell, arrived>>

\* A list of threads or of their nodes has this one on it.
Holds(list, x) == \E i \in 1..Len(list) : list[i] = x

\* The orders a set of threads may be listed in.
Orders(S) ==
  {list \in [1..Cardinality(S) -> S] : \A i, j \in DOMAIN list : i # j => list[i] # list[j]}

Init ==
    /\ pending_requests = [t \in Pinned |-> FALSE]
    /\ intake_next = [t \in Pinned |-> Null]
    /\ resume_token = [t \in Pinned |-> FALSE]
    /\ disposition = [t \in Pinned |-> "none"]
    /\ state = [t \in Pinned |-> "ready"]
    /\ \E order \in Orders(Pinned) : ready = order
    /\ current = Idle
    /\ at = [t \in Pinned |-> "out"]
    /\ drain = "none" /\ reason = "yielded"
    /\ node = Null /\ fifo = Null /\ rest = Null
    /\ intake_head = Null /\ doorbell = TRUE
    /\ pc = [p \in Producers |-> "out"]
    /\ target = [p \in Producers |-> Null]
    /\ prev = [p \in Producers |-> Null]
    /\ arrived = <<>>

----------------------------------------------------------------------------
(* The producers *)

\* The next place of a producer, whose locals go with its call.
Goes(p, where) ==
    /\ pc' = [pc EXCEPT ![p] = where]
    /\ target' = [target EXCEPT ![p] = IF where = "out" THEN Null ELSE @]
    /\ prev' = [prev EXCEPT ![p] = IF where = "out" THEN Null ELSE @]

Calls(p, t) ==
    /\ pc[p] = "out"
    /\ pc' = [pc EXCEPT ![p] = "post"]
    /\ target' = [target EXCEPT ![p] = t]
    /\ UNCHANGED prev

\* thread::resume up to global_ready_thread's choice of the intake.
resume(p, t) ==
    /\ Calls(p, t)
    /\ resume_token' = [resume_token EXCEPT ![t] = TRUE]
    /\ UNCHANGED <<pending_requests, intake_next, core, drains, intake_head, doorbell, arrived>>

\* The wake of a wait that ended before it: it brings no token.
late_wake(p, t) ==
    /\ Calls(p, t)
    /\ UNCHANGED <<fields, core, drains, intake_head, doorbell, arrived>>

post_intake(p) ==
    /\ pc[p] = "post"
    /\ pending_requests' = [pending_requests EXCEPT ![target[p]] = TRUE]
    /\ Goes(p, IF pending_requests[target[p]] THEN "out" ELSE "push")
    /\ UNCHANGED <<intake_next, resume_token, core, drains, intake_head, doorbell, arrived>>

\* Mutant: nullptr marks a node whose link is still to come.
MarksWithNull(p) ==
    /\ pc[p] = "push"
    /\ intake_next' = [intake_next EXCEPT ![target[p]] = Null]
    /\ Goes(p, "exchange")
    /\ UNCHANGED <<pending_requests, resume_token, core, drains, intake_head, doorbell, arrived>>

push_intake(p) ==
    /\ pc[p] = "push"
    /\ intake_next' = [intake_next EXCEPT ![target[p]] = target[p]]
    /\ Goes(p, "exchange")
    /\ UNCHANGED <<pending_requests, resume_token, core, drains, intake_head, doorbell, arrived>>

exchange(p) ==
    /\ pc[p] = "exchange"
    /\ prev' = [prev EXCEPT ![p] = intake_head]
    /\ intake_head' = target[p]
    /\ arrived' = Append(arrived, target[p])
    /\ pc' = [pc EXCEPT ![p] = "link"]
    /\ UNCHANGED <<fields, core, drains, target, doorbell>>

\* Mutant: empty-to-non-empty is read from the head once more.
LooksAtHead(p) ==
    /\ pc[p] = "link"
    /\ intake_next' = [intake_next EXCEPT ![target[p]] = prev[p]]
    /\ Goes(p, IF prev[p] = Null /\ intake_head = target[p] THEN "ring" ELSE "out")
    /\ UNCHANGED <<pending_requests, resume_token, core, drains, intake_head, doorbell, arrived>>

link(p) ==
    /\ pc[p] = "link"
    /\ intake_next' = [intake_next EXCEPT ![target[p]] = prev[p]]
    /\ Goes(p, IF prev[p] = Null THEN "ring" ELSE "out")
    /\ UNCHANGED <<pending_requests, resume_token, core, drains, intake_head, doorbell, arrived>>

send_reschedule_ipi(p) ==
    /\ pc[p] = "ring"
    /\ doorbell' = TRUE
    /\ Goes(p, "out")
    /\ UNCHANGED <<fields, core, drains, intake_head, arrived>>

----------------------------------------------------------------------------
(* The threads: this_thread::suspend *)

Runs(t) == current = t /\ drain = "none"

prepare(t) ==
    /\ Runs(t) /\ at[t] = "out"
    /\ disposition' = [disposition EXCEPT ![t] = "prepared"]
    /\ at' = [at EXCEPT ![t] = "look"]
    /\ UNCHANGED <<fields, state, current, ready, reason, drains, posting, intake_head,
                   doorbell, arrived>>

look(t) ==
    /\ Runs(t) /\ at[t] = "look"
    /\ at' = [at EXCEPT ![t] = IF resume_token[t] THEN "taking" ELSE "commit"]
    /\ UNCHANGED <<fields, disposition, state, current, ready, reason, drains, posting,
                   intake_head, doorbell, arrived>>

take_token(t) ==
    /\ Runs(t) /\ at[t] = "taking"
    /\ resume_token' = [resume_token EXCEPT ![t] = FALSE]
    /\ disposition' = [disposition EXCEPT ![t] = "none"]
    /\ at' = [at EXCEPT ![t] = "out"]
    /\ UNCHANGED <<pending_requests, intake_next, state, current, ready, reason, drains,
                   posting, intake_head, doorbell, arrived>>

\* Mutant: a commit that a wake has revoked parks all the same.
ParksRevoked(t) ==
    /\ Runs(t) /\ at[t] = "commit"
    /\ at' = [at EXCEPT ![t] = "out"]
    /\ drain' = "take" /\ reason' = "parked"
    /\ UNCHANGED <<fields, disposition, state, current, ready, node, fifo, rest, posting,
                   intake_head, doorbell, arrived>>

\* A wake drained since the look revokes the commit; otherwise the thread
\* parks, and the park's switch takes the intake in first.
commit_to_block(t) ==
    /\ Runs(t) /\ at[t] = "commit"
    /\ at' = [at EXCEPT ![t] = "out"]
    /\ IF disposition[t] = "prepared" THEN drain' = "take" /\ reason' = "parked"
       ELSE UNCHANGED <<drain, reason>>
    /\ UNCHANGED <<fields, disposition, state, current, ready, node, fifo, rest, posting,
                   intake_head, doorbell, arrived>>

----------------------------------------------------------------------------
(* The core: switches, each of which drains first *)

\* reschedule(), on the IPI.
reschedule ==
    /\ drain = "none" /\ doorbell
    /\ doorbell' = FALSE
    /\ drain' = "take" /\ reason' = "yielded"
    /\ UNCHANGED <<fields, disposition, state, current, ready, at, node, fifo, rest,
                   posting, intake_head, arrived>>

\* idle_task's look before it sleeps.
idle_task ==
    /\ drain = "none" /\ current = Idle /\ intake_head # Null
    /\ drain' = "take" /\ reason' = "yielded"
    /\ UNCHANGED <<fields, disposition, state, current, ready, at, node, fifo, rest,
                   posting, intake_head, doorbell, arrived>>

\* Mutant: the head is read, and cleared by a store of its own.
ReadsThenClears ==
    \/ /\ drain = "take" /\ intake_head # Null /\ node = Null
       /\ node' = intake_head
       /\ UNCHANGED <<fields, core, drain, fifo, rest, posting, intake_head, doorbell, arrived>>
    \/ /\ drain = "take" /\ node # Null
       /\ intake_head' = Null /\ drain' = "walk"
       /\ UNCHANGED <<fields, core, node, fifo, rest, posting, doorbell, arrived>>

drain_intake ==
    /\ drain = "take" /\ intake_head # Null
    /\ node' = intake_head /\ intake_head' = Null
    /\ drain' = "walk"
    /\ UNCHANGED <<fields, core, fifo, rest, posting, doorbell, arrived>>

\* Mutant: the taken stack is served as it is, last in first.
KeepsStackOrder ==
    /\ drain = "walk" /\ node # Null
    /\ intake_next[node] # node
    /\ drain' = "claim" /\ fifo' = node /\ node' = Null
    /\ UNCHANGED <<fields, core, rest, posting, intake_head, doorbell, arrived>>

\* One turn of the reversing walk, once the node's link is there.
await_intake_link ==
    /\ drain = "walk" /\ node # Null
    /\ intake_next[node] # node
    /\ intake_next' = [intake_next EXCEPT ![node] = fifo]
    /\ fifo' = node /\ node' = intake_next[node]
    /\ UNCHANGED <<pending_requests, resume_token, core, drain, rest, posting,
                   intake_head, doorbell, arrived>>

walked ==
    /\ drain = "walk" /\ node = Null
    /\ drain' = "claim"
    /\ UNCHANGED <<fields, core, node, fifo, rest, posting, intake_head, doorbell, arrived>>

claim ==
    /\ drain = "claim" /\ fifo # Null
    /\ rest' = intake_next[fifo]
    /\ intake_next' = [intake_next EXCEPT ![fifo] = Null]
    /\ pending_requests' = [pending_requests EXCEPT ![fifo] = FALSE]
    /\ arrived' = Tail(arrived)
    /\ drain' = "serve"
    /\ UNCHANGED <<resume_token, core, node, fifo, posting, intake_head, doorbell>>

\* service_intake and set_thread_ready: a thread already filed stays where it
\* is, and the running one is filed, which settles its departure.
service_intake ==
    /\ drain = "serve"
    /\ disposition' = [disposition EXCEPT ![fifo] = "none"]
    /\ IF Holds(ready, fifo) THEN UNCHANGED <<state, ready>>
       ELSE state' = [state EXCEPT ![fifo] = "ready"] /\ ready' = Append(ready, fifo)
    /\ fifo' = rest /\ rest' = Null
    /\ drain' = "claim"
    /\ UNCHANGED <<fields, current, at, reason, node, posting, intake_head, doorbell, arrived>>

Departed ==
    IF current = Idle \/ (current # Idle /\ state[current] # "running")
      THEN [state |-> state, ready |-> ready]
    ELSE IF reason = "parked"
      THEN [state |-> [state EXCEPT ![current] = "blocked"], ready |-> ready]
    ELSE [state |-> [state EXCEPT ![current] = "ready"], ready |-> Append(ready, current)]

\* The departure and the pick, which is made running.
decide ==
    /\ \/ drain = "take" /\ intake_head = Null
       \/ drain = "claim" /\ fifo = Null
    /\ IF Departed.ready = <<>> THEN current' = Idle /\ state' = Departed.state /\ ready' = <<>>
       ELSE /\ current' = Head(Departed.ready)
            /\ state' = [Departed.state EXCEPT ![Head(Departed.ready)] = "running"]
            /\ ready' = Tail(Departed.ready)
    /\ drain' = "none" /\ reason' = "yielded"
    /\ UNCHANGED <<fields, disposition, at, node, fifo, rest, posting,
                   intake_head, doorbell, arrived>>

Next ==
    \/ \E p \in Producers :
          \/ \E t \in Pinned : resume(p, t) \/ late_wake(p, t)
          \/ post_intake(p) \/ push_intake(p) \/ exchange(p) \/ link(p)
          \/ send_reschedule_ipi(p)
    \/ \E t \in Pinned : prepare(t) \/ look(t) \/ take_token(t) \/ commit_to_block(t)
    \/ reschedule \/ idle_task \/ drain_intake \/ await_intake_link \/ walked
    \/ claim \/ service_intake \/ decide

Spec == Init /\ [][Next]_intakes

\* The idle thread and nullptr are none of the threads pinned here, which are finitely many.
IntakeAssumption == Cardinality(Pinned) \in Nat /\ Idle \notin Pinned /\ Null \notin Pinned

----------------------------------------------------------------------------
\* drain_intake leaves nothing behind: with the head empty, whatever was
\* exchanged onto the intake has been served or is in the drain's hands.
DrainTakesAll == intake_head = Null /\ drain \in {"none", "take"} => arrived = <<>>

\* Requests are served in the order of their exchanges, which the round robin
\* within a priority depends on, although the intake is a stack.
ServedInOrder == drain = "claim" /\ fifo # Null => arrived # <<>> /\ fifo = Head(arrived)

\* A resume is not lost: while a token waits for a thread that is blocked,
\* a service that will ready the thread is still to come.
ResumeIsNotLost ==
    \A t \in Pinned :
        resume_token[t] /\ state[t] = "blocked" =>
            \/ Holds(arrived, t)
            \/ drain = "serve" /\ fifo = t
            \/ \E p \in Producers : target[p] = t /\ pc[p] \in {"post", "push", "exchange"}

\* The empty-to-non-empty push rings: as long as the intake holds anything,
\* the core has its IPI, the pusher is about to send it, or the core is
\* about to take the intake in.
DoorbellCovers ==
    intake_head # Null =>
        \/ doorbell \/ drain = "take"
        \/ \E p \in Producers : prev[p] = Null /\ pc[p] \in {"link", "ring"}
=============================================================================
