---------------------------- MODULE Diagnostics ----------------------------
(***************************************************************************)
(* The blocking chain of a thread (src/kernel/diagnostics.cpp), read while *)
(* the threads it runs through lock and unlock: the walk along the edges   *)
(* from a thread to the holder of the mutex it is blocked on, and the      *)
(* second reading of a cycle the walk believes to have found.  It takes no *)
(* lock: each load of blocked_on, of owner and of state is a step.         *)
(***************************************************************************)
EXTENDS BaseMutex

CONSTANT MaxLinks        \* blocking_chain::max_links

DiagnosticsAssumption == MaxLinks \in Nat \ {0}

VARIABLES
  step,       \* where the query is
  visited,    \* the queried thread and the holders found so far
  first,      \* where in visited the cycle to confirm begins
  node,       \* which of its nodes is being read again
  edge,       \* blocked_on, as loaded
  deadlocked, \* the verdict of the last query
  stuck       \* history: the queried thread was stuck when its query began

query == <<step, visited, first, node, edge, deadlocked, stuck>>
chain == <<vars, query>>

Here == visited[Len(visited)]
Met(t) == \E i \in 1..Len(visited) : visited[i] = t

\* Thread t is parked behind the holder of a mutex, with no wake on its way.
ParkedBehind(t, u) ==
  /\ state[t] = "blocked" /\ at[t] # None /\ ~WakeUnderWay(t)
  /\ Armed(queue[at[t]], t) /\ owner[at[t]] = u /\ u # t

\* A deadlock: t waits, transitively, for a cycle of threads that wait for
\* each other.
Stuck(t) ==
  \E S \in SUBSET Threads :
    t \in S /\ \A u \in S : \E v \in S : ParkedBehind(u, v)

-----------------------------------------------------------------------------
Return(verdict) ==
  /\ step' = "out" /\ deadlocked' = verdict
  /\ first' = 0 /\ node' = 0 /\ edge' = None
  /\ UNCHANGED <<visited, stuck>>

blocking_chain_of(t) ==
  /\ step = "out"
  /\ step' = "edge" /\ visited' = <<t>> /\ stuck' = Stuck(t) /\ deadlocked' = FALSE
  /\ UNCHANGED <<first, node, edge>>

\* next_holder loads the edge of the node it is at, on the first reading of the
\* chain or on the second,
Load(t, then) ==
  \/ blocked_on[t] = None /\ Return(FALSE)
  \/ /\ blocked_on[t] # None
     /\ edge' = blocked_on[t] /\ step' = then
     /\ UNCHANGED <<visited, first, node, deadlocked, stuck>>

next_edge == step = "edge" /\ Load(Here, "holder")

\* Mutant: the walk gives up one link early.
OneShort == Len(visited) + 1 = MaxLinks

\* The chain has all the links it may have once the next one is added.
at_max_links == Len(visited) = MaxLinks

\* and then the holder; none, or the thread itself, ends the chain.
next_holder ==
  /\ step = "holder"
  /\ LET h == owner[edge] IN
     \/ h \in {None, Here} /\ Return(FALSE)
     \/ /\ h \notin {None, Here} /\ Met(h)
        /\ first' = CHOOSE i \in 1..Len(visited) : visited[i] = h
        /\ node' = first' /\ step' = "state"
        /\ UNCHANGED <<visited, edge, deadlocked, stuck>>
     \/ /\ h \notin {None, Here} /\ ~Met(h)
        /\ visited' = Append(visited, h)
        /\ step' = IF at_max_links THEN "out" ELSE "edge"
        /\ edge' = None
        /\ UNCHANGED <<first, node, deadlocked, stuck>>

\* confirm_cycle, one load at a time: every node blocked,
confirm_state ==
  /\ step = "state"
  /\ \/ state[visited[node]] # "blocked" /\ Return(FALSE)
     \/ /\ state[visited[node]] = "blocked"
        /\ step' = "reread"
        /\ UNCHANGED <<visited, first, node, edge, deadlocked, stuck>>

confirm_edge == step = "reread" /\ Load(visited[node], "compare")

\* and every edge as it was.
confirm_holder ==
  /\ step = "compare"
  /\ LET last == node = Len(visited)
         expected == IF last THEN visited[first] ELSE visited[node + 1] IN
     \/ owner[edge] # expected /\ Return(FALSE)
     \/ owner[edge] = expected /\ last /\ Return(TRUE)
     \/ /\ owner[edge] = expected /\ ~last
        /\ node' = node + 1 /\ step' = "state"
        /\ UNCHANGED <<visited, first, edge, deadlocked, stuck>>

-----------------------------------------------------------------------------
ChainInit ==
  /\ Init
  /\ step = "out" /\ visited = <<>> /\ first = 0 /\ node = 0 /\ edge = None
  /\ deadlocked = FALSE /\ stuck = FALSE

QueryStep ==
  \/ next_edge \/ next_holder \/ confirm_state \/ confirm_edge \/ confirm_holder

ChainNext ==
  \/ Next /\ UNCHANGED query
  \/ (QueryStep \/ \E t \in Threads : blocking_chain_of(t)) /\ UNCHANGED vars

ChainSpec == ChainInit /\ [][ChainNext]_chain

-----------------------------------------------------------------------------
(* Properties *)

\* A deadlock that stands when the query begins is reported by it
\* (blocking_chain_of), whatever other threads do meanwhile.
DeadlockReported == step = "out" /\ stuck => deadlocked

\* What confirm_cycle's comment says of it, "One re-read cannot be fooled by a
\* cycle that exists across time but never at an instant": the thread of a
\* query that has reported a deadlock is in one.
DeadlockIsReal == step = "out" /\ deadlocked => Stuck(visited[1])
=============================================================================
