---------------------------- MODULE SoftAtomics ----------------------------
(***************************************************************************)
(* The read-modify-writes ARMv6-M has no instruction for                   *)
(* (src/port/arm/armv6m/port_atomic_armv6m.cpp) on the two cores of an     *)
(* RP2040: a plain load and store with PRIMASK set, under a lock the cores *)
(* share, one instruction a step.  The threads of the cores, and a handler *)
(* on each, add to a counter, store to it, and take and release a flag,    *)
(* whose release is the one store the compiler keeps inline.               *)
(***************************************************************************)
EXTENDS Naturals, FiniteSets

CONSTANTS Cores,
          Handled,    \* the cores that take an interrupt
          Modulus     \* of the counter's word

AtomicsAssumption == Handled \subseteq Cores /\ Modulus \in Nat \ {0, 1}

Contexts == (Cores \X {"thread"}) \cup (Handled \X {"handler"})
Ops == {"fetch_add", "compare_exchange", "store", "test_and_set"}
Nobody == <<>>

VARIABLES
  word,     \* the counter and the flag, as memory
  masked,   \* the cores whose PRIMASK is set
  lock,     \* who has the hardware spinlock
  at,       \* where each context is
  op,       \* the operation it is in
  token,    \* the PRIMASK its enter() found
  old,      \* the value its load returned
  holds     \* who has taken the flag and not released it

vars == <<word, masked, lock, at, op, token, old, holds>>

Object(o) == IF o = "test_and_set" THEN "flag" ELSE "counter"

\* A handler runs in place of its core's thread, and begins only unmasked.
Runs(x) ==
  IF x[2] = "thread" THEN x[1] \in Handled => at[<<x[1], "handler">>] = "out"
  ELSE at[x] # "out" \/ x[1] \notin masked

Goto(x, p) == at' = [at EXCEPT ![x] = p]

-----------------------------------------------------------------------------
\* A call begins: PRIMASK is read,
begin(x, o) ==
  /\ at[x] = "out" /\ Runs(x) /\ (o = "test_and_set" => x \notin holds)
  /\ op' = [op EXCEPT ![x] = o]
  /\ token' = [token EXCEPT ![x] = x[1] \in masked]
  /\ Goto(x, "mask")
  /\ UNCHANGED <<word, masked, lock, old, holds>>

\* then set,
enter(x) ==
  /\ at[x] = "mask" /\ Runs(x)
  /\ masked' = masked \cup {x[1]}
  /\ Goto(x, "lock")
  /\ UNCHANGED <<word, lock, op, token, old, holds>>

\* Mutant: PRIMASK is all there is.
LocksNothing(x) ==
  /\ at[x] = "lock" /\ Runs(x)
  /\ Goto(x, IF op[x] = "store" THEN "write" ELSE "load")
  /\ UNCHANGED <<word, masked, lock, op, token, old, holds>>

\* and the cores' lock spun for.
atomic_lock(x) ==
  /\ at[x] = "lock" /\ Runs(x) /\ lock = Nobody
  /\ lock' = x
  /\ Goto(x, IF op[x] = "store" THEN "write" ELSE "load")
  /\ UNCHANGED <<word, masked, op, token, old, holds>>

load(x) ==
  /\ at[x] = "load" /\ Runs(x)
  /\ old' = [old EXCEPT ![x] = word[Object(op[x])]]
  /\ Goto(x, "write")
  /\ UNCHANGED <<word, masked, lock, op, token, holds>>

updated(x) ==
  CASE op[x] = "fetch_add" -> (old[x] + 1) % Modulus
    [] op[x] = "compare_exchange" -> IF old[x] = 0 THEN 1 ELSE old[x]
    [] op[x] = "store" -> 0
    [] op[x] = "test_and_set" -> 1

\* Mutant: a read-modify-write always stores.
StoresAlways(x) == TRUE

\* No store when nothing changes.
stores(x) == op[x] = "store" \/ updated(x) # old[x]

write(x) ==
  /\ at[x] = "write" /\ Runs(x)
  /\ word' = IF stores(x) THEN [word EXCEPT ![Object(op[x])] = updated(x)] ELSE word
  /\ holds' = IF op[x] = "test_and_set" /\ old[x] = 0 THEN holds \cup {x} ELSE holds
  /\ Goto(x, "unlock")
  /\ UNCHANGED <<masked, lock, op, token, old>>


leave(x) ==
  /\ at[x] = "unlock" /\ Runs(x)
  /\ lock' = Nobody
  /\ Goto(x, "restore")
  /\ UNCHANGED <<word, masked, op, token, old, holds>>

restore(x) ==
  /\ at[x] = "restore" /\ Runs(x)
  /\ masked' = IF token[x] THEN masked ELSE masked \ {x[1]}
  /\ op' = [op EXCEPT ![x] = "none"] /\ token' = [token EXCEPT ![x] = FALSE]
  /\ old' = [old EXCEPT ![x] = 0]
  /\ Goto(x, "out")
  /\ UNCHANGED <<word, lock, holds>>

\* atomic_flag::clear, one inline store.
clear(x) ==
  /\ at[x] = "out" /\ Runs(x) /\ x \in holds
  /\ word' = [word EXCEPT !["flag"] = 0]
  /\ holds' = holds \ {x}
  /\ UNCHANGED <<masked, lock, at, op, token, old>>

\* A thread's own critical section, which atomics may be used in.
critical(c) ==
  /\ at[<<c, "thread">>] = "out" /\ Runs(<<c, "thread">>)
  /\ masked' = IF c \in masked THEN masked \ {c} ELSE masked \cup {c}
  /\ UNCHANGED <<word, lock, at, op, token, old, holds>>

-----------------------------------------------------------------------------
Init ==
  /\ word = [o \in {"counter", "flag"} |-> 0]
  /\ masked = {} /\ lock = Nobody /\ holds = {}
  /\ at = [x \in Contexts |-> "out"] /\ op = [x \in Contexts |-> "none"]
  /\ token = [x \in Contexts |-> FALSE] /\ old = [x \in Contexts |-> 0]

Next ==
  \/ \E x \in Contexts :
       \/ \E o \in Ops : begin(x, o)
       \/ enter(x) \/ atomic_lock(x) \/ load(x) \/ write(x) \/ leave(x) \/ restore(x) \/ clear(x)
  \/ \E c \in Cores : critical(c)

Spec == Init /\ [][Next]_vars

-----------------------------------------------------------------------------
(* Properties *)

\* A read-modify-write is one step to everybody else, on its own core and on
\* the other: what it is about to store over is what it loaded.
UpdatesAreAtomic ==
  \A x \in Contexts :
    at[x] = "write" /\ op[x] # "store" /\ stores(x) => word[Object(op[x])] = old[x]

\* The flag is never left set with nobody to clear it, though its release goes
\* round the lock (__atomic_test_and_set sets it only over a 0), and never
\* taken twice.
FlagHasOneHolder == Cardinality(holds) <= 1 /\ (word["flag"] = 1 <=> holds # {})

\* A handler cannot come to spin for a lock that the thread beneath it has.
NeverSpinsOnItself ==
  \A c \in Handled : at[<<c, "handler">>] # "out" => lock # <<c, "thread">>
=============================================================================
