------------------------------ MODULE SpinLock ------------------------------
(***************************************************************************)
(* spinlock, instruction by instruction: masking comes before the flag,   *)
(* the holder alone stores its token in the lock, and unlock drops the     *)
(* flag before it restores the token it reads from the lock.  Locks nest   *)
(* in one order.  The token is the mask as it was, as on a port whose      *)
(* token is the saved state.                                               *)
(***************************************************************************)
EXTENDS Naturals, FiniteSets, Sequences, SequencesExt

CONSTANTS SpinCores, Locks   \* Locks is a set of numbers, taken in rising order

VARIABLES flag,     \* spinlock::flag
          token,    \* spinlock::token
          masked,   \* interrupts are masked on the core
          saved,    \* the local `saved' of a lock() in progress
          held,     \* the locks each core holds, outermost first
          pc, on    \* where each core is, and the lock it is at

spinlocks == <<flag, token, masked, saved, held, pc, on>>

Init ==
    /\ flag = [l \in Locks |-> FALSE]
    /\ token = [l \in Locks |-> FALSE]
    /\ masked = [c \in SpinCores |-> FALSE]
    /\ saved = [c \in SpinCores |-> FALSE]
    /\ held = [c \in SpinCores |-> <<>>]
    /\ pc = [c \in SpinCores |-> "out"]
    /\ on = [c \in SpinCores |-> 0]

Goes(c, where) == pc' = [pc EXCEPT ![c] = where]

\* enter_critical, at the head of lock() and of try_lock().
enter_critical(c, l, way) ==
    /\ pc[c] = "out"
    /\ held[c] # <<>> => l > Last(held[c])
    /\ saved' = [saved EXCEPT ![c] = masked[c]]
    /\ masked' = [masked EXCEPT ![c] = TRUE]
    /\ on' = [on EXCEPT ![c] = l]
    /\ Goes(c, way)
    /\ UNCHANGED <<flag, token, held>>

\* Mutant: the single-core take, a load and then a store, where cores contend.
LoadsThenStores(c) ==
    \/ /\ pc[c] \in {"lock", "try"}
       /\ ~flag[on[c]]
       /\ Goes(c, "store")
       /\ UNCHANGED <<flag, token, masked, saved, held, on>>
    \/ /\ pc[c] = "store"
       /\ flag' = [flag EXCEPT ![on[c]] = TRUE]
       /\ Goes(c, "token")
       /\ UNCHANGED <<token, masked, saved, held, on>>

\* On several cores a test-and-set; on one, a load and a store that nothing
\* comes between, interrupts being masked.
take(c) ==
    /\ pc[c] \in {"lock", "try"}
    /\ ~flag[on[c]]
    /\ flag' = [flag EXCEPT ![on[c]] = TRUE]
    /\ Goes(c, "token")
    /\ UNCHANGED <<token, masked, saved, held, on>>

\* Mutant: a failed try leaves the critical section open.
ReturnsMasked(c) ==
    /\ pc[c] = "try"
    /\ flag[on[c]]
    /\ Goes(c, "out")
    /\ UNCHANGED <<flag, token, masked, saved, held, on>>

\* try_lock that finds the lock held leaves the caller as it was.
try_lock(c) ==
    /\ pc[c] = "try"
    /\ flag[on[c]]
    /\ masked' = [masked EXCEPT ![c] = saved[c]]
    /\ Goes(c, "out")
    /\ UNCHANGED <<flag, token, saved, held, on>>

locked(c) ==
    /\ pc[c] = "token"
    /\ token' = [token EXCEPT ![on[c]] = saved[c]]
    /\ held' = [held EXCEPT ![c] = Append(@, on[c])]
    /\ Goes(c, "out")
    /\ UNCHANGED <<flag, masked, saved, on>>

\* unlock(): the flag is dropped, and then the token is read.
unlock(c) ==
    /\ pc[c] = "out" /\ held[c] # <<>>
    /\ on' = [on EXCEPT ![c] = Last(held[c])]
    /\ flag' = [flag EXCEPT ![Last(held[c])] = FALSE]
    /\ held' = [held EXCEPT ![c] = Front(@)]
    /\ Goes(c, "exit")
    /\ UNCHANGED <<token, masked, saved>>

exit_critical(c) ==
    /\ pc[c] = "exit"
    /\ masked' = [masked EXCEPT ![c] = token[on[c]]]
    /\ Goes(c, "out")
    /\ UNCHANGED <<flag, token, saved, held, on>>

Next ==
    \E c \in SpinCores :
        \/ \E l \in Locks, way \in {"lock", "try"} : enter_critical(c, l, way)
        \/ take(c) \/ try_lock(c) \/ locked(c) \/ unlock(c) \/ exit_critical(c)

----------------------------------------------------------------------------
\* A lock has one holder at a time, from the test-and-set to the drop.
OneHolder ==
    \A l \in Locks :
        Cardinality({c \in SpinCores : l \in ToSet(held[c]) \/ (pc[c] = "token" /\ on[c] = l)}) <= 1

\* A core that holds nothing and is between calls is back where it began,
\* unmasked, whichever of its calls failed.
LeavesAsFound == \A c \in SpinCores : pc[c] = "out" /\ held[c] = <<>> => ~masked[c]

\* Holding the lock is an interrupt-masking critical section on the calling
\* core (spinlock.hpp): as long as a core holds any lock it stays masked.
HolderIsMasked == \A c \in SpinCores : held[c] # <<>> => masked[c]
=============================================================================
