---------------------------- MODULE MCWaitEngine ----------------------------
(***************************************************************************)
(* Small instances of WaitEngine: who there is, on which core, and which   *)
(* calls each makes.                                                       *)
(***************************************************************************)
EXTENDS WaitEngine, TLC

CONSTANTS t1, t2, t3, i1, c1, c2, c3, s1

OneEach == t1 :> c1 @@ t2 :> c2 @@ t3 :> c3 @@ i1 :> c3
Shared  == t1 :> c1 @@ t2 :> c1 @@ t3 :> c2 @@ i1 :> c1

Prio123 == t1 :> 1 @@ t2 :> 2 @@ t3 :> 1

\* A thread ends while two others join it; one of those has waited before, and
\* suspends and is resumed too.
JoinRoles ==
  t1 :> {<<"acquire", None>>, <<"wait", t3>>, <<"suspend", None>>} @@
  t2 :> {<<"release", None>>, <<"wait", t3>>, <<"resume", t1>>, <<"yield", None>>} @@
  t3 :> {<<"exit", None>>} @@
  i1 :> {<<"release", None>>, <<"resume", t1>>}

\* Two threads of one core wait for the semaphore, one of them cancellable; the
\* tokens and the cancel come from an interrupt of their core.  A thread of
\* another core resumes one of them, resets the signal, and ends while it is
\* being joined.
EveryRole ==
  t1 :> {<<"acquire", None>>, <<"wait", t3>>, <<"suspend", None>>} @@
  t2 :> {<<"acquire", s1>>} @@
  t3 :> {<<"resume", t1>>, <<"reset", s1>>, <<"yield", None>>, <<"exit", None>>} @@
  i1 :> {<<"release", None>>, <<"raise", s1>>}
=============================================================================
