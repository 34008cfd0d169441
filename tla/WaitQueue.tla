------------------------------ MODULE WaitQueue ------------------------------
(***************************************************************************)
(* wait_queue (src/kernel/waitable.cpp): the intrusive list of the threads *)
(* armed on one waitable, most urgent first, first come first served among *)
(* equals.  A queue is the sequence of the owners of its nodes, its head   *)
(* first.  Every operation here runs under the queue's spinlock.           *)
(***************************************************************************)
EXTENDS Naturals, Sequences, WellFoundedInduction, TLAPS

CONSTANTS Threads,   \* the threads that may wait
          prio       \* base_priority of each thread, 0 the most urgent

ASSUME PrioAssumption == prio \in [Threads -> Nat]

\* Mutant: a newcomer passes its equals.
LinksBeforeEquals(q, t) ==
  CHOOSE k \in 0..Len(q) : /\ \A i \in 1..k : prio[q[i]] < prio[t]
                           /\ k < Len(q) => prio[t] <= prio[q[k + 1]]

\* How many waiters a newcomer queues behind: link passes every waiter whose
\* base priority is as urgent as the newcomer's or more.
Ahead(q, t) ==
  CHOOSE k \in 0..Len(q) : /\ \A i \in 1..k : prio[q[i]] <= prio[t]
                           /\ k < Len(q) => prio[t] < prio[q[k + 1]]

link(q, t) ==
  LET k == Ahead(q, t) IN SubSeq(q, 1, k) \o <<t>> \o SubSeq(q, k + 1, Len(q))

Armed(q, t) == \E i \in DOMAIN q : q[i] = t

\* Idempotent: a node a wake has already taken is left alone.
unlink(q, t) ==
  LET i == CHOOSE i \in DOMAIN q : q[i] = t
  IN  IF Armed(q, t) THEN SubSeq(q, 1, i - 1) \o SubSeq(q, i + 1, Len(q)) ELSE q

\* No thread has two nodes on the queue.
NoDup(q) == \A i, j \in DOMAIN q : q[i] = q[j] => i = j

\* The most urgent waiter comes first.
Sorted(q) == \A i, j \in DOMAIN q : i < j => prio[q[i]] <= prio[q[j]]

\* Waiter t is ahead of waiter u.
Before(q, t, u) == \E i, j \in DOMAIN q : i < j /\ q[i] = t /\ q[j] = u

\* From q to r no newcomer has passed those it ties with, nor have those queued
\* changed places (wait_queue::link scans with `<=').
PlacesKept(q, r) ==
  \A t, u \in Threads :
    /\ Armed(q, t) /\ Armed(r, t) /\ Armed(r, u) /\ t # u
    /\ Before(q, t, u) \/ (~Armed(q, u) /\ prio[t] <= prio[u])
    => Before(r, t, u)

-----------------------------------------------------------------------------
(* What link, unlink and the taking of the head do: who is armed, that nobody
   is armed twice, and the order *)

\* link's walk has an end: the place it finds exists in every queue.
LEMMA AheadPlace ==
  ASSUME NEW q \in Seq(Threads), NEW t \in Threads
  PROVE  /\ Ahead(q, t) \in 0..Len(q)
         /\ \A i \in 1..Ahead(q, t) : prio[q[i]] <= prio[t]
         /\ Ahead(q, t) < Len(q) => prio[t] < prio[q[Ahead(q, t) + 1]]
<1> DEFINE Behind == {k \in 0..Len(q) : k < Len(q) => prio[t] < prio[q[k + 1]]}
           Less   == OpToRel(<, Nat)
<1>1. Len(q) \in Nat /\ Len(q) \in Behind /\ Behind \subseteq Nat
  OBVIOUS
<1>2. PICK k \in Behind : \A m \in Behind : <<m, k>> \notin Less
  <2> HIDE DEF Behind, Less
  <2> QED BY ZenonT(60), <1>1, NatLessThanWellFounded, WFMin DEF Less
<1>3. \A m \in Behind : k <= m
  <2> SUFFICES ASSUME NEW m \in Behind, m < k PROVE FALSE
    BY <1>1, k \in Nat, \A m \in Behind : m \in Nat
  <2>1. m \in Nat /\ k \in Nat
    BY <1>1
  <2>2. <<m, k>> \in Less
    <3> HIDE DEF Behind
    <3> QED BY <2>1 DEF OpToRel
  <2> QED BY ZenonT(60), <1>2, <2>2
<1>4. \A i \in 1..k : prio[q[i]] <= prio[t]
  <2> SUFFICES ASSUME NEW i \in 1..k PROVE prio[q[i]] <= prio[t]
    OBVIOUS
  <2>1. i - 1 \notin Behind
    <3> HIDE DEF Behind
    <3> QED BY <1>1, <1>3, k \in Nat, i - 1 < k, i - 1 \in Nat
  <2>3. i - 1 \in 0..Len(q) /\ i \in 1..Len(q)
    BY <1>1
  <2>2. q[i] \in Threads
    BY <2>3
  <2> QED BY <2>1, <2>2, <2>3, PrioAssumption
<1> QED BY SMTT(60), <1>1, <1>4 DEF Ahead

\* What the queue holds after a link, place by place.
LEMMA LinkPlaces ==
  ASSUME NEW q \in Seq(Threads), NEW t \in Threads
  PROVE  /\ link(q, t) \in Seq(Threads)
         /\ Len(link(q, t)) = Len(q) + 1
         /\ \E k \in 0..Len(q) :
              /\ \A i \in 1..(Len(q) + 1) :
                   link(q, t)[i] = IF i <= k THEN q[i] ELSE IF i = k + 1 THEN t ELSE q[i - 1]
              /\ \A i \in 1..k : prio[q[i]] <= prio[t]
              /\ k < Len(q) => prio[t] < prio[q[k + 1]]
<1> DEFINE k == Ahead(q, t)
           front == SubSeq(q, 1, k)
           back  == SubSeq(q, k + 1, Len(q))
<1>1. Len(q) \in Nat /\ k \in 0..Len(q) /\ \A i \in 1..Len(q) : q[i] \in Threads
  BY AheadPlace
<1> HIDE DEF k
<1>2. front \in Seq(Threads) /\ Len(front) = k /\ \A i \in 1..k : front[i] = q[i]
  BY <1>1
<1>3. back \in Seq(Threads)
  BY <1>1
<1>4. Len(back) = Len(q) - k /\ \A i \in 1..(Len(q) - k) : back[i] = q[k + i]
  BY <1>1
<1> HIDE DEF front, back
<1> DEFINE upto == front \o <<t>>
           all  == upto \o back
<1>5. upto \in Seq(Threads)
  BY <1>2, <<t>> \in Seq(Threads)
<1>6. Len(upto) = k + 1 /\ \A i \in 1..(k + 1) : upto[i] = IF i <= k THEN q[i] ELSE t
  BY <1>1, <1>2, <<t>> \in Seq(Threads), Len(<<t>>) = 1
<1> HIDE DEF upto
<1>7. all \in Seq(Threads) /\ Len(all) = Len(upto) + Len(back)
  BY <1>3, <1>5
<1>8. \A i \in 1..(Len(upto) + Len(back)) :
        all[i] = IF i <= Len(upto) THEN upto[i] ELSE back[i - Len(upto)]
  BY <1>3, <1>5
<1>9. link(q, t) = all
  BY DEF link, k, front, back, upto
<1> HIDE DEF all
<1>10. ASSUME NEW i \in 1..(Len(q) + 1)
       PROVE  all[i] = IF i <= k THEN q[i] ELSE IF i = k + 1 THEN t ELSE q[i - 1]
  <2>1. CASE i <= k + 1
    <3>1. /\ i \in 1..(Len(upto) + Len(back)) /\ i \in 1..(k + 1)
          /\ i <= Len(upto)
      BY <1>1, <1>4, <1>6, <2>1
    <3>2. all[i] = upto[i] /\ upto[i] = IF i <= k THEN q[i] ELSE t
      BY <1>6, <1>8, <3>1
    <3> QED BY <1>1, <2>1, <3>2
  <2>2. CASE i > k + 1
    <3> Len(upto) = k + 1 /\ Len(back) = Len(q) - k
      BY <1>4, <1>6
    <3>1. /\ i \in 1..(Len(upto) + Len(back)) /\ i - Len(upto) \in 1..(Len(q) - k)
          /\ ~(i <= Len(upto)) /\ k + (i - Len(upto)) = i - 1
      BY <1>1, <2>2
    <3>2. all[i] = back[i - Len(upto)] /\ back[i - Len(upto)] = q[k + (i - Len(upto))]
      BY <1>4, <1>8, <3>1
    <3> QED BY SMTT(60), <1>1, <2>2, <3>1, <3>2
  <2> QED BY <1>1, <2>1, <2>2
<1>11. Len(all) = Len(q) + 1
  BY <1>1, <1>4, <1>6, <1>7
<1>12. /\ \A i \in 1..k : prio[q[i]] <= prio[t]
       /\ k < Len(q) => prio[t] < prio[q[k + 1]]
  BY AheadPlace DEF k
<1>13. \E n \in 0..Len(q) :
         /\ \A i \in 1..(Len(q) + 1) :
              all[i] = IF i <= n THEN q[i] ELSE IF i = n + 1 THEN t ELSE q[i - 1]
         /\ \A i \in 1..n : prio[q[i]] <= prio[t]
         /\ n < Len(q) => prio[t] < prio[q[n + 1]]
  BY ZenonT(60), <1>1, <1>10, <1>12
<1> QED BY ZenonT(60), <1>7, <1>9, <1>11, <1>13

\* A link arms its thread and disarms nobody.
LEMMA LinkArms ==
  ASSUME NEW q \in Seq(Threads), NEW t \in Threads
  PROVE  /\ link(q, t) \in Seq(Threads)
         /\ \A u : Armed(link(q, t), u) <=> Armed(q, u) \/ u = t
<1>1. Len(q) \in Nat /\ DOMAIN q = 1..Len(q) /\ DOMAIN link(q, t) = 1..(Len(q) + 1)
  BY LinkPlaces
<1>2. PICK k \in 0..Len(q) :
        /\ \A i \in 1..(Len(q) + 1) :
             link(q, t)[i] = IF i <= k THEN q[i] ELSE IF i = k + 1 THEN t ELSE q[i - 1]
        /\ \A i \in 1..k : prio[q[i]] <= prio[t]
        /\ k < Len(q) => prio[t] < prio[q[k + 1]]
  BY ZenonT(60), LinkPlaces
<1>3. ASSUME NEW i \in 1..Len(q)
      PROVE  \E j \in 1..(Len(q) + 1) : link(q, t)[j] = q[i]
  <2>1. CASE i <= k
    BY <1>1, <1>2, <2>1, i \in 1..(Len(q) + 1)
  <2>2. CASE ~(i <= k)
    <3>1. i + 1 \in 1..(Len(q) + 1) /\ link(q, t)[i + 1] = q[i]
      BY <1>1, <1>2, <2>2
    <3> QED BY <3>1
  <2> QED BY <2>1, <2>2
<1>4. \E j \in 1..(Len(q) + 1) : link(q, t)[j] = t
  <2>1. k + 1 \in 1..(Len(q) + 1) /\ link(q, t)[k + 1] = t
    BY <1>1, <1>2
  <2> QED BY <2>1
<1>5. ASSUME NEW i \in 1..(Len(q) + 1), link(q, t)[i] # t
      PROVE  \E j \in 1..Len(q) : link(q, t)[i] = q[j]
  <2>1. CASE i <= k
    BY <1>1, <1>2, <2>1, i \in 1..Len(q)
  <2>2. CASE ~(i <= k)
    BY <1>1, <1>2, <1>5, <2>2, i - 1 \in 1..Len(q)
  <2> QED BY <2>1, <2>2
<1>6. ASSUME NEW u PROVE Armed(link(q, t), u) <=> Armed(q, u) \/ u = t
  <2>1. Armed(q, u) \/ u = t => Armed(link(q, t), u)
    BY SMTT(60), <1>1, <1>3, <1>4 DEF Armed
  <2>2. Armed(link(q, t), u) => Armed(q, u) \/ u = t
    BY <1>1, <1>5 DEF Armed
  <2> QED BY <2>1, <2>2
<1>7. link(q, t) \in Seq(Threads)
  BY LinkPlaces
<1> QED BY <1>6, <1>7

\* A thread that is not armed may be linked without being there twice.
LEMMA LinkNoDup ==
  ASSUME NEW q \in Seq(Threads), NEW t \in Threads, NoDup(q), ~Armed(q, t)
  PROVE  NoDup(link(q, t))
<1>1. Len(q) \in Nat /\ DOMAIN q = 1..Len(q) /\ DOMAIN link(q, t) = 1..(Len(q) + 1)
  BY LinkPlaces
<1>2. PICK k \in 0..Len(q) :
        /\ \A i \in 1..(Len(q) + 1) :
             link(q, t)[i] = IF i <= k THEN q[i] ELSE IF i = k + 1 THEN t ELSE q[i - 1]
        /\ \A i \in 1..k : prio[q[i]] <= prio[t]
        /\ k < Len(q) => prio[t] < prio[q[k + 1]]
  BY ZenonT(60), LinkPlaces
<1>3. \A i \in 1..Len(q) : q[i] # t
  BY <1>1 DEF Armed
<1>4. \A i, j \in 1..Len(q) : q[i] = q[j] => i = j
  BY <1>1 DEF NoDup
<1> QED BY <1>1, <1>2, <1>3, <1>4 DEF NoDup

\* link keeps the most urgent waiter first.
THEOREM LinkSorts ==
  ASSUME NEW q \in Seq(Threads), NEW t \in Threads, Sorted(q)
  PROVE  Sorted(link(q, t))
<1>1. Len(q) \in Nat /\ DOMAIN q = 1..Len(q) /\ DOMAIN link(q, t) = 1..(Len(q) + 1)
  BY LinkPlaces
<1>2. PICK k \in 0..Len(q) :
        /\ \A i \in 1..(Len(q) + 1) :
             link(q, t)[i] = IF i <= k THEN q[i] ELSE IF i = k + 1 THEN t ELSE q[i - 1]
        /\ \A i \in 1..k : prio[q[i]] <= prio[t]
        /\ k < Len(q) => prio[t] < prio[q[k + 1]]
  BY ZenonT(60), LinkPlaces
<1>3. prio[t] \in Nat /\ \A i \in 1..Len(q) : prio[q[i]] \in Nat
  BY PrioAssumption
<1>4. \A i, j \in 1..Len(q) : i < j => prio[q[i]] <= prio[q[j]]
  BY <1>1 DEF Sorted
<1>5. \A i \in 1..Len(q) : i > k => prio[t] <= prio[q[i]]
  <2> SUFFICES ASSUME NEW i \in 1..Len(q), i > k PROVE prio[t] <= prio[q[i]]
    OBVIOUS
  <2>1. prio[t] < prio[q[k + 1]] /\ k + 1 \in 1..Len(q)
    BY <1>1, <1>2
  <2>2. prio[q[k + 1]] <= prio[q[i]]
    BY <1>1, <1>3, <1>4, <2>1
  <2> QED BY <1>3, <2>1, <2>2
<1> SUFFICES ASSUME NEW i \in 1..(Len(q) + 1), NEW j \in 1..(Len(q) + 1), i < j
             PROVE  prio[link(q, t)[i]] <= prio[link(q, t)[j]]
  BY <1>1 DEF Sorted
<1>6. CASE j <= k
  BY <1>1, <1>2, <1>4, <1>6
<1>7. CASE j = k + 1
  BY <1>1, <1>2, <1>7
<1>8. CASE j > k + 1 /\ i <= k
  BY <1>1, <1>2, <1>4, <1>8, j - 1 \in 1..Len(q), i < j - 1
<1>9. CASE j > k + 1 /\ i = k + 1
  BY <1>1, <1>2, <1>5, <1>9, j - 1 \in 1..Len(q)
<1>10. CASE j > k + 1 /\ i > k + 1
  BY SMTT(60), <1>1, <1>2, <1>4, <1>10, j - 1 \in 1..Len(q), i - 1 \in 1..Len(q)
<1> QED BY <1>1, <1>6, <1>7, <1>8, <1>9, <1>10

\* What the queue holds once the first node of an armed thread is unlinked.
LEMMA UnlinkPlaces ==
  ASSUME NEW q \in Seq(Threads), NEW t, Armed(q, t)
  PROVE  /\ unlink(q, t) \in Seq(Threads)
         /\ Len(unlink(q, t)) = Len(q) - 1
         /\ \E k \in 1..Len(q) :
              /\ q[k] = t
              /\ \A i \in 1..(Len(q) - 1) :
                   unlink(q, t)[i] = IF i < k THEN q[i] ELSE q[i + 1]
<1> DEFINE k == CHOOSE i \in DOMAIN q : q[i] = t
           front == SubSeq(q, 1, k - 1)
           back  == SubSeq(q, k + 1, Len(q))
           all   == front \o back
<1>1. Len(q) \in Nat /\ DOMAIN q = 1..Len(q) /\ \A i \in 1..Len(q) : q[i] \in Threads
  OBVIOUS
<1>2. k \in 1..Len(q) /\ q[k] = t
  BY <1>1 DEF Armed
<1>3. unlink(q, t) = all
  BY ZenonT(60) DEF unlink, k
<1> HIDE DEF k
<1>4. front \in Seq(Threads)
  BY <1>1, <1>2
<1>5. Len(front) = k - 1 /\ \A i \in 1..(k - 1) : front[i] = q[i]
  BY <1>1, <1>2
<1>6. back \in Seq(Threads)
  BY <1>1, <1>2
<1>7. Len(back) = Len(q) - k /\ \A i \in 1..(Len(q) - k) : back[i] = q[k + i]
  <2>1. \A i \in (k + 1)..Len(q) : q[i] \in Threads
    BY <1>1, <1>2
  <2>2. Len(back) = IF k + 1 <= Len(q) THEN Len(q) - (k + 1) + 1 ELSE 0
    BY <1>1, <1>2, <2>1
  <2>3. \A i \in 1..(Len(q) - (k + 1) + 1) : back[i] = q[(k + 1) + i - 1]
    BY <1>1, <1>2, <2>1
  <2> HIDE DEF back
  <2> Len(q) \in Nat /\ k \in 1..Len(q)
    BY <1>1, <1>2
  <2>4. Len(back) = Len(q) - k
    BY <2>2
  <2>5. ASSUME NEW i \in 1..(Len(q) - k) PROVE back[i] = q[k + i]
    <3>1. i \in 1..(Len(q) - (k + 1) + 1) /\ (k + 1) + i - 1 = k + i
      OBVIOUS
    <3> QED BY <2>3, <3>1
  <2> QED BY <2>4, <2>5
<1> HIDE DEF front, back
<1>8. all \in Seq(Threads) /\ Len(all) = Len(front) + Len(back)
  BY <1>4, <1>6
<1>9. \A i \in 1..(Len(front) + Len(back)) :
        all[i] = IF i <= Len(front) THEN front[i] ELSE back[i - Len(front)]
  BY <1>4, <1>6
<1> HIDE DEF all
<1>10. Len(all) = Len(q) - 1
  BY <1>1, <1>2, <1>5, <1>7, <1>8
<1>11. ASSUME NEW i \in 1..(Len(q) - 1)
       PROVE  all[i] = IF i < k THEN q[i] ELSE q[i + 1]
  <2> Len(front) = k - 1 /\ Len(back) = Len(q) - k
    BY <1>5, <1>7
  <2>1. CASE i < k
    BY <1>1, <1>2, <1>5, <1>9, <2>1
  <2>2. CASE ~(i < k)
    <3>1. /\ i \in 1..(Len(front) + Len(back)) /\ i - Len(front) \in 1..(Len(q) - k)
          /\ ~(i <= Len(front)) /\ k + (i - Len(front)) = i + 1
      BY <1>1, <1>2, <2>2
    <3>2. all[i] = back[i - Len(front)] /\ back[i - Len(front)] = q[k + (i - Len(front))]
      BY <1>7, <1>9, <3>1
    <3> QED BY <2>2, <3>1, <3>2
  <2> QED BY <2>1, <2>2
<1>12. \E n \in 1..Len(q) :
         q[n] = t /\ \A i \in 1..(Len(q) - 1) : all[i] = IF i < n THEN q[i] ELSE q[i + 1]
  BY <1>2, <1>11
<1> QED BY <1>3, <1>8, <1>10, <1>12

\* A disarm leaves everyone else armed, arms nobody, and leaves its own thread
\* off the queue when it was there once.
LEMMA UnlinkDisarms ==
  ASSUME NEW q \in Seq(Threads), NEW t
  PROVE  /\ unlink(q, t) \in Seq(Threads)
         /\ \A u : Armed(unlink(q, t), u) => Armed(q, u)
         /\ \A u : Armed(q, u) /\ u # t => Armed(unlink(q, t), u)
         /\ NoDup(q) => ~Armed(unlink(q, t), t) /\ NoDup(unlink(q, t))
         /\ Sorted(q) => Sorted(unlink(q, t))
<1>1. CASE ~Armed(q, t)
  BY <1>1 DEF unlink
<1>2. CASE Armed(q, t)
  <2> DEFINE r == unlink(q, t)
  <2>1. r \in Seq(Threads)
    BY <1>2, UnlinkPlaces
  <2>2. Len(q) \in Nat /\ DOMAIN q = 1..Len(q) /\ DOMAIN r = 1..(Len(q) - 1)
    BY <1>2, UnlinkPlaces
  <2>3. PICK k \in 1..Len(q) :
          /\ q[k] = t
          /\ \A i \in 1..(Len(q) - 1) : r[i] = IF i < k THEN q[i] ELSE q[i + 1]
    BY <1>2, UnlinkPlaces
  <2> HIDE DEF r
  <2>4. ASSUME NEW u, Armed(r, u) PROVE Armed(q, u)
    <3>1. PICK i \in 1..(Len(q) - 1) : r[i] = u
      BY <2>2, <2>4 DEF Armed
    <3>2. i \in 1..Len(q) /\ i + 1 \in 1..Len(q) /\ (q[i] = u \/ q[i + 1] = u)
      BY <2>2, <2>3, <3>1
    <3> QED BY <2>2, <3>2 DEF Armed
  <2>5. ASSUME NEW u, Armed(q, u), u # t PROVE Armed(r, u)
    <3>1. PICK i \in 1..Len(q) : q[i] = u
      BY <2>2, <2>5 DEF Armed
    <3>2. CASE i < k
      BY <2>2, <2>3, <3>1, <3>2, i \in 1..(Len(q) - 1) DEF Armed
    <3>3. CASE ~(i < k)
      <4>1. i - 1 \in 1..(Len(q) - 1) /\ r[i - 1] = u
        BY <2>2, <2>3, <2>5, <3>1, <3>3
      <4> QED BY <2>2, <4>1 DEF Armed
    <3> QED BY <3>2, <3>3
  <2>6. ASSUME NoDup(q) PROVE ~Armed(r, t) /\ NoDup(r)
    <3>1. \A i, j \in 1..Len(q) : q[i] = q[j] => i = j
      BY <2>2, <2>6 DEF NoDup
    <3>2. \A i \in 1..(Len(q) - 1) : r[i] # t
      BY <2>2, <2>3, <3>1
    <3>3. \A i, j \in 1..(Len(q) - 1) : r[i] = r[j] => i = j
      BY <2>2, <2>3, <3>1
    <3> QED BY <2>2, <3>2, <3>3 DEF Armed, NoDup
  <2>7. ASSUME Sorted(q) PROVE Sorted(r)
    <3>1. \A i, j \in 1..Len(q) : i < j => prio[q[i]] <= prio[q[j]]
      BY <2>2, <2>7 DEF Sorted
    <3>2. \A i, j \in 1..(Len(q) - 1) : i < j => prio[r[i]] <= prio[r[j]]
      BY <2>2, <2>3, <3>1
    <3> QED BY <2>2, <3>2 DEF Sorted
  <2> QED BY <2>1, <2>4, <2>5, <2>6, <2>7 DEF r
<1> QED BY <1>1, <1>2

\* Nobody is armed on an empty queue.
LEMMA EmptyArms ==
  ASSUME NEW q, q = <<>>, NEW t
  PROVE  ~Armed(q, t)
<1>1. DOMAIN q = 1..0
  OBVIOUS
<1> QED BY <1>1 DEF Armed

\* A wake that takes the head leaves the others armed and in order.
LEMMA TailDisarms ==
  ASSUME NEW q \in Seq(Threads), q # <<>>
  PROVE  /\ Head(q) \in Threads /\ Armed(q, Head(q))
         /\ Tail(q) \in Seq(Threads)
         /\ \A u : Armed(Tail(q), u) => Armed(q, u)
         /\ \A u : Armed(q, u) /\ u # Head(q) => Armed(Tail(q), u)
         /\ NoDup(q) => ~Armed(Tail(q), Head(q)) /\ NoDup(Tail(q))
         /\ Sorted(q) => Sorted(Tail(q))
<1> DEFINE r == Tail(q)
<1>1. Head(q) \in Threads /\ r \in Seq(Threads)
  OBVIOUS
<1>2. /\ Len(q) \in Nat \ {0} /\ DOMAIN q = 1..Len(q) /\ DOMAIN r = 1..(Len(q) - 1)
      /\ Head(q) = q[1]
  OBVIOUS
<1>3. \A i \in 1..(Len(q) - 1) : r[i] = q[i + 1]
  OBVIOUS
<1> HIDE DEF r
<1>4. Armed(q, Head(q))
  BY <1>2 DEF Armed
<1>5. ASSUME NEW u, Armed(r, u) PROVE Armed(q, u)
  <2>1. PICK i \in 1..(Len(q) - 1) : r[i] = u
    BY <1>2, <1>5 DEF Armed
  <2>2. i + 1 \in 1..Len(q) /\ q[i + 1] = u
    BY <1>2, <1>3, <2>1
  <2> QED BY <1>2, <2>2 DEF Armed
<1>6. ASSUME NEW u, Armed(q, u), u # Head(q) PROVE Armed(r, u)
  <2>1. PICK i \in 1..Len(q) : q[i] = u
    BY <1>2, <1>6 DEF Armed
  <2>2. i - 1 \in 1..(Len(q) - 1) /\ r[i - 1] = u
    BY <1>2, <1>3, <1>6, <2>1
  <2> QED BY <1>2, <2>2 DEF Armed
<1>7. ASSUME NoDup(q) PROVE ~Armed(r, Head(q)) /\ NoDup(r)
  <2>1. \A i, j \in 1..Len(q) : q[i] = q[j] => i = j
    BY <1>2, <1>7 DEF NoDup
  <2>2. \A i \in 1..(Len(q) - 1) : r[i] # q[1]
    BY <1>2, <1>3, <2>1
  <2>3. \A i, j \in 1..(Len(q) - 1) : r[i] = r[j] => i = j
    BY <1>2, <1>3, <2>1
  <2> QED BY <1>2, <2>2, <2>3 DEF Armed, NoDup
<1>8. ASSUME Sorted(q) PROVE Sorted(r)
  <2>1. \A i, j \in 1..Len(q) : i < j => prio[q[i]] <= prio[q[j]]
    BY <1>2, <1>8 DEF Sorted
  <2>2. \A i, j \in 1..(Len(q) - 1) : i < j => prio[r[i]] <= prio[r[j]]
    BY <1>2, <1>3, <2>1
  <2> QED BY <1>2, <2>2 DEF Sorted
<1> QED BY <1>1, <1>4, <1>5, <1>6, <1>7, <1>8 DEF r
=============================================================================
