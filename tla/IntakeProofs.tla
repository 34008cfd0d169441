---------------------------- MODULE IntakeProofs ----------------------------
(***************************************************************************)
(* Proofs about Intake, for any number of threads and producers.  The      *)
(* stack that the producers build and the queue that the drain makes of it *)
(* are read off `arrived': its first k threads are in the drain's hands,   *)
(* of which the walk has j still to reverse, and the rest are the stack    *)
(* under intake_head.                                                      *)
(***************************************************************************)
EXTENDS Intake, TLAPS

\* Every leaf that names no prover of its own is one for Zenon.
USE ZenonT(60)

Places == {"out", "post", "push", "exchange", "link", "ring"}

\* The types of the fields and of the locals.
Typed ==
    /\ pending_requests \in [Pinned -> BOOLEAN]
    /\ resume_token \in [Pinned -> BOOLEAN]
    /\ intake_next \in [Pinned -> Pinned \cup {Null}]
    /\ disposition \in [Pinned -> {"none", "prepared"}]
    /\ state \in [Pinned -> {"ready", "running", "blocked"}]
    /\ at \in [Pinned -> {"out", "look", "taking", "commit"}]
    /\ pc \in [Producers -> Places]
    /\ target \in [Producers -> Pinned \cup {Null}]
    /\ prev \in [Producers -> Pinned \cup {Null}]
    /\ intake_head \in Pinned \cup {Null}
    /\ {node, fifo, rest} \subseteq Pinned \cup {Null}
    /\ current \in Pinned \cup {Idle}
    /\ drain \in {"none", "take", "walk", "claim", "serve"}
    /\ reason \in {"yielded", "parked"}
    /\ arrived \in Seq(Pinned) /\ ready \in Seq(Pinned)

\* No thread is in s twice.
Distinct(s) == \A i, j \in 1 .. Len(s) : s[i] = s[j] => i = j

\* p is between its claim on a request and the end of its push.
Pushing(p) == pc[p] \in {"push", "exchange", "link"}

\* The pending request of a thread has one owner: the producer pushing it, or
\* the intake that holds it.
Owned ==
    /\ Distinct(arrived)
    /\ \A p \in Producers :
          /\ pc[p] # "out" => target[p] \in Pinned
          /\ pc[p] \in {"push", "exchange"} =>
                pending_requests[target[p]] /\ ~ Holds(arrived, target[p])
          /\ pc[p] = "exchange" => intake_next[target[p]] = target[p]
          /\ pc[p] = "link" => Holds(arrived, target[p])
    /\ \A p, q \in Producers : p # q /\ Pushing(p) /\ Pushing(q) => target[p] # target[q]
    /\ \A t \in Pinned :
          /\ Holds(arrived, t) => pending_requests[t]
          /\ pending_requests[t] =>
                \/ Holds(arrived, t)
                \/ \E p \in Producers : pc[p] \in {"push", "exchange"} /\ target[p] = t

\* No producer has t's link still to write.
Settled(t) == \A p \in Producers : ~ (pc[p] = "link" /\ target[p] = t)

\* t leads to `below': by its link, or by the one its producer is about to write.
Leads(t, below) ==
    \/ intake_next[t] = below /\ Settled(t)
    \/ /\ intake_next[t] = t
       /\ \E p \in Producers : pc[p] = "link" /\ target[p] = t /\ prev[p] = below

\* The thread at i of arrived, nullptr at the ends of the part from lo to hi.
Entry(i, lo, hi) == IF i < lo \/ i > hi THEN Null ELSE arrived[i]

\* The first k threads are taken, and the walk has the first j of them to reverse.
Shape(k, j) ==
    /\ intake_head = Entry(Len(arrived), k + 1, Len(arrived))
    /\ \A i \in k + 1 .. Len(arrived) : Leads(arrived[i], Entry(i - 1, k + 1, Len(arrived)))
    /\ \A i \in 1 .. j : Leads(arrived[i], Entry(i - 1, 1, k))
    /\ \A i \in j + 1 .. k : Settled(arrived[i]) /\ intake_next[arrived[i]] = Entry(i + 1, 1, k)
    /\ drain \in {"none", "take"} => k = 0 /\ fifo = Null
    /\ drain = "walk" => node = Entry(j, 1, k) /\ fifo = Entry(j + 1, 1, k)
    /\ drain = "claim" => j = 0 /\ fifo = Entry(1, 1, k)
    /\ drain = "serve" => j = 0 /\ fifo # Null /\ rest = Entry(1, 1, k)

\* What is left of the intake list, and what the drain has reversed of it.
Shaped == \E k \in 0 .. Len(arrived) : \E j \in 0 .. k : Shape(k, j)

\* A service that will ready t is still to come.
Coming(t) ==
    \/ Holds(arrived, t)
    \/ drain = "serve" /\ fifo = t
    \/ \E p \in Producers : target[p] = t /\ pc[p] \in {"post", "push", "exchange"}

\* The ready list names ready threads, each once.
Filed ==
    /\ Distinct(ready)
    /\ \A t \in Pinned : Holds(ready, t) => state[t] = "ready"

\* Whoever has a token and no service to come is not blocked, nor on the way to it.
Heard ==
    \A t \in Pinned : resume_token[t] /\ ~ Coming(t) =>
        /\ state[t] # "blocked"
        /\ ~ (at[t] = "commit" /\ disposition[t] = "prepared")
        /\ ~ (reason = "parked" /\ current = t /\ state[t] = "running")

\* The inductive invariant.
IInv == Typed /\ Owned /\ Shaped /\ Filed /\ Heard /\ DoorbellCovers

----------------------------------------------------------------------------
\* What appending to a sequence, and dropping its head, does to the threads in it.
LEMMA AppendContains ==
  ASSUME NEW S, NEW s \in Seq(S), NEW x \in S
  PROVE  /\ Append(s, x) \in Seq(S)
         /\ Len(Append(s, x)) = Len(s) + 1
         /\ \A i \in 1 .. Len(s) : Append(s, x)[i] = s[i]
         /\ Append(s, x)[Len(s) + 1] = x
         /\ \A y : Holds(Append(s, x), y) <=> Holds(s, y) \/ y = x
         /\ Distinct(s) /\ ~ Holds(s, x) => Distinct(Append(s, x))
<1>1. /\ Append(s, x) \in Seq(S)
      /\ Len(Append(s, x)) = Len(s) + 1
      /\ \A i \in 1 .. Len(s) : Append(s, x)[i] = s[i]
      /\ Append(s, x)[Len(s) + 1] = x
  BY SMTT(60)
<1>2. Len(s) \in Nat
  BY SMTT(60)
<1>3. \A y : Holds(Append(s, x), y) <=> Holds(s, y) \/ y = x
  BY SMTT(60), <1>1, <1>2 DEF Holds
<1>4. Distinct(s) /\ ~ Holds(s, x) => Distinct(Append(s, x))
  BY SMTT(60), <1>1, <1>2 DEF Distinct, Holds
<1> QED BY <1>1, <1>3, <1>4

\* The same for the queue without its head.
LEMMA TailContains ==
  ASSUME NEW S, NEW s \in Seq(S), s # <<>>
  PROVE  /\ Tail(s) \in Seq(S) /\ Len(s) \in Nat \ {0}
         /\ Len(Tail(s)) = Len(s) - 1
         /\ \A i \in 1 .. Len(s) - 1 : Tail(s)[i] = s[i + 1]
         /\ Head(s) = s[1] /\ s[1] \in S
         /\ \A y : Holds(s, y) <=> Holds(Tail(s), y) \/ y = s[1]
         /\ Distinct(s) => Distinct(Tail(s)) /\ ~ Holds(Tail(s), s[1])
<1>1. /\ Tail(s) \in Seq(S) /\ Len(s) \in Nat \ {0}
      /\ Len(Tail(s)) = Len(s) - 1
      /\ \A i \in 1 .. Len(s) - 1 : Tail(s)[i] = s[i + 1]
      /\ Head(s) = s[1] /\ s[1] \in S
  BY SMTT(60)
<1>3. ASSUME NEW y
      PROVE  Holds(s, y) <=> Holds(Tail(s), y) \/ y = s[1]
  <2>1. ASSUME Holds(s, y), y # s[1]
        PROVE  Holds(Tail(s), y)
    <3>1. PICK i \in 1 .. Len(s) : s[i] = y
      BY <2>1 DEF Holds
    <3>2. i - 1 \in 1 .. Len(Tail(s)) /\ Tail(s)[i - 1] = y
      BY SMTT(60), <1>1, <2>1, <3>1
    <3> QED BY <3>2 DEF Holds
  <2>2. ASSUME Holds(Tail(s), y)
        PROVE  Holds(s, y)
    <3>1. PICK i \in 1 .. Len(Tail(s)) : Tail(s)[i] = y
      BY <2>2 DEF Holds
    <3>2. i + 1 \in 1 .. Len(s) /\ s[i + 1] = y
      BY SMTT(60), <1>1, <3>1
    <3> QED BY <3>2 DEF Holds
  <2>3. y = s[1] => Holds(s, y)
    BY SMTT(60), <1>1 DEF Holds
  <2> QED BY <2>1, <2>2, <2>3
<1>4. Distinct(s) => Distinct(Tail(s)) /\ ~ Holds(Tail(s), s[1])
  BY SMTT(60), <1>1 DEF Distinct, Holds
<1> QED BY <1>1, <1>3, <1>4

\* A thread appended is in the queue, and so is whoever was.
LEMMA AppendHolds ==
  ASSUME NEW s \in Seq(Pinned), NEW x \in Pinned
  PROVE  /\ Append(s, x) \in Seq(Pinned)
         /\ \A y : Holds(Append(s, x), y) <=> Holds(s, y) \/ y = x
         /\ Distinct(s) /\ ~ Holds(s, x) => Distinct(Append(s, x))
BY SMTT(60), AppendContains

\* The intake list is finite.
LEMMA Arrivals ==
  ASSUME Typed
  PROVE  Len(arrived) \in Nat
BY SMTT(60) DEF Typed

\* Of the threads taken, none is nullptr.
LEMMA EntryNull ==
  ASSUME IntakeAssumption, Typed, NEW k \in 0 .. Len(arrived)
  PROVE  /\ \A j \in 0 .. k : Entry(j, 1, k) = Null => j = 0
         /\ Entry(1, 1, k) = Null => k = 0
<1>1. /\ Len(arrived) \in Nat
      /\ \A i \in 1 .. Len(arrived) : arrived[i] # Null
  BY SMTT(60) DEF Typed, IntakeAssumption
<1> QED BY SMTT(60), <1>1 DEF Entry

----------------------------------------------------------------------------
\* A step that leaves the sequence and the drain alone, and every link there is
\* or is to come, keeps the intake's shape.
LEMMA ShapeKept ==
  ASSUME Typed, Shaped,
         UNCHANGED <<arrived, intake_head, drains>>,
         ASSUME NEW t \in Pinned, Holds(arrived, t)
         PROVE  /\ \A b : Leads(t, b) => Leads(t, b)'
                /\ Settled(t) => Settled(t)' /\ intake_next'[t] = intake_next[t]
  PROVE  Shaped'
<1>1. PICK k \in 0 .. Len(arrived) : \E j \in 0 .. k : Shape(k, j)
  BY DEF Shaped
<1>0. PICK j \in 0 .. k : Shape(k, j)
  BY <1>1
<1>2. arrived \in Seq(Pinned) /\ Len(arrived) \in Nat
  BY SMTT(60) DEF Typed
<1>3. ASSUME NEW i \in 1 .. Len(arrived)
      PROVE  /\ \A b : Leads(arrived[i], b) => Leads(arrived[i], b)'
             /\ Settled(arrived[i]) => Settled(arrived[i])'
                                       /\ intake_next'[arrived[i]] = intake_next[arrived[i]]
  <2> DEFINE t == arrived[i]
  <2>1. t \in Pinned /\ Holds(arrived, t)
    BY SMTT(60), <1>2 DEF Holds
  <2>2. arrived' = arrived
    OBVIOUS
  <2>3. /\ \A b : Leads(t, b) => Leads(t, b)'
        /\ Settled(t) => Settled(t)' /\ intake_next'[t] = intake_next[t]
    <3> PICK u \in Pinned : u = t
      BY <2>1
    <3>1. /\ \A b : Leads(u, b) => Leads(u, b)'
          /\ Settled(u) => Settled(u)' /\ intake_next'[u] = intake_next[u]
      BY <2>1
    <3>2. u = t /\ u = t'
      BY <2>2
    <3> QED BY SMTT(60), <3>1, <3>2 DEF Leads, Settled
  <2> QED BY <2>3
<1>4. arrived' = arrived /\ intake_head' = intake_head /\ drain' = drain /\ node' = node
      /\ fifo' = fifo /\ rest' = rest
  BY DEF drains
<1>5. Shape(k, j)'
  <2>1. ASSUME NEW i \in k + 1 .. Len(arrived)
        PROVE  Leads(arrived[i], Entry(i - 1, k + 1, Len(arrived)))'
    <3>1. PICK b : b = Entry(i - 1, k + 1, Len(arrived))
      OBVIOUS
    <3>2. i \in 1 .. Len(arrived) /\ Leads(arrived[i], b)
      BY SMTT(60), <1>0, <1>2, <3>1 DEF Shape
    <3>3. Leads(arrived[i], b)'
      BY <1>3, <3>2
    <3> QED BY <1>4, <3>1, <3>3 DEF Entry, Leads
  <2>2. ASSUME NEW i \in 1 .. j
        PROVE  Leads(arrived[i], Entry(i - 1, 1, k))'
    <3>1. PICK b : b = Entry(i - 1, 1, k)
      OBVIOUS
    <3>2. i \in 1 .. Len(arrived) /\ Leads(arrived[i], b)
      BY SMTT(60), <1>0, <1>2, <3>1 DEF Shape
    <3>3. Leads(arrived[i], b)'
      BY <1>3, <3>2
    <3> QED BY <1>4, <3>1, <3>3 DEF Entry, Leads
  <2>3. ASSUME NEW i \in j + 1 .. k
        PROVE  (Settled(arrived[i]) /\ intake_next[arrived[i]] = Entry(i + 1, 1, k))'
    BY SMTT(60), <1>0, <1>2, <1>3, <1>4 DEF Shape, Entry
  <2> QED BY <1>0, <1>4, <2>1, <2>2, <2>3 DEF Shape, Entry
<1> QED BY <1>5 DEF Shaped

\* A producer that takes up a request keeps the intake.
LEMMA CallKeeps ==
  ASSUME IntakeAssumption, IInv, NEW p \in Producers, NEW t \in Pinned, Calls(p, t),
         UNCHANGED <<pending_requests, intake_next, arrived, intake_head, drains>>
  PROVE  Owned' /\ Shaped'
<1>1. /\ pc[p] = "out" /\ pc' = [pc EXCEPT ![p] = "post"]
      /\ target' = [target EXCEPT ![p] = t] /\ prev' = prev
  BY DEF Calls
<1>2. /\ pc \in [Producers -> Places] /\ target \in [Producers -> Pinned \cup {Null}]
      /\ Typed
  BY DEF IInv, Typed
<1>3. /\ pc'[p] = "post" /\ target'[p] = t
      /\ \A q \in Producers \ {p} : pc'[q] = pc[q] /\ target'[q] = target[q]
  BY <1>1, <1>2
<1>4. Owned'
  BY SMTT(60), <1>1, <1>3 DEF IInv, Owned, Pushing
<1>5. Shaped'
  <2>1. ASSUME NEW u \in Pinned
        PROVE  /\ \A b : Leads(u, b) => Leads(u, b)'
               /\ Settled(u) => Settled(u)' /\ intake_next'[u] = intake_next[u]
    BY <1>1, <1>3 DEF Leads, Settled
  <2> QED BY <1>2, <2>1, ShapeKept DEF IInv
<1> QED BY <1>4, <1>5

\* post_intake claims the request, unless someone has it already.
LEMMA PostKeeps ==
  ASSUME IntakeAssumption, IInv, NEW p \in Producers, post_intake(p)
  PROVE  Owned' /\ Shaped'
<1> DEFINE u == target[p]
<1>1. /\ pc[p] = "post"
      /\ pending_requests' = [pending_requests EXCEPT ![u] = TRUE]
      /\ Goes(p, IF pending_requests[u] THEN "out" ELSE "push")
      /\ UNCHANGED <<intake_next, arrived, intake_head, drains>>
  BY DEF post_intake
<1>2. /\ pc \in [Producers -> Places] /\ target \in [Producers -> Pinned \cup {Null}]
      /\ prev \in [Producers -> Pinned \cup {Null}]
      /\ pending_requests \in [Pinned -> BOOLEAN] /\ Typed /\ Owned /\ Shaped
  BY DEF IInv, Typed
<1>3. u \in Pinned
  BY <1>1, <1>2 DEF Owned
<1>4. /\ pc'[p] = IF pending_requests[u] THEN "out" ELSE "push"
      /\ ~ pending_requests[u] => target'[p] = u
      /\ \A q \in Producers \ {p} :
            pc'[q] = pc[q] /\ target'[q] = target[q] /\ prev'[q] = prev[q]
      /\ pending_requests'[u]
      /\ \A t \in Pinned \ {u} : pending_requests'[t] = pending_requests[t]
  BY <1>1, <1>2, <1>3 DEF Goes
<1>5. Owned'
  <2>1. CASE pending_requests[u]
    <3>1. \A t \in Pinned : pending_requests'[t] = pending_requests[t]
      BY <1>2, <1>4, <2>1
    <3>2. pc'[p] = "out"
      BY <1>4, <2>1
    <3> QED BY SMTT(60), <1>1, <1>2, <1>4, <3>1, <3>2 DEF Owned, Pushing
  <2>2. CASE ~ pending_requests[u]
    <3>1. pc'[p] = "push" /\ target'[p] = u
      BY <1>4, <2>2
    <3>2. ~ Holds(arrived, u) /\ \A q \in Producers : Pushing(q) => target[q] # u
      BY <1>2, <1>3, <2>2 DEF Owned, Pushing
    <3> QED BY SMTT(60), <1>1, <1>2, <1>3, <1>4, <3>1, <3>2 DEF Owned, Pushing
  <2> QED BY <2>1, <2>2
<1>6. Shaped'
  <2>1. ASSUME NEW t \in Pinned
        PROVE  /\ \A b : Leads(t, b) => Leads(t, b)'
               /\ Settled(t) => Settled(t)' /\ intake_next'[t] = intake_next[t]
    <3>1. pc[p] # "link" /\ pc'[p] # "link" /\ intake_next' = intake_next
      BY <1>1, <1>4
    <3> QED BY <1>4, <3>1 DEF Leads, Settled
  <2> QED BY <1>1, <1>2, <2>1, ShapeKept
<1> QED BY <1>5, <1>6

\* push_intake marks a node that is not on the intake.
LEMMA PushKeeps ==
  ASSUME IntakeAssumption, IInv, NEW p \in Producers, push_intake(p)
  PROVE  Owned' /\ Shaped'
<1> DEFINE u == target[p]
<1>1. /\ pc[p] = "push"
      /\ intake_next' = [intake_next EXCEPT ![u] = u]
      /\ Goes(p, "exchange")
      /\ UNCHANGED <<pending_requests, arrived, intake_head, drains>>
  BY DEF push_intake
<1>2. /\ pc \in [Producers -> Places] /\ target \in [Producers -> Pinned \cup {Null}]
      /\ prev \in [Producers -> Pinned \cup {Null}]
      /\ intake_next \in [Pinned -> Pinned \cup {Null}] /\ Typed /\ Owned /\ Shaped
  BY DEF IInv, Typed
<1>3. u \in Pinned /\ ~ Holds(arrived, u)
  BY <1>1, <1>2 DEF Owned
<1>4. /\ pc'[p] = "exchange" /\ target' = target /\ prev' = prev
      /\ \A q \in Producers \ {p} : pc'[q] = pc[q]
      /\ intake_next'[u] = u
      /\ \A t \in Pinned \ {u} : intake_next'[t] = intake_next[t]
  BY <1>1, <1>2, <1>3 DEF Goes
<1>5. \A q \in Producers : pc[q] = "exchange" => target[q] \in Pinned \ {u}
  BY <1>1, <1>2, <1>3 DEF Owned, Pushing
<1>6. Owned'
  BY SMTT(60), <1>1, <1>2, <1>3, <1>4, <1>5 DEF Owned, Pushing
<1>7. Shaped'
  <2>1. ASSUME NEW t \in Pinned, Holds(arrived, t)
        PROVE  /\ \A b : Leads(t, b) => Leads(t, b)'
               /\ Settled(t) => Settled(t)' /\ intake_next'[t] = intake_next[t]
    BY <1>1, <1>3, <1>4, <2>1 DEF Leads, Settled
  <2> QED BY <1>1, <1>2, <2>1, ShapeKept
<1> QED BY <1>6, <1>7
\* The exchange puts the node on top of the stack, its link still to come.
LEMMA ExchangeKeeps ==
  ASSUME IntakeAssumption, IInv, NEW p \in Producers, exchange(p)
  PROVE  Owned' /\ Shaped'
<1> DEFINE u == target[p]
           n == Len(arrived)
<1>1. /\ pc[p] = "exchange"
      /\ prev' = [prev EXCEPT ![p] = intake_head] /\ intake_head' = u
      /\ arrived' = Append(arrived, u)
      /\ pc' = [pc EXCEPT ![p] = "link"]
      /\ pending_requests' = pending_requests /\ intake_next' = intake_next
      /\ target' = target
      /\ drain' = drain /\ node' = node /\ fifo' = fifo /\ rest' = rest
  BY DEF exchange, fields, drains
<1>2. /\ pc \in [Producers -> Places] /\ target \in [Producers -> Pinned \cup {Null}]
      /\ prev \in [Producers -> Pinned \cup {Null}]
      /\ arrived \in Seq(Pinned) /\ n \in Nat /\ Typed /\ Owned /\ Shaped
  BY Arrivals DEF IInv, Typed
<1>3. /\ u \in Pinned /\ ~ Holds(arrived, u) /\ intake_next[u] = u
      /\ pending_requests[u] /\ Distinct(arrived)
  BY <1>1, <1>2 DEF Owned
<1>4. /\ pc'[p] = "link" /\ prev'[p] = intake_head
      /\ \A q \in Producers \ {p} : pc'[q] = pc[q] /\ prev'[q] = prev[q]
  BY <1>1, <1>2
<1>5. /\ Len(arrived') = n + 1
      /\ \A i \in 1 .. n : arrived'[i] = arrived[i]
      /\ arrived'[n + 1] = u
      /\ \A y : Holds(arrived', y) <=> Holds(arrived, y) \/ y = u
      /\ Distinct(arrived')
  BY SMTT(60), <1>1, <1>2, <1>3, AppendContains
<1>6. \A q \in Producers \ {p} : Pushing(q) => target[q] # u
  BY <1>1, <1>2 DEF Owned, Pushing
<1>7. Owned'
  BY SMTT(60), <1>1, <1>2, <1>3, <1>4, <1>5, <1>6 DEF Owned, Pushing
<1>8. Shaped'
  <2>1. PICK k \in 0 .. n : \E j \in 0 .. k : Shape(k, j)
    BY <1>2 DEF Shaped
  <2>2. PICK j \in 0 .. k : Shape(k, j)
    BY <2>1
  <2>3. ASSUME NEW i \in 1 .. n, NEW b
        PROVE  /\ Leads(arrived[i], b) => Leads(arrived[i], b)'
               /\ Settled(arrived[i]) => Settled(arrived[i])'
    <3>1. PICK t : t = arrived[i]
      OBVIOUS
    <3>2. t # u /\ t = arrived'[i]
      BY <1>2, <1>3, <1>5, <3>1 DEF Holds
    <3>3. /\ Leads(t, b) => Leads(t, b)'
          /\ Settled(t) => Settled(t)'
      BY <1>1, <1>4, <3>2 DEF Leads, Settled
    <3> QED BY <3>1, <3>2, <3>3 DEF Leads, Settled
  <2>4. ASSUME NEW i \in k + 1 .. n + 1
        PROVE  Leads(arrived[i], Entry(i - 1, k + 1, Len(arrived)))'
    <3>1. PICK b : b = Entry(i - 1, k + 1, n)
      OBVIOUS
    <3>2. b = Entry(i - 1, k + 1, Len(arrived))'
      BY SMTT(60), <1>2, <1>5, <3>1 DEF Entry
    <3>3. Leads(arrived[i], b)'
      <4>1. CASE i \in 1 .. n
        <5>1. Leads(arrived[i], b)
          BY SMTT(60), <2>2, <3>1, <4>1 DEF Shape
        <5> QED BY <2>3, <4>1, <5>1
      <4>2. CASE i = n + 1
        <5>1. b = intake_head
          BY SMTT(60), <1>2, <2>2, <3>1, <4>2 DEF Shape, Entry
        <5> QED BY <1>1, <1>3, <1>4, <1>5, <4>2, <5>1 DEF Leads
      <4> QED BY SMTT(60), <1>2, <4>1, <4>2
    <3> QED BY <3>2, <3>3 DEF Leads
  <2>5. ASSUME NEW i \in 1 .. j
        PROVE  Leads(arrived[i], Entry(i - 1, 1, k))'
    <3>1. PICK b : b = Entry(i - 1, 1, k)
      OBVIOUS
    <3>2. b = Entry(i - 1, 1, k)'
      BY SMTT(60), <1>2, <1>5, <3>1 DEF Entry
    <3>3. i \in 1 .. n /\ Leads(arrived[i], b)
      BY SMTT(60), <1>2, <2>2, <3>1 DEF Shape
    <3>4. Leads(arrived[i], b)'
      BY <2>3, <3>3
    <3> QED BY <3>2, <3>4 DEF Leads
  <2>6. ASSUME NEW i \in j + 1 .. k
        PROVE  (Settled(arrived[i]) /\ intake_next[arrived[i]] = Entry(i + 1, 1, k))'
    <3>1. /\ i \in 1 .. n /\ Settled(arrived[i])
          /\ intake_next[arrived[i]] = Entry(i + 1, 1, k)
      BY SMTT(60), <1>2, <2>2 DEF Shape
    <3>2. Settled(arrived[i])'
      BY <2>3, <3>1
    <3>3. Entry(i + 1, 1, k)' = Entry(i + 1, 1, k)
      BY SMTT(60), <1>2, <1>5 DEF Entry
    <3> QED BY <1>1, <1>5, <3>1, <3>2, <3>3
  <2>7. intake_head' = Entry(Len(arrived), k + 1, Len(arrived))'
    BY SMTT(60), <1>1, <1>2, <1>5 DEF Entry
  <2>8. \A i \in 0 .. k + 1 : Entry(i, 1, k)' = Entry(i, 1, k)
    BY SMTT(60), <1>2, <1>5 DEF Entry
  <2>9. Entry(j, 1, k)' = Entry(j, 1, k) /\ Entry(j + 1, 1, k)' = Entry(j + 1, 1, k)
        /\ Entry(1, 1, k)' = Entry(1, 1, k)
    BY SMTT(60), <1>2, <2>8
  <2>10. Shape(k, j)'
    BY <1>1, <1>5, <2>2, <2>4, <2>5, <2>6, <2>7, <2>9 DEF Shape
  <2>11. k \in 0 .. Len(arrived')
    BY SMTT(60), <1>2, <1>5
  <2> QED BY <2>10, <2>11 DEF Shaped
<1> QED BY <1>7, <1>8

\* The link that push_intake stores is the one the node was to get.
LEMMA LinkKeeps ==
  ASSUME IntakeAssumption, IInv, NEW p \in Producers, link(p)
  PROVE  Owned' /\ Shaped'
<1> DEFINE u == target[p]
<1>1. /\ pc[p] = "link"
      /\ intake_next' = [intake_next EXCEPT ![u] = prev[p]]
      /\ Goes(p, IF prev[p] = Null THEN "ring" ELSE "out")
      /\ UNCHANGED <<pending_requests, arrived, intake_head, drains>>
  BY DEF link
<1>2. /\ pc \in [Producers -> Places] /\ target \in [Producers -> Pinned \cup {Null}]
      /\ prev \in [Producers -> Pinned \cup {Null}]
      /\ intake_next \in [Pinned -> Pinned \cup {Null}] /\ Typed /\ Owned /\ Shaped
  BY DEF IInv, Typed
<1>3. u \in Pinned /\ Holds(arrived, u)
  BY <1>1, <1>2 DEF Owned
<1>4. /\ pc'[p] \in {"ring", "out"} /\ (pc'[p] = "ring" => target'[p] = u)
      /\ \A q \in Producers \ {p} :
            pc'[q] = pc[q] /\ target'[q] = target[q] /\ prev'[q] = prev[q]
      /\ intake_next'[u] = prev[p]
      /\ \A t \in Pinned \ {u} : intake_next'[t] = intake_next[t]
  BY <1>1, <1>2, <1>3 DEF Goes
<1>5. \A q \in Producers \ {p} : Pushing(q) => target[q] \in Pinned \ {u}
  BY <1>1, <1>2, <1>3 DEF Owned, Pushing
<1>6. Owned'
  BY SMTT(60), <1>1, <1>2, <1>3, <1>4, <1>5 DEF Owned, Pushing
<1>7. Shaped'
  <2>1. ASSUME NEW t \in Pinned
        PROVE  /\ \A b : Leads(t, b) => Leads(t, b)'
               /\ Settled(t) => Settled(t)' /\ intake_next'[t] = intake_next[t]
    <3>1. CASE t = u
      <4>1. \A q \in Producers : pc[q] = "link" /\ target[q] = u => q = p
        BY <1>5 DEF Pushing
      <4>2. Settled(t)'
        BY <1>4, <1>5, <3>1 DEF Settled, Pushing
      <4> QED BY <1>1, <1>4, <3>1, <4>1, <4>2 DEF Leads, Settled
    <3>2. CASE t # u
      BY <1>1, <1>4, <3>2 DEF Leads, Settled
    <3> QED BY <3>1, <3>2
  <2> QED BY <1>1, <1>2, <2>1, ShapeKept
<1> QED BY <1>6, <1>7

\* The doorbell leaves the intake alone.
LEMMA RingKeeps ==
  ASSUME IntakeAssumption, IInv, NEW p \in Producers, send_reschedule_ipi(p)
  PROVE  Owned' /\ Shaped'
<1>1. /\ pc[p] = "ring" /\ Goes(p, "out")
      /\ pending_requests' = pending_requests /\ intake_next' = intake_next
      /\ UNCHANGED <<arrived, intake_head, drains>>
  BY DEF send_reschedule_ipi, fields
<1>2. /\ pc \in [Producers -> Places] /\ target \in [Producers -> Pinned \cup {Null}]
      /\ prev \in [Producers -> Pinned \cup {Null}] /\ Typed /\ Owned /\ Shaped
  BY DEF IInv, Typed
<1>3. /\ pc'[p] = "out"
      /\ \A q \in Producers \ {p} :
            pc'[q] = pc[q] /\ target'[q] = target[q] /\ prev'[q] = prev[q]
  BY <1>1, <1>2 DEF Goes
<1>4. Owned'
  BY SMTT(60), <1>1, <1>2, <1>3 DEF Owned, Pushing
<1>5. ASSUME NEW t \in Pinned
      PROVE  /\ \A b : Leads(t, b) => Leads(t, b)'
             /\ Settled(t) => Settled(t)' /\ intake_next'[t] = intake_next[t]
  BY <1>1, <1>3 DEF Leads, Settled
<1> QED BY <1>1, <1>2, <1>4, <1>5, ShapeKept
----------------------------------------------------------------------------
\* A step outside the drain keeps the intake, also when it is what starts one.
LEMMA ElsewhereKeeps ==
  ASSUME IntakeAssumption, IInv, UNCHANGED <<fields, posting, intake_head, arrived>> \/
             UNCHANGED <<pending_requests, intake_next, posting, intake_head, arrived>>,
         UNCHANGED <<node, fifo, rest>>,
         drain' = drain \/ (drain = "none" /\ drain' = "take")
  PROVE  Owned' /\ Shaped'
<1>1. /\ pending_requests' = pending_requests /\ intake_next' = intake_next
      /\ pc' = pc /\ target' = target /\ prev' = prev
      /\ intake_head' = intake_head /\ arrived' = arrived
      /\ node' = node /\ fifo' = fifo /\ rest' = rest
  BY DEF fields, posting
<1>2. Owned'
  BY <1>1 DEF IInv, Owned, Pushing
<1>3. PICK k \in 0 .. Len(arrived) : \E j \in 0 .. k : Shape(k, j)
  BY DEF IInv, Shaped
<1>4. PICK j \in 0 .. k : Shape(k, j)
  BY <1>3
<1>5. Shape(k, j)'
  <2>1. CASE drain' = drain
    BY SMTT(60), <1>1, <1>4, <2>1 DEF Shape, Leads, Settled, Entry
  <2>2. CASE drain = "none" /\ drain' = "take"
    BY SMTT(60), <1>1, <1>4, <2>2 DEF Shape, Leads, Settled, Entry
  <2> QED BY <2>1, <2>2
<1> QED BY <1>1, <1>2, <1>5 DEF Shaped

\* The drain takes the whole stack.
LEMMA TakeKeeps ==
  ASSUME IntakeAssumption, IInv, drain_intake
  PROVE  Owned' /\ Shaped'
<1> DEFINE n == Len(arrived)
<1>1. /\ drain = "take" /\ intake_head # Null /\ node' = intake_head /\ intake_head' = Null
      /\ drain' = "walk" /\ fifo' = fifo /\ rest' = rest /\ arrived' = arrived
      /\ pending_requests' = pending_requests /\ intake_next' = intake_next
      /\ pc' = pc /\ target' = target /\ prev' = prev
  BY DEF drain_intake, fields, posting
<1>2. arrived \in Seq(Pinned) /\ n \in Nat /\ Owned /\ Shaped
  BY Arrivals DEF IInv, Typed
<1>3. Owned'
  BY SMTT(60), <1>1, <1>2 DEF Owned, Pushing
<1>4. PICK j : Shape(0, j)
  <2>1. PICK k \in 0 .. n : \E j \in 0 .. k : Shape(k, j)
    BY <1>2 DEF Shaped
  <2>2. PICK j \in 0 .. k : Shape(k, j)
    BY <2>1
  <2>3. k = 0
    BY <1>1, <2>2 DEF Shape
  <2> QED BY <2>2, <2>3
<1>5. /\ intake_head = Entry(n, 1, n) /\ fifo = Null
      /\ \A i \in 1 .. n : Leads(arrived[i], Entry(i - 1, 1, n))
  BY SMTT(60), <1>1, <1>4 DEF Shape
<1>6. ASSUME NEW i \in 1 .. n
      PROVE  Leads(arrived[i], Entry(i - 1, 1, n))'
  BY <1>1, <1>5 DEF Leads, Settled, Entry
<1>7. Shape(n, n)'
  <2>1. /\ Entry(n, n + 1, n)' = Null /\ Entry(n + 1, 1, n)' = Null
        /\ Entry(n, 1, n)' = Entry(n, 1, n)
    BY SMTT(60), <1>1, <1>2 DEF Entry
  <2>2. n + 1 .. n = {}
    BY SMTT(60), <1>2
  <2> QED BY <1>1, <1>5, <1>6, <2>1, <2>2 DEF Shape
<1>8. n \in 0 .. Len(arrived') /\ n \in 0 .. n
  BY SMTT(60), <1>1, <1>2
<1> QED BY <1>1, <1>3, <1>7, <1>8 DEF Shaped

\* A turn of the walk moves one thread from the stack to the queue.
LEMMA WalkKeeps ==
  ASSUME IntakeAssumption, IInv, await_intake_link
  PROVE  Owned' /\ Shaped'
<1> DEFINE n == Len(arrived)
<1>1. /\ drain = "walk" /\ node # Null /\ intake_next[node] # node
      /\ intake_next' = [intake_next EXCEPT ![node] = fifo]
      /\ fifo' = node /\ node' = intake_next[node]
      /\ drain' = drain /\ rest' = rest /\ arrived' = arrived /\ intake_head' = intake_head
      /\ pending_requests' = pending_requests /\ pc' = pc /\ target' = target /\ prev' = prev
  BY DEF await_intake_link, posting
<1>2. /\ arrived \in Seq(Pinned) /\ n \in Nat /\ Owned /\ Shaped
      /\ intake_next \in [Pinned -> Pinned \cup {Null}]
  BY Arrivals DEF IInv, Typed
<1>3. PICK k \in 0 .. n : \E j \in 0 .. k : Shape(k, j)
  BY <1>2 DEF Shaped
<1>4. PICK j \in 0 .. k : Shape(k, j)
  BY <1>3
<1>5. /\ node = Entry(j, 1, k) /\ fifo = Entry(j + 1, 1, k)
      /\ j \in 1 .. k /\ j \in 1 .. n /\ node = arrived[j] /\ node \in Pinned
  BY SMTT(60), <1>1, <1>2, <1>4 DEF Shape, Entry
<1>6. Settled(node) /\ intake_next[node] = Entry(j - 1, 1, k)
  <2>1. Leads(node, Entry(j - 1, 1, k))
    BY SMTT(60), <1>4, <1>5 DEF Shape
  <2> QED BY <1>1, <2>1 DEF Leads
<1>7. /\ intake_next'[node] = fifo
      /\ \A t \in Pinned \ {node} : intake_next'[t] = intake_next[t]
  BY <1>1, <1>2, <1>5
<1>8. \A i \in 1 .. n : i # j => arrived[i] \in Pinned \ {node}
  BY SMTT(60), <1>2, <1>5 DEF Owned, Distinct
<1>9. Owned'
  <2>1. \A p \in Producers : pc[p] = "exchange" => target[p] \in Pinned \ {node}
    BY SMTT(60), <1>2, <1>5 DEF Owned, Holds
  <2> QED BY SMTT(60), <1>1, <1>2, <1>7, <2>1 DEF Owned, Pushing
<1>10. ASSUME NEW i \in 1 .. n, i # j, NEW b, Leads(arrived[i], b)
       PROVE  Leads(arrived[i], b)'
  BY <1>1, <1>7, <1>8, <1>10 DEF Leads, Settled
<1>11. ASSUME NEW i \in 1 .. n, Settled(arrived[i])
       PROVE  Settled(arrived[i])'
  BY <1>1, <1>11 DEF Settled
<1>12. ASSUME NEW i \in k + 1 .. n
       PROVE  Leads(arrived[i], Entry(i - 1, k + 1, n))'
  <2>1. PICK b : b = Entry(i - 1, k + 1, n)
    OBVIOUS
  <2>2. i \in 1 .. n /\ i # j /\ Leads(arrived[i], b)
    BY SMTT(60), <1>2, <1>4, <2>1 DEF Shape
  <2>3. Leads(arrived[i], b)'
    BY <1>10, <2>2
  <2> QED BY <1>1, <2>1, <2>3 DEF Leads, Entry
<1>13. ASSUME NEW i \in 1 .. j - 1
       PROVE  Leads(arrived[i], Entry(i - 1, 1, k))'
  <2>1. PICK b : b = Entry(i - 1, 1, k)
    OBVIOUS
  <2>2. i \in 1 .. n /\ i # j /\ Leads(arrived[i], b)
    BY SMTT(60), <1>2, <1>4, <2>1 DEF Shape
  <2>3. Leads(arrived[i], b)'
    BY <1>10, <2>2
  <2> QED BY <1>1, <2>1, <2>3 DEF Leads, Entry
<1>14. ASSUME NEW i \in j .. k
       PROVE  (Settled(arrived[i]) /\ intake_next[arrived[i]] = Entry(i + 1, 1, k))'
  <2>1. Entry(i + 1, 1, k)' = Entry(i + 1, 1, k)
    BY <1>1 DEF Entry
  <2>2. CASE i = j
    BY <1>1, <1>5, <1>6, <1>7, <1>11, <2>1, <2>2
  <2>3. CASE i # j
    <3>1. /\ i \in 1 .. n /\ i \in j + 1 .. k
          /\ Settled(arrived[i]) /\ intake_next[arrived[i]] = Entry(i + 1, 1, k)
      BY SMTT(60), <1>2, <1>4, <1>5, <2>3 DEF Shape
    <3> QED BY <1>1, <1>7, <1>8, <1>11, <2>1, <2>3, <3>1
  <2> QED BY <2>2, <2>3
<1>15. Shape(k, j - 1)'
  <2>1. j - 1 + 1 = j /\ j - 1 \in 0 .. k
    BY SMTT(60), <1>5
  <2>2. /\ Entry(j - 1, 1, k)' = Entry(j - 1, 1, k) /\ Entry(j, 1, k)' = Entry(j, 1, k)
        /\ Entry(n, k + 1, n)' = Entry(n, k + 1, n)
    BY <1>1 DEF Entry
  <2>3. node' = Entry(j - 1, 1, k)' /\ fifo' = Entry(j, 1, k)'
    BY <1>1, <1>5, <1>6, <2>2
  <2>4. intake_head' = Entry(n, k + 1, n)'
    BY <1>1, <1>4, <2>2 DEF Shape
  <2> QED BY <1>1, <1>12, <1>13, <1>14, <2>1, <2>3, <2>4 DEF Shape
<1>16. j - 1 \in 0 .. k /\ k \in 0 .. Len(arrived')
  BY SMTT(60), <1>1, <1>5
<1> QED BY <1>9, <1>15, <1>16 DEF Shaped
\* The walk ends with the whole queue reversed.
LEMMA WalkedKeeps ==
  ASSUME IntakeAssumption, IInv, walked
  PROVE  Owned' /\ Shaped'
<1>1. /\ drain = "walk" /\ node = Null /\ drain' = "claim"
      /\ node' = node /\ fifo' = fifo /\ rest' = rest
      /\ pending_requests' = pending_requests /\ intake_next' = intake_next
      /\ pc' = pc /\ target' = target /\ prev' = prev
      /\ intake_head' = intake_head /\ arrived' = arrived
  BY DEF walked, fields, posting
<1>2. arrived \in Seq(Pinned) /\ Len(arrived) \in Nat /\ Owned /\ Shaped
  BY Arrivals DEF IInv, Typed
<1>3. Owned'
  BY SMTT(60), <1>1, <1>2 DEF Owned, Pushing
<1>4. PICK k \in 0 .. Len(arrived) : \E j \in 0 .. k : Shape(k, j)
  BY <1>2 DEF Shaped
<1>5. PICK j \in 0 .. k : Shape(k, j)
  BY <1>4
<1>6. j = 0
  <2>1. Entry(j, 1, k) = Null
    BY <1>1, <1>5 DEF Shape
  <2> QED BY <2>1, EntryNull DEF IInv
<1>7. Shape(k, 0)'
  BY SMTT(60), <1>1, <1>5, <1>6 DEF Shape, Leads, Settled, Entry
<1>8. k \in 0 .. Len(arrived') /\ 0 \in 0 .. k
  BY SMTT(60), <1>1, <1>2
<1> QED BY <1>3, <1>7, <1>8 DEF Shaped

\* The drain claims the head of its queue, which is the head of the sequence.
LEMMA ClaimKeeps ==
  ASSUME IntakeAssumption, IInv, claim
  PROVE  /\ Owned' /\ Shaped'
         /\ arrived # <<>> /\ fifo = arrived[1]
         /\ \A t : Holds(arrived, t) <=> Holds(arrived', t) \/ t = fifo
<1>0. PICK n \in Nat : n = Len(arrived)
  BY Arrivals DEF IInv, Typed
<1>1. /\ drain = "claim" /\ fifo # Null /\ rest' = intake_next[fifo]
      /\ intake_next' = [intake_next EXCEPT ![fifo] = Null]
      /\ pending_requests' = [pending_requests EXCEPT ![fifo] = FALSE]
      /\ arrived' = Tail(arrived) /\ drain' = "serve"
      /\ node' = node /\ fifo' = fifo /\ pc' = pc /\ target' = target /\ prev' = prev
      /\ intake_head' = intake_head
  BY DEF claim, posting
<1>2. /\ arrived \in Seq(Pinned) /\ n \in Nat /\ Owned /\ Shaped
      /\ intake_next \in [Pinned -> Pinned \cup {Null}]
      /\ pending_requests \in [Pinned -> BOOLEAN]
  BY <1>0 DEF IInv, Typed
<1>3. PICK k \in 0 .. n : \E j \in 0 .. k : Shape(k, j)
  BY <1>0, <1>2 DEF Shaped
<1>4. Shape(k, 0)
  BY <1>1, <1>3 DEF Shape
<1>5. k \in 1 .. n /\ fifo = arrived[1] /\ fifo \in Pinned /\ arrived # <<>>
  BY SMTT(60), <1>0, <1>1, <1>2, <1>4 DEF Shape, Entry
<1>6. Settled(fifo) /\ intake_next[fifo] = Entry(2, 1, k)
  <2>1. 1 \in 1 .. k /\ 1 + 1 = 2 /\ 0 + 1 = 1
    BY SMTT(60), <1>5
  <2> QED BY <1>4, <1>5, <2>1 DEF Shape
<1>7. /\ Len(arrived') = n - 1
      /\ \A i \in 1 .. n - 1 : arrived'[i] = arrived[i + 1]
      /\ \A y : Holds(arrived, y) <=> Holds(arrived', y) \/ y = fifo
      /\ Distinct(arrived') /\ ~ Holds(arrived', fifo)
  BY SMTT(60), <1>0, <1>1, <1>2, <1>5, TailContains DEF Owned
<1>8. /\ intake_next'[fifo] = Null /\ ~ pending_requests'[fifo]
      /\ \A t \in Pinned \ {fifo} : /\ intake_next'[t] = intake_next[t]
                                    /\ pending_requests'[t] = pending_requests[t]
  BY <1>1, <1>2, <1>5
<1>9. \A p \in Producers : Pushing(p) => target[p] \in Pinned \ {fifo}
  BY <1>2, <1>6, <1>7 DEF Owned, Pushing, Settled
<1>10. Owned'
  <2>1. \A p \in Producers :
           /\ pc[p] # "out" => target[p] \in Pinned
           /\ pc[p] \in {"push", "exchange"} =>
                pending_requests'[target[p]] /\ ~ Holds(arrived', target[p])
           /\ pc[p] = "exchange" => intake_next'[target[p]] = target[p]
           /\ pc[p] = "link" => Holds(arrived', target[p])
    BY SMTT(60), <1>2, <1>7, <1>8, <1>9 DEF Owned, Pushing
  <2>2. \A p, q \in Producers : p # q /\ Pushing(p) /\ Pushing(q) => target[p] # target[q]
    BY <1>2 DEF Owned
  <2>3. ASSUME NEW t \in Pinned
        PROVE  /\ Holds(arrived', t) => pending_requests'[t]
               /\ pending_requests'[t] =>
                     \/ Holds(arrived', t)
                     \/ \E p \in Producers : pc[p] \in {"push", "exchange"} /\ target[p] = t
    <3>1. CASE t = fifo
      BY <1>7, <1>8, <3>1
    <3>2. CASE t # fifo
      BY <1>2, <1>7, <1>8, <3>2 DEF Owned
    <3> QED BY <3>1, <3>2
  <2> QED BY SMTT(60), <1>1, <1>7, <2>1, <2>2, <2>3 DEF Owned, Pushing
<1>11. \A i \in 2 .. n : arrived[i] \in Pinned \ {fifo} /\ arrived'[i - 1] = arrived[i]
  BY SMTT(60), <1>0, <1>2, <1>5, <1>7 DEF Owned, Distinct
<1>12. ASSUME NEW t \in Pinned \ {fifo}
       PROVE  /\ \A b : Leads(t, b) => Leads(t, b)'
              /\ Settled(t) => Settled(t)' /\ intake_next'[t] = intake_next[t]
  BY <1>1, <1>8 DEF Leads, Settled
<1>13. ASSUME NEW i \in k .. n - 1
       PROVE  Leads(arrived[i], Entry(i - 1, k, n - 1))'
  <2>1. PICK b, t : b = Entry(i, k + 1, n) /\ t = arrived[i + 1]
    OBVIOUS
  <2>2. i + 1 \in k + 1 .. n /\ i + 1 - 1 = i /\ i + 1 \in 2 .. n
    BY SMTT(60), <1>5
  <2>3. Leads(t, b) /\ t \in Pinned \ {fifo} /\ t = arrived'[i]
    BY SMTT(60), <1>0, <1>4, <1>11, <2>1, <2>2 DEF Shape
  <2>4. b = Entry(i - 1, k, n - 1)'
    BY SMTT(60), <1>5, <1>7, <2>1 DEF Entry
  <2>5. Leads(t, b)'
    BY <1>12, <2>3
  <2> QED BY <2>3, <2>4, <2>5 DEF Leads, Settled
<1>14. ASSUME NEW i \in 1 .. k - 1
       PROVE  (Settled(arrived[i]) /\ intake_next[arrived[i]] = Entry(i + 1, 1, k - 1))'
  <2>1. PICK t : t = arrived[i + 1]
    OBVIOUS
  <2>2. i + 1 \in 0 + 1 .. k /\ i + 1 \in 2 .. n
    BY SMTT(60), <1>5
  <2>3. Settled(t) /\ intake_next[t] = Entry(i + 1 + 1, 1, k)
    BY <1>0, <1>4, <2>1, <2>2 DEF Shape
  <2>4. t \in Pinned \ {fifo} /\ t = arrived'[i]
    BY SMTT(60), <1>11, <2>1, <2>2
  <2>5. Settled(t)' /\ intake_next'[t] = intake_next[t]
    BY <1>12, <2>3, <2>4
  <2>6. Entry(i + 1 + 1, 1, k) = Entry(i + 1, 1, k - 1)'
    BY SMTT(60), <1>5, <1>7 DEF Entry
  <2> QED BY <2>3, <2>4, <2>5, <2>6 DEF Settled
<1>15. intake_head' = Entry(n - 1, k, n - 1)'
  BY SMTT(60), <1>0, <1>1, <1>4, <1>5, <1>7 DEF Shape, Entry
<1>16. rest' = Entry(1, 1, k - 1)'
  BY SMTT(60), <1>1, <1>5, <1>6, <1>7 DEF Entry
<1>17. Shape(k - 1, 0)'
  <2>1. k - 1 + 1 = k /\ 0 + 1 = 1 /\ 1 .. 0 = {}
    BY SMTT(60), <1>5
  <2> QED BY <1>0, <1>1, <1>7, <1>13, <1>14, <1>15, <1>16, <2>1 DEF Shape
<1>18. k - 1 \in 0 .. Len(arrived') /\ 0 \in 0 .. k - 1
  BY SMTT(60), <1>0, <1>5, <1>7
<1> QED BY <1>5, <1>7, <1>10, <1>17, <1>18 DEF Shaped

\* The service hands the drain the rest of its queue.
LEMMA ServeKeeps ==
  ASSUME IntakeAssumption, IInv, service_intake
  PROVE  Owned' /\ Shaped'
<1>1. /\ drain = "serve" /\ drain' = "claim" /\ fifo' = rest
      /\ pending_requests' = pending_requests /\ intake_next' = intake_next
      /\ pc' = pc /\ target' = target /\ prev' = prev
      /\ intake_head' = intake_head /\ arrived' = arrived
  BY DEF service_intake, fields, posting
<1>2. Owned'
  BY SMTT(60), <1>1 DEF IInv, Owned, Pushing
<1>3. PICK k \in 0 .. Len(arrived) : \E j \in 0 .. k : Shape(k, j)
  BY DEF IInv, Shaped
<1>4. PICK j \in 0 .. k : Shape(k, j)
  BY <1>3
<1>5. Shape(k, j)'
  BY SMTT(60), <1>1, <1>4 DEF Shape, Leads, Settled, Entry
<1> QED BY <1>1, <1>2, <1>5 DEF Shaped

\* The drain ends when all that it took has been served.
LEMMA DecideKeeps ==
  ASSUME IntakeAssumption, IInv, decide
  PROVE  Owned' /\ Shaped'
<1>1. /\ drain = "take" \/ (drain = "claim" /\ fifo = Null)
      /\ drain' = "none" /\ node' = node /\ fifo' = fifo /\ rest' = rest
      /\ pending_requests' = pending_requests /\ intake_next' = intake_next
      /\ pc' = pc /\ target' = target /\ prev' = prev
      /\ intake_head' = intake_head /\ arrived' = arrived
  BY DEF decide, fields, posting
<1>2. arrived \in Seq(Pinned) /\ Len(arrived) \in Nat /\ Owned /\ Shaped
  BY Arrivals DEF IInv, Typed
<1>3. Owned'
  BY <1>1, <1>2 DEF Owned, Pushing
<1>4. PICK k \in 0 .. Len(arrived) : \E j \in 0 .. k : Shape(k, j)
  BY <1>2 DEF Shaped
<1>5. PICK j \in 0 .. k : Shape(k, j)
  BY <1>4
<1>6. k = 0 /\ fifo = Null
  <2>1. CASE drain = "take"
    BY <1>5, <2>1 DEF Shape
  <2>2. CASE drain = "claim" /\ fifo = Null
    <3>1. Entry(1, 1, k) = Null
      BY <1>5, <2>2 DEF Shape
    <3> QED BY <2>2, <3>1, EntryNull DEF IInv
  <2> QED BY <1>1, <2>1, <2>2
<1>7. Shape(k, j)'
  BY SMTT(60), <1>1, <1>5, <1>6 DEF Shape, Leads, Settled, Entry
<1> QED BY <1>1, <1>3, <1>7 DEF Shaped
----------------------------------------------------------------------------
\* What a producer's step does to the types.
LEMMA ProducerTypes ==
  ASSUME IntakeAssumption, IInv, NEW p \in Producers,
         \/ \E t \in Pinned : resume(p, t) \/ late_wake(p, t)
         \/ post_intake(p) \/ push_intake(p) \/ exchange(p) \/ link(p)
         \/ send_reschedule_ipi(p)
  PROVE  Typed'
<1>1. /\ pc \in [Producers -> Places] /\ target \in [Producers -> Pinned \cup {Null}]
      /\ prev \in [Producers -> Pinned \cup {Null}]
      /\ intake_next \in [Pinned -> Pinned \cup {Null}]
      /\ pending_requests \in [Pinned -> BOOLEAN] /\ resume_token \in [Pinned -> BOOLEAN]
      /\ arrived \in Seq(Pinned) /\ intake_head \in Pinned \cup {Null}
      /\ Typed /\ Owned
  BY DEF IInv, Typed
<1>2. pc[p] # "out" => target[p] \in Pinned
  BY <1>1 DEF Owned
<1>3. /\ "out" \in Places /\ "post" \in Places /\ "push" \in Places /\ "exchange" \in Places
      /\ "link" \in Places /\ "ring" \in Places
  BY DEF Places
<1>4. ASSUME NEW where \in Places, Goes(p, where)
      PROVE  /\ pc' \in [Producers -> Places] /\ target' \in [Producers -> Pinned \cup {Null}]
             /\ prev' \in [Producers -> Pinned \cup {Null}]
  BY <1>1, <1>4 DEF Goes
<1>5. ASSUME NEW t \in Pinned, resume(p, t) \/ late_wake(p, t)
      PROVE  Typed'
  <2>1. /\ pc' \in [Producers -> Places] /\ target' \in [Producers -> Pinned \cup {Null}]
        /\ prev' \in [Producers -> Pinned \cup {Null}]
    BY <1>1, <1>3, <1>5 DEF resume, late_wake, Calls
  <2>2. resume_token' \in [Pinned -> BOOLEAN]
    BY <1>1, <1>5 DEF resume, late_wake, fields
  <2> QED BY <1>1, <1>5, <2>1, <2>2 DEF resume, late_wake, Typed, fields, core, drains
<1>6. CASE post_intake(p)
  <2>1. pending_requests' \in [Pinned -> BOOLEAN]
    BY <1>1, <1>6 DEF post_intake
  <2>2. \E where \in Places : Goes(p, where)
    BY <1>3, <1>6 DEF post_intake
  <2> QED BY <1>1, <1>4, <1>6, <2>1, <2>2 DEF post_intake, Typed, core, drains
<1>7. CASE push_intake(p)
  <2>1. intake_next' \in [Pinned -> Pinned \cup {Null}]
    BY <1>1, <1>2, <1>7 DEF push_intake
  <2>2. \E where \in Places : Goes(p, where)
    BY <1>3, <1>7 DEF push_intake
  <2> QED BY <1>1, <1>4, <1>7, <2>1, <2>2 DEF push_intake, Typed, core, drains
<1>8. CASE exchange(p)
  <2>1. /\ pc' \in [Producers -> Places] /\ prev' \in [Producers -> Pinned \cup {Null}]
    BY <1>1, <1>3, <1>8 DEF exchange
  <2>2. arrived' \in Seq(Pinned) /\ intake_head' \in Pinned \cup {Null}
    BY <1>1, <1>2, <1>8, AppendContains DEF exchange
  <2> QED BY <1>1, <1>8, <2>1, <2>2 DEF exchange, Typed, fields, core, drains
<1>9. CASE link(p)
  <2>1. intake_next' \in [Pinned -> Pinned \cup {Null}]
    BY <1>1, <1>9 DEF link
  <2>2. \E where \in Places : Goes(p, where)
    BY <1>3, <1>9 DEF link
  <2> QED BY <1>1, <1>4, <1>9, <2>1, <2>2 DEF link, Typed, core, drains
<1>10. CASE send_reschedule_ipi(p)
  <2>1. \E where \in Places : Goes(p, where)
    BY <1>3, <1>10 DEF send_reschedule_ipi
  <2> QED BY <1>1, <1>4, <1>10, <2>1 DEF send_reschedule_ipi, Typed, fields, core, drains
<1> QED BY <1>5, <1>6, <1>7, <1>8, <1>9, <1>10

\* A step that leaves the threads alone, and no service out of sight, leaves no
\* token unheard.
LEMMA HeardKept ==
  ASSUME Heard, UNCHANGED <<resume_token, core>>,
         ASSUME NEW t \in Pinned, resume_token[t], Coming(t) PROVE Coming(t)'
  PROVE  Heard'
<1> SUFFICES ASSUME NEW t \in Pinned, resume_token'[t], ~ Coming(t)'
             PROVE  /\ state'[t] # "blocked"
                    /\ ~ (at'[t] = "commit" /\ disposition'[t] = "prepared")
                    /\ ~ (reason' = "parked" /\ current' = t /\ state'[t] = "running")
  BY DEF Heard
<1>1. resume_token[t] /\ ~ Coming(t)
  OBVIOUS
<1> QED BY <1>1 DEF Heard, core

\* What a producer's step does to the tokens and the doorbell.
LEMMA ProducerHeard ==
  ASSUME IntakeAssumption, IInv, NEW p \in Producers,
         \/ \E t \in Pinned : resume(p, t) \/ late_wake(p, t)
         \/ post_intake(p) \/ push_intake(p) \/ exchange(p) \/ link(p)
         \/ send_reschedule_ipi(p)
  PROVE  Filed' /\ Heard'
<1>1. /\ pc \in [Producers -> Places] /\ target \in [Producers -> Pinned \cup {Null}]
      /\ prev \in [Producers -> Pinned \cup {Null}]
      /\ resume_token \in [Pinned -> BOOLEAN] /\ arrived \in Seq(Pinned)
      /\ Typed /\ Owned /\ Heard /\ Filed
  BY DEF IInv, Typed
<1>2. core' = core
  BY DEF resume, late_wake, post_intake, push_intake, exchange, link, send_reschedule_ipi
<1>3. Filed'
  BY <1>1, <1>2 DEF Filed, core
<1>4. ASSUME NEW t \in Pinned, resume(p, t) \/ late_wake(p, t)
      PROVE  Heard'
  <2>1. /\ pc[p] = "out" /\ pc'[p] = "post" /\ target'[p] = t
        /\ \A q \in Producers \ {p} : pc'[q] = pc[q] /\ target'[q] = target[q]
        /\ arrived' = arrived /\ drain' = drain /\ fifo' = fifo
    BY <1>1, <1>4 DEF resume, late_wake, Calls, drains
  <2>2. \A u \in Pinned \ {t} : resume_token'[u] = resume_token[u]
    BY <1>1, <1>4 DEF resume, late_wake, fields
  <2>3. Coming(t)'
    BY <2>1 DEF Coming
  <2>4. \A u \in Pinned : Coming(u) => Coming(u)'
    BY <2>1 DEF Coming
  <2> QED BY <1>1, <1>2, <2>2, <2>3, <2>4 DEF Heard, core
<1>5. ASSUME post_intake(p) \/ push_intake(p) \/ exchange(p) \/ link(p)
                \/ send_reschedule_ipi(p),
             NEW t \in Pinned, Coming(t)
      PROVE  Coming(t)'
  <2>1. /\ drain' = drain /\ fifo' = fifo
        /\ \A q \in Producers \ {p} : pc'[q] = pc[q] /\ target'[q] = target[q]
    BY <1>1, <1>5 DEF post_intake, push_intake, exchange, link, send_reschedule_ipi, drains,
                      Goes
  <2>2. CASE exchange(p)
    <3>1. target[p] \in Pinned /\ arrived' = Append(arrived, target[p])
      BY <1>1, <2>2 DEF exchange, Owned
    <3>2. \A y : Holds(arrived', y) <=> Holds(arrived, y) \/ y = target[p]
      <4>1. PICK u \in Pinned : u = target[p]
        BY <3>1
      <4>2. arrived \in Seq(Pinned)
        BY <1>1
      <4>3. \A y : Holds(Append(arrived, u), y) <=> Holds(arrived, y) \/ y = u
        BY <4>2, AppendHolds
      <4> QED BY <3>1, <4>1, <4>3
    <3> QED BY <1>5, <2>1, <3>2 DEF Coming
  <2>3. CASE post_intake(p)
    <3>1. arrived' = arrived /\ pc[p] = "post" /\ target[p] \in Pinned
      BY <1>1, <2>3 DEF post_intake, Owned
    <3>2. CASE ~ pending_requests[target[p]]
      <4>1. pc'[p] = "push" /\ target'[p] = target[p]
        BY <1>1, <2>3, <3>2 DEF post_intake, Goes
      <4> QED BY <1>5, <2>1, <3>1, <4>1 DEF Coming
    <3>3. CASE pending_requests[target[p]]
      <4>1. \/ Holds(arrived, target[p])
            \/ \E q \in Producers : pc[q] \in {"push", "exchange"} /\ target[q] = target[p]
        BY <1>1, <3>1, <3>3 DEF Owned
      <4>2. \/ Holds(arrived, target[p])
            \/ \E q \in Producers \ {p} : pc[q] \in {"push", "exchange"} /\ target[q] = target[p]
        BY <3>1, <4>1
      <4> QED BY <1>5, <2>1, <3>1, <4>2 DEF Coming
    <3> QED BY <3>2, <3>3
  <2>4. CASE push_intake(p)
    <3>1. arrived' = arrived /\ pc'[p] = "exchange" /\ target'[p] = target[p]
      BY <1>1, <2>4 DEF push_intake, Goes
    <3> QED BY <1>5, <2>1, <3>1 DEF Coming
  <2>5. CASE link(p) \/ send_reschedule_ipi(p)
    <3>1. arrived' = arrived /\ pc[p] \in {"link", "ring"}
      BY <2>5 DEF link, send_reschedule_ipi
    <3> QED BY <1>5, <2>1, <3>1 DEF Coming
  <2> QED BY <1>5, <2>2, <2>3, <2>4, <2>5
<1>6. ASSUME post_intake(p) \/ push_intake(p) \/ exchange(p) \/ link(p)
                \/ send_reschedule_ipi(p)
      PROVE  Heard'
  <2>1. resume_token' = resume_token
    BY <1>6 DEF post_intake, push_intake, exchange, link, send_reschedule_ipi, fields
  <2> QED BY <1>1, <1>2, <1>5, <1>6, <2>1, HeardKept
<1> QED BY <1>3, <1>4, <1>6

\* The doorbell, through a producer's step.
LEMMA ProducerRings ==
  ASSUME IntakeAssumption, IInv, NEW p \in Producers,
         \/ \E t \in Pinned : resume(p, t) \/ late_wake(p, t)
         \/ post_intake(p) \/ push_intake(p) \/ exchange(p) \/ link(p)
         \/ send_reschedule_ipi(p)
  PROVE  DoorbellCovers'
<1>1. /\ pc \in [Producers -> Places] /\ target \in [Producers -> Pinned \cup {Null}]
      /\ prev \in [Producers -> Pinned \cup {Null}] /\ DoorbellCovers
  BY DEF IInv, Typed
<1>2. /\ drain' = drain
      /\ \A q \in Producers \ {p} : pc'[q] = pc[q] /\ prev'[q] = prev[q]
  BY <1>1 DEF resume, late_wake, Calls, post_intake, push_intake, exchange, link,
              send_reschedule_ipi, drains, Goes
<1>3. CASE exchange(p)
  <2>1. /\ pc[p] = "exchange" /\ pc'[p] = "link" /\ prev'[p] = intake_head
        /\ doorbell' = doorbell
    BY <1>1, <1>3 DEF exchange
  <2> QED BY <1>1, <1>2, <2>1 DEF DoorbellCovers
<1>4. CASE link(p)
  <2>1. /\ pc[p] = "link" /\ doorbell' = doorbell /\ intake_head' = intake_head
        /\ prev[p] = Null => pc'[p] = "ring" /\ prev'[p] = Null
    BY <1>1, <1>4 DEF link, Goes
  <2> QED BY <1>1, <1>2, <2>1 DEF DoorbellCovers
<1>5. CASE send_reschedule_ipi(p)
  BY <1>5 DEF send_reschedule_ipi, DoorbellCovers
<1>6. CASE (\E t \in Pinned : resume(p, t) \/ late_wake(p, t)) \/ post_intake(p)
              \/ push_intake(p)
  <2>1. /\ pc[p] \in {"out", "post", "push"} /\ doorbell' = doorbell
        /\ intake_head' = intake_head
    BY <1>6 DEF resume, late_wake, Calls, post_intake, push_intake
  <2> QED BY <1>1, <1>2, <2>1 DEF DoorbellCovers
<1> QED BY <1>3, <1>4, <1>5, <1>6
----------------------------------------------------------------------------
\* suspend(): a thread commits only without a token, so a token that comes
\* later finds the service that will revoke the commit or undo the park.
LEMMA ThreadStep ==
  ASSUME IntakeAssumption, IInv, NEW t \in Pinned,
         prepare(t) \/ look(t) \/ take_token(t) \/ commit_to_block(t)
  PROVE  IInv'
<1>1. /\ resume_token \in [Pinned -> BOOLEAN] /\ disposition \in [Pinned -> {"none", "prepared"}]
      /\ at \in [Pinned -> {"out", "look", "taking", "commit"}]
      /\ Typed /\ Owned /\ Shaped /\ Heard /\ Filed /\ DoorbellCovers
  BY DEF IInv, Typed
<1>2. /\ pending_requests' = pending_requests /\ intake_next' = intake_next
      /\ pc' = pc /\ target' = target /\ prev' = prev
      /\ intake_head' = intake_head /\ doorbell' = doorbell /\ arrived' = arrived
      /\ state' = state /\ current' = current /\ ready' = ready /\ current = t
      /\ drain = "none" /\ node' = node /\ fifo' = fifo /\ rest' = rest
  BY DEF prepare, look, take_token, commit_to_block, Runs, fields, posting, drains
<1>3. /\ drain' \in {"none", "take"} /\ reason' \in {"yielded", "parked"}
      /\ resume_token' \in [Pinned -> BOOLEAN] /\ disposition' \in [Pinned -> {"none", "prepared"}]
      /\ at' \in [Pinned -> {"out", "look", "taking", "commit"}]
  BY <1>1, <1>2 DEF prepare, look, take_token, commit_to_block, fields, drains, Typed
<1>4. Typed'
  BY <1>1, <1>2, <1>3 DEF Typed
<1>5. Owned' /\ Shaped'
  <2>1. UNCHANGED <<pending_requests, intake_next, posting, intake_head, arrived>>
    BY <1>2 DEF posting
  <2> QED BY <1>2, <1>3, <2>1, ElsewhereKeeps
<1>6. Filed'
  BY <1>1, <1>2 DEF Filed
<1>7. DoorbellCovers'
  BY <1>1, <1>2, <1>3 DEF DoorbellCovers
<1>8. Heard'
  <2>1. \A u \in Pinned : Coming(u)' <=> Coming(u)
    BY <1>2, <1>3 DEF Coming
  <2>2. \A u \in Pinned \ {t} : /\ resume_token'[u] = resume_token[u] /\ at'[u] = at[u]
                                /\ disposition'[u] = disposition[u] /\ current # u
    BY <1>1, <1>2 DEF prepare, look, take_token, commit_to_block, fields
  <2>3. resume_token'[t] /\ ~ Coming(t) =>
           /\ state[t] # "blocked"
           /\ ~ (at'[t] = "commit" /\ disposition'[t] = "prepared")
           /\ ~ (reason' = "parked" /\ state[t] = "running")
    <3>1. CASE prepare(t)
      BY <1>1, <1>2, <3>1 DEF prepare, Heard, fields
    <3>2. CASE look(t)
      BY <1>1, <1>2, <3>2 DEF look, Heard, fields
    <3>3. CASE take_token(t)
      BY <1>1, <1>2, <3>3 DEF take_token, Heard
    <3>4. CASE commit_to_block(t)
      BY <1>1, <1>2, <3>4 DEF commit_to_block, Heard, fields
    <3> QED BY <3>1, <3>2, <3>3, <3>4
  <2> QED BY <1>1, <1>2, <2>1, <2>2, <2>3 DEF Heard
<1> QED BY <1>4, <1>5, <1>6, <1>7, <1>8 DEF IInv

\* A switch asked for by the IPI or the idle thread.
LEMMA StartStep ==
  ASSUME IntakeAssumption, IInv, reschedule \/ idle_task
  PROVE  IInv'
<1>1. /\ fields' = fields /\ posting' = posting /\ intake_head' = intake_head
      /\ arrived' = arrived /\ drain = "none" /\ drain' = "take" /\ reason' = "yielded"
      /\ node' = node /\ fifo' = fifo /\ rest' = rest
      /\ disposition' = disposition /\ state' = state /\ current' = current
      /\ ready' = ready /\ at' = at
  BY DEF reschedule, idle_task
<1>2. Typed' /\ Filed' /\ DoorbellCovers'
  BY <1>1 DEF IInv, Typed, Filed, DoorbellCovers, fields, posting
<1>3. Owned' /\ Shaped'
  BY <1>1, ElsewhereKeeps
<1>4. Heard'
  <2>1. \A u \in Pinned : Coming(u)' <=> Coming(u)
    BY <1>1 DEF Coming, posting
  <2> QED BY <1>1, <2>1 DEF IInv, Heard, fields
<1> QED BY <1>2, <1>3, <1>4 DEF IInv

\* The drain's own steps leave the threads alone, and what is on the intake or
\* in the drain's hands stays there until it is served.
LEMMA DrainStep ==
  ASSUME IntakeAssumption, IInv, drain_intake \/ await_intake_link \/ walked \/ claim
  PROVE  IInv'
<1>1. /\ intake_next \in [Pinned -> Pinned \cup {Null}] /\ fifo \in Pinned \cup {Null}
      /\ pending_requests \in [Pinned -> BOOLEAN] /\ node \in Pinned \cup {Null}
      /\ arrived \in Seq(Pinned)
      /\ Typed /\ Owned /\ Shaped /\ Heard /\ Filed /\ DoorbellCovers
  BY DEF IInv, Typed
<1>2. core' = core /\ posting' = posting /\ resume_token' = resume_token /\ doorbell' = doorbell
  BY DEF drain_intake, await_intake_link, walked, claim, fields
<1>3. Filed'
  BY <1>1, <1>2 DEF Filed, core
<1>4. Owned' /\ Shaped'
  BY TakeKeeps, WalkKeeps, WalkedKeeps, ClaimKeeps
<1>5. DoorbellCovers'
  <2>1. intake_head' # Null => drain # "take" /\ intake_head' = intake_head
    BY DEF drain_intake, await_intake_link, walked, claim
  <2> QED BY <1>1, <1>2, <2>1 DEF DoorbellCovers, posting
<1>6. ASSUME claim
      PROVE  Typed' /\ Heard'
  <2>1. /\ arrived # <<>> /\ fifo = arrived[1]
        /\ \A t : Holds(arrived, t) <=> Holds(arrived', t) \/ t = fifo
    BY <1>6, ClaimKeeps
  <2>2. arrived' \in Seq(Pinned) /\ fifo \in Pinned
    BY <1>1, <1>6, <2>1, TailContains DEF claim
  <2>3. /\ intake_next' \in [Pinned -> Pinned \cup {Null}] /\ rest' \in Pinned \cup {Null}
        /\ pending_requests' \in [Pinned -> BOOLEAN]
    BY <1>1, <1>6, <2>2 DEF claim
  <2>4. Typed'
    BY <1>1, <1>2, <1>6, <2>2, <2>3 DEF claim, Typed, core, posting
  <2>5. \A t \in Pinned : Coming(t) => Coming(t)'
    BY <1>2, <1>6, <2>1 DEF claim, Coming, posting
  <2> QED BY <1>1, <1>2, <2>4, <2>5, HeardKept
<1>7. ASSUME drain_intake \/ await_intake_link \/ walked
      PROVE  Typed' /\ Heard'
  <2>1. /\ arrived' = arrived /\ drain # "serve" /\ pending_requests' = pending_requests
        /\ drain' \in {"walk", "claim"} /\ rest' = rest
    BY <1>7 DEF drain_intake, await_intake_link, walked, fields
  <2>2. /\ node' \in Pinned \cup {Null} /\ fifo' \in Pinned \cup {Null}
        /\ intake_next' \in [Pinned -> Pinned \cup {Null}]
        /\ intake_head' \in Pinned \cup {Null}
    <3>1. CASE drain_intake
      BY <1>1, <3>1 DEF drain_intake, fields, Typed
    <3>2. CASE await_intake_link
      <4>1. /\ node \in Pinned /\ intake_next' = [intake_next EXCEPT ![node] = fifo]
            /\ node' = intake_next[node] /\ fifo' = node /\ intake_head' = intake_head
        BY <1>1, <3>2 DEF await_intake_link
      <4> QED BY <1>1, <4>1 DEF Typed
    <3>3. CASE walked
      BY <1>1, <3>3 DEF walked, fields, Typed
    <3> QED BY <1>7, <3>1, <3>2, <3>3
  <2>3. Typed'
    BY <1>1, <1>2, <2>1, <2>2 DEF Typed, core, posting
  <2>4. \A t \in Pinned : Coming(t) => Coming(t)'
    BY <1>2, <2>1 DEF Coming, posting
  <2> QED BY <1>1, <1>2, <2>3, <2>4, HeardKept
<1> QED BY <1>3, <1>4, <1>5, <1>6, <1>7 DEF IInv

\* The service readies its thread, revokes its departure, or finds it filed.
LEMMA ServeStep ==
  ASSUME IntakeAssumption, IInv, service_intake
  PROVE  IInv'
<1>1. /\ disposition \in [Pinned -> {"none", "prepared"}]
      /\ state \in [Pinned -> {"ready", "running", "blocked"}] /\ ready \in Seq(Pinned)
      /\ Typed /\ Heard /\ Filed /\ DoorbellCovers /\ Shaped
  BY DEF IInv, Typed
<1>2. /\ drain = "serve" /\ drain' = "claim" /\ fifo' = rest /\ rest' = Null /\ node' = node
      /\ fields' = fields /\ posting' = posting /\ current' = current /\ at' = at
      /\ reason' = reason /\ intake_head' = intake_head /\ doorbell' = doorbell
      /\ arrived' = arrived
      /\ disposition' = [disposition EXCEPT ![fifo] = "none"]
      /\ \/ Holds(ready, fifo) /\ state' = state /\ ready' = ready
         \/ /\ ~ Holds(ready, fifo) /\ state' = [state EXCEPT ![fifo] = "ready"]
            /\ ready' = Append(ready, fifo)
  BY DEF service_intake
<1>3. fifo \in Pinned
  BY <1>1, <1>2 DEF Shaped, Shape, Typed
<1>4. Owned' /\ Shaped'
  BY ServeKeeps
<1>5. DoorbellCovers'
  BY <1>1, <1>2 DEF DoorbellCovers, posting
<1>6. /\ disposition' \in [Pinned -> {"none", "prepared"}] /\ disposition'[fifo] = "none"
      /\ state' \in [Pinned -> {"ready", "running", "blocked"}] /\ state'[fifo] = "ready"
      /\ \A t \in Pinned \ {fifo} : state'[t] = state[t] /\ disposition'[t] = disposition[t]
  BY <1>1, <1>2, <1>3 DEF Filed
<1>7. ready' \in Seq(Pinned) /\ Filed'
  <2>1. CASE ready' = ready
    <3>1. Distinct(ready') /\ \A t \in Pinned : Holds(ready', t) => state[t] = "ready"
      BY <1>1, <2>1 DEF Filed
    <3> QED BY <1>1, <1>3, <1>6, <2>1, <3>1 DEF Filed
  <2>2. CASE ~ Holds(ready, fifo) /\ ready' = Append(ready, fifo)
    <3>1. /\ ready' \in Seq(Pinned) /\ Distinct(ready')
          /\ \A y : Holds(ready', y) <=> Holds(ready, y) \/ y = fifo
      BY <1>1, <1>3, <2>2, AppendContains DEF Filed
    <3> QED BY <1>1, <1>3, <1>6, <3>1 DEF Filed
  <2> QED BY <1>2, <2>1, <2>2
<1>8. Typed'
  BY SMTT(60), <1>1, <1>2, <1>6, <1>7 DEF Typed, fields, posting
<1>9. Heard'
  <2>1. \A t \in Pinned \ {fifo} : Coming(t) => Coming(t)'
    BY <1>2 DEF Coming, posting
  <2>2. resume_token' = resume_token /\ at' = at /\ reason' = reason /\ current' = current
    BY <1>2 DEF fields
  <2>3. \A t \in Pinned \ {fifo} : state'[t] = state[t] /\ disposition'[t] = disposition[t]
    BY <1>6
  <2>4. disposition'[fifo] = "none" /\ state'[fifo] = "ready"
    BY <1>6
  <2>5. Heard
    BY <1>1
  <2> QED BY <2>1, <2>2, <2>3, <2>4, <2>5 DEF Heard
<1> QED BY <1>4, <1>5, <1>7, <1>8, <1>9 DEF IInv

\* What the departure leaves: the old thread filed or blocked, the rest as it was.
LEMMA DepartedEffect ==
  ASSUME IntakeAssumption, IInv
  PROVE  /\ Departed.state \in [Pinned -> {"ready", "running", "blocked"}]
         /\ Departed.ready \in Seq(Pinned) /\ Distinct(Departed.ready)
         /\ \A t \in Pinned : Holds(Departed.ready, t) => Departed.state[t] = "ready"
         /\ \A t \in Pinned : Departed.state[t] = "blocked" =>
               \/ state[t] = "blocked"
               \/ reason = "parked" /\ current = t /\ state[t] = "running"
<1>1. /\ state \in [Pinned -> {"ready", "running", "blocked"}] /\ ready \in Seq(Pinned)
      /\ current \in Pinned \cup {Idle} /\ Filed
  BY DEF IInv, Typed
<1>2. CASE current = Idle \/ state[current] # "running"
  <2>1. Departed.state = state /\ Departed.ready = ready
    BY <1>2 DEF Departed
  <2> QED BY <1>1, <2>1 DEF Filed
<1>3. CASE current # Idle /\ state[current] = "running"
  <2>1. current \in Pinned /\ ~ Holds(ready, current)
    BY <1>1, <1>3 DEF Filed
  <2>2. CASE reason = "parked"
    <3>1. Departed.state = [state EXCEPT ![current] = "blocked"] /\ Departed.ready = ready
      BY <1>3, <2>2 DEF Departed
    <3> QED BY <1>1, <1>3, <2>1, <2>2, <3>1 DEF Filed
  <2>3. CASE reason # "parked"
    <3>1. /\ Departed.state = [state EXCEPT ![current] = "ready"]
          /\ Departed.ready = Append(ready, current)
      BY <1>3, <2>3 DEF Departed
    <3>2. /\ Departed.ready \in Seq(Pinned) /\ Distinct(Departed.ready)
          /\ \A y : Holds(Departed.ready, y) <=> Holds(ready, y) \/ y = current
      <4>1. ready \in Seq(Pinned) /\ Distinct(ready)
        BY <1>1 DEF Filed
      <4>2. /\ Append(ready, current) \in Seq(Pinned) /\ Distinct(Append(ready, current))
            /\ \A y : Holds(Append(ready, current), y) <=> Holds(ready, y) \/ y = current
        BY <2>1, <4>1, AppendHolds
      <4> QED BY <3>1, <4>2
    <3> QED BY <1>1, <2>1, <3>1, <3>2 DEF Filed
  <2> QED BY <2>2, <2>3
<1> QED BY <1>2, <1>3
\* The switch's decision, with the intake empty.
LEMMA DecideStep ==
  ASSUME IntakeAssumption, IInv, decide
  PROVE  IInv'
<1> DEFINE s == Departed.state
           r == Departed.ready
<1>1. Typed /\ Heard /\ DoorbellCovers
  BY DEF IInv
<1>2. /\ (drain = "take" /\ intake_head = Null) \/ drain = "claim"
      /\ drain' = "none" /\ reason' = "yielded" /\ fields' = fields /\ posting' = posting
      /\ disposition' = disposition /\ at' = at /\ node' = node /\ fifo' = fifo
      /\ rest' = rest /\ intake_head' = intake_head /\ doorbell' = doorbell
      /\ arrived' = arrived
      /\ \/ r = <<>> /\ current' = Idle /\ state' = s /\ ready' = <<>>
         \/ /\ r # <<>> /\ current' = Head(r) /\ ready' = Tail(r)
            /\ state' = [s EXCEPT ![Head(r)] = "running"]
  BY DEF decide
<1>3. Owned' /\ Shaped'
  BY DecideKeeps
<1>4. DoorbellCovers'
  BY <1>1, <1>2 DEF DoorbellCovers, posting
<1>5. /\ s \in [Pinned -> {"ready", "running", "blocked"}] /\ r \in Seq(Pinned) /\ Distinct(r)
      /\ \A t \in Pinned : Holds(r, t) => s[t] = "ready"
      /\ \A t \in Pinned : s[t] = "blocked" =>
            \/ state[t] = "blocked"
            \/ reason = "parked" /\ current = t /\ state[t] = "running"
  BY DepartedEffect
<1>6. /\ state' \in [Pinned -> {"ready", "running", "blocked"}] /\ ready' \in Seq(Pinned)
      /\ current' \in Pinned \cup {Idle} /\ Filed'
      /\ \A t \in Pinned : state'[t] = "blocked" => s[t] = "blocked"
  <2>1. CASE r = <<>>
    BY <1>2, <1>5, <2>1 DEF Filed
  <2>2. CASE r # <<>>
    <3>1. /\ Tail(r) \in Seq(Pinned) /\ Head(r) \in Pinned /\ Distinct(Tail(r))
          /\ ~ Holds(Tail(r), Head(r))
          /\ \A y : Holds(r, y) <=> Holds(Tail(r), y) \/ y = Head(r)
      BY SMTT(60), <1>5, <2>2, TailContains
    <3>2. /\ state'[Head(r)] = "running"
          /\ \A t \in Pinned : t # Head(r) => state'[t] = s[t]
          /\ state' \in [Pinned -> {"ready", "running", "blocked"}]
      BY <1>2, <1>5, <2>2, <3>1
    <3> QED BY <1>2, <1>5, <2>2, <3>1, <3>2 DEF Filed
  <2> QED BY <2>1, <2>2
<1>7. Typed'
  BY <1>1, <1>2, <1>6 DEF Typed, fields, posting
<1>8. Heard'
  <2>1. \A t \in Pinned : Coming(t) => Coming(t)'
    BY <1>2 DEF Coming, posting
  <2>2. \A t \in Pinned : resume_token'[t] = resume_token[t]
    BY <1>2 DEF fields
  <2> QED BY <1>1, <1>2, <1>5, <1>6, <2>1, <2>2 DEF Heard
<1> QED BY <1>3, <1>4, <1>6, <1>7, <1>8 DEF IInv

----------------------------------------------------------------------------
\* The core before it has run anything.
LEMMA InitInvariant ==
  ASSUME IntakeAssumption, Init
  PROVE  IInv
<1>1. ready \in Seq(Pinned) /\ Distinct(ready)
  <2>1. Cardinality(Pinned) \in Nat
    BY DEF IntakeAssumption
  <2>2. ready \in Orders(Pinned)
    BY DEF Init
  <2> QED BY SMTT(60), <2>1, <2>2 DEF Orders, Distinct
<1>2. arrived = <<>> /\ Len(arrived) = 0 /\ arrived \in Seq(Pinned)
  BY SMTT(60) DEF Init
<1>3. Typed
  BY <1>1, <1>2 DEF Init, Typed, Places
<1>4. Owned
  BY SMTT(60), <1>2 DEF Init, Owned, Distinct, Holds, Pushing
<1>5. Shape(0, 0)
  BY SMTT(60), <1>2 DEF Init, Shape, Entry
<1>6. Shaped
  BY SMTT(60), <1>2, <1>5 DEF Shaped
<1>7. Filed
  BY <1>1 DEF Init, Filed
<1>8. Heard /\ DoorbellCovers
  BY DEF Init, Heard, DoorbellCovers
<1> QED BY <1>3, <1>4, <1>6, <1>7, <1>8 DEF IInv

\* Every step of a producer, a thread or the core keeps the invariant.
LEMMA NextInvariant ==
  ASSUME IntakeAssumption, IInv, [Next]_intakes
  PROVE  IInv'
<1>1. ASSUME NEW p \in Producers,
             \/ \E t \in Pinned : resume(p, t) \/ late_wake(p, t)
             \/ post_intake(p) \/ push_intake(p) \/ exchange(p) \/ link(p)
             \/ send_reschedule_ipi(p)
      PROVE  IInv'
  <2>1. Typed' /\ Filed' /\ Heard' /\ DoorbellCovers'
    BY <1>1, ProducerTypes, ProducerHeard, ProducerRings
  <2>2. Owned' /\ Shaped'
    <3>1. ASSUME NEW t \in Pinned, resume(p, t) \/ late_wake(p, t)
          PROVE  Owned' /\ Shaped'
      <4>1. /\ Calls(p, t)
            /\ UNCHANGED <<pending_requests, intake_next, arrived, intake_head, drains>>
        BY <3>1 DEF resume, late_wake, fields
      <4> QED BY <4>1, CallKeeps
    <3> QED BY <1>1, <3>1, PostKeeps, PushKeeps, ExchangeKeeps, LinkKeeps, RingKeeps
  <2> QED BY <2>1, <2>2 DEF IInv
<1>2. CASE UNCHANGED intakes
  <2>1. /\ fields' = fields /\ core' = core /\ drains' = drains /\ posting' = posting
        /\ intake_head' = intake_head /\ doorbell' = doorbell /\ arrived' = arrived
    BY <1>2 DEF intakes
  <2>2. Owned' /\ Shaped'
    BY <2>1, ElsewhereKeeps DEF drains
  <2>3. Typed'
    BY <2>1 DEF fields, core, drains, posting, IInv, Typed
  <2>5. Filed' /\ DoorbellCovers'
    BY <2>1 DEF core, drains, posting, IInv, Filed, DoorbellCovers
  <2>4. Heard'
    <3>1. \A t \in Pinned : Coming(t) => Coming(t)'
      BY <2>1 DEF Coming, drains, posting
    <3> QED BY <2>1, <3>1, HeardKept DEF IInv, fields
  <2> QED BY <2>2, <2>3, <2>4, <2>5 DEF IInv
<1> QED BY <1>1, <1>2, ThreadStep, StartStep, DrainStep, ServeStep, DecideStep DEF Next

\* The intake of a core with any number of threads and producers keeps the
\* invariant above.
THEOREM IntakeInvariance == ASSUME IntakeAssumption PROVE Spec => []IInv
<1>1. Init => IInv
  BY InitInvariant
<1>2. IInv /\ [Next]_intakes => IInv'
  BY NextInvariant
<1> QED BY <1>1, <1>2, PTL DEF Spec

\* The lock-free intake is a queue: drain_intake leaves nothing behind, and
\* serves the requests in the order of their exchanges, although producers
\* push them as a stack and link each only after its exchange.
THEOREM IntakeIsFifo ==
  ASSUME IntakeAssumption PROVE Spec => [](DrainTakesAll /\ ServedInOrder)
<1>1. IInv => DrainTakesAll /\ ServedInOrder
  <2> SUFFICES ASSUME IInv PROVE DrainTakesAll /\ ServedInOrder
    OBVIOUS
  <2>1. arrived \in Seq(Pinned) /\ Len(arrived) \in Nat
    BY Arrivals DEF IInv, Typed
  <2>2. PICK k \in 0 .. Len(arrived) : \E j \in 0 .. k : Shape(k, j)
    BY DEF IInv, Shaped
  <2>3. DrainTakesAll
    BY SMTT(60), <2>1, <2>2 DEF Shape, Entry, DrainTakesAll, IntakeAssumption
  <2>4. ServedInOrder
    BY SMTT(60), <2>1, <2>2 DEF Shape, Entry, ServedInOrder
  <2> QED BY <2>3, <2>4
<1> QED BY <1>1, IntakeInvariance, PTL

\* A resume is not lost, wherever the thread is in suspend() and whatever the
\* core is switching: a blocked thread with a token has a service to come.
THEOREM ResumesAreServed == ASSUME IntakeAssumption PROVE Spec => []ResumeIsNotLost
<1>1. IInv => ResumeIsNotLost
  BY DEF IInv, Heard, Coming, ResumeIsNotLost
<1> QED BY <1>1, IntakeInvariance, PTL

\* A push that finds the intake empty is enough to ring for all that follow.
THEOREM DoorbellReaches == ASSUME IntakeAssumption PROVE Spec => []DoorbellCovers
<1>1. IInv => DoorbellCovers
  BY DEF IInv
<1> QED BY <1>1, IntakeInvariance, PTL
=============================================================================
