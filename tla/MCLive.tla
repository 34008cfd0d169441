------------------------------- MODULE MCLive -------------------------------
(***************************************************************************)
(* Small instances, side by side, of the components that promise that      *)
(* something happens in the end, each under the fairness its own actors    *)
(* are owed: a behaviour is of one of them, chosen at the start and kept   *)
(* in `kind', and the variables that one does not have stay None.          *)
(***************************************************************************)
EXTENDS Naturals, Sequences, TLC

CONSTANTS t1, t2, i1, m1, c1, c2, c3, Sem, Idle, None

VARIABLES kind,
  current, state, disposition, doorbell,                             \* BaseMutex, WaitEngine
  filed, owner, bridges, blocked_on, at, locked,                     \* BaseMutex
  sched, intake, pended, isr, nopreempt, boost, handed,              \* Scheduler
  on, satisfied, gone, chosen,                                       \* WaitLoop, WaitEngine
  raised, token, cancel, hint,                                       \* WaitEngine
  prepared, timed, expired, batch,                                   \* WaitLoop
  counter,                                                           \* the semaphores' tokens
  todo, reclaiming, counted, since,                                  \* HandoffSemaphore
  bits, req, cursor, filled, live,                                   \* EventFlags
  ring, head, tail, occupancy, stopped, value, stopping,             \* Channel
  alarmDriver, timer, callback_at, raised_flag, linked, sleeper,     \* Alarm
  ready, blocked, posted, holder, active_contexts,                   \* CoopCores
  shutdown_requested, pokes,
  pc, pending, queue, held, seen                                     \* of several

cores == <<current, state, disposition, doorbell>>
mutexes == <<filed, owner, bridges, blocked_on, at, locked>>
scheds == <<sched, intake, pended, isr, nopreempt, boost, handed>>
waits == <<on, satisfied, gone, chosen>>
engines == <<raised, token, cancel, hint>>
loops == <<prepared, timed, expired, batch>>
tokens == <<counter>>
pool == <<todo, reclaiming, counted, since>>
flags == <<bits, req, cursor, filled, live>>
slots == <<ring, head, tail, occupancy, stopped, value, stopping>>
alarms == <<alarmDriver, timer, callback_at, raised_flag, linked, sleeper>>
hosts == <<ready, blocked, posted, holder, active_contexts, shutdown_requested, pokes>>
pcs == <<pc, pending>>
queues == <<queue>>
helds == <<held>>
seens == <<seen>>
vars == <<kind, cores, mutexes, scheds, waits, engines, loops, tokens, pool, flags, slots,
          alarms, hosts, pcs, queues, helds, seens>>

NoCores ==
  /\ current = None /\ state = None /\ disposition = None /\ doorbell = None

NoMutex ==
  /\ filed = None /\ owner = None /\ bridges = None /\ blocked_on = None /\ at = None
  /\ locked = None

NoSched ==
  /\ sched = None /\ intake = None /\ pended = None /\ isr = None /\ nopreempt = None
  /\ boost = None /\ handed = None

NoWait ==
  /\ on = None /\ satisfied = None /\ gone = None /\ chosen = None

NoEngine ==
  /\ raised = None /\ token = None /\ cancel = None /\ hint = None

NoLoop ==
  /\ prepared = None /\ timed = None /\ expired = None /\ batch = None

NoTokens ==
  /\ counter = None

NoPool ==
  /\ todo = None /\ reclaiming = None /\ counted = None /\ since = None

NoFlags ==
  /\ bits = None /\ req = None /\ cursor = None /\ filled = None /\ live = None

NoSlots ==
  /\ ring = None /\ head = None /\ tail = None /\ occupancy = None /\ stopped = None
  /\ value = None /\ stopping = None

NoAlarm ==
  /\ alarmDriver = None /\ timer = None /\ callback_at = None /\ raised_flag = None
  /\ linked = None /\ sleeper = None

NoHost ==
  /\ ready = None /\ blocked = None /\ posted = None /\ holder = None
  /\ active_contexts = None /\ shutdown_requested = None /\ pokes = None

NoPc ==
  /\ pc = None /\ pending = None

NoQueue ==
  /\ queue = None

NoHeld ==
  /\ held = None

NoSeen ==
  /\ seen = None

-----------------------------------------------------------------------------
TwoPrios == t1 :> 1 @@ t2 :> 2
OwnCores == t1 :> c1 @@ t2 :> c2 @@ i1 :> c3
TokenRoles ==
  t1 :> {<<"acquire", None>>, <<"wait", t2>>} @@ t2 :> {<<"acquire", None>>, <<"exit", None>>} @@
  i1 :> {<<"release", None>>}
SuspendRoles ==
  t1 :> {<<"acquire", None>>, <<"suspend", None>>} @@
  t2 :> {<<"release", None>>, <<"resume", t1>>} @@ i1 :> {<<"resume", t1>>}
Calling(first, second, waker) == t1 :> first @@ t2 :> second @@ i1 :> waker

\* Two threads with a core each, contending for one mutex.
mutex == INSTANCE BaseMutex
  WITH Threads <- {t1, t2}, prio <- t1 :> 1 @@ t2 :> 1, Mutexes <- {m1}, Cores <- {c1, c2},
       core <- t1 :> c1 @@ t2 :> c2, ceiling <- m1 :> 4, Locks <- t1 :> {m1} @@ t2 :> {m1},
       rank <- t1 :> (m1 :> 1) @@ t2 :> (m1 :> 1), Sleepers <- {}, MaxDepth <- 2, IdlePriority <- 3

\* One thread of the matrix and one holder a waiter may boost to a tie with it,
\* under time slices.
shares == INSTANCE Scheduler
  WITH Threads <- {t1, t2}, prio <- t1 :> 1 @@ t2 :> 2, IdlePriority <- 3,
       Calls <- {"remote", "wake", "block", "mutex", "slice"}, Donations <- {1}

\* Two threads and an interrupt, a core each: both threads wait for tokens, and
\* one joins the other.
engine == INSTANCE WaitEngine
  WITH Threads <- {t1, t2}, prio <- TwoPrios, Isrs <- {i1}, Cores <- {c1, c2, c3},
       core <- OwnCores, Signals <- {}, MaxCount <- 1, IdlePriority <- 3, Roles <- TokenRoles

\* One thread suspends, and waits for a token, beside two that resume it.
suspends == INSTANCE WaitEngine
  WITH Threads <- {t1, t2}, prio <- TwoPrios, Isrs <- {i1}, Cores <- {c1, c2, c3},
       core <- OwnCores, Signals <- {}, MaxCount <- 1, IdlePriority <- 3, Roles <- SuspendRoles

\* Two acquirers and one token at a time.
handoff == INSTANCE HandoffSemaphore
  WITH Threads <- {t1, t2}, prio <- TwoPrios, Wakers <- {i1}, Tokens <- 1,
       Handoff <- "handoff", Waitables <- {"handoff"}, Recorded <- {"handoff"},
       Calls <- Calling({"acquire"}, {"timed"}, {"release"})

\* Two waiters for one flag, one of whom consumes it.
flag == INSTANCE EventFlags
  WITH Threads <- {t1, t2}, prio <- TwoPrios, Wakers <- {i1}, Bits <- {1}, BatchSize <- 1,
       Flags <- "flags", Waitables <- {"flags"}, Recorded <- {"flags"},
       Calls <- Calling({"wait"}, {"wait"}, {"set"}),
       Requests <- t1 :> {[mask |-> {1}, match |-> "all", exit |-> "consume"]}
                   @@ t2 :> {[mask |-> {1}, match |-> "any", exit |-> "keep"]}

\* A receiver and a blocking sender of a one-slot channel that is stopped.
channel == INSTANCE Channel
  WITH Threads <- {t1, t2}, prio <- TwoPrios, Wakers <- {i1}, Capacity <- 1, Values <- {0},
       Readable <- "readable", Writable <- "writable",
       Waitables <- {"readable", "writable"}, Recorded <- {},
       Calls <- Calling({"receive"}, {"blocking"}, {"stop"})

\* A sleep on each kind of driver.
sleep == INSTANCE Alarm WITH AlarmDrivers <- {"hardware", "simulation"}

\* Two cores of the cooperative port, two threads to begin on each.
host == INSTANCE CoopCores WITH Cores <- {c1, c2}, Jobs <- c1 :> 2 @@ c2 :> 2

ASSUME InstancesAssumption ==
  /\ mutex!MutexAssumption /\ shares!SchedulerAssumption
  /\ handoff!LoopAssumption /\ channel!LoopAssumption /\ channel!ChannelAssumption
  /\ flag!FlagsAssumption /\ host!CoresAssumption

-----------------------------------------------------------------------------
Init ==
  \/ kind = "mutex" /\ mutex!Init
     /\ NoSched /\ NoWait /\ NoEngine /\ NoLoop /\ NoTokens /\ NoPool /\ NoFlags
     /\ NoSlots /\ NoAlarm /\ NoHost
  \/ kind = "shares" /\ shares!Init
     /\ NoCores /\ NoMutex /\ NoWait /\ NoEngine /\ NoLoop /\ NoTokens /\ NoPool
     /\ NoFlags /\ NoSlots /\ NoAlarm /\ NoHost /\ NoPc /\ NoQueue /\ NoSeen
  \/ kind = "engine" /\ engine!Init
     /\ NoMutex /\ NoSched /\ NoLoop /\ NoPool /\ NoFlags /\ NoSlots /\ NoAlarm
     /\ NoHost /\ NoHeld /\ NoSeen
  \/ kind = "suspends" /\ suspends!Init
     /\ NoMutex /\ NoSched /\ NoLoop /\ NoPool /\ NoFlags /\ NoSlots /\ NoAlarm
     /\ NoHost /\ NoHeld /\ NoSeen
  \/ kind = "handoff" /\ handoff!HandoffInit
     /\ NoCores /\ NoMutex /\ NoSched /\ NoEngine /\ NoFlags /\ NoSlots /\ NoAlarm
     /\ NoHost /\ NoSeen
  \/ kind = "flags" /\ flag!FlagsInit
     /\ NoCores /\ NoMutex /\ NoSched /\ NoEngine /\ NoTokens /\ NoPool /\ NoSlots
     /\ NoAlarm /\ NoHost /\ NoHeld
  \/ kind = "channel" /\ channel!ChannelInit
     /\ NoCores /\ NoMutex /\ NoSched /\ NoEngine /\ NoTokens /\ NoPool /\ NoFlags
     /\ NoAlarm /\ NoHost /\ NoHeld /\ NoSeen
  \/ kind = "alarm" /\ sleep!AlarmInit
     /\ NoCores /\ NoMutex /\ NoSched /\ NoWait /\ NoEngine /\ NoLoop /\ NoTokens
     /\ NoPool /\ NoFlags /\ NoSlots /\ NoHost /\ NoPc /\ NoQueue /\ NoHeld /\ NoSeen
  \/ kind = "host" /\ host!Init
     /\ NoCores /\ NoMutex /\ NoSched /\ NoWait /\ NoEngine /\ NoLoop /\ NoTokens
     /\ NoPool /\ NoFlags /\ NoSlots /\ NoAlarm /\ NoQueue /\ NoHeld /\ NoSeen

\* A step of one instance leaves the others alone.
ButMutex ==
  /\ kind = "mutex"
  /\ UNCHANGED <<kind, scheds, waits, engines, loops, tokens, pool, flags, slots, alarms,
                 hosts>>
ButShares ==
  /\ kind = "shares"
  /\ UNCHANGED <<kind, cores, mutexes, waits, engines, loops, tokens, pool, flags, slots,
                 alarms, hosts, pcs, queues, seens>>
ButEngine ==
  /\ kind = "engine"
  /\ UNCHANGED <<kind, mutexes, scheds, loops, pool, flags, slots, alarms, hosts, helds,
                 seens>>
ButSuspends ==
  /\ kind = "suspends"
  /\ UNCHANGED <<kind, mutexes, scheds, loops, pool, flags, slots, alarms, hosts, helds,
                 seens>>
ButHandoff ==
  /\ kind = "handoff"
  /\ UNCHANGED <<kind, cores, mutexes, scheds, engines, flags, slots, alarms, hosts, seens>>
ButFlags ==
  /\ kind = "flags"
  /\ UNCHANGED <<kind, cores, mutexes, scheds, engines, tokens, pool, slots, alarms, hosts,
                 helds>>
ButChannel ==
  /\ kind = "channel"
  /\ UNCHANGED <<kind, cores, mutexes, scheds, engines, tokens, pool, flags, alarms, hosts,
                 helds, seens>>
ButAlarm ==
  /\ kind = "alarm"
  /\ UNCHANGED <<kind, cores, mutexes, scheds, waits, engines, loops, tokens, pool, flags,
                 slots, hosts, pcs, queues, helds, seens>>
ButHost ==
  /\ kind = "host"
  /\ UNCHANGED <<kind, cores, mutexes, scheds, waits, engines, loops, tokens, pool, flags,
                 slots, alarms, queues, helds, seens>>

\* Every thread may be waiting for what nobody sends, and every core be left;
\* that a sleep ends is in DueWaitsEnd.
Rests == kind \in {"engine", "suspends", "handoff", "channel", "host", "alarm"} /\ UNCHANGED vars

Next ==
  \/ ButMutex /\ mutex!Next
  \/ ButShares /\ shares!Next
  \/ ButEngine /\ engine!Next
  \/ ButSuspends /\ suspends!Next
  \/ ButHandoff /\ handoff!HandoffNext
  \/ ButFlags /\ flag!FlagsNext
  \/ ButChannel /\ channel!ChannelNext
  \/ ButAlarm /\ sleep!AlarmNext
  \/ ButHost /\ host!Next
  \/ Rests

Actors == {t1, t2, i1}

\* A thread that runs goes on with its call and unlocks what it has locked, and
\* a core takes the reschedules asked of it.  A wake or a sweep begun is
\* finished, by whichever thread or interrupt began it.  Time comes and a
\* callback begun is finished.  A core of the cooperative port, a host thread,
\* keeps running; its threads' own choices are owed nothing.
Fairness ==
  /\ \A t \in {t1, t2} :
       /\ WF_vars(ButMutex /\ mutex!LockStep(t))
       /\ WF_vars(ButMutex /\ mutex!UnlockStep(t))
       /\ WF_vars(ButMutex /\ mutex!unlock(t, m1))
       /\ WF_vars(ButEngine /\ engine!WaitStep(t))
       /\ WF_vars(ButSuspends /\ suspends!WaitStep(t))
       /\ WF_vars(ButHandoff /\ handoff!AcquireStep(t))
       /\ WF_vars(ButFlags /\ flag!FlagsWaitStep(t))
       /\ WF_vars(ButChannel /\ channel!ChannelWaitStep(t))
  /\ \A a \in Actors :
       /\ WF_vars(ButEngine /\ engine!WakeStep(a))
       /\ WF_vars(ButSuspends /\ suspends!WakeStep(a))
       /\ WF_vars(ButHandoff /\ handoff!ReleaseStep(a))
       /\ WF_vars(ButFlags /\ flag!SetStep(a))
       /\ WF_vars(ButChannel /\ channel!ChannelStep(a))
  /\ \A c \in {c1, c2} :
       /\ WF_vars(ButMutex /\ mutex!CoreStep(c))
       /\ WF_vars(ButHost /\ host!CoreStep(c))
  /\ \A c \in {c1, c2, c3} :
       /\ WF_vars(ButEngine /\ engine!CoreStep(c))
       /\ WF_vars(ButSuspends /\ suspends!CoreStep(c))
  /\ WF_vars(ButAlarm /\ sleep!SleeperStep)
  /\ WF_vars(ButAlarm /\ sleep!fire)
  /\ WF_vars(ButAlarm /\ sleep!on_timer)

\* The slice timer keeps firing, the reschedule it pends is taken, and whoever
\* hands a mutex over goes on to ready the new owner: weak fairness of rotate,
\* pended_reschedule and ready_owner, of which the first is always enabled, the
\* second whenever pended and the third whenever its thread is in handed.
Slices ==
  /\ []<>(kind = "shares" => pended) /\ []<>(kind = "shares" => ~pended)
  /\ \A t \in {t1, t2} : []<>(kind = "shares" => t \notin handed)

Spec == Init /\ [][Next]_vars /\ Fairness /\ Slices

-----------------------------------------------------------------------------
(* Properties, each of the instance it is about *)

\* A thread that waits for a mutex gets it, if its holders let it go: the
\* handover cannot be barged (base_mutex::hand_over).
WaiterGetsMutex ==
  \A t \in {t1, t2} : []<>(kind = "mutex" => ~mutex!WaitsFor(t, m1))

\* Round robin starves no equal (tie_rotor): under time slices no thread stays
\* ready for ever without running, holder or not, unless more urgent ones run.
EqualsShare == \A t \in {t1, t2} : []<>(kind = "shares" => shares!HasItsShare(t))


\* Once the shutdown is asked for, every core of the cooperative port leaves,
\* and cyros_port_start_cores joins them all.
EveryCoreLeaves == []<>(kind = "host" /\ shutdown_requested => \A c \in {c1, c2} : pc[c] = "done")
=============================================================================
