------------------------------- MODULE MCPorts -------------------------------
(***************************************************************************)
(* Small instances of the ports, and of what the kernel builds directly on *)
(* them (the spinlock and the cross-core intake), side by side: a          *)
(* behaviour is of one of them, chosen at the start and kept in `kind',    *)
(* and the variables that one does not have stay None.                     *)
(***************************************************************************)
EXTENDS Naturals, Sequences, TLC

CONSTANTS t1, t2, t3, c1, c2, p1, p2, Irq, Idle, Null, None

VARIABLES kind,
  running, live, stage, irqs, preempts, asked, handed, phase,       \* PortThreads
  owed, pendsv, primask, basepri, interrupts,                       \* the M profile
  deferred, enabling,
  power, shutdown, blocked, irq_depth, preempt_depth, half,         \* LinuxPreempt
  isr, isr_mask, isr_from_baseline, ipi, ipi_asked, remote_asked,
  mie, msie, msip, cause, whole, called,                            \* Rv32
  i_bit, pmr, sgi,                                                  \* Armv8r
  outer_interrupt, irq, preempt, level1, nested,                    \* Sparcv8
  framed,                                                           \* of both
  task, cwp, wim, file, stack, contents, traps, flushed,            \* RegisterWindows
  depth,                                                            \* and of Armv6m
  current_context, interrupt_disable_depth, preempt_disable_depth,  \* LinuxCoop
  reschedule_pending,
  posted, holder, active_contexts, shutdown_requested, pokes,       \* CoopCores
  pending,                                                          \* and of LinuxPreempt
  flag, token, masked, held, on,                                    \* SpinLock
  word, lock, op, old, holds,                                       \* SoftAtomics
  saved,                                                            \* and of PortThreads
  pending_requests, intake_next, resume_token, disposition, state,  \* Intake
  intake_head, current, at, drain, reason, node, fifo, rest, doorbell,
  target, prev, arrived,
  ready, pc                                                         \* and of CoopCores

thr == <<running, live, stage, irqs, preempts, asked, handed, phase>>
owing == <<owed>>
mprofile == <<pendsv, primask, interrupts>>
v7 == <<basepri>>
v6 == <<deferred, enabling>>
signals == <<power, shutdown, irq_depth, preempt_depth, half, isr, isr_mask,
             isr_from_baseline, ipi, ipi_asked, remote_asked>>
riscv == <<mie, msie, msip, cause, whole, called>>
v8r == <<i_bit, pmr, sgi>>
sparc == <<outer_interrupt, irq, preempt, level1, nested>>
frames == <<framed>>
wins == <<task, cwp, wim, file, stack, contents, traps, flushed>>
depths == <<depth>>
coops == <<current_context, interrupt_disable_depth, preempt_disable_depth,
           reschedule_pending>>
hosts == <<posted, holder, active_contexts, shutdown_requested, pokes>>
pendings == <<pending>>
blockeds == <<blocked>>
spins == <<flag, held, on>>
masks == <<token, masked>>
atoms == <<word, lock, op, old, holds>>
ats == <<at>>
saves == <<saved>>
intakes == <<pending_requests, intake_next, resume_token, disposition, state,
             intake_head, current, drain, reason, node, fifo, rest, doorbell, target,
             prev, arrived>>
readies == <<ready>>
pcs == <<pc>>
vars == <<kind, thr, owing, mprofile, v7, v6, signals, riscv, v8r, sparc, frames, wins,
          depths, coops, hosts, pendings, blockeds, spins, masks, atoms, ats, saves,
          intakes, readies, pcs>>

NoThreads ==
  /\ running = None /\ live = None /\ stage = None /\ irqs = None /\ preempts = None
  /\ asked = None /\ handed = None /\ phase = None

NoOwed ==
  /\ owed = None

NoMProfile ==
  /\ pendsv = None /\ primask = None /\ interrupts = None

NoBasepri ==
  /\ basepri = None

NoDeferral ==
  /\ deferred = None /\ enabling = None

NoSignals ==
  /\ power = None /\ shutdown = None /\ irq_depth = None /\ preempt_depth = None
  /\ half = None /\ isr = None /\ isr_mask = None /\ isr_from_baseline = None
  /\ ipi = None /\ ipi_asked = None /\ remote_asked = None

NoRiscv ==
  /\ mie = None /\ msie = None /\ msip = None /\ cause = None /\ whole = None
  /\ called = None

NoV8r ==
  /\ i_bit = None /\ pmr = None /\ sgi = None

NoSparc ==
  /\ outer_interrupt = None /\ irq = None /\ preempt = None /\ level1 = None
  /\ nested = None

NoFrames ==
  /\ framed = None

NoWindows ==
  /\ task = None /\ cwp = None /\ wim = None /\ file = None /\ stack = None
  /\ contents = None /\ traps = None /\ flushed = None

NoDepth ==
  /\ depth = None

NoCoop ==
  /\ current_context = None /\ interrupt_disable_depth = None
  /\ preempt_disable_depth = None /\ reschedule_pending = None

NoHost ==
  /\ posted = None /\ holder = None /\ active_contexts = None
  /\ shutdown_requested = None /\ pokes = None

NoPending ==
  /\ pending = None

NoBlocked ==
  /\ blocked = None

NoSpin ==
  /\ flag = None /\ held = None /\ on = None

NoMasks ==
  /\ token = None /\ masked = None

NoAtoms ==
  /\ word = None /\ lock = None /\ op = None /\ old = None /\ holds = None

NoAt ==
  /\ at = None

NoSaved ==
  /\ saved = None

NoIntake ==
  /\ pending_requests = None /\ intake_next = None /\ resume_token = None
  /\ disposition = None /\ state = None /\ intake_head = None /\ current = None
  /\ drain = None /\ reason = None /\ node = None /\ fifo = None /\ rest = None
  /\ doorbell = None /\ target = None /\ prev = None /\ arrived = None

NoReady ==
  /\ ready = None

NoPc ==
  /\ pc = None

-----------------------------------------------------------------------------
Three == {t1, t2, t3}
Pair == {t1, t2}

\* Regions two deep of each kind; interrupts two deep where they nest.
armv7m   == INSTANCE Armv7m WITH Threads <- Three, MaxRegions <- 2, MaxNest <- 2
armv6m   == INSTANCE Armv6m WITH Threads <- Pair, MaxRegions <- 2, MaxNest <- 2
rv32     == INSTANCE Rv32 WITH Threads <- Three, MaxRegions <- 2
armv8r   == INSTANCE Armv8r WITH Threads <- Pair, MaxRegions <- 2, i <- i_bit
sparcv8  == INSTANCE Sparcv8 WITH Threads <- Pair, MaxRegions <- 2, MaxNest <- 1
switches == INSTANCE LinuxPreempt WITH Threads <- Pair, MaxRegions <- 1
coop     == INSTANCE LinuxCoop WITH Threads <- Three, MaxRegions <- 2

\* Four windows: a stack two calls deep and two traps above it spill.
windows == INSTANCE RegisterWindows
  WITH Tasks <- Pair, NWINDOWS <- 4, MaxDepth <- 2, MaxTraps <- 2

\* Two cores of the cooperative port, two threads to begin on each.
host == INSTANCE CoopCores WITH Cores <- {c1, c2}, Jobs <- c1 :> 2 @@ c2 :> 2

\* One lock and two cores, and two suspending threads resumed from two others.
spin == INSTANCE SpinLock WITH SpinCores <- {c1, c2}, Locks <- {1}
intake == INSTANCE Intake WITH Pinned <- Pair, Producers <- {p1, p2}

\* The software atomics of a two-core ARMv6-M, one core taking an interrupt.
atomics == INSTANCE SoftAtomics WITH Cores <- {c1, c2}, Handled <- {c1}, Modulus <- 3

ASSUME InstancesAssumption ==
  host!CoresAssumption /\ atomics!AtomicsAssumption /\ intake!IntakeAssumption

-----------------------------------------------------------------------------
Init ==
  \/ kind = "armv7m" /\ armv7m!Init
     /\ NoDeferral /\ NoSignals /\ NoRiscv /\ NoV8r /\ NoSparc /\ NoFrames /\ NoWindows
     /\ NoDepth /\ NoCoop /\ NoHost /\ NoPending /\ NoBlocked /\ NoSpin /\ NoMasks
     /\ NoAtoms /\ NoAt /\ NoIntake /\ NoReady /\ NoPc
  \/ kind = "armv6m" /\ armv6m!Init
     /\ NoBasepri /\ NoSignals /\ NoRiscv /\ NoV8r /\ NoSparc /\ NoFrames /\ NoWindows
     /\ NoCoop /\ NoHost /\ NoPending /\ NoBlocked /\ NoSpin /\ NoMasks /\ NoAtoms /\ NoAt
     /\ NoIntake /\ NoReady /\ NoPc
  \/ kind = "rv32" /\ rv32!Init
     /\ NoMProfile /\ NoBasepri /\ NoDeferral /\ NoSignals /\ NoV8r /\ NoSparc /\ NoFrames
     /\ NoWindows /\ NoDepth /\ NoCoop /\ NoHost /\ NoPending /\ NoBlocked /\ NoSpin
     /\ NoMasks /\ NoAtoms /\ NoAt /\ NoIntake /\ NoReady /\ NoPc
  \/ kind = "armv8r" /\ armv8r!Init
     /\ NoMProfile /\ NoBasepri /\ NoDeferral /\ NoSignals /\ NoRiscv /\ NoSparc
     /\ NoWindows /\ NoDepth /\ NoCoop /\ NoHost /\ NoPending /\ NoBlocked /\ NoSpin
     /\ NoMasks /\ NoAtoms /\ NoAt /\ NoIntake /\ NoReady /\ NoPc
  \/ kind = "sparcv8" /\ sparcv8!Init
     /\ NoMProfile /\ NoBasepri /\ NoDeferral /\ NoSignals /\ NoRiscv /\ NoV8r /\ NoWindows
     /\ NoDepth /\ NoCoop /\ NoHost /\ NoPending /\ NoBlocked /\ NoSpin /\ NoMasks
     /\ NoAtoms /\ NoAt /\ NoIntake /\ NoReady /\ NoPc
  \/ kind = "preempt" /\ switches!Init
     /\ NoMProfile /\ NoBasepri /\ NoDeferral /\ NoRiscv /\ NoV8r /\ NoSparc /\ NoFrames
     /\ NoWindows /\ NoDepth /\ NoCoop /\ NoHost /\ NoSpin /\ NoMasks /\ NoAtoms /\ NoAt
     /\ NoIntake /\ NoReady /\ NoPc
  \/ kind = "coop" /\ coop!Init
     /\ NoOwed /\ NoMProfile /\ NoBasepri /\ NoDeferral /\ NoSignals /\ NoRiscv /\ NoV8r
     /\ NoSparc /\ NoFrames /\ NoWindows /\ NoDepth /\ NoHost /\ NoPending /\ NoBlocked
     /\ NoSpin /\ NoMasks /\ NoAtoms /\ NoAt /\ NoIntake /\ NoReady /\ NoPc
  \/ kind = "windows" /\ windows!Init
     /\ NoThreads /\ NoOwed /\ NoMProfile /\ NoBasepri /\ NoDeferral /\ NoSignals /\ NoRiscv
     /\ NoV8r /\ NoSparc /\ NoFrames /\ NoCoop /\ NoHost /\ NoPending /\ NoBlocked /\ NoSpin
     /\ NoMasks /\ NoAtoms /\ NoAt /\ NoSaved /\ NoIntake /\ NoReady /\ NoPc
  \/ kind = "host" /\ host!Init
     /\ NoThreads /\ NoOwed /\ NoMProfile /\ NoBasepri /\ NoDeferral /\ NoSignals /\ NoRiscv
     /\ NoV8r /\ NoSparc /\ NoFrames /\ NoWindows /\ NoDepth /\ NoCoop /\ NoSpin /\ NoMasks
     /\ NoAtoms /\ NoAt /\ NoSaved /\ NoIntake
  \/ kind = "spin" /\ spin!Init
     /\ NoThreads /\ NoOwed /\ NoMProfile /\ NoBasepri /\ NoDeferral /\ NoSignals /\ NoRiscv
     /\ NoV8r /\ NoSparc /\ NoFrames /\ NoWindows /\ NoDepth /\ NoCoop /\ NoHost
     /\ NoPending /\ NoBlocked /\ NoAtoms /\ NoAt /\ NoIntake /\ NoReady
  \/ kind = "intake" /\ intake!Init
     /\ NoThreads /\ NoOwed /\ NoMProfile /\ NoBasepri /\ NoDeferral /\ NoSignals /\ NoRiscv
     /\ NoV8r /\ NoSparc /\ NoFrames /\ NoWindows /\ NoDepth /\ NoCoop /\ NoHost
     /\ NoPending /\ NoBlocked /\ NoSpin /\ NoMasks /\ NoAtoms /\ NoSaved
  \/ kind = "atomics" /\ atomics!Init
     /\ NoThreads /\ NoOwed /\ NoMProfile /\ NoBasepri /\ NoDeferral /\ NoSignals /\ NoRiscv
     /\ NoV8r /\ NoSparc /\ NoFrames /\ NoWindows /\ NoDepth /\ NoCoop /\ NoHost
     /\ NoPending /\ NoBlocked /\ NoSpin /\ NoSaved /\ NoIntake /\ NoReady /\ NoPc

\* Every core has been left.
Rests == kind = "host" /\ UNCHANGED vars

Next ==
  \/ kind = "armv7m" /\ armv7m!Next
     /\ UNCHANGED <<kind, v6, signals, riscv, v8r, sparc, frames, wins, depths, coops,
                    hosts, pendings, blockeds, spins, masks, atoms, ats, intakes, readies,
                    pcs>>
  \/ kind = "armv6m" /\ armv6m!Next
     /\ UNCHANGED <<kind, v7, signals, riscv, v8r, sparc, frames, wins, coops, hosts,
                    pendings, blockeds, spins, masks, atoms, ats, intakes, readies, pcs>>
  \/ kind = "rv32" /\ rv32!Next
     /\ UNCHANGED <<kind, mprofile, v7, v6, signals, v8r, sparc, frames, wins, depths,
                    coops, hosts, pendings, blockeds, spins, masks, atoms, ats, intakes,
                    readies, pcs>>
  \/ kind = "armv8r" /\ armv8r!Next
     /\ UNCHANGED <<kind, mprofile, v7, v6, signals, riscv, sparc, wins, depths, coops,
                    hosts, pendings, blockeds, spins, masks, atoms, ats, intakes, readies,
                    pcs>>
  \/ kind = "sparcv8" /\ sparcv8!Next
     /\ UNCHANGED <<kind, mprofile, v7, v6, signals, riscv, v8r, wins, depths, coops,
                    hosts, pendings, blockeds, spins, masks, atoms, ats, intakes, readies,
                    pcs>>
  \/ kind = "preempt" /\ switches!Next
     /\ UNCHANGED <<kind, mprofile, v7, v6, riscv, v8r, sparc, frames, wins, depths, coops,
                    hosts, spins, masks, atoms, ats, intakes, readies, pcs>>
  \/ kind = "coop" /\ coop!Next
     /\ UNCHANGED <<kind, owing, mprofile, v7, v6, signals, riscv, v8r, sparc, frames,
                    wins, depths, hosts, pendings, blockeds, spins, masks, atoms, ats,
                    intakes, readies, pcs>>
  \/ kind = "windows" /\ windows!Next
     /\ UNCHANGED <<kind, thr, owing, mprofile, v7, v6, signals, riscv, v8r, sparc, frames,
                    coops, hosts, pendings, blockeds, spins, masks, atoms, ats, saves,
                    intakes, readies, pcs>>
  \/ kind = "host" /\ host!Next
     /\ UNCHANGED <<kind, thr, owing, mprofile, v7, v6, signals, riscv, v8r, sparc, frames,
                    wins, depths, coops, spins, masks, atoms, ats, saves, intakes>>
  \/ kind = "spin" /\ spin!Next
     /\ UNCHANGED <<kind, thr, owing, mprofile, v7, v6, signals, riscv, v8r, sparc, frames,
                    wins, depths, coops, hosts, pendings, blockeds, atoms, ats, intakes,
                    readies>>
  \/ kind = "intake" /\ intake!Next
     /\ UNCHANGED <<kind, thr, owing, mprofile, v7, v6, signals, riscv, v8r, sparc, frames,
                    wins, depths, coops, hosts, pendings, blockeds, spins, masks, atoms,
                    saves>>
  \/ kind = "atomics" /\ atomics!Next
     /\ UNCHANGED <<kind, thr, owing, mprofile, v7, v6, signals, riscv, v8r, sparc, frames,
                    wins, depths, coops, hosts, pendings, blockeds, spins, saves, intakes,
                    readies, pcs>>
  \/ Rests

Spec == Init /\ [][Next]_vars

Symmetry == Permutations({t1, t2}) \cup Permutations({p1, p2})
-----------------------------------------------------------------------------
(* Properties, each of the instances it is about *)

\* The ports that keep the whole contract, and the contract with each thread's
\* progress read where its registers are; for the others nothing happens.
Keeps == kind \in {"armv7m", "rv32", "armv8r", "sparcv8", "coop"}

promise == INSTANCE Switching
  WITH Threads <- Three,
       running <- IF Keeps THEN running ELSE t1,
       cpu     <- IF Keeps THEN live.thread ELSE t1,
       work    <- [t \in Three |-> IF Keeps /\ t \in DOMAIN saved
                                   THEN (IF live.thread = t THEN live.at ELSE saved[t].at)
                                   ELSE 0],
       asked   <- IF Keeps THEN asked ELSE "no",
       open    <- IF Keeps THEN irqs = <<>> /\ preempts = <<>> ELSE TRUE,
       retired <- IF Keeps THEN handed.to # None /\ handed.from = None ELSE FALSE

\* Each port keeps the switching contract of port_core.h: through its own
\* masks, pending bits, traps and owed switches, a thread runs only as the
\* kernel's running thread, at baseline only with no request due, with its own
\* registers, and no switch happens inside a region.
KeepsContract == promise!Contract

\* No request for a reschedule is lost where a region defers it: a thread at
\* baseline, about to run its own code, has none unserved.  ARMv6-M's PendSV
\* comes and goes inside a region and leaves it deferred; on the preemptive
\* Linux port it is still a pending signal.
RequestIsHeld ==
  /\ kind = "armv6m" => armv6m!DeferredIsDelivered
  /\ kind = "preempt" => switches!RequestIsHeld


\* Code always finds its own registers.  A SPARC window holds the frame that is
\* running as it last left it, through every spill and switch, and a yield
\* leaves nothing of its thread to be spilled onto another's stack; a context of
\* the preemptive Linux port holds its own thread's registers, however
\* decisions, signals and the two roads of a switch interleave.
OwnRegisters ==
  /\ kind = "windows" => windows!OwnRegisters /\ windows!YieldLeavesNothing
  /\ kind = "preempt" => switches!ContextsAreOwn

\* No core of the cooperative port sleeps through what it was poked for, and
\* none leaves while another could still wake a thread on it
\* (request_shutdown_if_quiesced).
CoresStayForWork == kind = "host" => host!NoSleepOnWork /\ host!LeftTogether


\* A read-modify-write of the ARMv6-M atomics is one step to everybody else: what
\* it is about to store over is what it loaded.
UpdatesAreAtomic == kind = "atomics" => atomics!UpdatesAreAtomic

\* drain_intake leaves nothing behind and serves requests in the order of their
\* exchanges, which the round robin within a priority depends on, although the
\* intake is a stack.
ServedInOrder == kind = "intake" => intake!DrainTakesAll /\ intake!ServedInOrder

\* A resume is not lost: while a token waits for a thread that is blocked, a
\* service that will ready the thread is still to come.
ResumeIsNotLost == kind = "intake" => intake!ResumeIsNotLost

\* The empty-to-non-empty push rings: as long as the intake holds anything, the
\* core has its IPI, the pusher is about to send it, or the core to drain.
DoorbellCovers == kind = "intake" => intake!DoorbellCovers
=============================================================================
