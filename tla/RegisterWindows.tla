--------------------------- MODULE RegisterWindows ---------------------------
(***************************************************************************)
(* The register windows of the SPARC port: the window traps, and what the *)
(* trap path does with windows on entry and exit.  A window holds one      *)
(* frame of one stack, and spills to the save area at its own stack        *)
(* pointer, so a frame is named <<stack, depth>> and carries its name.     *)
(* `save' moves down the ring and `restore' up; the windows from CWP up to *)
(* the invalid one are in use.  A trap moves down without asking.          *)
(***************************************************************************)
EXTENDS Naturals, Sequences, SequencesExt

CONSTANTS Tasks,      \* the threads of this core
          NWINDOWS,
          MaxDepth,   \* bound on the calls nested on one stack
          MaxTraps,   \* bound on traps nested in one another
          Irq         \* the interrupt stack

VARIABLES task,       \* the thread the core runs, or was running when trapped
          cwp, wim,   \* the current window, and the invalid one
          file,       \* the register file
          stack,      \* the save areas
          contents,   \* what each frame's registers ought to be
          depth,      \* how many calls each stack holds
          traps,      \* what each trap in progress interrupted, outermost first
          flushed     \* the outermost trap is a yield's

windows == <<task, cwp, wim, file, stack, contents, depth, traps, flushed>>

Stacks == Tasks \cup {Irq}
Frames == Stacks \X (0..MaxDepth)
Up(w, n) == (w + n) % NWINDOWS
Down(w) == (w + NWINDOWS - 1) % NWINDOWS

\* The stack in use, and the frame its code runs in.
At == IF traps = <<>> THEN task ELSE Irq
Running == <<At, depth[At]>>

Blank(f) == [frame |-> f, val |-> 0]

\* Registers and save areas that belong to no frame: no value may be read there.
Junk == [frame |-> <<Irq, 0>>, val |-> 2]

\* The first thread has been entered: its window is loaded, the next invalid.
Init ==
    /\ cwp = 0 /\ wim = 1
    /\ task \in Tasks
    /\ file = [w \in 0..NWINDOWS - 1 |-> IF w = 0 THEN Blank(<<task, 0>>) ELSE Junk]
    /\ stack = [f \in Frames |-> IF f[1] \in Tasks /\ f[2] = 0 THEN Blank(f) ELSE Junk]
    /\ contents = [f \in Frames |-> 0]
    /\ depth = [s \in Stacks |-> 0]
    /\ traps = <<>>
    /\ flushed = FALSE

\* Windows from `low' up to the invalid one, and the save areas after each has
\* been stored at its own stack pointer.
InUse(low) == {Up(low, n) : n \in 0..((wim + NWINDOWS - low) % NWINDOWS) - 1}
Stored(set) ==
    [f \in Frames |-> IF \E w \in set : file[w].frame = f
                      THEN file[CHOOSE w \in set : file[w].frame = f] ELSE stack[f]]

\* Mutant: the window spilled is the one just left, not the oldest.
SpillsNewest(into) ==
    IF into = wim THEN /\ stack' = Stored({cwp})
                       /\ wim' = Down(wim)
    ELSE UNCHANGED <<stack, wim>>

\* The overflow trap, and the trap entry's by hand: when the window moved into
\* is the invalid one, the oldest is stored and marked invalid instead.
window_overflow(into) ==
    IF into = wim THEN /\ stack' = Stored({Down(wim)})
                       /\ wim' = Down(wim)
    ELSE UNCHANGED <<stack, wim>>

save ==
    LET to == Down(cwp)
        callee == <<At, depth[At] + 1>>
    IN  /\ depth[At] < MaxDepth
        /\ window_overflow(to)
        /\ cwp' = to
        /\ file' = [file EXCEPT ![to] = Blank(callee)]
        /\ UNCHANGED contents
        /\ depth' = [depth EXCEPT ![At] = @ + 1]
        /\ UNCHANGED <<task, traps, flushed>>

\* The frame a window's caller has, found through the frame pointer it holds.
caller(w) == <<file[w].frame[1], file[w].frame[2] - 1>>

Result(window) == [window EXCEPT !.val = 1 - @]

\* Mutant: the window is loaded from the save area of the window returning.
LoadsOwn(to) ==
    IF to = wim THEN /\ wim' = Up(wim, 1)
                     /\ file' = [file EXCEPT ![to] = Result(stack[file[cwp].frame]), ![cwp] = Junk]
    ELSE wim' = wim /\ file' = [file EXCEPT ![to] = Result(@), ![cwp] = Junk]

window_underflow(to) ==
    IF to = wim THEN /\ wim' = Up(wim, 1)
                     /\ file' = [file EXCEPT ![to] = Result(stack[caller(cwp)]), ![cwp] = Junk]
    ELSE wim' = wim /\ file' = [file EXCEPT ![to] = Result(@), ![cwp] = Junk]

\* How deep the trap window itself is, which a handler's calls return to.
base == IF traps = <<>> THEN 0 ELSE Last(traps).window

\* The caller is back in its window, and takes the result into its registers.
restore ==
    LET to == Up(cwp, 1)
        back == <<At, depth[At] - 1>>
    IN  /\ depth[At] > base
        /\ window_underflow(to)
        /\ cwp' = to
        /\ contents' = [contents EXCEPT ![Running] = 0, ![back] = 1 - @]
        /\ depth' = [depth EXCEPT ![At] = @ - 1]
        /\ stack' = [stack EXCEPT ![Running] = Junk]
        /\ UNCHANGED <<task, traps, flushed>>

\* ta 3: everything above the caller's window is stored.
flush_windows ==
    /\ stack' = Stored(InUse(Up(cwp, 1)))
    /\ file' = [w \in DOMAIN file |-> IF w = cwp THEN file[w] ELSE Junk]
    /\ wim' = Up(cwp, 1)
    /\ UNCHANGED <<task, cwp, contents, depth, traps, flushed>>

----------------------------------------------------------------------------
\* The trap window is a frame of the interrupt stack: the first, or one below
\* the handler a nested trap interrupted.
enter(to, yields) ==
    LET here == <<Irq, IF traps = <<>> THEN 0 ELSE depth[Irq] + 1>>
    IN  /\ here[2] <= MaxDepth /\ Len(traps) < MaxTraps
        /\ cwp' = to
        /\ file' = [file EXCEPT ![to] = Blank(here)]
        /\ UNCHANGED <<task, contents>>
        /\ traps' = Append(traps, [frame |-> Running, window |-> here[2]])
        /\ depth' = [depth EXCEPT ![Irq] = here[2]]
        /\ flushed' = (flushed \/ yields)

trap_entry ==
    /\ window_overflow(Down(cwp))
    /\ enter(Down(cwp), FALSE)

\* Mutant: the yield enters as any trap does.
FlushesLater ==
    /\ traps = <<>>
    /\ window_overflow(Down(cwp))
    /\ enter(Down(cwp), TRUE)

\* A yield stores every window of the thread and leaves none of them valid.
yield_entry ==
    /\ traps = <<>>
    /\ stack' = Stored(InUse(cwp))
    /\ wim' = cwp
    /\ enter(Down(cwp), TRUE)

\* The kernel retires a thread that yielded to exit, and its joiner reuses the
\* stack, for a thread that starts where cyros_port_context_init leaves it.
retire ==
    /\ flushed
    /\ LET t == traps[1].frame[1] IN
       /\ depth[t] > 0 \/ contents[<<t, 0>>] # 0
       /\ depth' = [depth EXCEPT ![t] = 0]
       /\ stack' = [f \in Frames |-> IF f[1] # t THEN stack[f] ELSE IF f[2] = 0 THEN Blank(f) ELSE Junk]
       /\ contents' = [f \in Frames |-> IF f[1] = t THEN 0 ELSE contents[f]]
       /\ traps' = [traps EXCEPT ![1].frame = <<t, 0>>]
    /\ UNCHANGED <<task, cwp, wim, file, flushed>>

----------------------------------------------------------------------------
\* Loads the interrupted window of what is resumed, with the one above invalid.
trap_fill(f) ==
    /\ wim' = Up(cwp, 2)
    /\ file' = [w \in DOMAIN file |-> IF w = Up(cwp, 1) THEN stack'[f] ELSE Junk]

Leave ==
    /\ cwp' = Up(cwp, 1)
    /\ traps' = Front(traps)
    /\ depth' = [depth EXCEPT ![Irq] = IF Len(traps) = 1 THEN 0 ELSE Last(traps).frame[2]]
    /\ flushed' = (flushed /\ Len(traps) > 1)
    /\ contents' = [contents EXCEPT ![Running] = 0]

AtExit == traps # <<>> /\ depth[Irq] = base

\* Mutant: the interrupted window is taken to be where it was.
AssumesPresent ==
    /\ AtExit
    /\ stack' = [stack EXCEPT ![Running] = Junk]
    /\ file' = [file EXCEPT ![cwp] = Junk]
    /\ UNCHANGED <<task, wim>>
    /\ Leave

\* No switch: the interrupted window may have been spilled by the handler.
trap_exit ==
    /\ AtExit
    /\ stack' = [stack EXCEPT ![Running] = Junk]
    /\ IF Up(cwp, 1) = wim THEN trap_fill(Last(traps).frame)
                           ELSE file' = [file EXCEPT ![cwp] = Junk] /\ UNCHANGED wim
    /\ UNCHANGED task
    /\ Leave

\* Mutant: the outgoing thread's windows are left in the register file.
SwitchesWithoutFlush(t) ==
    /\ AtExit /\ Len(traps) = 1 /\ t # traps[1].frame[1]
    /\ stack' = [stack EXCEPT ![Running] = Junk]
    /\ trap_fill(<<t, depth[t]>>)
    /\ task' = t
    /\ Leave

\* A switch, at the end of the outermost trap.
trap_exit_switching(t) ==
    /\ AtExit /\ Len(traps) = 1 /\ t # traps[1].frame[1]
    /\ stack' = [Stored(InUse(Up(cwp, 1))) EXCEPT ![Running] = Junk]
    /\ trap_fill(<<t, depth[t]>>)
    /\ task' = t
    /\ Leave

Next ==
    \/ save \/ restore \/ flush_windows
    \/ trap_entry \/ yield_entry \/ retire \/ trap_exit
    \/ \E t \in Tasks : trap_exit_switching(t)

----------------------------------------------------------------------------
\* Code always finds its own registers: the current window holds the frame that
\* is running, as that frame last left it, through every spill, fill and switch.
OwnRegisters == file[cwp] = [frame |-> Running, val |-> contents[Running]]

\* While a yield is being handled nothing of its thread is left in the register
\* file to be spilled later onto a stack that may no longer be its own.
YieldLeavesNothing ==
    flushed => \A w \in InUse(cwp) : file[w].frame[1] = Irq
=============================================================================
