------------------------------- MODULE Fe2010 -------------------------------
(***************************************************************************)
(* The FE2010 chipset (fe2010.c) under the main loop of main.c: interrupt  *)
(* requests, masking, pending interrupts and their delivery to the 8088,   *)
(* the HLT state, the 8253 timers and the keyboard port.                   *)
(*                                                                         *)
(* One turn of the main loop is three steps: the CPU executes one          *)
(* instruction (i8088_execute), the chipset runs (fe2010_execute), the     *)
(* periodic device polls run (console, network, serial).  The guest is an  *)
(* arbitrary program: any instruction that matters here may come next.     *)
(***************************************************************************)
EXTENDS I8253, Sequences

CONSTANTS
    Lines,          \* interrupt lines in use, part of 0..7
    Counters,       \* timer counters in use, part of 0..2
    TickDivisor,    \* calls of fe2010_execute per timer tick (7)
    Scancodes,      \* non-zero keyboard scancodes
    Bat,            \* the self-test scancode 0xAA
    ControlWords,   \* <<rl, mode>> pairs the guest programs a counter with
    Loads,          \* bytes the guest loads into a counter
    MaxDepth        \* bound on nested interrupt handlers

TIMER    == 0       \* FE2010_IRQ_TIMER
KEYBOARD == 1       \* FE2010_IRQ_KEYBOARD
NoKey    == 0

ASSUME Fe2010Assumption ==
    /\ Lines \subseteq 0 .. 7 /\ {TIMER, KEYBOARD} \subseteq Lines
    /\ Counters \subseteq 0 .. 2
    /\ TickDivisor \in Nat \ {0}
    /\ Scancodes \subseteq Nat \ {NoKey} /\ Bat \in Nat \ {NoKey}
    /\ ControlWords \subseteq (0 .. 3) \X (0 .. 7)
    /\ Loads \subseteq Byte
    /\ MaxDepth \in Nat \ {0}

VARIABLES
    phase,          \* where the main loop is: "cpu", "fe2010" or "io"
    cycle,          \* calls of fe2010_execute since the last tick
    irq_mask,       \* the mask register as the set of its one bits
    intr,           \* interrupt state: I flag, halt, pending lines, handlers
    pit,            \* the timer counters
    timer_2_output,
    keyclock,       \* bit 6 of the control register
    scancode

vars == <<phase, cycle, irq_mask, intr, pit, timer_2_output, keyclock, scancode>>

Frame == [irq : Lines, i : BOOLEAN]
Intr  == [i : BOOLEAN, halt : BOOLEAN, pending : SUBSET Lines, stack : Seq(Frame)]

TypeOK ==
    /\ phase \in {"cpu", "fe2010", "io"}
    /\ cycle \in 0 .. TickDivisor - 1
    /\ irq_mask \in SUBSET Lines
    /\ intr \in Intr
    /\ pit \in [Counters -> Pit]
    /\ timer_2_output \in BOOLEAN
    /\ keyclock \in BOOLEAN
    /\ scancode \in Scancodes \cup {Bat, NoKey}

Init ==
    /\ phase = "cpu"
    /\ cycle = 0
    /\ irq_mask = {}
    /\ intr = [i |-> FALSE, halt |-> FALSE, pending |-> {}, stack |-> <<>>]
    /\ pit = [c \in Counters |-> InitPit]
    /\ timer_2_output = FALSE
    /\ keyclock = FALSE
    /\ scancode = NoKey
-----------------------------------------------------------------------------
\* "irq_mask >> irq_no" is non-zero: some bit at or above the line is set.
Unmasked(n) == \E m \in irq_mask : m >= n

Due(S) == {n \in S : Unmasked(n)}

\* Faulty: the scan runs downwards.
LowestPriority(S) == CHOOSE n \in S : \A m \in S : m <= n

HighestPriority(S) == CHOOSE n \in S : \A m \in S : n <= m

\* Faulty: I is cleared before the flags are pushed.
i8088_irq_clears_first(c, n) ==
    IF c.i
    THEN [i |-> FALSE, halt |-> FALSE, pending |-> c.pending \ {n},
          stack |-> Append(c.stack, [irq |-> n, i |-> FALSE])]
    ELSE [c EXCEPT !.halt = FALSE, !.pending = @ \cup {n}]

\* Faulty: with interrupts off a request does not wake the CPU.
i8088_irq_sleeps(c, n) ==
    IF c.i
    THEN [i |-> FALSE, halt |-> FALSE, pending |-> c.pending \ {n},
          stack |-> Append(c.stack, [irq |-> n, i |-> c.i])]
    ELSE [c EXCEPT !.pending = @ \cup {n}]

\* i8088_irq: wake the CPU; with interrupts off the request stays pending,
\* otherwise the flags are pushed, the handler entered and I cleared.
i8088_irq(c, n) ==
    IF c.i
    THEN [i |-> FALSE, halt |-> FALSE, pending |-> c.pending \ {n},
          stack |-> Append(c.stack, [irq |-> n, i |-> c.i])]
    ELSE [c EXCEPT !.halt = FALSE, !.pending = @ \cup {n}]

\* fe2010_irq called for every line of S in ascending order: the first
\* unmasked one is delivered if I is set; that clears I, and the rest pend.
fe2010_irq(c, S) ==
    LET first == HighestPriority(Due(S))
        after == i8088_irq(c, first)
    IN IF Due(S) = {} THEN c
       ELSE [after EXCEPT !.pending = @ \cup (Due(S) \ {first})]

\* Faulty: clears every pending line it has scanned.
RetryPendingOnce(c) == [fe2010_irq(c, c.pending) EXCEPT !.pending = {}]

\* The pending scan of fe2010_execute.
RetryPending(c) == fe2010_irq(c, c.pending)
-----------------------------------------------------------------------------
(* Guest instructions. A halted CPU executes nothing.                      *)

Running == phase = "cpu" /\ ~intr.halt

\* STI, POPF or the IRET of a software interrupt. MaxDepth bounds nesting.
GuestSti ==
    /\ Running /\ Len(intr.stack) < MaxDepth
    /\ intr' = [intr EXCEPT !.i = TRUE]
    /\ UNCHANGED <<irq_mask, pit, timer_2_output, keyclock, scancode>>

GuestCli ==
    /\ Running
    /\ intr' = [intr EXCEPT !.i = FALSE]
    /\ UNCHANGED <<irq_mask, pit, timer_2_output, keyclock, scancode>>

GuestHlt ==
    /\ Running
    /\ intr' = [intr EXCEPT !.halt = TRUE]
    /\ UNCHANGED <<irq_mask, pit, timer_2_output, keyclock, scancode>>

\* IRET of a hardware interrupt handler restores the pushed I flag.
GuestIret ==
    /\ Running /\ intr.stack # <<>>
    /\ LET depth == Len(intr.stack)
       IN intr' = [intr EXCEPT !.i = intr.stack[depth].i,
                               !.stack = SubSeq(@, 1, depth - 1)]
    /\ UNCHANGED <<irq_mask, pit, timer_2_output, keyclock, scancode>>

\* OUT to the mask register.
GuestMaskWrite ==
    /\ Running
    /\ irq_mask' \in SUBSET Lines
    /\ UNCHANGED <<intr, pit, timer_2_output, keyclock, scancode>>

\* OUT or IN on a device whose handler raises its line before returning.
GuestDeviceIrq ==
    /\ Running
    /\ \E n \in Lines \ {TIMER, KEYBOARD} : intr' = fe2010_irq(intr, {n})
    /\ UNCHANGED <<irq_mask, pit, timer_2_output, keyclock, scancode>>

\* fe2010_ctrl_write: bit 7 clears the scancode, a rising bit 6 posts the
\* self-test code and raises the keyboard line.
GuestCtrlWrite ==
    /\ Running
    /\ \E clear, clock \in BOOLEAN :
          LET rising == clock /\ ~keyclock
          IN /\ scancode' = IF rising THEN Bat
                            ELSE IF clear THEN NoKey ELSE scancode
             /\ intr' = IF rising THEN fe2010_irq(intr, {KEYBOARD}) ELSE intr
             /\ keyclock' = clock
    /\ UNCHANGED <<irq_mask, pit, timer_2_output>>

GuestPitControl ==
    /\ Running
    /\ \E c \in Counters, w \in ControlWords :
          /\ pit' = [pit EXCEPT ![c] = AfterControlWrite(@, w[1], w[2])]
          /\ timer_2_output' = IF c = 2 THEN w[2] = ModeInt ELSE timer_2_output
    /\ UNCHANGED <<irq_mask, intr, keyclock, scancode>>

GuestPitWrite ==
    /\ Running
    /\ \E c \in Counters, v \in Loads :
          pit' = [pit EXCEPT ![c] = AfterCounterWrite(@, v)]
    /\ UNCHANGED <<irq_mask, intr, timer_2_output, keyclock, scancode>>

GuestPitRead ==
    /\ Running
    /\ \E c \in Counters : pit' = [pit EXCEPT ![c] = AfterCounterRead(@)]
    /\ UNCHANGED <<irq_mask, intr, timer_2_output, keyclock, scancode>>

\* Any other instruction, or a halted CPU.
GuestOther ==
    /\ phase = "cpu"
    /\ UNCHANGED <<irq_mask, intr, pit, timer_2_output, keyclock, scancode>>

i8088_execute ==
    /\ phase' = "fe2010"
    /\ UNCHANGED cycle
    /\ \/ GuestSti \/ GuestCli \/ GuestHlt \/ GuestIret
       \/ GuestMaskWrite \/ GuestDeviceIrq \/ GuestCtrlWrite
       \/ GuestPitControl \/ GuestPitWrite \/ GuestPitRead
       \/ GuestOther
-----------------------------------------------------------------------------
(* fe2010_execute: every TickDivisor-th call retries the pending lines and *)
(* then runs the timers; counter 0 reaching zero raises the timer line.    *)

Tick ==
    LET retried == RetryPending(intr)
        expired == {c \in Counters : Expires(pit[c])}
    IN /\ intr' = IF 0 \in expired THEN fe2010_irq(retried, {TIMER}) ELSE retried
       /\ pit' = [c \in Counters |-> AfterTick(pit[c])]
       /\ timer_2_output' = (timer_2_output /\ 2 \notin expired)

fe2010_execute ==
    /\ phase = "fe2010" /\ phase' = "io"
    /\ cycle' = (cycle + 1) % TickDivisor
    /\ IF cycle' = 0 THEN Tick ELSE UNCHANGED <<intr, pit, timer_2_output>>
    /\ UNCHANGED <<irq_mask, keyclock, scancode>>

\* The periodic polls: fe2010_keyboard_press, then mouse, network and serial
\* lines, in ascending order of line. A key needs the keyboard clock.
io_execute ==
    /\ phase = "io" /\ phase' = "cpu"
    /\ \E key \in Scancodes \cup {NoKey}, S \in SUBSET (Lines \cap 2 .. 4) :
          LET pressed == key # NoKey /\ keyclock
          IN /\ scancode' = IF pressed THEN key ELSE scancode
             /\ intr' = fe2010_irq(intr, S \cup IF pressed THEN {KEYBOARD} ELSE {})
    /\ UNCHANGED <<cycle, irq_mask, pit, timer_2_output, keyclock>>

Next == i8088_execute \/ fe2010_execute \/ io_execute

\* while (1) in main: the loop always takes its next step.
Spec == Init /\ [][Next]_vars /\ WF_vars(Next)
-----------------------------------------------------------------------------
(* Properties.                                                             *)

Entered(n) ==
    /\ Len(intr'.stack) = Len(intr.stack) + 1
    /\ intr'.stack[Len(intr'.stack)].irq = n

\* A pending interrupt is never dropped: it leaves irq_pending only in the
\* step that enters its handler, whatever is done to the mask, the I flag,
\* HLT or other lines meanwhile (fe2010_irq, fe2010_execute).
PendingOnlyLeavesByDelivery ==
    [][\A n \in intr.pending \ intr'.pending : Entered(n)]_vars

\* A tick that enters a handler picks the highest-priority line among those
\* that were pending and unmasked: the ascending scan of fe2010_execute.
TickDeliversByPriority ==
    [][ \A n \in Lines :
           phase = "fe2010" /\ Entered(n) =>
              \A m \in intr.pending : Unmasked(m) => n <= m ]_vars

\* A handler is entered only from code that had interrupts enabled, so every
\* saved flag word lets its IRET re-enable them (i8088_interrupt pushes the
\* flags before i8088_irq clears I), and a step enters at most one handler.
HandlersInterruptEnabledCode ==
    /\ \A k \in 1 .. Len(intr.stack) : intr.stack[k].i
    /\ Len(intr.stack) <= MaxDepth

\* When a tick has just been taken and the CPU still sleeps in HLT, no
\* unmasked interrupt is pending: a request is never slept through, even if
\* HLT was executed with interrupts off or after the request came in.
HaltedMeansNothingPending ==
    intr.halt /\ cycle = 0 /\ phase # "fe2010" =>
       \A n \in intr.pending : ~Unmasked(n)

\* A CPU that halts with any mask bit set is woken: counter 0 keeps running
\* and its expiry clears halt even with interrupts off (i8088_irq).
HaltEventuallyWakes == (intr.halt /\ irq_mask # {}) ~> ~intr.halt

\* The power-on self test waits for the timer 2 output to fall. It does, again
\* and again, whatever else the guest does, unless it keeps loading counter 2
\* with another value. Latching, reading and control words do not count, nor
\* does anything that concerns another counter (fe2010_execute counts in any case).
Timer2OutputFalls ==
    []<>~timer_2_output \/ []<><<GuestPitWrite>>_(pit[2].counter)
=============================================================================
