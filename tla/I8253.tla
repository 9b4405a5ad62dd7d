------------------------------- MODULE I8253 -------------------------------
(***************************************************************************)
(* The three-channel 8253 timer inside the FE2010 chipset (fe2010.c): the  *)
(* record kept for one counter and what each port access does to it.       *)
(* Bytes are digits in base ByteBase (256 in the program), so the 16-bit   *)
(* counter has PitModulus values and wraps.                                *)
(***************************************************************************)
EXTENDS Integers

CONSTANT ByteBase

\* Three decrements in one timer tick must not lap the counter.
ASSUME ByteBaseAssumption == ByteBase \in Nat /\ ByteBase >= 2

PitModulus == ByteBase * ByteBase
Byte == 0 .. ByteBase - 1
Word == 0 .. PitModulus - 1

Lsb(w) == w % ByteBase
Msb(w) == w \div ByteBase

\* Read/load field of the control word.
RlLatch == 0
RlLsb   == 1
RlMsb   == 2
RlBoth  == 3

ModeInt == 0                    \* PIT_MODE_INT: interrupt on terminal count

Pit == [rl : 0 .. 3, mode : 0 .. 7, counter : Word, latch : Word,
        flip_flop : BOOLEAN]

InitPit == [rl |-> 0, mode |-> 0, counter |-> 0, latch |-> 0,
            flip_flop |-> FALSE]
-----------------------------------------------------------------------------
\* i8253_pit_counter_read: the byte returned goes to the guest, the counter
\* record left behind is this.
AfterCounterRead(p) ==
    IF p.rl \in {RlLatch, RlBoth} THEN [p EXCEPT !.flip_flop = ~@] ELSE p

\* i8253_pit_counter_write. Loading while a latch is selected only panics.
AfterCounterWrite(p, v) ==
    CASE p.rl = RlLatch -> p
      [] p.rl = RlLsb   -> [p EXCEPT !.counter = v]
      [] p.rl = RlMsb   -> [p EXCEPT !.counter = v * ByteBase]
      [] p.rl = RlBoth  ->
            [p EXCEPT !.flip_flop = ~@,
                      !.counter = IF p.flip_flop
                                  THEN v * ByteBase + Lsb(@)
                                  ELSE Msb(@) * ByteBase + v]

\* i8253_pit_control_write for the selected counter. The flip-flop survives.
AfterControlWrite(p, rl, mode) ==
    [p EXCEPT !.rl = rl, !.mode = mode,
              !.latch = IF rl = RlLatch THEN p.counter ELSE @]

\* Faulty: the counter does not wrap.
AfterTickUnwrapped(p) == [p EXCEPT !.counter = @ - 3]

\* The three decrements fe2010_execute makes in one tick ...
AfterTick(p) == [p EXCEPT !.counter = (@ - 3) % PitModulus]

\* Faulty: looks at the counter after the third decrement only.
ExpiresAfterThree(p) == p.counter = 3

\* ... during which the counter passes through zero.
Expires(p) == p.counter \in 1 .. 3
=============================================================================
