---------------------------- MODULE Fe2010Proofs ----------------------------
(***************************************************************************)
(* TLAPS proofs about the FE2010 interrupt path, for every set of lines,   *)
(* every timer width, tick divisor and nesting bound.                      *)
(***************************************************************************)
EXTENDS Fe2010, TLAPS

\* HighestPriority picks a member of any non-empty set of lines, and no
\* member of the set has a smaller number.
LEMMA HighestPriorityIsMin ==
    ASSUME NEW S \in SUBSET (0 .. 7), S # {}
    PROVE  /\ HighestPriority(S) \in S
           /\ \A m \in S : HighestPriority(S) <= m
<1>1. \E n \in S : \A m \in S : n <= m
  <2>1. CASE 0 \in S  BY <2>1
  <2>2. CASE 0 \notin S /\ 1 \in S  BY <2>2
  <2>3. CASE S \cap (0 .. 1) = {} /\ 2 \in S  BY <2>3
  <2>4. CASE S \cap (0 .. 2) = {} /\ 3 \in S  BY <2>4
  <2>5. CASE S \cap (0 .. 3) = {} /\ 4 \in S  BY <2>5
  <2>6. CASE S \cap (0 .. 4) = {} /\ 5 \in S  BY <2>6
  <2>7. CASE S \cap (0 .. 5) = {} /\ 6 \in S  BY <2>7
  <2>8. CASE S \cap (0 .. 6) = {}
    <3>1. PICK n \in S : TRUE  OBVIOUS
    <3>2. \A m \in S : m = 7  BY <2>8
    <3> QED  BY <3>1, <3>2
  <2> QED  BY <2>1, <2>2, <2>3, <2>4, <2>5, <2>6, <2>7, <2>8
<1> QED  BY <1>1 DEF HighestPriority

\* What raising the lines of S does: nothing if all are masked; otherwise
\* the CPU wakes, and either every due line is pending (I clear) or the
\* first one is entered with the enabled I flag saved and the others pend.
LEMMA IrqEffect ==
    ASSUME TypeOK, NEW c \in Intr, NEW S \in SUBSET Lines
    PROVE  LET d   == fe2010_irq(c, S)
               top == HighestPriority(Due(S))
           IN /\ d \in Intr
              /\ Due(S) = {} => d = c
              /\ Due(S) # {} => ~d.halt /\ ~d.i
              /\ Due(S) # {} /\ ~c.i =>
                    /\ d.stack = c.stack
                    /\ d.pending = c.pending \cup Due(S)
              /\ Due(S) # {} /\ c.i =>
                    /\ top \in Due(S) /\ \A m \in Due(S) : top <= m
                    /\ d.stack = Append(c.stack, [irq |-> top, i |-> TRUE])
                    /\ d.pending = (c.pending \ {top}) \cup (Due(S) \ {top})
<1> DEFINE due == Due(S)
           d == fe2010_irq(c, S)
<1>1. due \in SUBSET (0 .. 7) /\ due \in SUBSET Lines
  BY Fe2010Assumption DEF Due
<1> HIDE DEF due
<1>2. CASE due = {}
  BY <1>2 DEF fe2010_irq, due
<1>3. CASE due # {}
  <2> DEFINE first == HighestPriority(due)
             after == i8088_irq(c, first)
  <2>1. first \in due /\ \A m \in due : first <= m
    BY <1>1, <1>3, HighestPriorityIsMin
  <2>2. d = [after EXCEPT !.pending = @ \cup (due \ {first})]
    BY <1>3 DEF fe2010_irq, due
  <2> HIDE DEF first, d
  <2>3. CASE c.i
    <3>1. after = [i |-> FALSE, halt |-> FALSE, pending |-> c.pending \ {first},
                   stack |-> Append(c.stack, [irq |-> first, i |-> TRUE])]
      BY <2>3 DEF i8088_irq, Intr
    <3>2. [irq |-> first, i |-> TRUE] \in Frame
      BY <1>1, <2>1 DEF Frame
    <3>3. c.stack \in Seq(Frame) /\ c.pending \in SUBSET Lines
      BY DEF Intr
    <3>4. Append(c.stack, [irq |-> first, i |-> TRUE]) \in Seq(Frame)
      BY <3>2, <3>3
    <3>5. d = [i |-> FALSE, halt |-> FALSE,
               pending |-> (c.pending \ {first}) \cup (due \ {first}),
               stack |-> Append(c.stack, [irq |-> first, i |-> TRUE])]
      <4> HIDE DEF after
      <4> QED  BY <2>2, <3>1
    <3>6. d \in Intr
      BY <3>3, <3>4, <3>5, <1>1 DEF Intr
    <3> QED
      BY <1>3, <2>1, <2>3, <3>5, <3>6 DEF first, d, due
  <2>4. CASE ~c.i
    <3>1. after = [i |-> c.i, halt |-> FALSE, pending |-> c.pending \cup {first},
                   stack |-> c.stack]
      BY <2>4 DEF i8088_irq, Intr
    <3>2. d = [i |-> c.i, halt |-> FALSE, pending |-> c.pending \cup due,
               stack |-> c.stack]
      <4>1. (c.pending \cup {first}) \cup (due \ {first}) = c.pending \cup due
        BY <2>1
      <4> HIDE DEF after
      <4> QED  BY <2>2, <3>1, <4>1
    <3>3. d \in Intr
      BY <1>1, <3>2 DEF Intr
    <3> QED
      BY <1>3, <2>4, <3>2, <3>3 DEF d, due
  <2> QED  BY <2>3, <2>4 DEF Intr
<1> QED  BY <1>2, <1>3
-----------------------------------------------------------------------------
(* Timer records stay well typed.                                          *)

\* The digits of a word are bytes, and two digits make a word.
LEMMA DigitsOfWord ==
    /\ PitModulus \in Nat /\ PitModulus > 3
    /\ \A w \in Word : Lsb(w) \in Byte /\ Msb(w) \in Byte
    /\ \A h, l \in Byte : h * ByteBase + l \in Word
<1>1. ByteBase \in Nat /\ ByteBase >= 2 /\ PitModulus = ByteBase * ByteBase
  BY ByteBaseAssumption DEF PitModulus
<1>2. PitModulus \in Nat /\ PitModulus > 3
  BY <1>1, SMTT(30)
<1>3. ASSUME NEW w \in Word PROVE Lsb(w) \in Byte /\ Msb(w) \in Byte
  <2>1. w \in Nat /\ w < ByteBase * ByteBase  BY <1>1, <1>2 DEF Word
  <2>2. Lsb(w) \in Byte  BY <1>1, <2>1 DEF Lsb, Byte
  <2>3. Msb(w) \in Nat /\ Msb(w) * ByteBase <= w
    BY <1>1, <2>1, SMTT(30) DEF Msb
  <2>4. Msb(w) < ByteBase
    BY <1>1, <2>1, <2>3, SMTT(30)
  <2> QED  BY <1>1, <2>2, <2>3, <2>4 DEF Byte
<1>4. ASSUME NEW h \in Byte, NEW l \in Byte PROVE h * ByteBase + l \in Word
  <2>1. h \in Nat /\ l \in Nat /\ h <= ByteBase - 1 /\ l <= ByteBase - 1
    BY <1>1 DEF Byte
  <2>2. h * ByteBase <= (ByteBase - 1) * ByteBase
    BY <1>1, <2>1, SMTT(30)
  <2>3. (ByteBase - 1) * ByteBase = PitModulus - ByteBase
    BY <1>1, SMTT(30)
  <2>4. h * ByteBase \in Nat  BY <1>1, <2>1, SMTT(30)
  <2> QED  BY <1>1, <1>2, <2>1, <2>2, <2>3, <2>4 DEF Word
<1> QED  BY <1>2, <1>3, <1>4

\* Every port access and the tick map timer records to timer records.
LEMMA PitType ==
    ASSUME NEW p \in Pit
    PROVE  /\ AfterTick(p) \in Pit
           /\ AfterCounterRead(p) \in Pit
           /\ \A v \in Byte : AfterCounterWrite(p, v) \in Pit
           /\ \A w \in (0 .. 3) \X (0 .. 7) : AfterControlWrite(p, w[1], w[2]) \in Pit
<1>1. p.counter \in Word /\ p.latch \in Word /\ p.rl \in 0 .. 3
  BY DEF Pit
<1>2. AfterTick(p) \in Pit
  <2>1. (p.counter - 3) % PitModulus \in Word
    BY <1>1, DigitsOfWord DEF Word
  <2> QED  BY <2>1 DEF AfterTick, Pit
<1>3. AfterCounterRead(p) \in Pit
  BY DEF AfterCounterRead, Pit
<1>4. ASSUME NEW v \in Byte PROVE AfterCounterWrite(p, v) \in Pit
  <2>1. ByteBase \in Nat /\ ByteBase >= 2 /\ 0 \in Byte
    BY ByteBaseAssumption DEF Byte
  <2>2. /\ 0 * ByteBase + v = v
        /\ v * ByteBase + 0 = v * ByteBase
    BY <2>1 DEF Byte
  <2>3. /\ v \in Word /\ v * ByteBase \in Word
        /\ v * ByteBase + Lsb(p.counter) \in Word
        /\ Msb(p.counter) * ByteBase + v \in Word
    BY <1>1, <2>1, <2>2, DigitsOfWord
  <2>4. CASE p.rl = RlLatch
    BY <2>4 DEF AfterCounterWrite, RlLatch, RlLsb, RlMsb, RlBoth
  <2>5. CASE p.rl = RlLsb
    BY <2>3, <2>5 DEF AfterCounterWrite, Pit, RlLatch, RlLsb, RlMsb, RlBoth
  <2>6. CASE p.rl = RlMsb
    BY <2>3, <2>6 DEF AfterCounterWrite, Pit, RlLatch, RlLsb, RlMsb, RlBoth
  <2>7. CASE p.rl = RlBoth
    BY <2>3, <2>7 DEF AfterCounterWrite, Pit, RlLatch, RlLsb, RlMsb, RlBoth
  <2> QED  BY <1>1, <2>4, <2>5, <2>6, <2>7 DEF RlLatch, RlLsb, RlMsb, RlBoth
<1>5. ASSUME NEW w \in (0 .. 3) \X (0 .. 7)
      PROVE  AfterControlWrite(p, w[1], w[2]) \in Pit
  BY <1>1 DEF AfterControlWrite, Pit
<1> QED  BY <1>2, <1>3, <1>4, <1>5
-----------------------------------------------------------------------------
(* The inductive invariant: the checked invariants do not carry themselves. *)
(* That the nesting bound survives an interrupt needs to know that an       *)
(* enabled CPU is below the bound.                                          *)

EnabledBelowBound == intr.i => Len(intr.stack) < MaxDepth

IInv == /\ TypeOK
        /\ HandlersInterruptEnabledCode
        /\ EnabledBelowBound
        /\ HaltedMeansNothingPending

\* The part of the invariant that only speaks about the interrupt record.
IntrOK(c) == /\ c \in Intr
             /\ \A k \in 1 .. Len(c.stack) : c.stack[k].i
             /\ Len(c.stack) <= MaxDepth
             /\ c.i => Len(c.stack) < MaxDepth

\* Raising lines keeps the interrupt record sound, ...
LEMMA IrqKeepsIntrOK ==
    ASSUME TypeOK, NEW c, IntrOK(c), NEW S \in SUBSET Lines
    PROVE  IntrOK(fe2010_irq(c, S))
<1> DEFINE d == fe2010_irq(c, S)
<1>1. c \in Intr  BY DEF IntrOK
<1>2. c.stack \in Seq(Frame) /\ Len(c.stack) \in Nat  BY <1>1 DEF Intr
<1>3. MaxDepth \in Nat  BY Fe2010Assumption
<1>4. d \in Intr /\ (Due(S) = {} => d = c) /\ (Due(S) # {} => ~d.i)
  BY <1>1, IrqEffect
<1>5. CASE Due(S) = {}
  BY <1>4, <1>5
<1>6. CASE Due(S) # {} /\ ~c.i
  <2>1. d.stack = c.stack  BY <1>1, <1>6, IrqEffect
  <2> HIDE DEF d
  <2>2. IntrOK(d)  BY <1>4, <1>6, <2>1 DEF IntrOK
  <2> QED  BY <2>2 DEF d
<1>7. CASE Due(S) # {} /\ c.i
  <2> DEFINE top == [irq |-> HighestPriority(Due(S)), i |-> TRUE]
  <2>1. d.stack = Append(c.stack, top)  BY <1>1, <1>7, IrqEffect
  <2>2. top.i  OBVIOUS
  <2> HIDE DEF d, top
  <2>3. Len(d.stack) = Len(c.stack) + 1
    BY <1>2, <2>1
  <2>4. \A k \in 1 .. Len(d.stack) : d.stack[k].i
    <3> TAKE k \in 1 .. Len(d.stack)
    <3>1. CASE k \in 1 .. Len(c.stack)
      BY <1>2, <2>1, <3>1 DEF IntrOK
    <3>2. CASE k = Len(c.stack) + 1
      BY <1>2, <2>1, <2>2, <3>2
    <3> QED  BY <1>2, <2>3, <3>1, <3>2
  <2>5. Len(c.stack) < MaxDepth  BY <1>7 DEF IntrOK
  <2>6. IntrOK(d)  BY <1>2, <1>3, <1>4, <1>7, <2>3, <2>4, <2>5 DEF IntrOK
  <2> QED  BY <2>6 DEF d
<1> QED  BY <1>1, <1>5, <1>6, <1>7 DEF Intr

\* ... drops no pending line except the one whose handler it enters, ...
LEMMA IrqDropsNothing ==
    ASSUME TypeOK, NEW c \in Intr, NEW S \in SUBSET Lines,
           NEW n \in c.pending, n \notin fe2010_irq(c, S).pending
    PROVE  /\ ~fe2010_irq(c, S).i
           /\ Len(fe2010_irq(c, S).stack) = Len(c.stack) + 1
           /\ fe2010_irq(c, S).stack[Len(c.stack) + 1].irq = n
<1> DEFINE d == fe2010_irq(c, S)
           top == HighestPriority(Due(S))
<1>1. Due(S) # {} /\ c.i
  <2>1. CASE Due(S) = {}  BY <2>1, IrqEffect
  <2>2. CASE Due(S) # {} /\ ~c.i
    <3>1. d.pending = c.pending \cup Due(S)  BY <2>2, IrqEffect
    <3> QED  BY <3>1
  <2> QED  BY <2>1, <2>2 DEF Intr
<1>2. /\ ~d.i
      /\ d.stack = Append(c.stack, [irq |-> top, i |-> TRUE])
      /\ d.pending = (c.pending \ {top}) \cup (Due(S) \ {top})
  BY <1>1, IrqEffect
<1>3. n = top
  BY <1>2
<1>4. c.stack \in Seq(Frame)  BY DEF Intr
<1> HIDE DEF d, top
<1>5. Len(d.stack) = Len(c.stack) + 1 /\ d.stack[Len(c.stack) + 1].irq = top
  BY <1>2, <1>4
<1> QED  BY <1>2, <1>3, <1>5 DEF d

\* ... and can leave a CPU asleep only if every line raised is masked.
LEMMA IrqWakes ==
    ASSUME TypeOK, NEW c \in Intr, NEW S \in SUBSET Lines,
           fe2010_irq(c, S).halt
    PROVE  /\ fe2010_irq(c, S) = c
           /\ \A n \in S : ~Unmasked(n)
<1>1. Due(S) = {}  BY IrqEffect
<1> QED  BY <1>1, IrqEffect DEF Due

\* Raising lines while interrupts are off enters no handler.
LEMMA IrqWhileDisabled ==
    ASSUME TypeOK, NEW c \in Intr, NEW S \in SUBSET Lines, ~c.i
    PROVE  /\ ~fe2010_irq(c, S).i
           /\ fe2010_irq(c, S).stack = c.stack
           /\ c.pending \subseteq fe2010_irq(c, S).pending
<1>1. CASE Due(S) = {}  BY <1>1, IrqEffect
<1>2. CASE Due(S) # {}
  <2>1. fe2010_irq(c, S).pending = c.pending \cup Due(S)  BY <1>2, IrqEffect
  <2> QED  BY <1>2, <2>1, IrqEffect
<1> QED  BY <1>1, <1>2

\* The lines the code raises are lines of the model.
LEMMA RaisedLines ==
    ASSUME TypeOK
    PROVE  /\ {TIMER} \in SUBSET Lines /\ {KEYBOARD} \in SUBSET Lines
           /\ \A c \in Intr : c.pending \in SUBSET Lines
BY Fe2010Assumption DEF Intr

\* The interrupt record after a tick: the pending scan, then the timer line.
LEMMA TickEffect ==
    ASSUME TypeOK, IntrOK(intr), Tick
    PROVE  /\ IntrOK(RetryPending(intr)) /\ IntrOK(intr')
           /\ \/ intr' = RetryPending(intr)
              \/ intr' = fe2010_irq(RetryPending(intr), {TIMER})
<1>1. intr \in Intr /\ intr.pending \in SUBSET Lines
  BY RaisedLines DEF TypeOK
<1>2. IntrOK(RetryPending(intr))
  BY <1>1, IrqKeepsIntrOK DEF RetryPending
<1>3. \/ intr' = RetryPending(intr)
      \/ intr' = fe2010_irq(RetryPending(intr), {TIMER})
  BY DEF Tick
<1>4. IntrOK(fe2010_irq(RetryPending(intr), {TIMER}))
  BY <1>2, IrqKeepsIntrOK, RaisedLines
<1> QED  BY <1>2, <1>3, <1>4

\* Every step keeps the interrupt record sound.
LEMMA StepKeepsIntrOK ==
    ASSUME TypeOK, IntrOK(intr), [Next]_vars
    PROVE  IntrOK(intr')
<1> USE DEF Running
<1>0. intr \in Intr /\ intr.stack \in Seq(Frame) /\ Len(intr.stack) \in Nat
  BY DEF TypeOK, Intr
<1>1. MaxDepth \in Nat  BY Fe2010Assumption
<1>2. CASE i8088_execute
  <2>1. CASE GuestSti
    BY <1>0, <2>1 DEF GuestSti, IntrOK, Intr
  <2>2. CASE GuestCli
    BY <1>0, <2>2 DEF GuestCli, IntrOK, Intr
  <2>3. CASE GuestHlt
    BY <1>0, <2>3 DEF GuestHlt, IntrOK, Intr
  <2>4. CASE GuestIret
    <3> DEFINE depth == Len(intr.stack)
               rest == SubSeq(intr.stack, 1, depth - 1)
    <3>1. depth \in Nat /\ depth >= 1
      BY <1>0, <2>4 DEF GuestIret
    <3>2. /\ rest \in Seq(Frame) /\ Len(rest) = depth - 1
          /\ \A k \in 1 .. depth - 1 : rest[k] = intr.stack[k]
      BY <1>0, <3>1
    <3>3. intr' = [intr EXCEPT !.i = intr.stack[depth].i, !.stack = rest]
      BY <2>4 DEF GuestIret
    <3>4. intr.stack[depth].i = TRUE
      BY <1>0, <3>1 DEF IntrOK, Frame
    <3>5. depth <= MaxDepth  BY DEF IntrOK
    <3> HIDE DEF rest
    <3>6. intr' \in Intr
      BY <1>0, <3>2, <3>3, <3>4 DEF Intr
    <3>7. intr'.stack = rest
      BY <1>0, <3>3 DEF Intr
    <3>8. \A k \in 1 .. Len(rest) : rest[k].i
      BY <1>0, <3>1, <3>2 DEF IntrOK
    <3> QED
      BY <1>1, <3>1, <3>2, <3>5, <3>6, <3>7, <3>8 DEF IntrOK
  <2>5. CASE GuestDeviceIrq
    BY <2>5, IrqKeepsIntrOK DEF GuestDeviceIrq
  <2>6. CASE GuestCtrlWrite
    BY <2>6, IrqKeepsIntrOK, RaisedLines DEF GuestCtrlWrite
  <2>7. CASE UNCHANGED intr
    BY <2>7
  <2> QED
    BY <1>2, <2>1, <2>2, <2>3, <2>4, <2>5, <2>6, <2>7
       DEF i8088_execute, GuestMaskWrite, GuestPitControl, GuestPitWrite,
           GuestPitRead, GuestOther
<1>3. CASE fe2010_execute
  BY <1>3, TickEffect DEF fe2010_execute
<1>4. CASE io_execute
  <2>1. PICK S \in SUBSET Lines : intr' = fe2010_irq(intr, S)
    BY <1>4, RaisedLines DEF io_execute
  <2> QED  BY <2>1, IrqKeepsIntrOK
<1>5. CASE UNCHANGED vars
  BY <1>5 DEF vars
<1> QED  BY <1>2, <1>3, <1>4, <1>5 DEF Next
-----------------------------------------------------------------------------
LEMMA InitInv == Init => IInv
<1> SUFFICES ASSUME Init PROVE IInv  OBVIOUS
<1>1. intr \in Intr /\ intr.stack = <<>> /\ ~intr.halt /\ ~intr.i
  BY DEF Init, Intr
<1>2. InitPit \in Pit
  BY DigitsOfWord DEF InitPit, Pit, Word
<1>3. TypeOK
  <2>1. pit \in [Counters -> Pit]  BY <1>2 DEF Init
  <2>2. cycle \in 0 .. TickDivisor - 1  BY Fe2010Assumption DEF Init
  <2> QED  BY <1>1, <2>1, <2>2 DEF Init, TypeOK
<1>4. MaxDepth \in Nat  BY Fe2010Assumption
<1> QED
  BY <1>1, <1>3, <1>4
     DEF IInv, HandlersInterruptEnabledCode, EnabledBelowBound,
         HaltedMeansNothingPending

\* Every step preserves the types of the variables.
LEMMA StepKeepsType ==
    ASSUME TypeOK, IntrOK(intr), [Next]_vars
    PROVE  TypeOK'
<1>1. intr' \in Intr
  BY StepKeepsIntrOK DEF IntrOK
<1>2. /\ TickDivisor \in Nat \ {0} /\ Loads \subseteq Byte
      /\ ControlWords \subseteq (0 .. 3) \X (0 .. 7)
  BY Fe2010Assumption
<1>3. CASE i8088_execute
  <2>1. phase' = "fe2010" /\ cycle' = cycle
    BY <1>3 DEF i8088_execute
  <2>2. CASE GuestPitControl
    <3>1. PICK c \in Counters, w \in (0 .. 3) \X (0 .. 7) :
             /\ pit' = [pit EXCEPT ![c] = AfterControlWrite(@, w[1], w[2])]
             /\ timer_2_output' = IF c = 2 THEN w[2] = ModeInt ELSE timer_2_output
      BY <1>2, <2>2 DEF GuestPitControl
    <3>2. AfterControlWrite(pit[c], w[1], w[2]) \in Pit
      BY PitType DEF TypeOK
    <3>3. pit' \in [Counters -> Pit]
      BY <3>1, <3>2 DEF TypeOK
    <3>4. timer_2_output' \in BOOLEAN
      BY <3>1 DEF TypeOK
    <3> QED
      BY <1>1, <2>1, <2>2, <3>3, <3>4 DEF GuestPitControl, TypeOK
  <2>3. CASE GuestPitWrite
    <3>1. PICK c \in Counters, v \in Byte :
             pit' = [pit EXCEPT ![c] = AfterCounterWrite(@, v)]
      BY <1>2, <2>3 DEF GuestPitWrite
    <3>2. AfterCounterWrite(pit[c], v) \in Pit
      BY PitType DEF TypeOK
    <3>3. pit' \in [Counters -> Pit]
      BY <3>1, <3>2 DEF TypeOK
    <3> QED
      BY <1>1, <2>1, <2>3, <3>3 DEF GuestPitWrite, TypeOK
  <2>4. CASE GuestPitRead
    <3>1. PICK c \in Counters : pit' = [pit EXCEPT ![c] = AfterCounterRead(@)]
      BY <2>4 DEF GuestPitRead
    <3>2. AfterCounterRead(pit[c]) \in Pit
      BY PitType DEF TypeOK
    <3>3. pit' \in [Counters -> Pit]
      BY <3>1, <3>2 DEF TypeOK
    <3> QED
      BY <1>1, <2>1, <2>4, <3>3 DEF GuestPitRead, TypeOK
  <2>5. CASE GuestCtrlWrite
    <3>1. keyclock' \in BOOLEAN /\ scancode' \in {Bat, NoKey, scancode}
      BY <2>5 DEF GuestCtrlWrite
    <3> QED
      BY <1>1, <2>1, <2>5, <3>1 DEF GuestCtrlWrite, TypeOK
  <2>6. CASE GuestMaskWrite
    BY <1>1, <2>1, <2>6 DEF GuestMaskWrite, TypeOK
  <2>7. CASE UNCHANGED <<irq_mask, pit, timer_2_output, keyclock, scancode>>
    BY <1>1, <2>1, <2>7 DEF TypeOK
  <2> QED
    BY <1>3, <2>2, <2>3, <2>4, <2>5, <2>6, <2>7
       DEF i8088_execute, GuestSti, GuestCli, GuestHlt, GuestIret,
           GuestDeviceIrq, GuestOther
<1>4. CASE fe2010_execute
  <2>1. cycle' \in 0 .. TickDivisor - 1 /\ phase' = "io"
    BY <1>2, <1>4 DEF fe2010_execute, TypeOK
  <2>2. pit' \in [Counters -> Pit] /\ timer_2_output' \in BOOLEAN
    <3>1. CASE Tick
      <4>1. \A c \in Counters : AfterTick(pit[c]) \in Pit
        BY PitType DEF TypeOK
      <4>2. pit' = [c \in Counters |-> AfterTick(pit[c])]
        BY <3>1 DEF Tick
      <4>3. timer_2_output' \in BOOLEAN
        BY <3>1 DEF Tick, TypeOK
      <4> QED  BY <4>1, <4>2, <4>3
    <3>2. CASE UNCHANGED <<intr, pit, timer_2_output>>
      BY <3>2 DEF TypeOK
    <3> QED  BY <1>4, <3>1, <3>2 DEF fe2010_execute
  <2> QED  BY <1>1, <1>4, <2>1, <2>2 DEF fe2010_execute, TypeOK
<1>5. CASE io_execute
  <2>1. scancode' \in Scancodes \cup {Bat, NoKey}
    BY <1>5 DEF io_execute, TypeOK
  <2> QED  BY <1>1, <1>5, <2>1 DEF io_execute, TypeOK
<1>6. CASE UNCHANGED vars
  BY <1>6 DEF vars, TypeOK
<1> QED  BY <1>3, <1>4, <1>5, <1>6 DEF Next

\* Every step preserves HaltedMeansNothingPending: a tick that leaves the
\* CPU asleep found every pending line masked, and so did the polls.
LEMMA StepKeepsHaltSound ==
    ASSUME TypeOK, IntrOK(intr), HaltedMeansNothingPending, [Next]_vars
    PROVE  HaltedMeansNothingPending'
<1>0. intr \in Intr /\ intr.pending \in SUBSET Lines
  BY RaisedLines DEF TypeOK
<1>1. CASE i8088_execute
  BY <1>1 DEF i8088_execute, HaltedMeansNothingPending
<1>2. CASE fe2010_execute
  <2> SUFFICES ASSUME intr'.halt, cycle' = 0
               PROVE  \A n \in intr'.pending : ~Unmasked(n)
    BY <1>2 DEF fe2010_execute, HaltedMeansNothingPending, Unmasked
  <2>1. Tick  BY <1>2 DEF fe2010_execute
  <2>2. RetryPending(intr) \in Intr
    BY <2>1, TickEffect DEF IntrOK
  <2>3. intr' = RetryPending(intr)
    BY <2>1, <2>2, TickEffect, IrqWakes, RaisedLines
  <2> QED
    BY <1>0, <2>3, IrqWakes DEF RetryPending
<1>3. CASE io_execute
  <2>1. PICK S \in SUBSET Lines : intr' = fe2010_irq(intr, S)
    BY <1>3, RaisedLines DEF io_execute
  <2> SUFFICES ASSUME intr'.halt, cycle' = 0
               PROVE  \A n \in intr'.pending : ~Unmasked(n)
    BY <1>3 DEF io_execute, HaltedMeansNothingPending, Unmasked
  <2>2. intr' = intr
    BY <1>0, <2>1, IrqWakes
  <2> QED
    BY <1>3, <2>2 DEF io_execute, HaltedMeansNothingPending
<1>4. CASE UNCHANGED vars
  BY <1>4 DEF vars, HaltedMeansNothingPending, Unmasked
<1> QED  BY <1>1, <1>2, <1>3, <1>4 DEF Next

LEMMA StepInv == IInv /\ [Next]_vars => IInv'
<1> SUFFICES ASSUME IInv, [Next]_vars PROVE IInv'  OBVIOUS
<1>1. TypeOK /\ IntrOK(intr) /\ HaltedMeansNothingPending
  BY DEF IInv, IntrOK, HandlersInterruptEnabledCode, EnabledBelowBound, TypeOK
<1>2. TypeOK'  BY <1>1, StepKeepsType
<1>3. IntrOK(intr')  BY <1>1, StepKeepsIntrOK
<1>4. HaltedMeansNothingPending'  BY <1>1, StepKeepsHaltSound
<1> QED
  BY <1>2, <1>3, <1>4
     DEF IInv, IntrOK, HandlersInterruptEnabledCode, EnabledBelowBound

\* The inductive invariant holds throughout.
THEOREM Invariance == Spec => []IInv
BY InitInv, StepInv, PTL DEF Spec

\* The chipset's variables always have their types: masks and pending sets
\* hold only lines, counters never leave their word (fe2010.h).
THEOREM TypeCorrect == Spec => []TypeOK
BY Invariance, PTL DEF IInv

\* Every hardware interrupt handler was entered from code with interrupts
\* enabled and will return to it enabled (i8088_irq, i8088_interrupt).
THEOREM HandlersCorrect == Spec => []HandlersInterruptEnabledCode
BY Invariance, PTL DEF IInv

\* The CPU never sleeps past a tick on a pending unmasked interrupt
\* (fe2010_execute, i8088_irq).
THEOREM HaltCorrect == Spec => []HaltedMeansNothingPending
BY Invariance, PTL DEF IInv
-----------------------------------------------------------------------------
(* Action properties.                                                      *)

\* A line that a step takes out of the pending set is the one it enters.
LEMMA StepDropsNothing ==
    ASSUME TypeOK, IntrOK(intr), Next, NEW n \in intr.pending \ intr'.pending
    PROVE  Entered(n)
<1>0. /\ intr \in Intr /\ intr.pending \in SUBSET Lines
      /\ Len(intr.stack) \in Nat
  BY RaisedLines DEF TypeOK, Intr
<1>1. ASSUME NEW S \in SUBSET Lines, intr' = fe2010_irq(intr, S)
      PROVE  Entered(n)
  BY <1>0, <1>1, IrqDropsNothing DEF Entered
<1>2. CASE i8088_execute
  <2>1. CASE GuestDeviceIrq
    BY <1>1, <2>1 DEF GuestDeviceIrq
  <2>2. CASE GuestCtrlWrite
    BY <1>1, <2>2, RaisedLines DEF GuestCtrlWrite
  <2>3. CASE intr'.pending = intr.pending
    BY <2>3
  <2> QED
    BY <1>0, <1>2, <2>1, <2>2, <2>3
       DEF i8088_execute, GuestSti, GuestCli, GuestHlt, GuestIret, Intr,
           GuestMaskWrite, GuestPitControl, GuestPitWrite, GuestPitRead, GuestOther
<1>3. CASE fe2010_execute
  <2> DEFINE mid == RetryPending(intr)
  <2>1. Tick  BY <1>3 DEF fe2010_execute
  <2>2. /\ mid \in Intr
        /\ intr' = mid \/ intr' = fe2010_irq(mid, {TIMER})
    BY <2>1, TickEffect DEF IntrOK
  <2>3. mid = fe2010_irq(intr, intr.pending)
    BY DEF RetryPending
  <2> HIDE DEF mid
  <2>4. CASE n \notin mid.pending
    <3>1. /\ ~mid.i /\ Len(mid.stack) = Len(intr.stack) + 1
          /\ mid.stack[Len(intr.stack) + 1].irq = n
      BY <1>0, <2>3, <2>4, IrqDropsNothing
    <3>2. intr'.stack = mid.stack
      BY <2>2, <3>1, IrqWhileDisabled, RaisedLines
    <3> QED  BY <3>1, <3>2 DEF Entered
  <2>5. CASE n \in mid.pending
    <3>1. intr' = fe2010_irq(mid, {TIMER})
      BY <2>2, <2>5
    <3>2. mid.i
      BY <2>2, <2>5, <3>1, IrqWhileDisabled, RaisedLines
    <3>3. mid = intr
      BY <1>0, <2>3, <3>2, IrqEffect
    <3> QED  BY <1>1, <3>1, <3>3, RaisedLines
  <2> QED  BY <2>4, <2>5
<1>4. CASE io_execute
  <2>1. PICK S \in SUBSET Lines : intr' = fe2010_irq(intr, S)
    BY <1>4, RaisedLines DEF io_execute
  <2> QED  BY <1>1, <2>1
<1> QED  BY <1>2, <1>3, <1>4 DEF Next

\* A pending interrupt is never dropped: it leaves irq_pending only by its
\* handler being entered (fe2010_irq, fe2010_execute).
THEOREM NothingDropped == Spec => PendingOnlyLeavesByDelivery
<1>1. IInv /\ [Next]_vars =>
         [\A n \in intr.pending \ intr'.pending : Entered(n)]_vars
  <2> SUFFICES ASSUME IInv, Next
               PROVE  \A n \in intr.pending \ intr'.pending : Entered(n)
    OBVIOUS
  <2>1. TypeOK /\ IntrOK(intr)
    BY DEF IInv, IntrOK, HandlersInterruptEnabledCode, EnabledBelowBound, TypeOK
  <2> QED  BY <2>1, StepDropsNothing
<1> QED
  BY <1>1, Invariance, PTL DEF Spec, PendingOnlyLeavesByDelivery

\* A tick enters the handler of the highest-priority unmasked pending line
\* (the ascending loop in fe2010_execute).
THEOREM PriorityRespected == Spec => TickDeliversByPriority
<1> DEFINE P(n) == phase = "fe2010" /\ Entered(n) =>
                      \A m \in intr.pending : Unmasked(m) => n <= m
<1>1. IInv /\ [Next]_vars => [\A n \in Lines : P(n)]_vars
  <2> SUFFICES ASSUME IInv, Next, phase = "fe2010",
                      NEW n \in Lines, Entered(n),
                      NEW m \in intr.pending, Unmasked(m)
               PROVE  n <= m
    OBVIOUS
  <2>1. TypeOK /\ IntrOK(intr)
    BY DEF IInv, IntrOK, HandlersInterruptEnabledCode, EnabledBelowBound, TypeOK
  <2>2. /\ intr \in Intr /\ intr.pending \in SUBSET Lines
        /\ Len(intr.stack) \in Nat /\ intr.stack \in Seq(Frame)
    BY <2>1, RaisedLines DEF TypeOK, Intr
  <2>3. fe2010_execute /\ Tick
    BY <2>2 DEF Next, i8088_execute, io_execute, fe2010_execute, Entered, Running,
                GuestSti, GuestCli, GuestHlt, GuestIret, GuestMaskWrite,
                GuestDeviceIrq, GuestCtrlWrite, GuestPitControl, GuestPitWrite,
                GuestPitRead, GuestOther
  <2> DEFINE mid == RetryPending(intr)
             top == HighestPriority(Due(intr.pending))
  <2>4. m \in Due(intr.pending)
    BY DEF Due
  <2>5. mid \in Intr /\ ~mid.i
    BY <2>1, <2>2, <2>4, IrqEffect DEF RetryPending
  <2>6. intr'.stack = mid.stack
    BY <2>1, <2>3, <2>5, TickEffect, IrqWhileDisabled, RaisedLines
  <2>7. intr.i
    <3> SUFFICES ASSUME ~intr.i PROVE FALSE  OBVIOUS
    <3>1. mid.stack = intr.stack
      BY <2>1, <2>2, <2>4, IrqEffect DEF RetryPending
    <3> QED  BY <2>2, <2>6, <3>1 DEF Entered
  <2>8. mid.stack = Append(intr.stack, [irq |-> top, i |-> TRUE])
    BY <2>1, <2>2, <2>4, <2>7, IrqEffect DEF RetryPending
  <2>9. n = top
    <3> HIDE DEF mid, top
    <3> QED  BY <2>2, <2>6, <2>8 DEF Entered
  <2>10. \A k \in Due(intr.pending) : top <= k
    BY <2>1, <2>2, <2>4, <2>7, IrqEffect
  <2> QED  BY <2>4, <2>9, <2>10
<1> QED
  BY <1>1, Invariance, PTL DEF Spec, TickDeliversByPriority
=============================================================================
