----------------------------- MODULE XthdcProofs -----------------------------
(***************************************************************************)
(* Proofs about Xthdc for every geometry of the disk and every DMA count:  *)
(* the type invariant, the handshake of the status register and the order  *)
(* in which a DMA transfer walks through the image.                        *)
(***************************************************************************)
EXTENDS Xthdc, SequenceTheorems, WellFoundedInduction, TLAPS

-----------------------------------------------------------------------------
(* Induction and recursion over the natural numbers.                       *)

\* A set of natural numbers that is not empty has a least element.
LEMMA LeastNumber ==
    ASSUME NEW T \in SUBSET Nat, T # {}
    PROVE  \E x \in T : \A y \in T : x <= y
<1> DEFINE R == {ss \in Nat \X Nat : ss[1] < ss[2]}
<1>1. IsWellFoundedOn(R, Nat)
  BY NatLessThanWellFounded DEF OpToRel
<1> HIDE DEF R
<1>2. PICK x \in T : \A y \in T : ~(<<y, x>> \in R)
  BY <1>1, WFMin
<1>3. \A y \in T : ~(y < x)
  BY <1>2 DEF R
<1>4. QED
  BY <1>2, <1>3

\* Induction over the numbers up to m, for a property given by its set.
LEMMA CountUp ==
    ASSUME NEW m \in Nat, NEW T, 0 \in T,
           \A k \in Nat : k < m /\ k \in T => k + 1 \in T
    PROVE  0 .. m \subseteq T
<1> SUFFICES ASSUME (0 .. m) \ T # {} PROVE FALSE
  OBVIOUS
<1>1. PICK x \in (0 .. m) \ T : \A y \in (0 .. m) \ T : x <= y
  <2>1. (0 .. m) \ T \in SUBSET Nat
    OBVIOUS
  <2>2. QED
    BY <2>1, LeastNumber
<1>2. x \in Nat /\ x # 0 /\ x <= m
  BY <1>1
<1>3. x - 1 \in 0 .. m /\ x - 1 \in Nat /\ x - 1 < m /\ ~(x <= x - 1)
  BY <1>2
<1>4. x - 1 \in T
  BY <1>1, <1>3
<1>5. (x - 1) + 1 \in T
  BY <1>3, <1>4
<1>6. (x - 1) + 1 = x
  BY <1>2
<1>7. QED
  BY <1>1, <1>5, <1>6

\* The positions of a transfer exist: Walk is the function its recursion says.
LEMMA WalkIsRecursive ==
    ASSUME NEW p, NEW bytes \in Nat
    PROVE  Walk(p, bytes) = [k \in 0 .. bytes |->
                               IF k = 0 THEN p ELSE Carry(Walk(p, bytes)[k - 1])]
<1> DEFINE Solves(g, m) == g = [k \in 0 .. m |-> IF k = 0 THEN p ELSE Carry(g[k - 1])]
           T == {m \in Nat : \E g : Solves(g, m)}
<1>1. 0 \in T
  <2>1. Solves([k \in 0 .. 0 |-> p], 0)
    OBVIOUS
  <2>2. QED
    BY <2>1
<1>2. ASSUME NEW m \in Nat, m \in T PROVE m + 1 \in T
  <2>1. PICK g : Solves(g, m)
    BY <1>2
  <2> DEFINE h == [k \in 0 .. m + 1 |-> IF k = m + 1 THEN Carry(g[m]) ELSE g[k]]
  <2>2. \A k \in 0 .. m + 1 : h[k] = IF k = 0 THEN p ELSE Carry(h[k - 1])
    <3> TAKE k \in 0 .. m + 1
    <3>1. CASE k = 0
      BY <2>1, <3>1
    <3>2. CASE k # 0 /\ k # m + 1
      <4>1. k \in 0 .. m /\ k - 1 \in 0 .. m /\ k - 1 # m + 1 /\ k - 1 \in 0 .. m + 1
        BY <3>2
      <4>2. h[k] = g[k] /\ h[k - 1] = g[k - 1]
        BY <3>2, <4>1
      <4>3. g[k] = Carry(g[k - 1])
        BY <2>1, <3>2, <4>1
      <4>4. QED
        BY <3>2, <4>2, <4>3
    <3>3. CASE k = m + 1
      <4>1. k # 0 /\ k - 1 = m /\ m \in 0 .. m + 1 /\ m # m + 1
        BY <3>3
      <4>2. h[k] = Carry(g[m]) /\ h[k - 1] = g[m]
        BY <3>3, <4>1
      <4>3. QED
        BY <4>1, <4>2
    <3>4. QED
      BY <3>1, <3>2, <3>3
  <2>3. h = [k \in 0 .. m + 1 |-> IF k = 0 THEN p ELSE Carry(h[k - 1])]
    <3> DEFINE r == [k \in 0 .. m + 1 |-> IF k = 0 THEN p ELSE Carry(h[k - 1])]
    <3>1. \A k \in 0 .. m + 1 : h[k] = r[k]
      BY <2>2
    <3>2. QED
      BY <3>1
  <2>4. m + 1 \in Nat /\ \E f : Solves(f, m + 1)
    <3>1. Solves(h, m + 1)
      BY <2>3
    <3> HIDE DEF h, Solves
    <3>2. QED
      BY <3>1
  <2>5. QED
    BY <2>4
<1>3. bytes \in T
  <2> HIDE DEF T
  <2>1. 0 .. bytes \subseteq T
    BY <1>1, <1>2, CountUp
  <2>2. QED
    BY <2>1
<1>4. PICK g : Solves(g, bytes)
  BY <1>3
<1>5. Walk(p, bytes) = CHOOSE f : Solves(f, bytes)
  BY DEF Walk
<1>6. Solves(CHOOSE f : Solves(f, bytes), bytes)
  <2> HIDE DEF Solves
  <2>1. QED
    BY <1>4
<1>7. QED
  BY <1>5, <1>6
-----------------------------------------------------------------------------
(* The position in the image as a number.                                  *)

\* A digit x below X followed by a digit y below Y is a number below X * Y,
\* and it is the last one exactly when both digits are.
LEMMA TwoDigits ==
    ASSUME NEW X \in Nat \ {0}, NEW Y \in Nat \ {0},
           NEW x \in 0 .. X - 1, NEW y \in 0 .. Y - 1
    PROVE  x * Y + y \in 0 .. X * Y - 1
<1>1. x * Y \in Nat /\ X * Y \in Nat
  OBVIOUS
<1>2. (x + 1) * Y = x * Y + Y
  OBVIOUS
<1>3. (x + 1) * Y <= X * Y
  <2>1. X - (x + 1) \in Nat
    OBVIOUS
  <2>2. (X - (x + 1)) * Y \in Nat
    BY <2>1
  <2>3. (X - (x + 1)) * Y = X * Y - (x + 1) * Y
    OBVIOUS
  <2>4. QED
    BY <2>2, <2>3
<1>4. QED
  BY <1>1, <1>2, <1>3

\* Every position lies inside the image.
LEMMA OffsetInImage ==
    ASSUME NEW p \in Position
    PROVE  Offset(p) \in 0 .. Size - 1
<1> DEFINE CH == Cylinders * Heads
           CHS == CH * Sectors
           t == p.c * Heads + p.h
           u == t * Sectors + p.s
<1>0. /\ Cylinders \in Nat \ {0} /\ Heads \in Nat \ {0}
      /\ Sectors \in Nat \ {0} /\ SectorSize \in Nat \ {0}
  BY XthdcAssumption
<1>1. /\ p.c \in 0 .. Cylinders - 1 /\ p.h \in 0 .. Heads - 1
      /\ p.s \in 0 .. Sectors - 1 /\ p.b \in 0 .. SectorSize - 1
  BY DEF Position
<1>2. t \in 0 .. CH - 1
  BY <1>0, <1>1, TwoDigits
<1>3. CH \in Nat \ {0}
  BY <1>0
<1> HIDE DEF CH, t
<1>4. u \in 0 .. CHS - 1
  BY <1>0, <1>1, <1>2, <1>3, TwoDigits
<1>5. CHS \in Nat \ {0}
  BY <1>0, <1>3
<1> HIDE DEF CHS, u
<1>6. u * SectorSize + p.b \in 0 .. CHS * SectorSize - 1
  BY <1>0, <1>1, <1>4, <1>5, TwoDigits
<1>7. QED
  BY <1>6 DEF u, t, CHS, CH, Offset, Size

\* The carry chain keeps to the geometry and moves one byte on, from the last
\* byte of the disk back to the first.
LEMMA CarryIsNext ==
    ASSUME NEW p \in Position
    PROVE  /\ Carry(p) \in Position
           /\ Offset(Carry(p)) = IF Offset(p) + 1 = Size THEN 0 ELSE Offset(p) + 1
<1>0. /\ Cylinders \in Nat \ {0} /\ Heads \in Nat \ {0}
      /\ Sectors \in Nat \ {0} /\ SectorSize \in Nat \ {0}
  BY XthdcAssumption
<1>1. /\ p.c \in 0 .. Cylinders - 1 /\ p.h \in 0 .. Heads - 1
      /\ p.s \in 0 .. Sectors - 1 /\ p.b \in 0 .. SectorSize - 1
      /\ p = [c |-> p.c, h |-> p.h, s |-> p.s, b |-> p.b]
  BY DEF Position
<1> DEFINE o == Offset(p)
           q == Carry(p)
<1>2. o \in 0 .. Size - 1 /\ Size \in Int
  BY OffsetInImage, <1>0 DEF Size
<1>3. ASSUME q \in Position, Offset(q) = o + 1
      PROVE  Offset(q) = IF o + 1 = Size THEN 0 ELSE o + 1
  <2>1. o + 1 \in 0 .. Size - 1
    BY <1>3, OffsetInImage
  <2>2. o + 1 # Size
    BY <1>2, <2>1
  <2>3. QED
    BY <1>3, <2>2
<1>4. CASE p.b + 1 < SectorSize
  <2>1. q = [c |-> p.c, h |-> p.h, s |-> p.s, b |-> p.b + 1]
    BY <1>1, <1>4 DEF Carry, Position
  <2>2. q \in Position
    BY <1>0, <1>1, <1>4, <2>1 DEF Position
  <2>3. Offset(q) = o + 1
    BY <1>0, <1>1, <2>1 DEF Offset
  <2>4. QED
    BY <1>3, <2>2, <2>3
<1>5. CASE ~(p.b + 1 < SectorSize) /\ p.s + 1 < Sectors
  <2>1. q = [c |-> p.c, h |-> p.h, s |-> p.s + 1, b |-> 0]
    BY <1>1, <1>5 DEF Carry, Position
  <2>2. q \in Position
    BY <1>0, <1>1, <1>5, <2>1 DEF Position
  <2>3. Offset(q) = o + 1
    <3>1. p.b = SectorSize - 1
      BY <1>0, <1>1, <1>5
    <3> DEFINE u == (p.c * Heads + p.h) * Sectors
    <3>2. u \in Int
      BY <1>0, <1>1
    <3>3. Offset(q) = (u + (p.s + 1)) * SectorSize + 0
      BY <2>1 DEF Offset
    <3>4. o = (u + p.s) * SectorSize + (SectorSize - 1)
      BY <3>1 DEF Offset
    <3> HIDE DEF u, o, q
    <3>5. QED
      BY <3>2, <3>3, <3>4, <1>0, <1>1
  <2>4. QED
    BY <1>3, <2>2, <2>3
<1>6. CASE ~(p.b + 1 < SectorSize) /\ ~(p.s + 1 < Sectors) /\ p.h + 1 < Heads
  <2>1. q = [c |-> p.c, h |-> p.h + 1, s |-> 0, b |-> 0]
    BY <1>1, <1>6 DEF Carry, Position
  <2>2. q \in Position
    BY <1>0, <1>1, <1>6, <2>1 DEF Position
  <2>3. Offset(q) = o + 1
    <3>1. p.b = SectorSize - 1 /\ p.s = Sectors - 1
      BY <1>0, <1>1, <1>6
    <3> DEFINE t == p.c * Heads + p.h
    <3>2. t \in Int
      BY <1>0, <1>1
    <3>3. Offset(q) = ((t + 1) * Sectors + 0) * SectorSize + 0
      <4>1. p.c * Heads + (p.h + 1) = t + 1
        BY <1>0, <1>1
      <4>2. QED
        BY <2>1, <4>1 DEF Offset
    <3>4. o = (t * Sectors + (Sectors - 1)) * SectorSize + (SectorSize - 1)
      BY <3>1 DEF Offset
    <3> HIDE DEF t, o, q
    <3>5. (t + 1) * Sectors + 0 = (t * Sectors + (Sectors - 1)) + 1
      BY <3>2, <1>0
    <3> DEFINE v == t * Sectors + (Sectors - 1)
    <3>6. v \in Int
      BY <3>2, <1>0
    <3>7. Offset(q) = (v + 1) * SectorSize + 0 /\ o = v * SectorSize + (SectorSize - 1)
      BY <3>3, <3>4, <3>5
    <3> HIDE DEF v
    <3>8. QED
      BY <3>6, <3>7, <1>0
  <2>4. QED
    BY <1>3, <2>2, <2>3
<1>7. CASE /\ ~(p.b + 1 < SectorSize) /\ ~(p.s + 1 < Sectors) /\ ~(p.h + 1 < Heads)
           /\ p.c + 1 < Cylinders
  <2>1. q = [c |-> p.c + 1, h |-> 0, s |-> 0, b |-> 0]
    BY <1>1, <1>7 DEF Carry, Position
  <2>2. q \in Position
    BY <1>0, <1>1, <1>7, <2>1 DEF Position
  <2>3. Offset(q) = o + 1
    <3>1. p.b = SectorSize - 1 /\ p.s = Sectors - 1 /\ p.h = Heads - 1
      BY <1>0, <1>1, <1>7
    <3> DEFINE t == p.c * Heads + (Heads - 1)
               v == t * Sectors + (Sectors - 1)
    <3>2. t \in Int
      BY <1>0, <1>1
    <3>3. (p.c + 1) * Heads + 0 = t + 1
      BY <1>0, <1>1
    <3>4. Offset(q) = ((t + 1) * Sectors + 0) * SectorSize + 0
      BY <2>1, <3>3 DEF Offset
    <3>5. o = v * SectorSize + (SectorSize - 1)
      BY <3>1 DEF Offset
    <3> HIDE DEF t, o, q
    <3>6. v \in Int /\ (t + 1) * Sectors + 0 = v + 1
      BY <3>2, <1>0
    <3> HIDE DEF v
    <3>7. QED
      BY <3>4, <3>5, <3>6, <1>0
  <2>4. QED
    BY <1>3, <2>2, <2>3
<1>8. CASE /\ ~(p.b + 1 < SectorSize) /\ ~(p.s + 1 < Sectors) /\ ~(p.h + 1 < Heads)
           /\ ~(p.c + 1 < Cylinders)
  <2>1. q = [c |-> 0, h |-> 0, s |-> 0, b |-> 0]
    BY <1>8 DEF Carry
  <2>2. q \in Position
    BY <1>0, <2>1 DEF Position
  <2>3. Offset(q) = 0
    BY <1>0, <2>1 DEF Offset
  <2>4. o + 1 = Size
    <3>1. /\ p.b = SectorSize - 1 /\ p.s = Sectors - 1 /\ p.h = Heads - 1
          /\ p.c = Cylinders - 1
      BY <1>0, <1>1, <1>8
    <3> DEFINE CH == Cylinders * Heads
               CHS == CH * Sectors
    <3>2. CH \in Int /\ p.c * Heads + p.h = CH - 1
      BY <3>1, <1>0
    <3>3. Size = CHS * SectorSize
      BY DEF Size
    <3>4. o = ((CH - 1) * Sectors + (Sectors - 1)) * SectorSize + (SectorSize - 1)
      BY <3>1, <3>2 DEF Offset
    <3> HIDE DEF CH, o
    <3>5. CHS \in Int /\ (CH - 1) * Sectors + (Sectors - 1) = CHS - 1
      BY <3>2, <1>0
    <3> HIDE DEF CHS
    <3>6. QED
      BY <3>3, <3>4, <3>5, <1>0
  <2>5. QED
    BY <2>2, <2>3, <2>4
<1>9. QED
  BY <1>4, <1>5, <1>6, <1>7, <1>8

\* The positions of a transfer: each is the one after the position before it,
\* and none wraps while the transfer stays clear of the end of the disk.
LEMMA WalkOffsets ==
    ASSUME NEW p \in Position, NEW bytes \in Nat, NEW at, at = Walk(p, bytes)
    PROVE  /\ \A k \in 0 .. bytes : at[k] \in Position
           /\ at[0] = p
           /\ \A k \in 1 .. bytes :
                 Offset(at[k]) = IF Offset(at[k - 1]) + 1 = Size THEN 0
                                 ELSE Offset(at[k - 1]) + 1
           /\ Offset(p) + bytes < Size
                 => \A k \in 0 .. bytes : Offset(at[k]) = Offset(p) + k
<1>1. at = [k \in 0 .. bytes |-> IF k = 0 THEN p ELSE Carry(at[k - 1])]
  BY WalkIsRecursive
<1>2. at[0] = p
  BY <1>1
<1>3. \A k \in 0 .. bytes : k # 0 => at[k] = Carry(at[k - 1])
  BY <1>1
<1> DEFINE T == {k \in 0 .. bytes : at[k] \in Position}
<1>4. 0 .. bytes \subseteq T
  <2>1. 0 \in T
    BY <1>2
  <2>2. ASSUME NEW k \in Nat, k < bytes, k \in T PROVE k + 1 \in T
    <3>1. k + 1 \in 0 .. bytes /\ k + 1 # 0 /\ (k + 1) - 1 = k
      BY <2>2
    <3>2. at[k + 1] = Carry(at[k])
      BY <1>3, <3>1
    <3>3. QED
      BY <2>2, <3>1, <3>2, CarryIsNext
  <2> HIDE DEF T
  <2>3. QED
    BY <2>1, <2>2, CountUp
<1>5. \A k \in 0 .. bytes : at[k] \in Position
  BY <1>4
<1> HIDE DEF T
<1>6. ASSUME NEW k \in 1 .. bytes
      PROVE  /\ at[k] = Carry(at[k - 1]) /\ at[k - 1] \in Position
             /\ Offset(at[k]) = IF Offset(at[k - 1]) + 1 = Size THEN 0
                                ELSE Offset(at[k - 1]) + 1
  <2>1. k \in 0 .. bytes /\ k # 0 /\ k - 1 \in 0 .. bytes
    OBVIOUS
  <2>2. at[k] = Carry(at[k - 1]) /\ at[k - 1] \in Position
    BY <1>3, <1>5, <2>1
  <2>3. QED
    BY <2>2, CarryIsNext
<1>7. ASSUME Offset(p) + bytes < Size
      PROVE  \A k \in 0 .. bytes : Offset(at[k]) = Offset(p) + k
  <2> DEFINE O(k) == Offset(at[k])
             D == {k \in 0 .. bytes : O(k) = O(0) + k}
  <2>0. O(0) \in Int /\ Size \in Int /\ Offset(p) = O(0)
    BY <1>2, OffsetInImage, XthdcAssumption DEF Size
  <2>1. 0 .. bytes \subseteq D
    <3>1. 0 \in D
      BY <2>0
    <3>2. ASSUME NEW k \in Nat, k < bytes, k \in D PROVE k + 1 \in D
      <4>1. k + 1 \in 1 .. bytes /\ (k + 1) - 1 = k /\ k + 1 \in 0 .. bytes
        BY <3>2
      <4>2. O(k + 1) = IF O(k) + 1 = Size THEN 0 ELSE O(k) + 1
        BY <1>6, <4>1
      <4>3. O(k) = O(0) + k
        BY <3>2
      <4> HIDE DEF O
      <4>4. O(k) + 1 # Size
        BY <1>7, <2>0, <3>2, <4>3
      <4>5. O(k + 1) = O(0) + (k + 1)
        BY <2>0, <4>2, <4>3, <4>4
      <4>6. QED
        BY <4>1, <4>5
    <3> HIDE DEF D
    <3>3. QED
      BY <3>1, <3>2, CountUp
  <2>2. QED
    BY <2>0, <2>1
<1>8. QED
  BY <1>2, <1>5, <1>6, <1>7
-----------------------------------------------------------------------------
(* The inductive invariant.                                                *)

\* The cylinder the command addresses exists once its low byte is written.
AddressInside ==
    state = "COMMAND" /\ n >= 4 => command.high * CylBase + command.low < Cylinders

\* A finished command takes the request bit back, so an idle controller that
\* has not been reset asks for nothing.
IdleAsksNothing == selected /\ state = "IDLE" => "REQ" \notin status

IInv == TypeOK /\ AddressInside /\ IdleAsksNothing /\ PhaseVisible

\* The address of a complete command is a position of the disk.
LEMMA AddressIsPosition ==
    ASSUME TypeOK, AddressInside, state = "COMMAND", n = 5
    PROVE  update_chs(command) \in Position
<1>1. /\ command.high \in Nat /\ command.low \in Nat
      /\ command.head \in 0 .. Heads - 1 /\ command.sector \in 0 .. Sectors - 1
  <2>1. (Cylinders - 1) \div CylBase \in Int
    BY XthdcAssumption
  <2>2. QED
    BY <2>1, XthdcAssumption DEF TypeOK, Command
<1>2. command.high * CylBase + command.low \in 0 .. Cylinders - 1
  BY <1>1, XthdcAssumption DEF AddressInside
<1>3. QED
  BY <1>1, <1>2, XthdcAssumption DEF update_chs, Position

LEMMA InitInv == Init => IInv
<1> SUFFICES ASSUME Init PROVE IInv
  OBVIOUS
<1>1. (Cylinders - 1) \div CylBase \in Nat
  BY XthdcAssumption
<1>2. Size \in Int
  BY XthdcAssumption DEF Size
<1>3. command \in Command
  BY <1>1, XthdcAssumption DEF Init, Command, Commands
<1>4. pos \in Position
  BY XthdcAssumption DEF Init, Position
<1>5. TypeOK
  <2>1. moved \in Seq(0 .. Size - 1)
    BY DEF Init
  <2>2. irq \in BOOLEAN /\ panic \in BOOLEAN /\ polite \in BOOLEAN /\ selected \in BOOLEAN
    BY DEF Init
  <2>3. status = {} /\ mask = {} /\ n \in Nat
    BY DEF Init
  <2>4. QED
    BY <1>3, <1>4, <2>1, <2>2, <2>3 DEF Init, TypeOK
<1>6. AddressInside /\ IdleAsksNothing /\ PhaseVisible
  BY DEF Init, AddressInside, IdleAsksNothing, PhaseVisible
<1>7. QED
  BY <1>5, <1>6 DEF IInv

\* A function on 1 .. m is a sequence of length m.
LEMMA FunctionIsSeq ==
    ASSUME NEW S, NEW m \in Nat, NEW f \in [1 .. m -> S]
    PROVE  f \in Seq(S) /\ Len(f) = m
<1>1. f = [i \in 1 .. m |-> f[i]] /\ \A i \in 1 .. m : f[i] \in S
  OBVIOUS
<1>2. f \in Seq(S)
  BY <1>1, IsASeq
<1>3. Len(f) \in Nat /\ DOMAIN f = 1 .. Len(f) /\ DOMAIN f = 1 .. m
  BY <1>2, LenProperties
<1>4. QED
  BY <1>2, <1>3

\* What the DMA transfer of a READ or WRITE leaves behind.
LEMMA TransferEffect ==
    ASSUME TypeOK, AddressInside, start_dma
    PROVE  /\ pos' \in Position
           /\ moved' \in Seq(0 .. Size - 1)
           /\ panic' \in BOOLEAN
           /\ polite' \in BOOLEAN
           /\ HandshakeNeverPanics'
           /\ TransferIsLinear'
<1> DEFINE p == update_chs(command)
<1>0. p \in Position /\ command' = command
  BY AddressIsPosition DEF start_dma
<1>1. PICK bytes \in {0} \cup {w + 1 : w \in DmaCounts} :
         /\ moved' = [k \in 1 .. bytes |-> Offset(Walk(p, bytes)[k - 1])]
         /\ pos' = Walk(p, bytes)[bytes]
         /\ panic' = ({k \in 1 .. bytes : Offset(Walk(p, bytes)[k]) = 0} # {})
         /\ polite' = (Expects({}) /\ Offset(Walk(p, bytes)[0]) + bytes < Size)
  BY DEF start_dma
<1>2. bytes \in Nat
  BY XthdcAssumption
<1> DEFINE at == Walk(p, bytes)
<1>3. /\ \A k \in 0 .. bytes : at[k] \in Position
      /\ at[0] = p
      /\ \A k \in 1 .. bytes : Offset(at[k]) = IF Offset(at[k - 1]) + 1 = Size THEN 0
                                               ELSE Offset(at[k - 1]) + 1
      /\ Offset(p) + bytes < Size => \A k \in 0 .. bytes : Offset(at[k]) = Offset(p) + k
  BY <1>0, <1>2, WalkOffsets
<1> HIDE DEF at, p
<1>4. /\ moved' = [k \in 1 .. bytes |-> Offset(at[k - 1])]
      /\ pos' = at[bytes]
      /\ panic' = ({k \in 1 .. bytes : Offset(at[k]) = 0} # {})
      /\ polite' = (Expects({}) /\ Offset(at[0]) + bytes < Size)
  BY <1>1 DEF at
<1>5. pos' \in Position
  BY <1>2, <1>3, <1>4
<1>6. \A k \in 1 .. bytes : Offset(at[k - 1]) \in 0 .. Size - 1
  <2> TAKE k \in 1 .. bytes
  <2>1. k - 1 \in 0 .. bytes
    BY <1>2
  <2>2. QED
    BY <1>3, <2>1, OffsetInImage
<1>7. moved' \in Seq(0 .. Size - 1) /\ Len(moved') = bytes
  <2>1. moved' \in [1 .. bytes -> 0 .. Size - 1]
    BY <1>4, <1>6
  <2>2. QED
    BY <1>2, <2>1, FunctionIsSeq
<1>8. HandshakeNeverPanics'
  <2>1. ASSUME polite', NEW k \in 1 .. bytes PROVE Offset(at[k]) # 0
    <3>1. Offset(p) \in 0 .. Size - 1 /\ Size \in Int
      BY <1>0, OffsetInImage, XthdcAssumption DEF Size
    <3>2. k \in 0 .. bytes /\ Offset(p) + bytes < Size
      <4>1. Expects({}) /\ Offset(at[0]) + bytes < Size
        BY <1>4, <2>1
      <4>2. QED
        BY <1>2, <1>3, <4>1
    <3>3. Offset(at[k]) = Offset(p) + k
      BY <1>3, <3>2
    <3>4. QED
      BY <1>2, <3>1, <3>3
  <2>2. QED
    BY <1>4, <2>1 DEF HandshakeNeverPanics
<1>9. TransferIsLinear'
  <2>1. moved' # <<>> => moved'[1] = Offset(update_chs(command'))
    <3> SUFFICES ASSUME moved' # <<>> PROVE moved'[1] = Offset(p)
      BY <1>0 DEF p
    <3>1. bytes # 0
      BY <1>7
    <3>2. QED
      BY <1>2, <1>3, <1>4, <3>1
  <2>2. ASSUME NEW k \in 1 .. bytes - 1
        PROVE  moved'[k + 1] = IF moved'[k] + 1 = Size THEN 0 ELSE moved'[k] + 1
    <3>1. k \in 1 .. bytes /\ k + 1 \in 1 .. bytes /\ (k + 1) - 1 = k
      BY <1>2
    <3>2. moved'[k] = Offset(at[k - 1]) /\ moved'[k + 1] = Offset(at[k])
      BY <1>4, <3>1
    <3>3. QED
      BY <1>3, <3>1, <3>2
  <2>3. QED
    BY <1>7, <2>1, <2>2 DEF TransferIsLinear
<1>10. panic' \in BOOLEAN /\ polite' \in BOOLEAN
  BY <1>4 DEF Expects, TypeOK
<1>11. QED
  BY <1>5, <1>7, <1>8, <1>9, <1>10
-----------------------------------------------------------------------------
(* Every step keeps the invariant, and ends in a state with the properties *)
(* that speak of the access just made.                                     *)

\* The properties of the last access that a step has to establish.
AccessOK == HandshakeNeverPanics /\ TransferIsLinear

\* A step without a DMA transfer moves nothing.
LEMMA NothingMoved ==
    ASSUME moved' = <<>>
    PROVE  TransferIsLinear' /\ moved' \in Seq(0 .. Size - 1)
<1>1. Len(moved') = 0
  OBVIOUS
<1>2. QED
  BY <1>1 DEF TransferIsLinear

LEMMA CommandByteStep ==
    ASSUME IInv, write_command_byte
    PROVE  IInv' /\ AccessOK'
<1>0. TypeOK /\ (Cylinders - 1) \div CylBase \in Nat
  BY XthdcAssumption DEF IInv
<1>1. command' \in Command
  <2>0. command \in Command
    BY <1>0 DEF TypeOK
  <2>1. CASE \E op \in Commands : command' = [command EXCEPT !.op = op]
    BY <2>0, <2>1 DEF Command
  <2>2. CASE \E d \in {0, 1}, h \in 0 .. Heads - 1 :
                command' = [command EXCEPT !.drive = d, !.head = h]
    BY <2>0, <2>2 DEF Command
  <2>3. CASE \E s \in 0 .. Sectors - 1, hi \in 0 .. (Cylinders - 1) \div CylBase :
                command' = [command EXCEPT !.sector = s, !.high = hi]
    BY <2>0, <2>3 DEF Command
  <2>4. CASE \E lo \in 0 .. CylBase - 1 : command' = [command EXCEPT !.low = lo]
    BY <2>0, <2>4 DEF Command
  <2>5. CASE UNCHANGED command
    BY <2>0, <2>5
  <2>6. QED
    BY <2>1, <2>2, <2>3, <2>4, <2>5, Zenon DEF write_command_byte
<1>2. /\ n' \in Nat /\ n < 5 /\ n' = n + 1 /\ state = "COMMAND"
      /\ UNCHANGED <<state, status, mask, command_status, pos, selected>>
      /\ moved' = <<>> /\ panic' = FALSE /\ irq' = FALSE /\ polite' = Expects({})
  <2>1. /\ n < 5 /\ n' = n + 1 /\ state = "COMMAND"
        /\ UNCHANGED <<state, status, mask, command_status, pos, selected>>
        /\ moved' = <<>> /\ panic' = FALSE /\ irq' = FALSE /\ polite' = Expects({})
    BY Zenon DEF write_command_byte
  <2>2. QED
    BY <1>0, <2>1 DEF TypeOK
<1>3. polite' \in BOOLEAN
  BY <1>2 DEF Expects
<1>4. TypeOK'
  BY <1>0, <1>1, <1>2, <1>3, NothingMoved DEF TypeOK
<1>5. AddressInside'
  <2> SUFFICES ASSUME n' >= 4 PROVE command'.high * CylBase + command'.low < Cylinders
    BY DEF AddressInside
  <2>1. n \in {3, 4}
    BY <1>0, <1>2 DEF TypeOK
  <2>2. CASE n = 3
    <3>1. PICK lo \in 0 .. CylBase - 1 :
             command.high * CylBase + lo < Cylinders /\ command' = [command EXCEPT !.low = lo]
      BY <2>2 DEF write_command_byte
    <3>2. command'.high = command.high /\ command'.low = lo
      BY <1>0, <3>1 DEF TypeOK, Command
    <3>3. QED
      BY <3>1, <3>2
  <2>3. CASE n = 4
    <3>1. command' = command
      BY <2>3 DEF write_command_byte
    <3>2. QED
      BY <2>3, <3>1 DEF IInv, AddressInside, write_command_byte
  <2>4. QED
    BY <2>1, <2>2, <2>3
<1>6. IdleAsksNothing' /\ PhaseVisible'
  BY <1>2 DEF IInv, IdleAsksNothing, PhaseVisible
<1>7. AccessOK'
  BY <1>2, NothingMoved DEF AccessOK, HandshakeNeverPanics
<1>8. QED
  BY <1>4, <1>5, <1>6, <1>7 DEF IInv

\* The end of a command: the status phase is visible, nothing else changes.
LEMMA CompleteOK ==
    ASSUME TypeOK, PhaseVisible, Complete, selected' = selected, state # "IDLE"
    PROVE  /\ state' = "STATUS" /\ irq' \in BOOLEAN
           /\ status' \in SUBSET {"REQ", "IO", "CD", "XBSY", "IRQ"}
           /\ IdleAsksNothing' /\ PhaseVisible' /\ AddressInside'
<1>1. state' = "STATUS" /\ irq' \in BOOLEAN
  BY DEF Complete
<1>2. status' \in SUBSET {"REQ", "IO", "CD", "XBSY", "IRQ"}
  BY DEF Complete, TypeOK
<1>3. IdleAsksNothing' /\ AddressInside'
  BY <1>1 DEF IdleAsksNothing, AddressInside
<1>4. status \subseteq status' /\ "IO" \in status'
  BY DEF Complete
<1>5. PhaseVisible'
  BY <1>1, <1>4 DEF PhaseVisible
<1>6. QED
  BY <1>1, <1>2, <1>3, <1>5

LEMMA DmaStep ==
    ASSUME IInv, start_dma
    PROVE  IInv' /\ AccessOK'
<1>1. TypeOK /\ AddressInside /\ PhaseVisible
  BY DEF IInv
<1>2. /\ pos' \in Position /\ moved' \in Seq(0 .. Size - 1)
      /\ panic' \in BOOLEAN /\ polite' \in BOOLEAN /\ AccessOK'
  BY <1>1, TransferEffect DEF AccessOK
<1>3. /\ state = "COMMAND" /\ n' = 0 /\ Complete
      /\ UNCHANGED <<command, mask, command_status, selected>>
  BY DEF start_dma
<1>4. /\ state' = "STATUS" /\ irq' \in BOOLEAN
      /\ status' \in SUBSET {"REQ", "IO", "CD", "XBSY", "IRQ"}
      /\ IdleAsksNothing' /\ PhaseVisible' /\ AddressInside'
  BY <1>1, <1>3, CompleteOK
<1>5. TypeOK'
  BY <1>1, <1>2, <1>3, <1>4 DEF TypeOK
<1>6. QED
  BY <1>2, <1>4, <1>5 DEF IInv

LEMMA PioStep ==
    ASSUME IInv, start_pio
    PROVE  IInv' /\ AccessOK'
<1>1. TypeOK /\ AddressInside /\ PhaseVisible
  BY DEF IInv
<1>2. pos' \in Position
  BY <1>1, AddressIsPosition DEF start_pio
<1>3. /\ state = "COMMAND" /\ n' = 0 /\ irq' = FALSE /\ moved' = <<>>
      /\ polite' = (Expects({}) /\ command.op = "READ")
      /\ UNCHANGED <<command, mask, command_status, selected>>
  BY DEF start_pio
<1>4. /\ state' \in {"READ_SECTOR", "STATUS"} /\ "IO" \in status'
      /\ status \ {"CD"} \subseteq status' /\ status' \subseteq status \cup {"IO"}
      /\ panic' = (command.op # "READ")
  BY DEF start_pio
<1>5. status' \in SUBSET {"REQ", "IO", "CD", "XBSY", "IRQ"}
  BY <1>1, <1>4 DEF TypeOK
<1>6. panic' \in BOOLEAN /\ polite' \in BOOLEAN
  BY <1>3, <1>4 DEF Expects
<1>7. TypeOK'
  BY <1>1, <1>2, <1>3, <1>4, <1>5, <1>6, NothingMoved DEF TypeOK
<1>8. IdleAsksNothing' /\ AddressInside'
  BY <1>4 DEF IdleAsksNothing, AddressInside
<1>9. PhaseVisible'
  BY <1>1, <1>3, <1>4 DEF PhaseVisible
<1>10. AccessOK'
  BY <1>3, <1>4, NothingMoved DEF AccessOK, HandshakeNeverPanics
<1>11. QED
  BY <1>7, <1>8, <1>9, <1>10 DEF IInv

LEMMA SimpleStep ==
    ASSUME IInv, start_simple
    PROVE  IInv' /\ AccessOK'
<1>1. TypeOK /\ PhaseVisible
  BY DEF IInv
<1>2. /\ state = "COMMAND" /\ Complete /\ moved' = <<>>
      /\ panic' = (command.op = "UNHANDLED")
      /\ polite' = (Expects({}) /\ command.op # "UNHANDLED")
      /\ UNCHANGED <<n, command, mask, pos, selected>>
  BY DEF start_simple
<1>3. command_status' \in {"0", "0x20", "0x22"}
  <2>1. command_status' = StatusOf(command)
    BY DEF start_simple
  <2>2. QED
    BY <2>1 DEF StatusOf
<1>4. panic' \in BOOLEAN /\ polite' \in BOOLEAN
  BY <1>2 DEF Expects
<1>5. /\ state' = "STATUS" /\ irq' \in BOOLEAN
      /\ status' \in SUBSET {"REQ", "IO", "CD", "XBSY", "IRQ"}
      /\ IdleAsksNothing' /\ PhaseVisible' /\ AddressInside'
  BY <1>1, <1>2, CompleteOK
<1>6. TypeOK'
  BY <1>1, <1>2, <1>3, <1>4, <1>5, NothingMoved DEF TypeOK
<1>7. AccessOK'
  BY <1>2, NothingMoved DEF AccessOK, HandshakeNeverPanics
<1>8. QED
  BY <1>5, <1>6, <1>7 DEF IInv

LEMMA InitializeStep ==
    ASSUME IInv, start_initialize \/ write_initialize
    PROVE  IInv' /\ AccessOK'
<1>1. TypeOK /\ PhaseVisible
  BY DEF IInv
<1>2. /\ state \in {"COMMAND", "INITIALIZE_DRIVE"} /\ n' \in Nat
      /\ moved' = <<>> /\ panic' = FALSE /\ polite' = Expects({})
      /\ UNCHANGED <<command, mask, pos, selected>>
  BY <1>1 DEF start_initialize, write_initialize, TypeOK
<1>3. polite' \in BOOLEAN
  BY <1>2 DEF Expects
<1>4. /\ state' \in {"INITIALIZE_DRIVE", "STATUS"} /\ irq' \in BOOLEAN
      /\ status' \in SUBSET {"REQ", "IO", "CD", "XBSY", "IRQ"}
      /\ command_status' \in {"0", "0x20", "0x22"}
      /\ IdleAsksNothing' /\ PhaseVisible' /\ AddressInside'
  <2>1. CASE write_initialize /\ n + 1 >= InitBytes
    <3>1. Complete /\ command_status' = "0"
      BY <2>1 DEF write_initialize
    <3>2. QED
      BY <1>1, <1>2, <3>1, CompleteOK
  <2>2. CASE start_initialize \/ (write_initialize /\ ~(n + 1 >= InitBytes))
    <3>1. /\ state' = "INITIALIZE_DRIVE" /\ irq' = FALSE
          /\ UNCHANGED <<command_status, status>>
      BY <2>2 DEF start_initialize, write_initialize
    <3>2. QED
      BY <1>1, <1>2, <3>1 DEF TypeOK, PhaseVisible, IdleAsksNothing, AddressInside
  <2>3. QED
    BY <2>1, <2>2
<1>5. TypeOK'
  BY <1>1, <1>2, <1>3, <1>4, NothingMoved DEF TypeOK
<1>6. AccessOK'
  BY <1>2, NothingMoved DEF AccessOK, HandshakeNeverPanics
<1>7. QED
  BY <1>4, <1>5, <1>6 DEF IInv

\* An access the state does not expect panics, and is not a polite one: the
\* status register said so.
LEMMA UnexpectedStep ==
    ASSUME IInv, write_unexpected \/ read_unexpected
    PROVE  IInv' /\ AccessOK'
<1>1. TypeOK /\ PhaseVisible /\ IdleAsksNothing /\ AddressInside
  BY DEF IInv
<1>2. /\ moved' = <<>> /\ panic' = TRUE /\ irq' = FALSE /\ polite' \in BOOLEAN
      /\ UNCHANGED <<state, n, command, status, mask, command_status, pos, selected>>
  BY DEF write_unexpected, read_unexpected, Expects
<1>3. ~polite'
  <2>1. CASE write_unexpected
    <3>1. state \in {"IDLE", "STATUS", "READ_SECTOR"} /\ polite' = Expects({})
      BY <2>1 DEF write_unexpected
    <3>2. ~Expects({})
      BY <1>1, <3>1 DEF Expects, PhaseVisible, IdleAsksNothing
    <3>3. QED
      BY <3>1, <3>2
  <2>2. CASE read_unexpected
    <3>1. state \in {"IDLE", "COMMAND", "INITIALIZE_DRIVE"} /\ polite' = Expects({"IO"})
      BY <2>2 DEF read_unexpected
    <3>2. ~Expects({"IO"})
      BY <1>1, <3>1 DEF Expects, PhaseVisible, IdleAsksNothing
    <3>3. QED
      BY <3>1, <3>2
  <2>3. QED
    BY <2>1, <2>2
<1>4. TypeOK'
  BY <1>1, <1>2, NothingMoved DEF TypeOK
<1>5. PhaseVisible' /\ IdleAsksNothing' /\ AddressInside'
  BY <1>1, <1>2 DEF PhaseVisible, IdleAsksNothing, AddressInside
<1>6. AccessOK'
  BY <1>2, <1>3, NothingMoved DEF AccessOK, HandshakeNeverPanics
<1>7. QED
  BY <1>4, <1>5, <1>6 DEF IInv

LEMMA ReadStep ==
    ASSUME IInv, read_status \/ read_sector
    PROVE  IInv' /\ AccessOK'
<1>1. TypeOK /\ PhaseVisible
  BY DEF IInv
<1>2. /\ n' \in Nat /\ moved' = <<>> /\ panic' = FALSE /\ polite' = Expects({"IO"})
      /\ UNCHANGED <<command, mask, pos, selected>>
  BY <1>1 DEF read_status, read_sector, TypeOK
<1>3. polite' \in BOOLEAN
  BY <1>2 DEF Expects
<1>4. /\ state' \in {"IDLE", "READ_SECTOR", "STATUS"} /\ irq' \in BOOLEAN
      /\ command_status' \in {"0", "0x20", "0x22"}
  <2>1. CASE read_status
    BY <1>1, <2>1 DEF read_status, TypeOK
  <2>2. CASE read_sector
    <3>1. CASE n + 1 >= SectorSize
      BY <2>2, <3>1 DEF read_sector
    <3>2. CASE ~(n + 1 >= SectorSize)
      BY <1>1, <2>2, <3>2 DEF read_sector, TypeOK
    <3>3. QED
      BY <3>1, <3>2
  <2>3. QED
    BY <2>1, <2>2
<1>5. /\ status' \in SUBSET {"REQ", "IO", "CD", "XBSY", "IRQ"}
      /\ IdleAsksNothing' /\ PhaseVisible'
  <2>1. CASE read_status
    <3>1. state' = "IDLE" /\ status' = status \ {"REQ", "XBSY", "CD", "IO"}
      BY <2>1 DEF read_status
    <3>2. QED
      BY <1>1, <3>1 DEF TypeOK, IdleAsksNothing, PhaseVisible
  <2>2. CASE read_sector
    <3>1. /\ state = "READ_SECTOR" /\ state' \in {"READ_SECTOR", "STATUS"}
          /\ status \subseteq status' /\ status' \subseteq status \cup {"IRQ"}
      BY <2>2 DEF read_sector
    <3>2. QED
      BY <1>1, <1>2, <3>1 DEF TypeOK, IdleAsksNothing, PhaseVisible
  <2>3. QED
    BY <2>1, <2>2
<1>6. TypeOK' /\ AddressInside'
  BY <1>1, <1>2, <1>3, <1>4, <1>5, NothingMoved DEF TypeOK, AddressInside
<1>7. AccessOK'
  BY <1>2, NothingMoved DEF AccessOK, HandshakeNeverPanics
<1>8. QED
  BY <1>5, <1>6, <1>7 DEF IInv

LEMMA OtherPortStep ==
    ASSUME IInv, \/ xthdc_reset_write \/ xthdc_status_read
                 \/ xthdc_drive_sel_write \/ xthdc_mask_write
    PROVE  IInv' /\ AccessOK'
<1>1. TypeOK /\ PhaseVisible /\ IdleAsksNothing /\ AddressInside
  BY DEF IInv
<1>2. /\ moved' = <<>> /\ panic' = FALSE /\ polite' = TRUE /\ irq' = FALSE
      /\ n' \in Nat /\ UNCHANGED <<command, command_status, pos>>
  BY <1>1 DEF TypeOK, xthdc_reset_write, xthdc_status_read, xthdc_drive_sel_write,
              xthdc_mask_write
<1>3. /\ state' \in {"IDLE", "COMMAND", "INITIALIZE_DRIVE", "READ_SECTOR", "STATUS"}
      /\ status' \in SUBSET {"REQ", "IO", "CD", "XBSY", "IRQ"}
      /\ mask' \in SUBSET {"DRQEN", "IRQEN"}
      /\ selected' \in BOOLEAN
  BY <1>1 DEF TypeOK, xthdc_reset_write, xthdc_status_read, xthdc_drive_sel_write,
              xthdc_mask_write
<1>4. PhaseVisible' /\ IdleAsksNothing' /\ AddressInside'
  BY <1>1 DEF PhaseVisible, IdleAsksNothing, AddressInside, xthdc_reset_write,
              xthdc_status_read, xthdc_drive_sel_write, xthdc_mask_write
<1>5. TypeOK'
  BY <1>1, <1>2, <1>3, NothingMoved DEF TypeOK
<1>6. AccessOK'
  BY <1>2, NothingMoved DEF AccessOK, HandshakeNeverPanics
<1>7. QED
  BY <1>4, <1>5, <1>6 DEF IInv
-----------------------------------------------------------------------------
\* Every access to a port keeps the invariant and the two access properties.
LEMMA StepInv == IInv /\ AccessOK /\ [Next]_vars => IInv' /\ AccessOK'
<1> SUFFICES ASSUME IInv, AccessOK, [Next]_vars PROVE IInv' /\ AccessOK'
  OBVIOUS
<1>1. CASE write_command_byte  BY <1>1, CommandByteStep
<1>2. CASE start_dma  BY <1>2, DmaStep
<1>3. CASE start_pio  BY <1>3, PioStep
<1>4. CASE start_simple  BY <1>4, SimpleStep
<1>5. CASE start_initialize \/ write_initialize  BY <1>5, InitializeStep
<1>6. CASE write_unexpected \/ read_unexpected  BY <1>6, UnexpectedStep
<1>7. CASE read_status \/ read_sector  BY <1>7, ReadStep
<1>8. CASE \/ xthdc_reset_write \/ xthdc_status_read
           \/ xthdc_drive_sel_write \/ xthdc_mask_write
  BY <1>8, OtherPortStep
<1>9. CASE UNCHANGED vars
  BY <1>9 DEF vars, IInv, TypeOK, AddressInside, IdleAsksNothing, PhaseVisible,
              AccessOK, HandshakeNeverPanics, TransferIsLinear
<1>10. QED
  BY <1>1, <1>2, <1>3, <1>4, <1>5, <1>6, <1>7, <1>8, <1>9
     DEF Next, xthdc_data_write, xthdc_data_read

\* IInv and the two properties of the last access hold in every reachable
\* state of the controller.
THEOREM Invariance == Spec => [](IInv /\ AccessOK)
<1>1. Init => IInv /\ AccessOK
  <2>1. Init => AccessOK
    <3> SUFFICES ASSUME Init PROVE AccessOK
      OBVIOUS
    <3>1. moved = <<>> /\ Len(moved) = 0 /\ panic = FALSE
      BY DEF Init
    <3>2. QED
      BY <3>1 DEF AccessOK, HandshakeNeverPanics, TransferIsLinear
  <2>2. QED
    BY <2>1, InitInv
<1>2. QED
  BY <1>1, StepInv, PTL DEF Spec

\* The controller's variables keep their types: no command byte, data phase or
\* carry of a transfer takes the position off the disk.
THEOREM TypeCorrect == Spec => []TypeOK
<1>1. IInv /\ AccessOK => TypeOK
  BY DEF IInv
<1>2. QED
  BY <1>1, Invariance, PTL

\* Handshake: an access that follows the REQ and IO bits after a selection,
\* with implemented commands and clear of the end of the disk, never panics,
\* whatever the geometry and the DMA count.
THEOREM HandshakeSafe == Spec => []HandshakeNeverPanics
<1>1. IInv /\ AccessOK => HandshakeNeverPanics
  BY DEF AccessOK
<1>2. QED
  BY <1>1, Invariance, PTL

\* The status register shows the phase of the command that is under way.
THEOREM PhaseSafe == Spec => []PhaseVisible
<1>1. IInv /\ AccessOK => PhaseVisible
  BY DEF IInv
<1>2. QED
  BY <1>1, Invariance, PTL

\* The bytes of a DMA transfer of any length are consecutive in the image from
\* the addressed sector on, for every geometry.
THEOREM LinearTransfer == Spec => []TransferIsLinear
<1>1. IInv /\ AccessOK => TransferIsLinear
  BY DEF AccessOK
<1>2. QED
  BY <1>1, Invariance, PTL
=============================================================================
