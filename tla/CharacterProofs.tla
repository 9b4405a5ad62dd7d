-------------------------- MODULE CharacterProofs --------------------------
(***************************************************************************)
(* Proofs about the two devices that bring characters in through a ring.   *)
(* For I8250, with rings of any size and any set of bytes: the rings are   *)
(* two bounded first-in first-out lines, and the signals that announce a   *)
(* received byte are never wrong. For Console, with any characters and a   *)
(* FIFO of any size that holds the codes of one key behind those a zero    *)
(* has left: every key that is pressed is released.                        *)
(***************************************************************************)
EXTENDS I8250, Console, SequenceTheorems, WellFoundedInduction, TLAPS

-----------------------------------------------------------------------------
(* Rings.                                                                  *)

\* Advancing an index wraps once, at the last slot (i8250.c ring indices).
LEMMA AdvanceWraps ==
    ASSUME NEW i \in Index
    PROVE  Advance(i) = IF i = RingSize - 1 THEN 0 ELSE i + 1
<1>1. CASE i = RingSize - 1
  <2>1. i + 1 = RingSize
    BY <1>1, RingAssumption DEF Index
  <2>2. RingSize % RingSize = 0
    BY RingAssumption
  <2> QED
    BY <1>1, <2>1, <2>2 DEF Advance
<1>2. CASE i # RingSize - 1
  <2>1. i + 1 \in 0 .. RingSize - 1
    BY <1>2, RingAssumption DEF Index
  <2>2. (i + 1) % RingSize = i + 1
    BY <2>1, RingAssumption
  <2> QED
    BY <1>2, <2>2 DEF Advance
<1> QED
  BY <1>1, <1>2

\* The ring operations return rings (i8250_*_fifo_read, i8250_*_fifo_write).
LEMMA GetType ==
    ASSUME NEW r \in RingType
    PROVE  RingGet(r) \in RingType /\ RingFront(r) \in Bytes \cup {NoByte}
<1>1. Advance(r.tail) \in Index
  BY AdvanceWraps, RingAssumption DEF RingType, Index
<1> QED
  BY <1>1 DEF RingGet, RingFront, RingType

LEMMA PutType ==
    ASSUME NEW r \in RingType, NEW b \in Bytes
    PROVE  RingPut(r, b) \in RingType
<1>1. Advance(r.head) \in Index
  BY AdvanceWraps, RingAssumption DEF RingType, Index
<1> QED
  BY <1>1 DEF RingPut, RingType

\* The queue of a ring is a sequence of at most RingSize - 1 entries.
LEMMA ContentsType ==
    ASSUME NEW r \in RingType
    PROVE  /\ RingCount(r) \in 0 .. RingSize - 1
           /\ RingContents(r) \in Seq(Bytes \cup {NoByte})
           /\ Len(RingContents(r)) = RingCount(r)
           /\ \A k \in 1 .. RingCount(r) :
                 RingContents(r)[k] = r.slot[RingSlot(r, k)]
<1>1. RingCount(r) \in 0 .. RingSize - 1
  BY RingAssumption DEF RingType, RingCount, Index
<1>2. \A k \in 1 .. RingCount(r) : RingSlot(r, k) \in Index
  BY <1>1, RingAssumption DEF RingType, RingCount, RingSlot, Index
<1>3. RingContents(r) \in [1 .. RingCount(r) -> Bytes \cup {NoByte}]
  BY <1>2 DEF RingContents, RingType
<1> QED
  BY <1>1, <1>3 DEF RingContents

\* Writing appends to the queue, or drops the byte when the queue is at its
\* capacity (i8250_rx_fifo_write, i8250_tx_fifo_write).
LEMMA PutIsOffer ==
    ASSUME NEW r \in RingType, NEW b \in Bytes
    PROVE  RingContents(RingPut(r, b)) = Line!Offer(RingContents(r), b)
<1> DEFINE s == RingPut(r, b)
<1>0. RingCount(r) \in Nat /\ Len(RingContents(r)) = RingCount(r)
  BY ContentsType, RingAssumption
<1>1. CASE RingIsFull(r)
  <2>1. RingCount(r) = RingSize - 1
    BY <1>1, AdvanceWraps, RingAssumption
    DEF RingIsFull, RingCount, RingType, Index
  <2>2. ~(Len(RingContents(r)) < RingSize - 1)
    BY <2>1, <1>0, RingAssumption
  <2> QED
    BY <1>1, <2>2 DEF RingPut, Line!Offer
<1>2. CASE ~RingIsFull(r)
  <2>1. /\ s = [r EXCEPT !.slot[r.head] = b, !.head = Advance(@)]
        /\ s \in RingType
    BY <1>2, PutType DEF RingPut
  <2>2. /\ s.head = Advance(r.head) /\ s.tail = r.tail
        /\ s.slot = [r.slot EXCEPT ![r.head] = b]
    BY <2>1 DEF RingType
  <2>3. RingCount(s) = RingCount(r) + 1
    BY <1>2, <2>2, AdvanceWraps, RingAssumption
    DEF RingIsFull, RingCount, RingType, Index
  <2>4. RingCount(r) < RingSize - 1
    BY <2>1, <2>3, ContentsType, RingAssumption, <1>0
  <2>5. \A k \in 1 .. RingCount(r) + 1 : RingSlot(s, k) = RingSlot(r, k)
    BY <2>2 DEF RingSlot
  <2>6. RingSlot(r, RingCount(r) + 1) = r.head
    BY <2>4, RingAssumption DEF RingSlot, RingCount, RingType, Index
  <2>7. \A k \in 1 .. RingCount(r) : RingSlot(r, k) \in Index /\ RingSlot(r, k) # r.head
    BY <1>0, <2>4, RingAssumption DEF RingSlot, RingCount, RingType, Index
  <2>8. r.head \in Index /\ r.slot \in [Index -> Bytes \cup {NoByte}]
    BY DEF RingType
  <2>9. \A k \in 1 .. RingCount(r) + 1 :
           s.slot[RingSlot(s, k)] =
             IF k = RingCount(r) + 1 THEN b ELSE RingContents(r)[k]
    <3> TAKE k \in 1 .. RingCount(r) + 1
    <3>1. CASE k = RingCount(r) + 1
      BY <3>1, <2>2, <2>5, <2>6, <2>8
    <3>2. CASE k # RingCount(r) + 1
      <4>1. k \in 1 .. RingCount(r)
        BY <3>2, <1>0
      <4>2. RingSlot(s, k) = RingSlot(r, k)
        BY <2>5
      <4>3. s.slot[RingSlot(r, k)] = r.slot[RingSlot(r, k)]
        BY <4>1, <2>2, <2>7, <2>8
      <4> QED
        BY <3>2, <4>1, <4>2, <4>3, ContentsType
    <3> QED
      BY <3>1, <3>2
  <2>10. /\ RingContents(s) \in Seq(Bytes \cup {NoByte})
         /\ Len(RingContents(s)) = RingCount(r) + 1
         /\ \A k \in 1 .. RingCount(r) + 1 :
               RingContents(s)[k] = s.slot[RingSlot(s, k)]
    BY <2>1, <2>3, ContentsType
  <2>11. /\ Append(RingContents(r), b) \in Seq(Bytes \cup {NoByte})
         /\ Len(Append(RingContents(r), b)) = RingCount(r) + 1
         /\ \A k \in 1 .. RingCount(r) :
               Append(RingContents(r), b)[k] = RingContents(r)[k]
         /\ Append(RingContents(r), b)[RingCount(r) + 1] = b
    <3> HIDE DEF s
    <3>1. RingContents(r) \in Seq(Bytes \cup {NoByte}) /\ b \in Bytes \cup {NoByte}
      BY ContentsType
    <3> QED
      BY <1>0, <3>1, AppendProperties
  <2>12. \A k \in 1 .. RingCount(r) + 1 :
            RingContents(s)[k] = Append(RingContents(r), b)[k]
    <3> HIDE DEF s
    <3> QED
      BY <1>0, <2>9, <2>10, <2>11
  <2>13. RingContents(s) = Append(RingContents(r), b)
    <3> HIDE DEF s
    <3> QED
      BY <2>10, <2>11, <2>12, SeqEqual
  <2> QED
    BY <2>4, <2>13, <1>0 DEF Line!Offer
<1> QED
  BY <1>1, <1>2

\* Reading takes the oldest byte (i8250_rx_fifo_read, i8250_tx_fifo_read).
LEMMA GetIsRest ==
    ASSUME NEW r \in RingType
    PROVE  /\ RingContents(RingGet(r)) = Line!Rest(RingContents(r))
           /\ RingFront(r) = Line!Front(RingContents(r))
           /\ RingIsEmpty(r) <=> RingContents(r) = <<>>
           /\ ~RingIsEmpty(r) => RingFront(r) = Head(RingContents(r))
<1> DEFINE s == RingGet(r)
<1>0. /\ RingCount(r) \in Nat /\ Len(RingContents(r)) = RingCount(r)
      /\ RingContents(r) \in Seq(Bytes \cup {NoByte})
      /\ \A k \in 1 .. RingCount(r) : RingContents(r)[k] = r.slot[RingSlot(r, k)]
  BY ContentsType, RingAssumption
<1>1. RingIsEmpty(r) <=> RingCount(r) = 0
  BY RingAssumption DEF RingIsEmpty, RingCount, RingType, Index
<1>2. RingIsEmpty(r) <=> RingContents(r) = <<>>
  BY <1>0, <1>1
<1>3. CASE RingIsEmpty(r)
  BY <1>2, <1>3 DEF RingGet, RingFront, Line!Rest, Line!Front
<1>4. CASE ~RingIsEmpty(r)
  <2>1. RingCount(r) \in Nat \ {0}
    BY <1>0, <1>1, <1>4
  <2>2. RingSlot(r, 1) = r.tail
    BY RingAssumption DEF RingSlot, RingType, Index
  <2>3. Head(RingContents(r)) = r.slot[r.tail]
    BY <1>0, <2>1, <2>2
  <2>4. s = [r EXCEPT !.tail = Advance(r.tail)]
    BY <1>4 DEF RingGet
  <2>5. s.head = r.head /\ s.tail = Advance(r.tail) /\ s.slot = r.slot
    BY <2>4 DEF RingType
  <2>6. RingCount(s) = RingCount(r) - 1
    BY <1>4, <2>5, AdvanceWraps, RingAssumption
    DEF RingIsEmpty, RingCount, RingType, Index
  <2>7. \A k \in 1 .. RingCount(r) - 1 : RingSlot(s, k) = RingSlot(r, k + 1)
    <3> TAKE k \in 1 .. RingCount(r) - 1
    <3>1. /\ r.tail \in 0 .. RingSize - 1 /\ k \in Nat \ {0}
          /\ RingCount(r) \in 0 .. RingSize - 1 /\ k < RingCount(r)
      BY <2>1, ContentsType DEF RingType, Index
    <3>2. Advance(r.tail) = IF r.tail = RingSize - 1 THEN 0 ELSE r.tail + 1
      BY AdvanceWraps DEF RingType
    <3>3. RingSlot(s, k) = IF Advance(r.tail) + k - 1 < RingSize
                           THEN Advance(r.tail) + k - 1
                           ELSE Advance(r.tail) + k - 1 - RingSize
      BY <2>5 DEF RingSlot
    <3>4. RingSlot(r, k + 1) = IF r.tail + k < RingSize THEN r.tail + k
                               ELSE r.tail + k - RingSize
      BY <3>1, RingAssumption DEF RingSlot
    <3> HIDE DEF s
    <3> QED
      BY <3>1, <3>2, <3>3, <3>4, RingAssumption
  <2>8. s \in RingType
    <3>1. Advance(r.tail) \in Index
      BY AdvanceWraps, RingAssumption DEF RingType, Index
    <3> QED
      BY <2>4, <3>1 DEF RingType
  <2>9. /\ RingContents(s) \in Seq(Bytes \cup {NoByte})
        /\ Len(RingContents(s)) = RingCount(r) - 1
        /\ \A k \in 1 .. RingCount(r) - 1 :
              RingContents(s)[k] = r.slot[RingSlot(r, k + 1)]
    BY <2>5, <2>6, <2>7, <2>8, ContentsType
  <2>10. \A k \in 1 .. RingCount(r) - 1 : k + 1 \in 1 .. RingCount(r)
    BY <2>1
  <2>11. /\ Tail(RingContents(r)) \in Seq(Bytes \cup {NoByte})
         /\ Len(Tail(RingContents(r))) = RingCount(r) - 1
         /\ \A k \in 1 .. RingCount(r) - 1 :
               Tail(RingContents(r))[k] = RingContents(r)[k + 1]
    <3> HIDE DEF s
    <3> QED
      BY <1>0, <1>2, <1>4, HeadTailProperties
  <2>12. RingContents(s) = Tail(RingContents(r))
    <3> HIDE DEF s
    <3>1. \A k \in 1 .. RingCount(r) - 1 :
             RingContents(s)[k] = Tail(RingContents(r))[k]
      BY <1>0, <2>9, <2>10, <2>11
    <3> QED
      BY <2>9, <2>11, <3>1, SeqEqual
  <2> QED
    BY <1>2, <1>4, <2>3, <2>12 DEF RingFront, Line!Rest, Line!Front
<1> QED
  BY <1>3, <1>4
-----------------------------------------------------------------------------
(* The type invariant and the truth of the signals.                        *)

IInv == TypeOK /\ ReadySignalsAreTrue

\* A byte offered to a ring leaves it non-empty, full or not.
LEMMA PutNotEmpty ==
    ASSUME NEW r \in RingType, NEW b \in Bytes
    PROVE  ~RingIsEmpty(RingPut(r, b))
<1>1. Advance(r.head) # r.head /\ r.head \in Index
  BY AdvanceWraps, RingAssumption DEF RingType, Index
<1>2. CASE RingIsFull(r)
  BY <1>1, <1>2 DEF RingPut, RingIsFull, RingIsEmpty
<1>3. CASE ~RingIsFull(r)
  BY <1>1, <1>3 DEF RingPut, RingIsFull, RingIsEmpty, RingType
<1> QED
  BY <1>2, <1>3

LEMMA InitInv == Init => IInv
<1>1. EmptyRing \in RingType
  BY RingAssumption DEF EmptyRing, RingType, Index
<1> QED
  BY <1>1 DEF Init, IInv, TypeOK, ReadySignalsAreTrue

LEMMA StepInv == IInv /\ [Next]_vars => IInv'
<1> SUFFICES ASSUME IInv, [Next]_vars PROVE IInv'
  OBVIOUS
<1> USE DEF IInv, TypeOK, ReadySignalsAreTrue
<1>1. CASE rbr_read
  <2>1. RingGet(rx) \in RingType /\ RingFront(rx) \in Bytes \cup {NoByte}
    BY GetType
  <2> QED
    BY <1>1, <2>1 DEF rbr_read
<1>2. CASE iir_read
  BY <1>2 DEF iir_read
<1>3. ASSUME NEW b \in Bytes, thr_write(b) PROVE IInv'
  BY <1>3, PutType DEF thr_write
<1>4. ASSUME NEW e \in SUBSET {"RBR", "THR"}, ier_write(e) PROVE IInv'
  BY <1>4 DEF ier_write
<1>5. CASE lcr_write
  BY <1>5 DEF lcr_write
<1>6. CASE mode_write
  BY <1>6 DEF mode_write
<1>7. ASSUME NEW b \in Bytes \cup {NoByte}, i8250_execute(b) PROVE IInv'
  <2>1. /\ tx' \in RingType /\ sent' \in Bytes \cup {NoByte}
        /\ UNCHANGED <<ier, dlab, selected, given>>
    BY <1>7, GetType DEF i8250_execute
  <2>2. /\ rx' \in RingType /\ irq' \in BOOLEAN
        /\ iir' \in {"NONE", "RBR", "THR"} /\ data_ready' \in BOOLEAN
    BY <1>7, PutType DEF i8250_execute
  <2>3. CASE b = NoByte
    BY <1>7, <2>1, <2>2, <2>3 DEF i8250_execute
  <2>4. CASE b # NoByte
    <3>1. data_ready' /\ rx' = RingPut(rx, b) /\ b \in Bytes
      BY <1>7, <2>4 DEF i8250_execute
    <3>2. ~RingIsEmpty(rx')
      BY <3>1, PutNotEmpty
    <3> QED
      BY <2>1, <2>2, <3>1, <3>2
  <2> QED
    BY <2>3, <2>4
<1>8. CASE UNCHANGED vars
  BY <1>8 DEF vars, RingIsEmpty
<1> QED
  BY <1>1, <1>2, <1>3, <1>4, <1>5, <1>6, <1>7, <1>8 DEF Next, Guest, Poll

\* The registers and rings keep their types and no signal is ever false.
THEOREM Invariance == Spec => []IInv
<1> QED
  BY InitInv, StepInv, PTL DEF Spec

\* Whenever the line status or the interrupt identification announces a
\* received byte, rbr_read finds one.
THEOREM SignalsTrue == Spec => []ReadySignalsAreTrue
<1>1. IInv => ReadySignalsAreTrue
  BY DEF IInv
<1> QED
  BY <1>1, Invariance, PTL
-----------------------------------------------------------------------------
(* The rings implement the abstract line.                                  *)

LEMMA InitRefines == Init => Line!Init
<1>1. RingContents(EmptyRing) = <<>>
  <2>1. EmptyRing \in RingType /\ RingIsEmpty(EmptyRing)
    BY RingAssumption DEF EmptyRing, RingType, Index, RingIsEmpty
  <2> QED
    BY <2>1, GetIsRest
<1> QED
  BY <1>1 DEF Init, Line!Init

LEMMA StepRefines == TypeOK /\ [Next]_vars => [Line!Next]_(Line!vars)
<1> SUFFICES ASSUME TypeOK, [Next]_vars PROVE [Line!Next]_(Line!vars)
  OBVIOUS
<1>0. rx \in RingType /\ tx \in RingType
  BY DEF TypeOK
<1>1. CASE rbr_read
  <2>1. Line!GuestReads
    BY <1>0, <1>1, GetIsRest DEF rbr_read, Line!GuestReads
  <2> QED
    BY <2>1 DEF Line!Next
<1>2. CASE iir_read
  BY <1>2 DEF iir_read, Line!vars
<1>3. ASSUME NEW b \in Bytes, thr_write(b) PROVE Line!Next
  <2>1. Line!GuestWrites(b)
    BY <1>0, <1>3, PutIsOffer DEF thr_write, Line!GuestWrites
  <2> QED
    BY <2>1 DEF Line!Next
<1>4. ASSUME NEW e \in SUBSET {"RBR", "THR"}, ier_write(e) PROVE UNCHANGED Line!vars
  BY <1>4 DEF ier_write, Line!vars
<1>5. CASE lcr_write
  BY <1>5 DEF lcr_write, Line!vars
<1>6. CASE mode_write
  BY <1>6 DEF mode_write, Line!vars
<1>7. ASSUME NEW b \in Bytes \cup {NoByte}, i8250_execute(b) PROVE Line!Next
  <2>1. RingContents(rx') = IF b = NoByte THEN RingContents(rx)
                            ELSE Line!Offer(RingContents(rx), b)
    BY <1>0, <1>7, PutIsOffer DEF i8250_execute
  <2>2. /\ RingContents(tx') = Line!Rest(RingContents(tx))
        /\ sent' = IF RingContents(tx) = <<>> THEN sent ELSE Head(RingContents(tx))
        /\ given' = given
    BY <1>0, <1>7, GetIsRest DEF i8250_execute
  <2>3. Line!HostPolls(b)
    BY <2>1, <2>2 DEF Line!HostPolls
  <2> QED
    BY <2>3 DEF Line!Next
<1>8. CASE UNCHANGED vars
  BY <1>8 DEF vars, Line!vars
<1> QED
  BY <1>1, <1>2, <1>3, <1>4, <1>5, <1>6, <1>7, <1>8 DEF Next, Guest, Poll

\* The UART implements the bounded first-in first-out serial line, for rings
\* of any size: no byte is reordered, repeated or lost except at a full ring.
THEOREM PassthroughRefinement == Spec => Passthrough
<1>1. IInv => TypeOK
  BY DEF IInv
<1> QED
  BY <1>1, InitRefines, StepRefines, Invariance, PTL DEF Spec, Passthrough, Line!Spec
-----------------------------------------------------------------------------
(* The keyboard, from here on.                                             *)

Scancodes == 0 .. 255

\* The keys that are down once the code in the port has been read too.
Told == IF unread THEN Held(down, scancode) ELSE down

\* The places in q of the codes of key k.
About(k, q) == {i \in 1 .. Len(q) : q[i] # None /\ q[i] % 128 = k}

\* Key k is up when the codes of q have gone out: the last one about it is a
\* break code, or there is none and the key is up already.
Up(k, keys, q) ==
    \/ About(k, q) = {} /\ k \notin keys
    \/ \E i \in About(k, q) : q[i] >= 128 /\ \A j \in About(k, q) : j <= i

\* The FIFO holds one zero at most, with at most two codes behind it, and five
\* codes in all.
Shape(q) ==
    /\ Len(q) <= 5
    /\ \A i \in 1 .. Len(q) : q[i] = None => Len(q) - i <= 2
    /\ \A i, j \in 1 .. Len(q) : q[i] = None /\ q[j] = None => i = j

KeysUp == ~lost => \A k \in Keys \cup {None} : Up(k, Told, fifo)

KeyboardInv == KeyboardTypeOK /\ Shape(fifo) /\ KeysUp

\* Key codes have seven bits, codes eight.
LEMMA CodeTypes ==
    /\ Keys \cup {None} \subseteq 0 .. 127
    /\ Codes \subseteq Scancodes
    /\ \A k \in Keys : k \in Codes /\ Break(k) \in Codes
    /\ \A ch \in Chars : ch.code \in Keys
    /\ {LCTRL, LSHIFT, LALT, SCROLL} \subseteq Keys \ {None}
<1>1. \A ch \in Chars : ch.code \in 0 .. 127
  BY ConsoleAssumption
<1> QED
  BY <1>1 DEF Keys, Codes, Break, None, Bat, LCTRL, LSHIFT, LALT, SCROLL, Scancodes

LEMMA QueueFacts ==
    ASSUME NEW q \in Seq(Scancodes)
    PROVE  /\ DOMAIN q = 1 .. Len(q) /\ Len(q) \in Nat
           /\ \A i \in 1 .. Len(q) : q[i] \in 0 .. 255
<1>1. \A i \in 1 .. Len(q) : q[i] \in Scancodes
  BY ElementOfSeq
<1> QED
  BY <1>1, LenProperties DEF Scancodes

\* The last element of a set of places.
LEMMA LastPlace ==
    ASSUME NEW n \in Nat, NEW P \in SUBSET (1 .. n), P # {}
    PROVE  \E i \in P : \A j \in P : j <= i
<1> DEFINE R == {ss \in Nat \X Nat : ss[1] < ss[2]}
           T == {n - i : i \in P}
<1>1. IsWellFoundedOn(R, Nat)
  BY NatLessThanWellFounded DEF OpToRel
<1>2. T \in SUBSET Nat /\ T # {}
  <2>1. \A i \in P : n - i \in Nat
    OBVIOUS
  <2> QED
    BY <2>1
<1> HIDE DEF R, T
<1>3. PICK u \in T : \A t \in T : ~(<<t, u>> \in R)
  BY <1>1, <1>2, WFMin
<1>4. \A t \in T : ~(t < u)
  BY <1>2, <1>3 DEF R
<1>5. PICK i \in P : u = n - i
  BY DEF T
<1>6. \A j \in P : n - j \in T
  BY DEF T
<1>7. \A j \in P : j <= i
  BY <1>4, <1>5, <1>6
<1> QED
  BY <1>7

\* DownAfter looks at the last code about the key.
LEMMA UpIsNotDown ==
    ASSUME NEW k \in 0 .. 127, NEW keys, NEW q \in Seq(Scancodes)
    PROVE  Up(k, keys, q) <=> ~DownAfter(k, keys, q)
<1>1. DOMAIN q = 1 .. Len(q) /\ Len(q) \in Nat /\ \A i \in 1 .. Len(q) : q[i] \in 0 .. 255
  BY QueueFacts
<1> DEFINE last == CHOOSE i \in About(k, q) : \A j \in About(k, q) : j <= i
<1>2. DownAfter(k, keys, q) <=>
        IF About(k, q) = {} THEN k \in keys ELSE q[last] < 128
  BY <1>1 DEF DownAfter, About
<1>3. ASSUME About(k, q) # {}
      PROVE  last \in About(k, q) /\ \A j \in About(k, q) : j <= last
  <2>1. About(k, q) \in SUBSET (1 .. Len(q))
    BY DEF About
  <2>2. \E i \in About(k, q) : \A j \in About(k, q) : j <= i
    BY <1>1, <1>3, <2>1, LastPlace
  <2> QED
    BY <2>2
<1>4. \A i \in About(k, q) : i \in Nat /\ q[i] \in 0 .. 255
  BY <1>1 DEF About
<1> HIDE DEF last
<1>5. CASE About(k, q) = {}
  <2>1. ~ \E i \in About(k, q) : TRUE
    BY <1>5
  <2> QED
    BY <1>2, <1>5, <2>1 DEF Up
<1>6. CASE About(k, q) # {}
  <2>1. \A i \in About(k, q) : (\A j \in About(k, q) : j <= i) => i = last
    BY <1>3, <1>4, <1>6
  <2>2. Up(k, keys, q) <=> q[last] >= 128
    BY <1>3, <1>6, <2>1 DEF Up
  <2>3. DownAfter(k, keys, q) <=> q[last] < 128
    BY <1>2, <1>6
  <2>4. q[last] \in 0 .. 255
    BY <1>3, <1>4, <1>6
  <2>5. \A b \in 0 .. 255 : b >= 128 <=> ~(b < 128)
    OBVIOUS
  <2> QED
    BY <2>2, <2>3, <2>4, <2>5
<1> QED
  BY <1>5, <1>6

\* A code that goes out does to the keys what it did in the queue
\* (console_scancode_fifo_read, fe2010_scancode_read).
LEMMA UpAfterTail ==
    ASSUME NEW k \in 0 .. 127, NEW keys, NEW q \in Seq(Scancodes), q # <<>>, Up(k, keys, q)
    PROVE  /\ Head(q) = None => Up(k, keys, Tail(q))
           /\ Head(q) # None => Up(k, Held(keys, Head(q)), Tail(q))
<1>1. /\ Len(q) \in Nat \ {0} /\ Len(Tail(q)) = Len(q) - 1 /\ Head(q) = q[1]
      /\ \A i \in 1 .. Len(q) - 1 : Tail(q)[i] = q[i + 1]
      /\ \A i \in 1 .. Len(q) : q[i] \in 0 .. 255
  <2>1. Len(q) \in Nat \ {0}
    BY EmptySeq
  <2>2. Len(Tail(q)) = Len(q) - 1 /\ \A i \in 1 .. Len(Tail(q)) : Tail(q)[i] = q[i + 1]
    BY HeadTailProperties
  <2>3. /\ DOMAIN q = 1 .. Len(q)
        /\ \A i \in 1 .. Len(q) : q[i] \in 0 .. 255
    BY QueueFacts
  <2>4. Head(q) = q[1]
    BY <2>1
  <2> QED
    BY <2>1, <2>2, <2>3, <2>4
<1>2. About(k, Tail(q)) = {i \in 1 .. Len(q) - 1 : i + 1 \in About(k, q)}
  BY <1>1 DEF About
<1>3. 1 \in About(k, q) <=> q[1] # None /\ q[1] % 128 = k
  BY <1>1 DEF About
<1>4. \A i \in About(k, q) : i \in 1 .. Len(q)
  BY DEF About
<1>5. q[1] % 128 = IF q[1] >= 128 THEN q[1] - 128 ELSE q[1]
  <2>1. q[1] \in 0 .. 255
    BY <1>1
  <2>2. \A b \in 0 .. 255 : b % 128 = IF b >= 128 THEN b - 128 ELSE b
    OBVIOUS
  <2> QED
    BY <2>1, <2>2
<1>6. CASE About(k, q) = {}
  <2>1. About(k, Tail(q)) = {}
    BY <1>2, <1>6
  <2>2. k \notin keys
    BY <1>6 DEF Up
  <2>3. q[1] # None => k \notin Held(keys, q[1])
    BY <1>1, <1>3, <1>5, <1>6, <2>2 DEF Held
  <2> QED
    BY <1>1, <2>1, <2>2, <2>3 DEF Up
<1>7. CASE About(k, q) # {}
  <2>1. PICK i \in About(k, q) : q[i] >= 128 /\ \A j \in About(k, q) : j <= i
    BY <1>7 DEF Up
  <2>2. CASE i = 1
    <3>1. \A j \in About(k, q) : j = 1
      BY <1>1, <1>4, <2>1, <2>2
    <3>2. About(k, Tail(q)) = {}
      BY <1>1, <1>2, <3>1
    <3>3. q[1] # None /\ q[1] - 128 = k
      BY <1>3, <1>5, <2>1, <2>2
    <3>4. k \notin Held(keys, q[1])
      BY <2>1, <2>2, <3>3 DEF Held
    <3> QED
      BY <1>1, <3>2, <3>3, <3>4 DEF Up
  <2>3. CASE i # 1
    <3>1. i - 1 \in 1 .. Len(q) - 1 /\ (i - 1) + 1 = i
      BY <1>1, <1>4, <2>3
    <3>2. i - 1 \in About(k, Tail(q)) /\ Tail(q)[i - 1] = q[i]
      BY <1>1, <1>2, <2>1, <3>1
    <3>3. \A j \in About(k, Tail(q)) : j <= i - 1
      BY <1>1, <1>2, <1>4, <2>1
    <3> QED
      BY <2>1, <3>2, <3>3 DEF Up
  <2> QED
    BY <2>2, <2>3
<1> QED
  BY <1>6, <1>7

\* A code that joins the queue (console_scancode_fifo_write).
LEMMA UpAfterAppend ==
    ASSUME NEW k \in 0 .. 127, NEW keys, NEW q \in Seq(Scancodes), NEW c \in Scancodes
    PROVE  /\ c >= 128 /\ c % 128 = k => Up(k, keys, Append(q, c))
           /\ (c = None \/ c % 128 # k) /\ Up(k, keys, q) => Up(k, keys, Append(q, c))
<1> DEFINE n == Len(q)
           p == Append(q, c)
<1>1. /\ n \in Nat /\ Len(p) = n + 1 /\ p[n + 1] = c
      /\ \A i \in 1 .. n : p[i] = q[i] /\ q[i] \in 0 .. 255
  <2>1. /\ Len(Append(q, c)) = Len(q) + 1
        /\ \A i \in 1 .. Len(q) : Append(q, c)[i] = q[i]
        /\ Append(q, c)[Len(q) + 1] = c
    BY AppendProperties
  <2> QED
    BY <2>1, QueueFacts
<1> HIDE DEF n, p
<1>2. About(k, p) = {i \in 1 .. n + 1 : p[i] # None /\ p[i] % 128 = k}
  BY <1>1 DEF About
<1>3. ASSUME c >= 128, c % 128 = k PROVE Up(k, keys, p)
  <2>1. n + 1 \in About(k, p) /\ \A j \in About(k, p) : j <= n + 1
    BY <1>1, <1>2, <1>3 DEF None
  <2> QED
    BY <1>1, <1>3, <2>1 DEF Up
<1>4. ASSUME c = None \/ c % 128 # k, Up(k, keys, q) PROVE Up(k, keys, p)
  <2>1. About(k, p) = About(k, q)
    <3>1. About(k, q) = {i \in 1 .. n : q[i] # None /\ q[i] % 128 = k}
      BY DEF About, n
    <3> QED
      BY <1>1, <1>2, <1>4, <3>1
  <2>2. \A i \in About(k, q) : p[i] = q[i]
    BY <1>1 DEF About, n
  <2> QED
    BY <1>4, <2>1, <2>2 DEF Up
<1> QED
  BY <1>3, <1>4 DEF p

\* A key is up behind its make and break codes (console_execute_keyboard).
LEMMA UpAfterStroke ==
    ASSUME NEW k \in 0 .. 127, NEW keys, NEW q \in Seq(Scancodes), NEW key \in 0 .. 127,
           Up(k, keys, q)
    PROVE  Up(k, Held(keys, key), Append(q, Break(key)))
<1>1. Held(keys, key) = keys \cup {key} /\ Break(key) \in Scancodes /\ Break(key) >= 128
  BY DEF Held, Break, Scancodes
<1>2. Break(key) % 128 = key
  BY DEF Break
<1>3. CASE k = key
  BY <1>1, <1>2, <1>3, UpAfterAppend
<1>4. CASE k # key
  <2>1. Up(k, Held(keys, key), q)
    BY <1>1, <1>4 DEF Up
  <2> QED
    BY <1>1, <1>2, <1>4, <2>1, UpAfterAppend
<1> QED
  BY <1>3, <1>4

\* So are a modifier and a key that is pressed while it is held.
LEMMA UpAfterChord ==
    ASSUME NEW k \in 0 .. 127, NEW keys, NEW q \in Seq(Scancodes), NEW key \in 0 .. 127,
           NEW modifier \in 0 .. 127, Up(k, keys, q)
    PROVE  Up(k, Held(keys, modifier),
              Append(Append(Append(q, key), Break(key)), Break(modifier)))
<1> DEFINE q1 == Append(q, key)
           q2 == Append(q1, Break(key))
           q3 == Append(q2, Break(modifier))
           now == Held(keys, modifier)
<1>1. /\ now = keys \cup {modifier}
      /\ {key, Break(key), Break(modifier)} \subseteq Scancodes
      /\ Break(key) >= 128 /\ Break(modifier) >= 128
      /\ key % 128 = key /\ Break(key) % 128 = key /\ Break(modifier) % 128 = modifier
  BY DEF Held, Break, Scancodes
<1>2. q1 \in Seq(Scancodes) /\ q2 \in Seq(Scancodes)
  BY <1>1, AppendProperties
<1> HIDE DEF q1, q2, q3, now
<1>3. ASSUME k = modifier PROVE Up(k, now, q3)
  BY <1>1, <1>2, <1>3, UpAfterAppend DEF q3
<1>4. ASSUME k # modifier, k = key PROVE Up(k, now, q3)
  <2>1. Up(k, now, q2)
    BY <1>1, <1>2, <1>4, UpAfterAppend DEF q2
  <2> QED
    BY <1>1, <1>2, <1>4, <2>1, UpAfterAppend DEF q3
<1>5. ASSUME k # modifier, k # key PROVE Up(k, now, q3)
  <2>1. Up(k, now, q)
    BY <1>1, <1>5 DEF Up
  <2>2. Up(k, now, q1)
    BY <1>1, <1>5, <2>1, UpAfterAppend DEF q1
  <2>3. Up(k, now, q2)
    BY <1>1, <1>2, <1>5, <2>2, UpAfterAppend DEF q2
  <2> QED
    BY <1>1, <1>2, <1>5, <2>3, UpAfterAppend DEF q3
<1> QED
  BY <1>3, <1>4, <1>5 DEF q1, q2, q3, now
-----------------------------------------------------------------------------
\* Codes that go out, and what they leave (console_scancode_fifo_read).
LEMMA AfterRead ==
    ASSUME KeyboardInv, NEW q, q = console_scancode_fifo_read(fifo)
    PROVE  /\ q \in Seq(Codes) /\ q \in Seq(Scancodes) /\ Shape(q) /\ Len(q) < FifoSize
           /\ FifoFront(fifo) = None =>
                 /\ Len(q) <= 2 /\ \A i \in 1 .. Len(q) : q[i] # None
                 /\ ~lost => \A k \in Keys \cup {None} : Up(k, Told, q)
           /\ FifoFront(fifo) # None =>
                 /\ FifoFront(fifo) \in Codes
                 /\ ~lost => \A k \in Keys \cup {None} : Up(k, Held(Told, FifoFront(fifo)), q)
<1>1. fifo \in Seq(Codes) /\ fifo \in Seq(Scancodes) /\ Len(fifo) \in Nat /\ Shape(fifo)
      /\ FifoSize \in Nat /\ FifoSize > 5
  BY CodeTypes, SeqMonotonic, LenProperties, ConsoleAssumption DEF KeyboardInv, KeyboardTypeOK
<1>2. CASE fifo = <<>>
  <2>1. q = fifo /\ FifoFront(fifo) = None /\ Len(q) = 0
    BY <1>1, <1>2, EmptySeq DEF console_scancode_fifo_read, FifoFront
  <2> QED
    BY <1>1, <2>1 DEF KeyboardInv, KeysUp
<1>3. CASE fifo # <<>>
  <2>1. q = Tail(fifo) /\ FifoFront(fifo) = Head(fifo)
    BY <1>3 DEF console_scancode_fifo_read, FifoFront
  <2>2. Len(fifo) \in Nat \ {0}
    BY <1>1, <1>3, EmptySeq
  <2>3. /\ q \in Seq(Codes) /\ q \in Seq(Scancodes) /\ Head(fifo) \in Codes
        /\ Len(q) = Len(fifo) - 1 /\ \A i \in 1 .. Len(q) : q[i] = fifo[i + 1]
    BY <1>1, <1>3, <2>1, HeadTailProperties
  <2>4. Head(fifo) = fifo[1]
    BY <2>2
  <2>5. Shape(q)
    BY <1>1, <2>2, <2>3 DEF Shape
  <2>6. ASSUME fifo[1] = None PROVE Len(q) <= 2 /\ \A i \in 1 .. Len(q) : q[i] # None
    BY <1>1, <2>2, <2>3, <2>6 DEF Shape
  <2>7. ASSUME ~lost, NEW k \in Keys \cup {None}
        PROVE  /\ Head(fifo) = None => Up(k, Told, q)
               /\ Head(fifo) # None => Up(k, Held(Told, Head(fifo)), q)
    <3>1. k \in 0 .. 127 /\ Up(k, Told, fifo)
      BY <2>7, CodeTypes DEF KeyboardInv, KeysUp
    <3> QED
      BY <1>1, <1>3, <2>1, <3>1, UpAfterTail
  <2> QED
    BY <1>1, <2>1, <2>2, <2>3, <2>4, <2>5, <2>6, <2>7 DEF Shape
<1> QED
  BY <1>2, <1>3

\* What a code in the port means (fe2010_keyboard_press).
LEMMA PressTold ==
    ASSUME KeyboardTypeOK, NEW code \in Codes, fe2010_keyboard_press(code)
    PROVE  /\ ~lost' => ~lost /\ Told' = Held(Told, code)
           /\ scancode' \in Codes /\ unread' \in BOOLEAN /\ lost' \in BOOLEAN
           /\ UNCHANGED <<keyclock, down>>
BY DEF fe2010_keyboard_press, Told, Held, KeyboardTypeOK

\* A key with its modifier, and a key alone, find room in the FIFO.
LEMMA StrokeOK ==
    ASSUME KeyboardInv, FifoFront(fifo) = None, NEW key \in Keys, Stroke(key),
           alt_toggle' \in BOOLEAN, UNCHANGED mouse_data
    PROVE  KeyboardInv'
<1> DEFINE q == console_scancode_fifo_read(fifo)
<1>1. /\ q \in Seq(Codes) /\ q \in Seq(Scancodes) /\ Len(q) <= 2 /\ Len(q) \in Nat
      /\ \A i \in 1 .. Len(q) : q[i] # None
      /\ ~lost => \A k \in Keys \cup {None} : Up(k, Told, q)
  BY AfterRead, LenProperties
<1>2. FifoSize \in Nat /\ FifoSize > 5
  BY ConsoleAssumption
<1> HIDE DEF q
<1>3. fifo' = Append(q, Break(key))
  BY <1>1, <1>2 DEF Stroke, console_scancode_fifo_write, q
<1>4. key \in 0 .. 127 /\ Break(key) \in Codes /\ Break(key) # None /\ key \in Codes
  BY CodeTypes DEF Break, None
<1>5. /\ fifo' \in Seq(Codes) /\ Len(fifo') = Len(q) + 1
      /\ \A i \in 1 .. Len(q) : fifo'[i] = q[i]
      /\ fifo'[Len(q) + 1] = Break(key)
  BY <1>1, <1>3, <1>4, AppendProperties
<1>6. Shape(fifo)'
  <2>1. \A i \in 1 .. Len(fifo') : fifo'[i] # None
    BY <1>1, <1>4, <1>5
  <2> QED
    BY <1>1, <1>5, <2>1 DEF Shape
<1>7. /\ ~lost' => ~lost /\ Told' = Held(Told, key)
      /\ scancode' \in Codes /\ unread' \in BOOLEAN /\ lost' \in BOOLEAN
      /\ UNCHANGED <<keyclock, down>>
  BY <1>4, PressTold DEF Stroke, KeyboardInv
<1>8. KeyboardTypeOK'
  BY <1>1, <1>2, <1>5, <1>7 DEF KeyboardInv, KeyboardTypeOK
<1>9. KeysUp'
  <2> SUFFICES ASSUME ~lost', NEW k \in Keys \cup {None} PROVE Up(k, Told', fifo')
    BY DEF KeysUp
  <2>1. k \in 0 .. 127 /\ Up(k, Told, q)
    BY <1>1, <1>7, CodeTypes
  <2> QED
    BY <1>1, <1>3, <1>4, <1>7, <2>1, UpAfterStroke
<1> QED
  BY <1>6, <1>8, <1>9 DEF KeyboardInv

LEMMA ChordOK ==
    ASSUME KeyboardInv, FifoFront(fifo) = None, NEW key \in Keys,
           NEW modifier \in Keys \ {None}, Chord(modifier, key),
           alt_toggle' \in BOOLEAN, UNCHANGED mouse_data
    PROVE  KeyboardInv'
<1> DEFINE q == console_scancode_fifo_read(fifo)
           q1 == Append(q, key)
           q2 == Append(q1, Break(key))
<1>1. /\ q \in Seq(Codes) /\ q \in Seq(Scancodes) /\ Len(q) <= 2 /\ Len(q) \in Nat
      /\ \A i \in 1 .. Len(q) : q[i] # None
      /\ ~lost => \A k \in Keys \cup {None} : Up(k, Told, q)
  BY AfterRead, LenProperties
<1>2. FifoSize \in Nat /\ FifoSize > 5
  BY ConsoleAssumption
<1> HIDE DEF q
<1>3. /\ key \in 0 .. 127 /\ key \in Codes /\ Break(key) \in Codes /\ Break(key) # None
      /\ modifier \in 0 .. 127 /\ modifier \in Codes /\ Break(modifier) \in Codes
      /\ Break(modifier) # None
  BY CodeTypes DEF Break, None
<1>4. /\ q1 \in Seq(Codes) /\ Len(q1) = Len(q) + 1 /\ q1[Len(q) + 1] = key
      /\ \A i \in 1 .. Len(q) : q1[i] = q[i]
  BY <1>1, <1>3, AppendProperties
<1> HIDE DEF q1
<1>5. /\ q2 \in Seq(Codes) /\ Len(q2) = Len(q) + 2 /\ q2[Len(q) + 2] = Break(key)
      /\ \A i \in 1 .. Len(q) + 1 : q2[i] = q1[i]
  BY <1>1, <1>3, <1>4, AppendProperties
<1> HIDE DEF q2
<1>6. fifo' = Append(q2, Break(modifier))
  <2>1. console_scancode_fifo_write(q, key) = q1
    BY <1>1, <1>2 DEF console_scancode_fifo_write, q1
  <2>2. console_scancode_fifo_write(q1, Break(key)) = q2
    BY <1>1, <1>2, <1>4 DEF console_scancode_fifo_write, q2
  <2>3. console_scancode_fifo_write(q2, Break(modifier)) = Append(q2, Break(modifier))
    BY <1>1, <1>2, <1>5 DEF console_scancode_fifo_write
  <2> QED
    BY <2>1, <2>2, <2>3 DEF Chord, q
<1>7. /\ fifo' \in Seq(Codes) /\ Len(fifo') = Len(q) + 3
      /\ fifo'[Len(q) + 3] = Break(modifier)
      /\ \A i \in 1 .. Len(q) + 2 : fifo'[i] = q2[i]
  BY <1>1, <1>3, <1>5, <1>6, AppendProperties
<1>8. Shape(fifo)'
  <2>1. /\ fifo'[Len(q) + 2] = Break(key)
        /\ \A i \in 1 .. Len(q) : fifo'[i] = q[i]
    BY <1>1, <1>4, <1>5, <1>7
  <2>2. \A i \in 1 .. Len(fifo') : fifo'[i] = None => i = Len(q) + 1
    BY <1>1, <1>3, <1>7, <2>1
  <2> QED
    BY <1>1, <1>7, <2>2 DEF Shape
<1>9. /\ ~lost' => ~lost /\ Told' = Held(Told, modifier)
      /\ scancode' \in Codes /\ unread' \in BOOLEAN /\ lost' \in BOOLEAN
      /\ UNCHANGED <<keyclock, down>>
  BY <1>3, PressTold DEF Chord, KeyboardInv
<1>10. KeyboardTypeOK'
  BY <1>1, <1>2, <1>7, <1>9 DEF KeyboardInv, KeyboardTypeOK
<1>11. KeysUp'
  <2> SUFFICES ASSUME ~lost', NEW k \in Keys \cup {None} PROVE Up(k, Told', fifo')
    BY DEF KeysUp
  <2>1. k \in 0 .. 127 /\ Up(k, Told, q)
    BY <1>1, <1>9, CodeTypes
  <2> QED
    BY <1>1, <1>3, <1>6, <1>9, <2>1, UpAfterChord DEF q1, q2
<1> QED
  BY <1>8, <1>10, <1>11 DEF KeyboardInv

\* A code from the FIFO goes out.
LEMMA DeliverOK == ASSUME KeyboardInv, DeliverCode PROVE KeyboardInv'
<1> DEFINE q == console_scancode_fifo_read(fifo)
           code == FifoFront(fifo)
<1>1. /\ q \in Seq(Codes) /\ Shape(q) /\ Len(q) < FifoSize /\ code \in Codes
      /\ ~lost => \A k \in Keys \cup {None} : Up(k, Held(Told, code), q)
  BY AfterRead DEF DeliverCode
<1>2. fifo' = q /\ fe2010_keyboard_press(code) /\ UNCHANGED <<alt_toggle, mouse_data>>
  BY DEF DeliverCode
<1> HIDE DEF q, code
<1>3. /\ ~lost' => ~lost /\ Told' = Held(Told, code)
      /\ scancode' \in Codes /\ unread' \in BOOLEAN /\ lost' \in BOOLEAN
      /\ UNCHANGED <<keyclock, down>>
  BY <1>1, <1>2, PressTold DEF KeyboardInv
<1>4. KeyboardTypeOK'
  BY <1>1, <1>2, <1>3 DEF KeyboardInv, KeyboardTypeOK
<1>5. KeysUp'
  BY <1>1, <1>2, <1>3 DEF KeysUp
<1> QED
  BY <1>1, <1>2, <1>4, <1>5 DEF KeyboardInv

\* A character of the terminal.
LEMMA TypeOneOK == ASSUME KeyboardInv, TypeCharacter PROVE KeyboardInv'
<1>1. PICK ch \in Chars : \E shifted \in console_character_is_shifted(ch) :
         LET modifier == Modifier(ch, shifted)
             key == console_xt_keyboard_scancode(ch)
         IN /\ IF modifier = None THEN Stroke(key) ELSE Chord(modifier, key)
            /\ alt_toggle' = (alt_toggle /\ modifier # LALT)
  BY DEF TypeCharacter
<1>2. PICK shifted \in console_character_is_shifted(ch) :
         LET modifier == Modifier(ch, shifted)
             key == console_xt_keyboard_scancode(ch)
         IN /\ IF modifier = None THEN Stroke(key) ELSE Chord(modifier, key)
            /\ alt_toggle' = (alt_toggle /\ modifier # LALT)
  BY <1>1
<1> DEFINE modifier == Modifier(ch, shifted)
<1>3. /\ FifoFront(fifo) = None /\ alt_toggle' \in BOOLEAN /\ UNCHANGED mouse_data
      /\ ch.code \in Keys
  BY <1>2, CodeTypes DEF TypeCharacter
<1>4. shifted \in BOOLEAN
  <2>1. ch.kind \in Kinds
    BY ConsoleAssumption
  <2> QED
    BY <2>1 DEF console_character_is_shifted, Kinds
<1>5. modifier \in {LSHIFT, LCTRL, LALT, None}
  BY <1>4 DEF Modifier, console_character_is_control
<1>6. CASE modifier = None
  BY <1>2, <1>3, <1>6, StrokeOK DEF console_xt_keyboard_scancode
<1>7. CASE modifier # None
  <2>1. modifier \in Keys \ {None}
    BY <1>5, <1>7, CodeTypes
  <2> QED
    BY <1>2, <1>3, <1>7, <2>1, ChordOK DEF console_xt_keyboard_scancode
<1> QED
  BY <1>6, <1>7

LEMMA F12OK == ASSUME KeyboardInv, TypeF12 PROVE KeyboardInv'
<1>1. SCROLL \in Keys /\ LCTRL \in Keys \ {None}
  BY CodeTypes
<1>2. /\ FifoFront(fifo) = None /\ Chord(LCTRL, SCROLL) /\ UNCHANGED <<alt_toggle, mouse_data>>
      /\ alt_toggle' \in BOOLEAN
  BY DEF TypeF12, KeyboardInv, KeyboardTypeOK
<1> QED
  BY <1>1, <1>2, ChordOK

\* A poll that at most takes a zero out of the FIFO.
LEMMA QuietOK ==
    ASSUME KeyboardInv, FifoFront(fifo) = None, fifo' = console_scancode_fifo_read(fifo),
           alt_toggle' \in BOOLEAN, mouse_data' \in Buttons \cup {"none"},
           UNCHANGED <<keyclock, scancode, unread, down, lost>>
    PROVE  KeyboardInv'
<1>1. /\ fifo' \in Seq(Codes) /\ Shape(fifo') /\ Len(fifo') < FifoSize
      /\ ~lost => \A k \in Keys \cup {None} : Up(k, Told, fifo')
  BY AfterRead
<1>2. KeyboardTypeOK'
  BY <1>1 DEF KeyboardInv, KeyboardTypeOK
<1>3. Told' = Told
  BY DEF Told, Held
<1>4. KeysUp'
  BY <1>1, <1>3 DEF KeysUp
<1> QED
  BY <1>1, <1>2, <1>4 DEF KeyboardInv

\* The code in the port goes to the guest (fe2010_scancode_read).
LEMMA ReadsOK == ASSUME KeyboardInv, GuestReads PROVE KeyboardInv'
<1>1. Told' = Told
  BY DEF GuestReads, Told, Held
<1>2. KeyboardTypeOK'
  <2>1. down' \subseteq Keys \cup {None}
    <3>1. scancode \in Codes /\ down \subseteq Keys \cup {None} /\ down' = Held(down, scancode)
      BY DEF GuestReads, KeyboardInv, KeyboardTypeOK
    <3>2. scancode >= 128 \/ scancode \in Keys \cup {None}
      BY <3>1, CodeTypes DEF Codes, Break, Bat
    <3> QED
      BY <3>1, <3>2 DEF Held
  <2> QED
    BY <2>1 DEF GuestReads, input, KeyboardInv, KeyboardTypeOK
<1>3. KeysUp'
  BY <1>1 DEF GuestReads, input, KeysUp, KeyboardInv
<1> QED
  BY <1>2, <1>3 DEF GuestReads, input, KeyboardInv, Shape

\* The self-test code releases at most the left shift (fe2010_ctrl_write).
LEMMA CtrlWriteOK == ASSUME KeyboardInv, GuestCtrlWrite PROVE KeyboardInv'
<1>1. PICK clear \in BOOLEAN, clock \in BOOLEAN :
         LET rising == clock /\ ~keyclock
         IN /\ keyclock' = clock
            /\ scancode' = IF rising THEN Bat ELSE IF clear THEN None ELSE scancode
            /\ unread' = (rising \/ (unread /\ ~clear))
            /\ lost' = (lost \/ (unread /\ (rising \/ clear)))
  BY DEF GuestCtrlWrite
<1>2. UNCHANGED <<fifo, alt_toggle, mouse_data, down>>
  BY DEF GuestCtrlWrite, input
<1>3. KeyboardTypeOK'
  BY <1>1, <1>2 DEF KeyboardInv, KeyboardTypeOK, Codes
<1>4. KeysUp'
  <2> SUFFICES ASSUME ~lost', NEW k \in Keys \cup {None} PROVE Up(k, Told', fifo')
    BY DEF KeysUp
  <2>0. ~(unread /\ ((clock /\ ~keyclock) \/ clear))
    BY <1>1
  <2>1. ~lost /\ Up(k, Told, fifo)
    BY <1>1 DEF KeyboardInv, KeysUp
  <2>2. Told' = Told \/ Told' = Told \ {LSHIFT}
    <3>1. unread \in BOOLEAN
      BY DEF KeyboardInv, KeyboardTypeOK
    <3>2. CASE clock /\ ~keyclock
      <4>1. ~unread /\ unread' /\ scancode' = Bat
        BY <1>1, <2>0, <3>1, <3>2
      <4>2. Held(down, Bat) = down \ {LSHIFT}
        BY DEF Held, Bat, LSHIFT
      <4> QED
        BY <1>2, <4>1, <4>2 DEF Told, Held
    <3>3. CASE ~(clock /\ ~keyclock) /\ unread
      <4>1. unread' /\ scancode' = scancode
        BY <1>1, <2>0, <3>3
      <4> QED
        BY <1>2, <3>3, <4>1 DEF Told, Held
    <3>4. CASE ~(clock /\ ~keyclock) /\ ~unread
      <4>1. ~unread'
        BY <1>1, <3>4
      <4> QED
        BY <1>2, <3>4, <4>1 DEF Told, Held
    <3> QED
      BY <3>2, <3>3, <3>4
  <2> QED
    BY <1>2, <2>1, <2>2 DEF Up
<1> QED
  BY <1>2, <1>3, <1>4 DEF KeyboardInv, Shape

LEMMA KeyboardStart == KeyboardInit => KeyboardInv
<1> SUFFICES ASSUME KeyboardInit PROVE KeyboardInv
  OBVIOUS
<1>1. fifo \in Seq(Codes) /\ Len(fifo) = 0
  BY EmptySeq DEF KeyboardInit
<1>2. KeyboardTypeOK
  <2>1. None \in Codes
    BY DEF Codes
  <2> QED
    <3>1. Len(fifo) < FifoSize
      BY <1>1, ConsoleAssumption
    <3>2. /\ alt_toggle \in BOOLEAN /\ keyclock \in BOOLEAN /\ unread \in BOOLEAN
          /\ lost \in BOOLEAN
      BY DEF KeyboardInit
    <3>3. scancode \in Codes /\ down \subseteq Keys \cup {None}
          /\ mouse_data \in Buttons \cup {"none"}
      BY <2>1 DEF KeyboardInit
    <3> QED
      BY <1>1, <3>1, <3>2, <3>3 DEF KeyboardTypeOK
<1>3. Shape(fifo)
  BY <1>1 DEF Shape
<1>4. KeysUp
  BY <1>1 DEF KeysUp, Up, About, Told, KeyboardInit
<1> QED
  BY <1>2, <1>3, <1>4 DEF KeyboardInv

LEMMA KeyboardStep == KeyboardInv /\ [KeyboardNext]_keyboard_vars => KeyboardInv'
<1> SUFFICES ASSUME KeyboardInv, [KeyboardNext]_keyboard_vars PROVE KeyboardInv'
  OBVIOUS
<1>1. CASE DeliverCode
  BY <1>1, DeliverOK
<1>2. CASE TypeCharacter
  BY <1>2, TypeOneOK
<1>3. CASE TypeF12
  BY <1>3, F12OK
<1>4. CASE TypeF11
  BY <1>4, QuietOK DEF TypeF11, KeyboardInv, KeyboardTypeOK
<1>5. CASE MouseEvent
  BY <1>5, QuietOK DEF MouseEvent, KeyboardInv, KeyboardTypeOK
<1>6. CASE NoInput
  BY <1>6, QuietOK DEF NoInput, KeyboardInv, KeyboardTypeOK
<1>7. CASE GuestReads
  BY <1>7, ReadsOK
<1>8. CASE GuestCtrlWrite
  BY <1>8, CtrlWriteOK
<1>9. CASE UNCHANGED keyboard_vars
  <2>1. Told' = Told
    BY <1>9 DEF keyboard_vars, Told, Held
  <2> QED
    BY <1>9, <2>1 DEF keyboard_vars, KeyboardInv, KeyboardTypeOK, Shape, KeysUp
<1> QED
  BY <1>1, <1>2, <1>3, <1>4, <1>5, <1>6, <1>7, <1>8, <1>9
     DEF KeyboardNext, console_execute_keyboard

\* The inductive invariant of the keyboard holds in every reachable state.
THEOREM KeyboardInvariance == KeyboardSpec => []KeyboardInv
BY KeyboardStart, KeyboardStep, PTL DEF KeyboardSpec

\* The codes in the FIFO and in the port release every key that the guest has
\* been told is down, for any characters and any FIFO of six places or more:
\* however fast the typing, no break code finds the FIFO full.
THEOREM KeysReleased == KeyboardSpec => []KeysBalance
<1>1. KeyboardInv => KeysBalance
  <2> SUFFICES ASSUME KeyboardInv, ~lost, NEW k \in Keys \cup {None}
               PROVE  ~DownAfter(k, Told, fifo)
    BY DEF KeysBalance, Told
  <2>1. k \in 0 .. 127 /\ fifo \in Seq(Scancodes)
    BY CodeTypes, SeqMonotonic DEF KeyboardInv, KeyboardTypeOK
  <2>2. Up(k, Told, fifo)
    BY DEF KeyboardInv, KeysUp
  <2> QED
    BY <2>1, <2>2, UpIsNotDown
<1> QED
  BY <1>1, KeyboardInvariance, PTL
=============================================================================
