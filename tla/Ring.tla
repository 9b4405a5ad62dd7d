-------------------------------- MODULE Ring --------------------------------
(***************************************************************************)
(* The ring buffer the program uses for serial bytes (i8250.c) in both     *)
(* directions: an array with a head and a tail index.  One slot stays      *)
(* free, so equal indices mean empty and the capacity is RingSize - 1.     *)
(***************************************************************************)
EXTENDS Integers, Sequences

CONSTANTS
    RingSize,     \* I8250_RX_FIFO_SIZE, I8250_TX_FIFO_SIZE
    Bytes,
    NoByte        \* an unused slot, a call that finds no byte

ASSUME RingAssumption == RingSize \in Nat /\ RingSize >= 2 /\ NoByte \notin Bytes

Index == 0 .. RingSize - 1

RingType == [slot : [Index -> Bytes \cup {NoByte}], head : Index, tail : Index]

EmptyRing == [slot |-> [i \in Index |-> NoByte], head |-> 0, tail |-> 0]

Advance(i) == (i + 1) % RingSize

RingIsEmpty(r) == r.tail = r.head
RingIsFull(r) == Advance(r.head) = r.tail

\* i8250_rx_fifo_read, i8250_tx_fifo_read: the byte given and the ring after.
RingFront(r) == IF RingIsEmpty(r) THEN NoByte ELSE r.slot[r.tail]
RingGet(r) == IF RingIsEmpty(r) THEN r ELSE [r EXCEPT !.tail = Advance(@)]

\* A writer that uses the last slot too.
RingPutUnchecked(r, b) ==
    [r EXCEPT !.slot[r.head] = b, !.head = Advance(@)]

\* i8250_rx_fifo_write, i8250_tx_fifo_write: a full ring drops the byte.
RingPut(r, b) ==
    IF RingIsFull(r) THEN r
    ELSE [r EXCEPT !.slot[r.head] = b, !.head = Advance(@)]
-----------------------------------------------------------------------------
(* The queue a ring stands for, oldest byte first.                         *)

RingCount(r) == IF r.head >= r.tail THEN r.head - r.tail
                ELSE r.head - r.tail + RingSize

RingSlot(r, k) == IF r.tail + k - 1 < RingSize THEN r.tail + k - 1
                  ELSE r.tail + k - 1 - RingSize

RingContents(r) == [k \in 1 .. RingCount(r) |-> r.slot[RingSlot(r, k)]]
=============================================================================
