------------------------------- MODULE Dp8390 -------------------------------
(***************************************************************************)
(* The network card (dp8390.c): the command and interrupt registers, and   *)
(* the receive ring of pages in card memory.  dp8390_execute writes a      *)
(* frame with its header at CURR; the guest's driver reads frames through  *)
(* remote DMA, follows the next-page pointer in each header and moves the  *)
(* boundary register behind it.                                            *)
(*                                                                         *)
(* Frames start on a page and the ring is made of whole pages, so memory   *)
(* is modelled page by page: which part of which frame a page holds.       *)
(***************************************************************************)
EXTENDS Integers, Sequences

CONSTANTS
    PageSize,         \* DP8390_PAGE_SIZE
    PageModulus,      \* registers CURR, PSTART, PSTOP have 8 bits: 256
    PStart, PStop,    \* the ring the driver has set up
    Lengths,          \* frame lengths the network may deliver
    Ids,              \* to tell frames apart
    Masks,            \* values the driver writes to IMR
    MaxUnread         \* bound on unread frames

Header == 4

ASSUME Dp8390Assumption ==
    /\ PageSize \in Nat /\ PageSize > Header
    /\ PStart \in Nat \ {0} /\ PStop \in Nat /\ PStart < PStop
    /\ PageModulus \in Nat /\ PStop < PageModulus
    \* Byte addresses of the ring are beyond every page number: 256 pages of
    \* 256 bytes, and the ring does not start at page zero.
    /\ PageModulus <= PStart * PageSize
    /\ Masks \subseteq SUBSET {"PRX", "PTX", "RDC"}
    /\ MaxUnread \in Nat
    \* A frame is shorter than the ring, and 8 bits count the pages past it.
    /\ Lengths \subseteq Nat
    /\ \A len \in Lengths :
          /\ (len + Header) \div PageSize + 1 < PStop - PStart
          /\ (len + Header) \div PageSize + PStop < PageModulus

RingPages == PStart .. PStop - 1
Bits == {"PRX", "PTX", "RDC", "RST"}        \* of ISR; the first three of IMR
NoFrame == [id |-> "none", len |-> 0]
Frame == [id : Ids, len : Lengths]

VARIABLES
    isr, imr,
    curr, bnry,       \* page registers
    ring,             \* page contents: frame, part number and header
    irq,              \* the last step called fe2010_irq for COM2
    queue,            \* frames received and not yet read
    want,             \* where the driver reads next
    spoilt            \* a page of an unread frame was overwritten

vars == <<isr, imr, curr, bnry, ring, irq, queue, want, spoilt>>

Page == [frame : Frame \cup {NoFrame}, part : Nat, next : 0 .. PageModulus - 1]
Blank == [frame |-> NoFrame, part |-> 0, next |-> 0]

TypeOK ==
    /\ isr \in SUBSET Bits /\ imr \in SUBSET {"PRX", "PTX", "RDC"}
    /\ curr \in 0 .. PageModulus - 1 /\ bnry \in 0 .. PageModulus - 1
    /\ ring \in [RingPages -> Page]
    /\ irq \in BOOLEAN /\ spoilt \in BOOLEAN
    /\ queue \in Seq(Frame)
    /\ want \in 0 .. PageModulus - 1

\* The card after the driver has set up the ring and started it.
Init ==
    /\ isr = {} /\ imr = {}
    /\ curr = PStart /\ bnry = PStart /\ want = PStart
    /\ ring = [p \in RingPages |-> Blank]
    /\ irq = FALSE /\ spoilt = FALSE
    /\ queue = <<>>
-----------------------------------------------------------------------------
(* Reception: dp8390_execute.                                              *)

ByteCount(len) == len + Header

\* Faulty: a frame that ends inside a page does not keep the page.
NextPacketShort(len) ==
    LET n == (curr + ByteCount(len) \div PageSize) % PageModulus
    IN IF n >= PStop THEN PStart + (n - PStop) ELSE n

\* next_packet has eight bits and is brought back into the ring.
NextPacket(len) ==
    LET n == (curr + ByteCount(len) \div PageSize + 1) % PageModulus
    IN IF n >= PStop THEN PStart + (n - PStop) ELSE n

\* The k-th page from CURR on: the local DMA address wraps at PSTOP.
PageAt(k) == PStart + ((curr - PStart + k) % (PStop - PStart))

\* Pages a frame of this length occupies, counted from zero.
Parts(len) == 0 .. (ByteCount(len) - 1) \div PageSize

\* dp8390_ring_rx refuses a byte when the byte address equals the boundary
\* page number. Ring addresses start at PStart * PageSize.
Refused == bnry \in PStart * PageSize .. PStop * PageSize - 1

Written(f) ==
    [p \in RingPages |->
        IF \E k \in Parts(f.len) : PageAt(k) = p
        THEN [frame |-> f, part |-> CHOOSE k \in Parts(f.len) : PageAt(k) = p,
              next |-> NextPacket(f.len)]
        ELSE ring[p]]

\* Pages from the driver's position up to CURR hold unread frames.
Unread == IF queue = <<>> THEN {}
          ELSE IF want < curr THEN want .. curr - 1
          ELSE (want .. PStop - 1) \cup (PStart .. curr - 1)

Claimed(len) == 0 .. ByteCount(len) \div PageSize

Receive(f) ==
    /\ Len(queue) < MaxUnread
    /\ ring' = IF Refused THEN ring ELSE Written(f)
    /\ curr' = NextPacket(f.len)
    /\ queue' = Append(queue, f)
    /\ spoilt' = \/ spoilt
                 \/ \E k \in Claimed(f.len) : PageAt(k) \in Unread
                 \/ NextPacket(f.len) = want

\* Called by the main loop when rx_ready is set.
dp8390_execute(f) ==
    /\ Receive(f)
    /\ isr' = isr \cup {"PRX"}
    /\ irq' = ("PRX" \in imr)
    /\ UNCHANGED <<imr, bnry, want>>
-----------------------------------------------------------------------------
(* Register writes.                                                        *)

\* The command register: stop, start, transmit (which hands the frame to the
\* network and takes its reply f at once), and remote DMA, in this order.
cr_write(stop, start, txp, dma, f) ==
    /\ txp \/ f = NoFrame
    /\ LET reset == IF start THEN {} ELSE IF stop THEN {"RST"} ELSE isr \cap {"RST"}
           new == (IF txp THEN {"PTX"} ELSE {}) \cup
                  (IF f # NoFrame THEN {"PRX"} ELSE {}) \cup
                  (IF dma THEN {"RDC"} ELSE {})
       IN /\ isr' = (isr \ {"RST"}) \cup reset \cup new
          /\ irq' = (new \cap imr # {})
    /\ IF f = NoFrame THEN UNCHANGED <<ring, curr, queue, spoilt>> ELSE Receive(f)
    /\ UNCHANGED <<imr, bnry, want>>

isr_write(clear) ==
    /\ isr' = isr \ clear
    /\ irq' = FALSE
    /\ UNCHANGED <<imr, curr, bnry, ring, queue, want, spoilt>>

imr_write(mask) ==
    /\ imr' = mask
    /\ irq' = FALSE
    /\ UNCHANGED <<isr, curr, bnry, ring, queue, want, spoilt>>

\* The driver takes the frame at its position through the data port (the
\* remote address wraps where the local one does), goes where its header
\* says and moves the boundary to the page before.
ReadFrame ==
    /\ want # curr /\ queue # <<>>
    /\ want \in RingPages
    /\ want' = ring[want].next
    /\ bnry' = IF want' = PStart THEN PStop - 1 ELSE (want' - 1) % PageModulus
    /\ queue' = Tail(queue)
    /\ irq' = FALSE
    /\ UNCHANGED <<isr, imr, curr, ring, spoilt>>

reset_write ==
    /\ isr' = isr \cup {"RST"}
    /\ irq' = FALSE
    /\ UNCHANGED <<imr, curr, bnry, ring, queue, want, spoilt>>

Next ==
    \/ \E f \in Frame : dp8390_execute(f)
    \/ \E stop, start, txp, dma \in BOOLEAN, f \in Frame \cup {NoFrame} :
          cr_write(stop, start, txp, dma, f)
    \/ \E clear \in SUBSET Bits : isr_write(clear)
    \/ \E mask \in Masks : imr_write(mask)
    \/ ReadFrame \/ reset_write

Spec == Init /\ [][Next]_vars
-----------------------------------------------------------------------------
(* Properties.                                                             *)

\* CURR never leaves the ring. As long as no unread frame has been overwritten,
\* the driver gets exactly what arrived: the chain of next-page pointers from
\* its position visits the frames in order and ends at CURR, every page of
\* every one of them, on both sides of the wrap, holds the part it should, and
\* the driver's position meets CURR only when nothing is unread.
ChainIntact ==
    /\ curr \in RingPages
    /\ ~spoilt =>
      LET n == Len(queue)
          start[i \in 1 .. n + 1] == IF i = 1 THEN want ELSE ring[start[i - 1]].next
          page(i, k) == PStart + ((start[i] - PStart + k) % (PStop - PStart))
      IN /\ start[n + 1] = curr
         /\ want = curr <=> queue = <<>>
         /\ \A i \in 1 .. n : \A k \in Parts(queue[i].len) :
               /\ ring[page(i, k)].frame = queue[i]
               /\ ring[page(i, k)].part = k
=============================================================================
