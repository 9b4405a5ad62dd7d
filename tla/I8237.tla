------------------------------- MODULE I8237 --------------------------------
(***************************************************************************)
(* The DMA controller of the FE2010 (fe2010.c): address and count          *)
(* registers of 16 bits written and read through byte ports that share one *)
(* flip-flop, page and mode registers, and the transfers that the floppy   *)
(* and hard disk controllers start.                                        *)
(*                                                                         *)
(* Two drivers use it: the task programs the floppy channel, and the       *)
(* handler of an interrupt, which may come while it does, the hard disk    *)
(* channel. The drivers are guest code. They keep interrupts off between   *)
(* the two bytes of a register: ports 0x0C and 0x0D, which reset the       *)
(* flip-flop of the real chip, are not connected.                          *)
(***************************************************************************)
EXTENDS Integers

CONSTANTS
    Base,           \* values of a byte, 256 in the program
    Pages,          \* pages of WordSize bytes in memory, 16 in the program
    ReadOnly,       \* addresses of ROM
    Requests        \* what the drivers may ask for

WordSize == Base * Base
Word == 0 .. WordSize - 1
MemSize == Pages * WordSize

Modes == {"verify", "write", "read"}
Directions == {"write", "read"}         \* of memory
Request == [addr : Word, page : 0 .. Base - 1, count : Word,
            mode : Modes, dir : Directions]

ASSUME I8237Assumption ==
    /\ Base \in Nat \ {0, 1}
    /\ Pages \in Nat \ {0}
    /\ ReadOnly \subseteq Nat
    /\ Requests \subseteq Request

VARIABLES
    dma_reg,        \* address and count of channel c at 2 * c and 2 * c + 1
    dma_flip_flop,
    dma_mode,
    dma_page,
    pc,             \* where each driver is
    want,           \* what each driver has been asked for
    got,            \* the count it has read back
    moved           \* the last transfer

chip == <<dma_reg, dma_flip_flop, dma_mode, dma_page>>
dma_vars == <<dma_reg, dma_flip_flop, dma_mode, dma_page, pc, want, got, moved>>

Drivers == {"task", "handler"}
Channel == [task |-> 2, handler |-> 3]     \* FE2010_DMA_FLOPPY_DISK, HARD_DISK

Places == {"idle", "mode", "addr1", "addr2", "page", "count1", "count2",
           "go", "read1", "read2", "done"}

\* An address that a byte came from where there is no memory.
Nowhere == -1

NoTransfer == [asked |-> FALSE, bytes |-> <<>>]

DmaTypeOK ==
    /\ dma_reg \in [0 .. 7 -> Word]
    /\ dma_flip_flop \in BOOLEAN
    /\ dma_mode \in [0 .. 3 -> Modes]
    /\ dma_page \in [0 .. 3 -> 0 .. Base - 1]
    /\ pc \in [Drivers -> Places]
    /\ want \in [Drivers -> Request]
    /\ got \in [Drivers -> Word]

DmaInit ==
    /\ dma_reg = [r \in 0 .. 7 |-> 0]
    /\ dma_flip_flop = FALSE
    /\ dma_mode = [c \in 0 .. 3 |-> "verify"]
    /\ dma_page = [c \in 0 .. 3 |-> 0]
    /\ pc = [d \in Drivers |-> "idle"]
    /\ want \in [Drivers -> Requests]
    /\ got = [d \in Drivers |-> 0]
    /\ moved = NoTransfer
-----------------------------------------------------------------------------
(* The chip.                                                               *)

\* The first byte replaces the register, the second is added above it.
i8237_dma_reg_write(r, v) ==
    /\ dma_reg' = [dma_reg EXCEPT ![r] =
                     IF dma_flip_flop THEN (@ + v * Base) % WordSize ELSE v]
    /\ dma_flip_flop' = ~dma_flip_flop
    /\ UNCHANGED <<dma_mode, dma_page>>

DmaByte(r) == IF dma_flip_flop THEN dma_reg[r] \div Base ELSE dma_reg[r] % Base

\* Faulty: a read leaves the flip-flop alone.
reg_read_peeks(d, r) ==
    /\ got' = [got EXCEPT ![d] = IF pc[d] = "read1" THEN DmaByte(r)
                                 ELSE (@ + DmaByte(r) * Base) % WordSize]
    /\ UNCHANGED chip

\* The driver puts the two bytes together, lower one first.
i8237_dma_reg_read(d, r) ==
    /\ got' = [got EXCEPT ![d] = IF pc[d] = "read1" THEN DmaByte(r)
                                 ELSE (@ + DmaByte(r) * Base) % WordSize]
    /\ dma_flip_flop' = ~dma_flip_flop
    /\ UNCHANGED <<dma_reg, dma_mode, dma_page>>

i8237_dma_mode_write(c, mode) ==
    /\ dma_mode' = [dma_mode EXCEPT ![c] = mode]
    /\ UNCHANGED <<dma_reg, dma_flip_flop, dma_page>>

i8237_dma_page_write(c, page) ==
    /\ dma_page' = [dma_page EXCEPT ![c] = page]
    /\ UNCHANGED <<dma_reg, dma_flip_flop, dma_mode>>

DmaAddress(c) == dma_reg[2 * c] + dma_page[c] * WordSize
DmaCount(c) == dma_reg[2 * c + 1]

\* Byte i of the device goes to the i-th address (mem_write): not into ROM,
\* and above the last page there is only a panic. The address runs on from
\* one page to the next. The bytes that count are the ones that arrive.
fe2010_dma_write(c) ==
    IF dma_mode[c] # "write" THEN <<>>
    ELSE LET stored == {i \in 0 .. DmaCount(c) : /\ DmaAddress(c) + i < MemSize
                                                 /\ DmaAddress(c) + i \notin ReadOnly}
         IN [i \in stored |-> DmaAddress(c) + i]

\* Faulty: the count is taken for the number of bytes.
dma_read_short(c) ==
    IF dma_mode[c] # "read" THEN <<>>
    ELSE [i \in 0 .. DmaCount(c) - 1 |->
            IF DmaAddress(c) + i < MemSize THEN DmaAddress(c) + i ELSE Nowhere]

\* The device gets count + 1 bytes, 0xFF for those above the last page.
fe2010_dma_read(c) ==
    IF dma_mode[c] # "read" THEN <<>>
    ELSE [i \in 0 .. DmaCount(c) |->
            IF DmaAddress(c) + i < MemSize THEN DmaAddress(c) + i ELSE Nowhere]
-----------------------------------------------------------------------------
(* The drivers: while the handler runs, the task does not.                 *)

Turn(d) == d = "handler" \/ pc["handler"] = "idle"

\* The task has interrupts on, except between the two bytes of a register.
InterruptsOn == pc["task"] \notin {"addr2", "count2", "read2"}

Advance(d, from, to) == Turn(d) /\ pc[d] = from /\ pc' = [pc EXCEPT ![d] = to]

Begin(d) ==
    /\ d = "handler" => InterruptsOn
    /\ Advance(d, "idle", "mode")
    /\ \E r \in Requests : want' = [want EXCEPT ![d] = r]
    /\ UNCHANGED <<chip, got, moved>>

SetMode(d) ==
    /\ Advance(d, "mode", "addr1")
    /\ i8237_dma_mode_write(Channel[d], want[d].mode)
    /\ UNCHANGED <<want, got, moved>>

SetAddress(d) ==
    /\ \/ /\ Advance(d, "addr1", "addr2")
          /\ i8237_dma_reg_write(2 * Channel[d], want[d].addr % Base)
       \/ /\ Advance(d, "addr2", "page")
          /\ i8237_dma_reg_write(2 * Channel[d], want[d].addr \div Base)
    /\ UNCHANGED <<want, got, moved>>

SetPage(d) ==
    /\ Advance(d, "page", "count1")
    /\ i8237_dma_page_write(Channel[d], want[d].page)
    /\ UNCHANGED <<want, got, moved>>

SetCount(d) ==
    /\ \/ /\ Advance(d, "count1", "count2")
          /\ i8237_dma_reg_write(2 * Channel[d] + 1, want[d].count % Base)
       \/ /\ Advance(d, "count2", "go")
          /\ i8237_dma_reg_write(2 * Channel[d] + 1, want[d].count \div Base)
    /\ UNCHANGED <<want, got, moved>>

\* The driver gives its device a command, which calls fe2010_dma_write or
\* fe2010_dma_read at once.
Command(d) ==
    /\ Advance(d, "go", "read1")
    /\ moved' = [asked |-> TRUE, want |-> want[d],
                 bytes |-> IF want[d].dir = "write" THEN fe2010_dma_write(Channel[d])
                                                    ELSE fe2010_dma_read(Channel[d])]
    /\ UNCHANGED <<chip, want, got>>

ReadCount(d) ==
    /\ \/ Advance(d, "read1", "read2")
       \/ Advance(d, "read2", "done")
    /\ i8237_dma_reg_read(d, 2 * Channel[d] + 1)
    /\ UNCHANGED <<want, moved>>

End(d) == Advance(d, "done", "idle") /\ UNCHANGED <<chip, want, got, moved>>

DmaNext ==
    \E d \in Drivers :
        \/ Begin(d) \/ SetMode(d) \/ SetAddress(d) \/ SetPage(d) \/ SetCount(d)
        \/ Command(d) \/ ReadCount(d) \/ End(d)

DmaSpec == DmaInit /\ [][DmaNext]_dma_vars
-----------------------------------------------------------------------------
\* A transfer moves the bytes that its driver asked for, one by one from the
\* address it wanted, and none if the channel was set up for the other
\* direction (fe2010_dma_write, fe2010_dma_read), whatever the other driver
\* programmed in between through the shared flip-flop (i8237_dma_reg_write).
BlockAsRequested ==
    moved.asked =>
      LET w == moved.want
          start == w.page * WordSize + w.addr
          block == [i \in 0 .. w.count |-> start + i]
          stored == {i \in 0 .. w.count : start + i \in (0 .. MemSize - 1) \ ReadOnly}
      IN CASE w.mode # w.dir -> moved.bytes = <<>>
           [] w.mode = "write" /\ w.dir = "write" ->
                /\ DOMAIN moved.bytes = stored
                /\ \A i \in stored : moved.bytes[i] = block[i]
           [] w.mode = "read" /\ w.dir = "read" ->
                /\ DOMAIN moved.bytes = 0 .. w.count
                /\ \A i \in 0 .. w.count :
                      moved.bytes[i] = IF block[i] < MemSize THEN block[i] ELSE Nowhere

\* A driver reads back the count that it wrote: a transfer leaves the
\* registers alone, and the bytes come in order (i8237_dma_reg_read).
CountReadsBack == \A d \in Drivers : pc[d] = "done" => got[d] = want[d].count
=============================================================================
