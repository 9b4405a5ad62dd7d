# A verification project for pc20iii

pc20iii is an emulator of the Commodore PC 20-III: an 8088 CPU and the devices
around it, in about 13,000 lines of C. This directory holds TLA+ modules that
model its processor and its devices, TLC configurations that check them on
small instances, and TLAPS proofs for every value of the constants. The
repository has no tests; the references for what the program should do are its
`README.md`, its comments, and what one part of the code relies on in another.

`PROJECT.json` maps each definition to the source lines it models.

## The system

The program is one thread. `main()` in `main.c` runs

    while (1) {
      i8088_execute     one instruction; IN and OUT call device handlers
      fe2010_execute    every 7th call: pending interrupts, then the timers
      every 10000 turns: console keyboard and screen, net_execute, dp8390_execute
      every 100 turns, if a TTY is open: i8250_execute
    }

The devices have no locks and need none. What makes them hard is that the guest
is an arbitrary program: between any two register accesses of a driver there
may be an interrupt handler, a poll of the host, another driver, or a reset.
`panic()` records a message and asks for the debugger; it does not stop the
handler that calls it, so a device goes on with whatever state it is in.

| Part | State | Operations | Depends on |
|---|---|---|---|
| Interrupts (`fe2010.c`, `i8088.c`) | mask register, `irq_pending`, I flag, `halt`, stack | `fe2010_irq`, `i8088_irq`, pending scan, HLT, STI, CLI, IRET | called by every device |
| Timers (`fe2010.c`) | per counter: counter, latch, flip-flop, mode; `timer_2_output` | control, load, read, tick | raises line 0 |
| Keyboard port (`fe2010.c`) | scancode, control register | `fe2010_ctrl_write`, `fe2010_keyboard_press` | raises line 1 |
| DMA (`fe2010.c`) | per channel address, count, page, mode; one flip-flop | register writes, `fe2010_dma_read/write` with a callback | called by both disks |
| Floppy controller (`fdc9268.c`) | command state, status registers, image | DOR write, FIFO read and write | DMA, line 6 |
| Hard disk (`xthdc.c`) | command state, status bits, position, image | data, reset, select, mask, status ports | DMA, line 5 |
| Serial port (`i8250.c`) | two rings, interrupt and line registers | register reads and writes, poll of the TTY | host TTY, line 4; switched on by `mos5720.c` |
| Network (`net.c`) | TCP and UDP socket tables, one frame buffer | frames from the guest, poll of the sockets | host sockets, card |
| Network card (`dp8390.c`) | registers, card memory with the receive ring | register accesses, `dp8390_execute` | network, line 3 |
| File server (`edfs.c`) | cluster table, the host directory | one function per EtherDFS request | network |
| 8088 (`i8088.c`, `mem.c`, `io.c`) | registers, flags, memory, ports | `i8088_execute` for about 250 opcodes, `i8088_irq`, `i8088_reset` | memory, I/O |
| Keyboard input (`console.c`) | scancode FIFO, Alt toggle | `console_execute_keyboard` | keyboard port, mouse port |
| Screen, clock, debugger, trace | see `PROJECT.json` | | |

## The modules

Each component module declares its parameters with a named assumption, has one
action per handler or per state of a handler, and ends with its properties.
Definitions introduced by a comment that calls them faulty are the deliberate
errors used to show that each property can fail; nothing in a specification
uses them.

| Module | Models | Correspondence |
|---|---|---|
| `I8253` | the timer channel record and its port accesses | bytes are digits in base `ByteBase`, so the width is a parameter |
| `Fe2010` | interrupts, HLT, timers, keyboard port, main loop | `phase` is the place in the loop; `intr` the I flag, halt, pending lines and the stack of entered handlers with the flags each pushed |
| `Fdc9268` | floppy controller | a state `FDC_STATE_CMD_x_y` is command `x` with the position of byte `y`; `Params` and `Results` are the byte tables |
| `Xthdc` | hard disk controller | the six command bytes are one state with a count |
| `Ring`, `I8250` | ring buffers, serial port | the ring as head, tail and slots |
| `SerialLine` | abstract: two bounded first-in first-out lines | no code; `I8250` implements it |
| `Net` | socket tables, segments, poll, frame buffer | `at` is guest code, the socket the poll looks at, or delivery; host answers are inputs |
| `Dp8390` | card registers and receive ring | memory page by page: which part of which frame a page holds |
| `Edfs` | file server and the directory behind it | a path is a sequence of names; the host's `stat`, `mkdir`, `rename` are operators on a tree |
| `I8237` | DMA registers and transfers, two drivers | bytes are digits in base `Base`; the drivers are guest code, the task programs the floppy channel and the handler that interrupts it the hard disk channel; a transfer is the function from byte number to address |
| `Console` | keyboard poll, scancode FIFO, keyboard port, the guest's handler | a character is its key's code and the way it is typed; each branch of `console_execute_keyboard` is an action |
| `I8088Alu` | arithmetic and flags | pure operators over words of `w` bits, one per instruction; the repeated step of a shift or rotate is a function on operand and carry |
| `I8088Arithmetic` | what that arithmetic is for | no code: the operands as variables, and the numbers they stand for as the reference |
| `I8088` | fetch, prefixes, operands, every opcode, stack, interrupts, memory, ports | the processor is deterministic, so `i8088_execute` is an operator from states to states and an instruction a case of `Opcode`; byte and word forms share one definition |
| `MC*` | instances for TLC; `MCI8088`, on top of `I8088Arithmetic`, also holds the state machine around the processor (`Execute`, `Interrupt`), the programs it is given and the reference definitions they are compared with | |
| `*Proofs` | theorems about the module named; `FloppyProofs` about `Fdc9268` and the DMA controller it moves its sectors with, `I8237`; `CharacterProofs` about the two devices that carry characters, `I8250` and `Console`; `I8088Proofs` about `I8088Alu`, `I8088Arithmetic`, `I8088` and the jobs of `MCI8088` | |

Variables that are not in the code record history for a property, and no guard
of a handler reads them: `panic` and `polite` (the last access panicked; it followed the
status register), `cause`, `start`, `moved` (what raised the last interrupt,
where a transfer ran), `given`, `sent`, `irq`, `expected`, `ended`, `repeated`, `heard` (what the guest
has seen and done on a connection), `queue`, `want`, `spoilt` (the card driver's side),
`opened` (what a cluster number stood for), `reply`, and in `I8237` `want`, `got`
and `moved` (what a driver was asked for, the count it read, what a transfer moved), in `MCI8088` `start`, `executed` and `interrupted` (the
processor when a job began and when the interrupt came, instructions since), in
`Console` `unread`, `down` and `lost` (the port holds a code the guest has not
read, the keys the guest takes for pressed, a code has not reached it). `shut` and `fs` are the
outside world: closed remote ends, the host directory.

Choices worth knowing:

- `fe2010_irq` tests `irq_mask >> irq_no` without `& 1`, so a line passes if any
  line at or above it is unmasked. `Unmasked` says that, and every interrupt
  property is stated with it.
- A DMA channel in the wrong mode moves nothing and the disk still reports
  success (`write_dtl` with zero bytes).
- The counter comparison in `Expires` is the three decrements of one tick, each
  compared with zero.
- The guest's side of `Net` is kept per connection, the program's per socket: `expected` is
  the number the guest's TCP wants next on a connection, whichever socket answers. Sequence
  numbers are absolute; socket `s` starts at `Start(s)`, which is where `net_tcp_close` takes it back to.
- `errno` is a variable of `Net`, because `net_check_tcp_socket` reads it after
  a `recv` that has not set it. A send that fails leaves `EAGAIN` or another value, and a
  request of the file server may leave any other value too.
- `edfs_find` reads a directory in the order the host gives (`ReadOrder`); `FindLoop` is the
  state of its loop after each entry. It may give up after any of them, at a name `stat` fails on.
  FINDNEXT takes any cluster and position, as from a client with several searches under way.
- `fdc9268_image_load` may fill, change or empty a drive at any time. All images have the geometry
  of the constants.
- The drivers of `I8237` keep interrupts off between the two bytes of a register.
  They have to: ports 0x0C and 0x0D, which set the flip-flop of a real 8237 to a known
  state, are not connected, so nothing else brings it back.
- In `Console` a key of curses above 255 may or may not count as shifted: the code
  calls `isupper` with it, which is undefined for such a value.
- `LEA` of a register uses an address that was never computed; `Garbage` stands for it.
- All iterations of a repeated string instruction run inside one
  `i8088_execute`, as in the code, so interrupts come only between instructions.

## Runs

All take about two minutes or less with two workers.

| Run | Configuration | Checks |
|---|---|---|
| `interrupts` | `MCFe2010.cfg` | a pending line leaves only into its handler; a tick delivers by priority; handlers interrupt enabled code only; nobody sleeps on a pending interrupt, and HLT ends |
| `timer2` | `MCFe2010Timer.cfg` | the timer 2 output falls again and again, unless the guest keeps giving counter 2 other values |
| `floppy` | `MCFdc9268.cfg` | a driver that follows the status register meets no panic; a transfer starts at the addressed sector; ST0 and ST1 agree; the end of a seek is reported when sensed; every command can be driven to its end |
| `harddisk` | `MCXthdc.cfg` | no panic for a driver that follows REQ and IO; the phase is visible; transfers are linear across sectors, heads and cylinders |
| `serial` | `MCI8250.cfg` | the UART implements `SerialLine`; an announced byte is there; the transmit ring drains |
| `network` | `MCNet.cfg` | no frame is lost in the shared buffer; every segment has the number its connection expects; nothing follows a FIN; waiting for an ACK ends |
| `card` | `MCDp8390.cfg` | the chain of next-page pointers leads through the received frames, undamaged, to CURR |
| `fileserver` | `MCEdfs.cfg` | cluster numbers are stable, unique per path and agree with the 8.3 names |
| `dma` | `MCI8237.cfg` | a transfer moves the block its driver asked for, whatever the other driver programs in between; the count reads back |
| `keyboard` | `MCConsole.cfg` | the codes under way release every key the guest takes for pressed; every release arrives |
| `cpu` | `MCI8088.cfg` | a compare and the jumps after it decide order; multi-word chains, products, quotients, shifts, rotates and decimal numbers agree with their reference definitions (`ConditionsDecide`, `HalvesChain`, `MultiplyAndDivide`, `ShiftsAndRotates`, `DecimalArithmetic`); an interrupt leaves no trace but below the stack (`InterruptTransparent`); calls return, with the stack and the instruction pointer wrapping (`CallsReturn`); string instructions move, fill, compare and search whole blocks (`BlockOperations`); an instruction writes back where it has read (`OperandsAreStable`) |
| `network_inactivity` | `MCNetInactivity.cfg` | finds a comment of the source violated, see below |

### Bounds, and why they are enough

- `interrupts`: three lines (timer, keyboard, one device) give a first, a
  middle and a last in the priority scan; counters in base 3 have nine values,
  so the three decrements of a tick wrap; the divisor 2 separates ticks from
  other turns; two nested handlers show a handler entered inside another.
  `timer2` has control words that latch, load and change mode.
- `floppy`: two cylinders, two heads, two sectors of two bytes, and sector 3 that does
  not exist; DMA counts 1 and 3 are one sector and two, so transfers end inside,
  at and past the end of the image. Commands name cylinder 1, both heads and every
  sector. One drive, with or without an image, changing at any time.
- `harddisk`: two of everything; counts 1 and 4 (two and five bytes) cross sector,
  head and cylinder borders.
- `serial`: rings of three slots hold two bytes, fill, empty and wrap; two
  byte values tell order.
- `network`: two sockets per table, two connections and a datagram flow so that a full table,
  reuse, and a second socket for the same connection occur; sequence numbers
  modulo 4 wrap, and the two sockets start at 0 and 2. `Timeout = 0` closes on the first empty poll after which the
  socket is reused; the inactivity run has `Timeout = 2`, so that a segment can come
  when the count is above zero and below the limit. Time counts
  stay below the timeout because the socket closes, so they need no cap. The view leaves out
  what a closed socket and a closed connection still hold: no step and no property reads
  it before it is set again.
- `card`: a ring of five pages of eight bytes; frames of 5, 8 and 10 bytes with their
  header are one page, exactly one page (the code then skips a page) and two
  pages, and wrap inside a frame. `MaxUnread = 2` bounds the driver's backlog.
- `fileserver`: two names with the same 8.3 form in a tree of depth two, from
  every initial directory tree; a table of four clusters fills, and requests
  go on. The view leaves out the last reply, on which nothing depends.
- `dma`: bytes in base 2 give registers of two digits, which is what the
  flip-flop is about; requests stay in a page, cross into the next, into ROM and
  past the end of memory, and one has the channel in the wrong mode.
- `keyboard`: the real FIFO of eight places; characters that are plain, shifted,
  control, special and without a code. The run goes on only while no code is
  lost, because both properties say nothing afterwards.
- `cpu`: arithmetic is checked on all pairs of six-bit operands with every carry
  and auxiliary carry: the operators are the same for every width, and six bits
  have a sign, two halves to chain and a half-carry out of the low four bits.
  Decimal adjustment is always on bytes and is checked on all pairs of two-digit numbers. From
  each pair whose second operand is below 16 the processor also runs a job, instruction by
  instruction: a program with an interrupt after any number of its instructions, two nested
  calls in any pair of forms, one string instruction of up to five elements, or one
  instruction with every ModRM operand. Code, blocks, pointers and stack lie on both sides
  of the end of a 64 KB segment, so that all of them wrap.

### Fairness

- `Fe2010`: `WF(Next)`. The loop is `while (1)`; it always takes its next step.
  Nothing is assumed of the guest, which may halt or do nothing for ever.
- `I8250`: `WF(Poll)`: with a TTY open the poll comes every 100 turns.
- `Net`: `SF(poll_start)` because the main loop reaches its poll again and again
  while the guest's frames disable it in between (the counter that triggers it
  advances on every turn), and `WF` of the steps inside a poll and of delivery, which
  are straight-line code.
- `Fdc9268`: only `CommandEnds` needs fairness, and it is the driver's: the controller
  acts only when accessed, so the property says that a driver which goes on
  with the byte the status register asks for gets back to idle. `FairSpec` is
  `Spec` with this assumption, and the invariants are checked under it unchanged.

- `Console`: `WF(console_execute_keyboard)`, which the main loop calls every
  10000 turns, and `WF(GuestReads)`, the guest's handler, without which no
  release could arrive; `interrupts` shows that its request is not dropped.

## Findings

One statement of the source does not hold of the code and has a run:

- `net.c:447` resets the inactivity count of the *UDP* socket with the index of
  a TCP socket, so a segment that comes while the time is counted does not start
  the count afresh and the connection is closed as
  inactive, against `net.c:721`, "Close socket after a certain time of
  inactivity." In TLC's trace the guest sends between the first and the second of three
  empty polls, and the third closes its connection. With the line corrected to `tcp_sockets` the
  property holds in the same instance. (`network_inactivity`)

Met while modelling, modelled as the code is, and not kept as runs:

- `net.c:736` looks at `errno` after `recv` returned zero. If another call has
  left anything but `EAGAIN`, no FIN is sent and the guest gets empty frames,
  against `net.c:737`, "Most likely remote socket was closed, start a graceful
  shutdown."
- `net.c:369`: a SYN that repeats an open connection (the guest was rebooted, or has sent an RST
  without ACK, which `net.c:456` ignores) gets a second socket with
  another start number, while segments go on to the first that matches
  (`net.c:432`). The first socket stays open, and what it still sends has a number the guest
  does not expect: TLC finds its RST, numbered 1 where 3 is due. `SegmentsInSequence` and
  `NothingAfterFin` leave out a connection in `repeated` until a SYN finds no socket of it open.
- `edfs.c:631` truncates the path it derives from the 8.3 name instead of the
  host path it has found, against `edfs.c:630`, "Exists, but truncate the
  file."
- `i8250.c:250`: a read of the receive buffer clears data-ready though bytes are
  left in the ring; they are announced only when another one arrives.
- `dp8390.c:389`: reception stops when a byte address equals the boundary
  *page* number, which does not happen inside the ring: a driver that falls
  behind loses frames. `ChainIntact` is therefore stated up to the first overwritten frame.
- `xthdc.c:123`: a transfer that ends exactly with the last byte of the disk
  panics as an overrun. `HandshakeNeverPanics` of `Xthdc` stays clear of the
  end for that reason.
- `xthdc.c:213`: READ and WRITE by DMA do not set `command_status`, so a transfer after a
  recalibration of drive 2 answers "not present".
- `edfs.c:613`: open-or-create takes a path that no search has registered for a
  file that does not exist, and empties it.
- `edfs.c:579`: FINDNEXT accepts a match only in the position after the last
  one, so a search ends at the first entry that does not match.
- `i8088.c:1554`: `DEC` of a word clears overflow for every operand, where the
  byte form sets it.
- `i8088.c:1743`: `MOVSW` moves two bytes one after the other, so with `DI = SI + 1` the first
  byte is copied twice. `BlockOperations` leaves this distance out.
- `i8088.c:2794`: a far call through memory reads the new segment after it has
  pushed the return address, which matters when the pointer lies in the stack.
- `fe2010.c:507`: a DMA address runs on into the next page, where the 8237
  wraps within one.
- `fe2010.c:75` and `fe2010.c:544`: a code the guest has not read is overwritten by the next
  one or by the self-test code 0xAA, which is also the break code of the left shift
  key, or is cleared. If it was a break code the key stays down, hence `lost` in the keyboard properties.
- `console.c:499`: a character without a code puts a zero into the FIFO. It reads as
  empty, so the next character is typed before the codes behind it have gone out;
  `KeysBalance` shows that no key stays down for it.
- `console.c:33` has 255 CRTC registers for a register number of eight bits.

## Proofs

The theorems hold for every value of the constants that satisfies the
assumption named in each module (`Fe2010Assumption`, `ByteBaseAssumption`,
`FdcAssumption`, `RingAssumption`, `NetAssumption`, `XthdcAssumption`,
`I8237Assumption`, `EdfsAssumption`, `Dp8390Assumption`, `ConsoleAssumption`, `AluAssumption`, `CpuAssumption`): sizes are positive, index
sets lie in their ranges, payloads are shorter than the sequence space, a frame
is shorter than the receive ring, an operand has an even number of bits, four or more (the
code has 8 and 16; the auxiliary carry and two halves to chain need that much). Three of them say more than that. `ConsoleAssumption` has a FIFO of
at least six places (the code has eight): five codes may wait in it, two left behind a zero and
three of the next character, and one place always stays free. With five places TLC finds a key left down. `Dp8390Assumption`
has every byte address of the ring beyond every page number, as with 256 pages of
256 bytes and a ring that does not start at page zero; this is what makes the test of
`dp8390.c:389` never hold (`NeverRefused`). `EdfsAssumption` says that the 8.3 form of an
8.3 name is that name.

| Module | Theorems | Inductive invariant |
|---|---|---|
| `Fe2010Proofs` | `TypeCorrect`, `HandlersCorrect`, `HaltCorrect`, `NothingDropped`, `PriorityRespected` | types, the two invariants, and: with I set there is room for one more handler |
| `FloppyProofs` | `TypeCorrect`, `HandshakeSafe`, `StatusSafe`, `SeekEndSafe`, `TransferAddressed` | types, the position lies inside the byte table, DIO and BUSY tell the phase, a seek's end is kept |
| | `DmaTypeCorrect`, `BlockSafe`, `CountSafe` | types, the flip-flop tells whether a driver is between two bytes, the handler never finds the task there, what each driver has programmed so far is in its channel, the last block is as requested |
| `XthdcProofs` | `TypeCorrect`, `HandshakeSafe`, `PhaseSafe`, `LinearTransfer` | types, the address of a command lies on the disk, an idle controller asks for nothing, the phase is visible |
| `CharacterProofs` | `SignalsTrue`, `PassthroughRefinement` | types and the signals themselves |
| | `KeysReleased` | types, the shape of the FIFO, and: every key is up after the codes under way |
| `NetProofs` | `BufferSafe`, `SequenceSafe`, `FramesKept`, `FinSafe` | types, free buffer, `OneSocket`, `StreamsAgree`, and `FinRemembered` |
| `Dp8390Proofs` | `TypeCorrect`, `ChainSafe` | types, CURR in the ring, and until a frame is spoilt `Laid`: the unread frames lie end to end between the driver's position and CURR |
| `EdfsProofs` | `OneCluster`, `HandlesStable`, `PathsAgree` | `Sound` (rows typed, one cluster per path, both columns agree), handles stable, opened clusters lie inside the table |
| `I8088Proofs` | `JumpsDecide`, `LongNumbers`, `ProductsAndQuotients`, `ScalesAndRotations`, `ArithmeticExact` | the operands are words of `W` bits (`InputTypeOK`); the rest is arithmetic that holds of all of them |
| | `InterruptReturns` | none: it is about any state of the processor and any handler |
| | `InterruptsUnseen` | `InterruptInv`: the program is between two of its instructions, or the handler is between two of its own on the stack of such a state, or the processor is back |
| | `DecimalsExact` | `DigitsInv`: the job that multiplies digits is before, between or behind its two instructions, with the product in the form that belongs there; for the rest the operands are words |

- *Interrupts.* Everything rests on `IrqEffect`, which says what raising a set of
  lines does, by cases on the I flag and on whether any line is due. The handler
  bound is not inductive by itself: delivery adds a frame when I is set, so the
  invariant has to know that I set implies room (`EnabledBelowBound`). The two action
  properties follow step by step: only delivery removes a line, and delivery
  takes the minimum of the due lines (`HighestPriorityIsMin`).
- *Floppy.* "No panic" is about two variables that the handshake only relates
  through the phase, so `MsrAgrees` carries it. Three lemmas read the
  byte tables once; each action then needs only where it stands in them. The
  seek-complete bit may be off while the next SEEK is taking parameters, which
  `SeekEndKept` allows and `SenseReportsSeekEnd` does not see.
  `TransferAddressed` compares the LBA of the code with the number of sectors that
  come before the addressed one. `LbaCounts` does so by a bijection: the place of
  a sector is a number with the digits cylinder, head and sector (`Digits`),
  places are ordered as the sectors are (`PlaceOrder`), and each number is the place of one (`PlaceTaken`).
- *Hard disk.* The handshake goes as for the floppy. `CarryIsNext` shows that the
  carry from sector to head to cylinder is one step of the linear offset,
  `WalkOffsets` that the whole transfer is a row of such steps, by induction on its bytes.
- *DMA.* The two bytes of a register are two actions with an interrupt possible
  before and after, so the invariant says at each place of each driver what is
  already in the registers (`Programmed`). It is inductive only with `HandlerWaits`: the
  drivers keep interrupts off between the bytes. `OtherKeeps` shows that a
  step of one driver leaves the channel of the other alone.
- *Serial.* `RingContents` is the refinement mapping. `PutIsOffer` and
  `GetIsRest` show that one ring operation is one operation of the abstract
  line, by the cases of the indices wrapping or not; the rest is one case per action.
- *Keyboard.* `KeysBalance` looks at the end of what is under way, a press changes its beginning.
  The invariant is that every key is up after the codes the guest has been told and those
  in the FIFO (`KeysUp`); `UpAfterTail` and `UpAfterStroke` say what that means when a code leaves
  at the front and when a key with its modifiers comes in at the back. No code may be dropped for
  that, so `Shape` bounds the FIFO: codes are left in it only behind a zero, and then at most two.
- *Network.* A segment is in sequence when it is built, but the number the
  guest expects changes only at delivery. `Ahead` is what the guest will
  expect on a connection once the buffer is delivered; `StreamsAgree` says that the next number of an open socket
  is that of its connection. This needs `OneSocket`: a connection that was not opened again has one
  open socket. `Fill`, `FillSyn` for an answer to a SYN, and `Keep` are the ways a step can treat the
  buffer, and each action is an instance of one of them. `FinSafe` needs the
  code's own memory of the FIN: `FinRemembered` ties `fin_ack_sent` to what the guest
  has been sent, also while the FIN waits in the buffer.
- *Card.* `ChainIntact` follows pointers, which no step preserves directly. `Laid`
  says instead that there are distances from the driver's position, increasing by
  the pages of each frame (`Measures`), at which parts and next-page pointers stand. A
  reception adds a distance (`ReceiveLaid`, with `FrameFits` for the room), a read drops
  the first and measures anew from the next frame (`ReadLaid`). `LaidIsChain` gets the chain
  back by induction on the number of frames.
- *File server.* Every request does one thing to the rows that are in the table: it leaves
  a row or empties it (`Evolves`). Handles follow from that alone;
  `RegisterOK`, `UnregisterOK` and `ConvertOK` show the rest for one call each, and
  `FindLoopOK` for a whole directory, by induction on the entries read. Then there
  is one lemma per request.
- *Arithmetic.* Addition and subtraction have one characterisation each: operands and carry
  in add up to the result and `2^w` times carry out (`Adds`, `Subtracts`). With it the
  conditions are cases of signs (`Compared`), and two halves chain because quotient and
  remainder are unique (`Division`, `AddsChain`, `SubtractsChain`). The exclusive-or
  tree of `parity_even` is shown to count the bits one by one (`ParityCounts`). Products and
  quotients go by signs, from the unsigned case (`DividesSigned`, `MultipliesSigned`). A shift is its step repeated: the value
  and the carry after `k` steps have a closed form, shown by counting up
  (`ShiftLeftScales`, `ShiftLeftCarry`, ...). A rotate turns a number of `w` bits, or with the carry
  one of `w + 1` bits, whose closed form (`Rotation`) gives its period (`RotationPeriod`); the
  opposite rotate takes back one step at a time (`TurnsUndone`, `RoundsUndone`).
  `EveryInput` carries all four to the processor that takes jobs from these inputs (`ArithmeticExact`).
- *Interrupts and the processor.* `Processor` is the set of all states: every register a word,
  every flag a bit, any memory of bytes. `InterruptReturns` is about any of them without ROM: three
  words are pushed (`FramePushed`), each at two addresses that differ from the others though the offsets
  wrap (`Addresses`, `Shadow`), and IRET takes them back (`FrameTaken`, `FlagsKept`), whatever the handler
  did elsewhere. The unused bits of the flags are the one difference: i8088_interrupt pushes them as
  they are, IRET sets them.
- *The interrupted program.* `InterruptTransparent` only looks at the end; the invariant says what
  holds between any two instructions. `Main` has the offset and the depth of the stack of each of the
  eleven places, that code, handler and vector are still in memory (`Loaded`), and that the flags have the
  unused bits of a POPF, without which the flags would not come back. `Handling` says the same of the four places of
  the handler, and that only bytes below the interrupted stack have changed. Each instruction has
  a lemma that reads it from memory through `Prefixes` and `Opcode` and shows that it leads to
  the next place (`Step0` to `Step9`, `Handler0` to `Handler3`). The repeated move is three moves (`RepeatsThree`,
  `MovesThree`), whose target lies outside code, stack and vectors (`LoadedStays`). That the job begins in such a state
  is `ProgramPrepared`: the bytes placed in memory are the program, wherever its segment wraps.
- *Decimal numbers.* A sum of two packed numbers is `16 H + L`, with `H` the sum of the tens and `L`
  that of the ones and the carry; a difference likewise, with `L` down to -10. The flags are those of this
  number (`ByteSum`, `ByteDifference`), so which digit is adjusted depends on `H` and `L` only
  (`SumAdjusted`, `DifferenceAdjusted`): the auxiliary carry is needed where `L` is 16 and more or negative,
  and 159 takes the place of 153 in DAA where it is set. AAM and AAD are fetched and run as the instructions of the
  interrupted program are (`TakenApart`, `PutTogether`).

Induction over numbers goes through sets: `LeastNumber`, from the
well-foundedness of the naturals, gives `CountUp`, where the property to prove is
a set of numbers instead of an operator. What a recursive function is, is first shown
by giving a function that satisfies its equation (`WalkIsRecursive`,
`FindLoopIsRecursive`, and `Iterates` for any function on the naturals
that is given by its first value and a step). The modules that need these lemmas each state them.

### Only model-checked

Liveness (HLT ends, the timer output falls, commands end, the transmit ring drains, waiting for
an ACK ends) and everything about ENABLED is out of the prover's reach.
`CallsReturn`, `BlockOperations` and `OperandsAreStable` try many programs each, twenty-five pairs of
call forms, five string instructions, seven instructions on eight ways of addressing, each with its own
reference definition; they are checked by the run and not proved. Nothing is proved about the directory tree
of `Edfs`: the theorems are about the cluster table, whatever the tree answers.

## Not modelled

The CGA screen (text memory to curses), the real time clock (digits of the
host's time, computed at each read), the debugger and the trace (text), the
contents of ROM and disk files, the switches. From modelled parts: the status register of the
DMA controller, which only reads counts; divisor and modem registers of the UART; page registers,
remote DMA addressing and transmit buffers of the card; the two detection registers of the mouse
port; dates, attributes and FCB text of the file server. `PROJECT.json` gives the
reason for each component.

## Plan

Order of the work: first interrupts, because every device depends on them; then
the protocols where one side must trust a status register; then the shared
frame buffer and the file table; then the processor, DMA and the keyboard. That part is done. Next:

1. `Net`, `Dp8390` and `Fe2010` in one module: a frame from the socket to the
   handler that reads it.
