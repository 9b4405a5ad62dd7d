------------------------------- MODULE I8250 -------------------------------
(***************************************************************************)
(* The 8250 UART (i8250.c): the data, interrupt and line status registers  *)
(* the guest accesses, the two rings towards the host TTY, and the poll    *)
(* the main loop makes.  Divisor, modem control, scratch and the host's    *)
(* line settings carry no property and are left out.                       *)
(***************************************************************************)
EXTENDS Ring

VARIABLES
    rx, tx,         \* the rings
    ier,            \* enabled interrupts, part of {"RBR", "THR"}
    iir,            \* identified interrupt: "NONE", "RBR" or "THR"
    dlab,           \* bit 7 of the line control register
    data_ready,     \* bit 0 of the line status register
    selected,       \* mos5720_uart_chip_select
    irq,            \* the last step called fe2010_irq for COM1
    given, sent     \* last byte returned to the guest, written to the TTY

vars == <<rx, tx, ier, iir, dlab, data_ready, selected, irq, given, sent>>

TypeOK ==
    /\ rx \in RingType /\ tx \in RingType
    /\ ier \in SUBSET {"RBR", "THR"}
    /\ iir \in {"NONE", "RBR", "THR"}
    /\ dlab \in BOOLEAN /\ data_ready \in BOOLEAN /\ selected \in BOOLEAN
    /\ irq \in BOOLEAN
    /\ given \in Bytes \cup {NoByte} /\ sent \in Bytes \cup {NoByte}

\* i8250_init; the mode register of the mouse chip starts with the UART off.
Init ==
    /\ rx = EmptyRing /\ tx = EmptyRing
    /\ ier = {} /\ iir = "NONE"
    /\ dlab = FALSE /\ data_ready = FALSE /\ selected = FALSE
    /\ irq = FALSE
    /\ given = NoByte /\ sent = NoByte
-----------------------------------------------------------------------------
(* Guest accesses to the registers.                                        *)

\* A read that leaves the data-ready bit alone.
rbr_read_keeps_ready ==
    /\ selected /\ ~dlab
    /\ iir' = IF iir = "RBR" THEN "NONE" ELSE iir
    /\ given' = RingFront(rx) /\ rx' = RingGet(rx)
    /\ irq' = FALSE
    /\ UNCHANGED <<tx, ier, dlab, data_ready, selected, sent>>

\* The receive buffer: data-ready is cleared whatever the ring still holds.
\* An empty ring reads as zero, here NoByte.
rbr_read ==
    /\ selected /\ ~dlab
    /\ iir' = IF iir = "RBR" THEN "NONE" ELSE iir
    /\ data_ready' = FALSE
    /\ given' = RingFront(rx) /\ rx' = RingGet(rx)
    /\ irq' = FALSE
    /\ UNCHANGED <<tx, ier, dlab, selected, sent>>

iir_read ==
    /\ selected
    /\ iir' = IF iir = "THR" THEN "NONE" ELSE iir
    /\ irq' = FALSE
    /\ UNCHANGED <<rx, tx, ier, dlab, data_ready, selected, given, sent>>

thr_write(b) ==
    /\ selected /\ ~dlab
    /\ tx' = RingPut(tx, b)
    /\ irq' = ("THR" \in ier)
    /\ iir' = IF "THR" \in ier THEN "THR" ELSE iir
    /\ UNCHANGED <<rx, ier, dlab, data_ready, selected, given, sent>>

ier_write(e) ==
    /\ selected /\ ~dlab
    /\ ier' = e
    /\ irq' = ("THR" \in e)
    /\ iir' = IF "THR" \in e THEN "THR" ELSE iir
    /\ UNCHANGED <<rx, tx, dlab, data_ready, selected, given, sent>>

lcr_write ==
    /\ selected
    /\ dlab' \in BOOLEAN
    /\ irq' = FALSE
    /\ UNCHANGED <<rx, tx, ier, iir, data_ready, selected, given, sent>>

\* A write to the mode register of the mouse chip.
mode_write ==
    /\ selected' \in BOOLEAN
    /\ irq' = FALSE
    /\ UNCHANGED <<rx, tx, ier, iir, dlab, data_ready, given, sent>>

Guest ==
    \/ rbr_read \/ iir_read \/ lcr_write \/ mode_write
    \/ \E b \in Bytes : thr_write(b)
    \/ \E e \in SUBSET {"RBR", "THR"} : ier_write(e)
-----------------------------------------------------------------------------
\* A poll that forgets the transmit direction while bytes come in.
i8250_execute_rx_first(b) ==
    /\ rx' = IF b = NoByte THEN rx ELSE RingPut(rx, b)
    /\ data_ready' = IF b = NoByte THEN data_ready ELSE TRUE
    /\ irq' = (b # NoByte /\ "RBR" \in ier)
    /\ iir' = IF b # NoByte /\ "RBR" \in ier THEN "RBR" ELSE iir
    /\ sent' = IF b # NoByte \/ RingIsEmpty(tx) THEN sent ELSE RingFront(tx)
    /\ tx' = IF b # NoByte THEN tx ELSE RingGet(tx)
    /\ UNCHANGED <<ier, dlab, selected, given>>

\* One byte from the TTY if it has one, then one byte to it.
i8250_execute(b) ==
    /\ rx' = IF b = NoByte THEN rx ELSE RingPut(rx, b)
    /\ data_ready' = IF b = NoByte THEN data_ready ELSE TRUE
    /\ irq' = (b # NoByte /\ "RBR" \in ier)
    /\ iir' = IF b # NoByte /\ "RBR" \in ier THEN "RBR" ELSE iir
    /\ sent' = IF RingIsEmpty(tx) THEN sent ELSE RingFront(tx)
    /\ tx' = RingGet(tx)
    /\ UNCHANGED <<ier, dlab, selected, given>>

Poll == \E b \in Bytes \cup {NoByte} : i8250_execute(b)

Next == Guest \/ Poll

\* The main loop polls for ever, whatever the guest does.
Spec == Init /\ [][Next]_vars /\ WF_vars(Poll)
-----------------------------------------------------------------------------
(* Properties.                                                             *)

\* The two rings behave as first-in first-out lines of RingSize - 1 bytes:
\* nothing is duplicated, reordered or lost except at a full ring.
Line == INSTANCE SerialLine
    WITH Capacity <- RingSize - 1,
         to_guest <- RingContents(rx), to_host <- RingContents(tx)

Passthrough == Line!Spec

\* A guest told that a byte is there, by the line status or by the interrupt
\* identification, finds one: i8250_execute sets both after the ring write,
\* rbr_read drops both with the byte, and a full ring holds older bytes.
ReadySignalsAreTrue ==
    /\ data_ready => ~RingIsEmpty(rx)
    /\ iir = "RBR" => data_ready

\* Transmission ends: unless the guest writes for ever, the poll empties the
\* transmit ring whether or not bytes keep arriving.
TransmitDrains ==
    []<><<\E b \in Bytes : thr_write(b)>>_vars \/ []<>RingIsEmpty(tx)
=============================================================================
