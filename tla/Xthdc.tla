-------------------------------- MODULE Xthdc --------------------------------
(***************************************************************************)
(* The XT hard disk controller (xthdc.c): selection, the six command bytes,*)
(* the data phases, the status byte, the handshake bits of the status      *)
(* register, and the cylinder/head/sector position that a DMA transfer     *)
(* moves byte by byte through the image.                                   *)
(*                                                                         *)
(* State COMMAND with n bytes received stands for XTHDC_STATE_COMMAND and  *)
(* its PARAM_1 .. PARAM_5.                                                 *)
(***************************************************************************)
EXTENDS Integers, Sequences

CONSTANTS
    Cylinders, Heads, Sectors, SectorSize,      \* DISK_*
    CylBase,        \* values of the low cylinder byte, 0x100
    InitBytes,      \* parameter bytes of INITIALIZE_DRIVE, 8
    DmaCounts       \* word counts the driver programs, one less than bytes

ASSUME XthdcAssumption ==
    /\ Cylinders \in Nat \ {0} /\ Heads \in Nat \ {0} /\ Sectors \in Nat \ {0}
    /\ SectorSize \in Nat \ {0} /\ CylBase \in Nat \ {0}
    /\ InitBytes \in Nat \ {0}
    /\ DmaCounts \subseteq Nat

Size == Cylinders * Heads * Sectors * SectorSize

Commands == {"READ", "WRITE", "READY_VERIFY", "INITIALIZE_DRIVE", "RECALIBRATE",
             "REQUEST_SENSE", "TEST_DRIVE", "UNHANDLED"}

VARIABLES
    state,          \* "IDLE", "COMMAND", "INITIALIZE_DRIVE", "READ_SECTOR", "STATUS"
    n,              \* command bytes received, or byte_no of a data phase
    command,        \* the command bytes
    status,         \* set of bits: "REQ", "IO", "CD", "XBSY", "IRQ"
    mask,           \* set of bits: "DRQEN", "IRQEN"
    command_status, \* 0, "0x20" or "0x22"
    pos,            \* cylinder, head, sector of the transfer
    moved,          \* image offsets the DMA transfer of this access touched, in order
    irq,            \* the last step called fe2010_irq for the disk
    panic, polite,  \* the last access panicked; it followed the handshake
    selected        \* a drive was selected since the last reset

vars == <<state, n, command, status, mask, command_status, pos, moved, irq,
          panic, polite, selected>>

Command == [op : Commands, drive : {0, 1}, head : 0 .. Heads - 1,
            sector : 0 .. Sectors - 1, high : 0 .. (Cylinders - 1) \div CylBase,
            low : 0 .. CylBase - 1]
Position == [c : 0 .. Cylinders - 1, h : 0 .. Heads - 1, s : 0 .. Sectors - 1,
             b : 0 .. SectorSize - 1]

TypeOK ==
    /\ state \in {"IDLE", "COMMAND", "INITIALIZE_DRIVE", "READ_SECTOR", "STATUS"}
    /\ n \in Nat
    /\ command \in Command
    /\ status \in SUBSET {"REQ", "IO", "CD", "XBSY", "IRQ"}
    /\ mask \in SUBSET {"DRQEN", "IRQEN"}
    /\ command_status \in {"0", "0x20", "0x22"}
    /\ pos \in Position
    /\ moved \in Seq(0 .. Size - 1)
    /\ irq \in BOOLEAN /\ panic \in BOOLEAN /\ polite \in BOOLEAN
    /\ selected \in BOOLEAN

Init ==
    /\ state = "IDLE" /\ n = 0
    /\ command = [op |-> "TEST_DRIVE", drive |-> 0, head |-> 0, sector |-> 0,
                  high |-> 0, low |-> 0]
    /\ status = {} /\ mask = {} /\ command_status = "0"
    /\ pos = [c |-> 0, h |-> 0, s |-> 0, b |-> 0]
    /\ moved = <<>>
    /\ irq = FALSE /\ panic = FALSE /\ polite = TRUE /\ selected = FALSE
-----------------------------------------------------------------------------
(* The position in the image.                                              *)

Offset(p) == ((p.c * Heads + p.h) * Sectors + p.s) * SectorSize + p.b

\* Faulty: the sector is not taken back with the next head.
CarryKeepsSector(p) ==
    IF p.b + 1 < SectorSize THEN [p EXCEPT !.b = @ + 1]
    ELSE IF p.s + 1 < Sectors THEN [p EXCEPT !.b = 0, !.s = @ + 1]
    ELSE IF p.h + 1 < Heads THEN [p EXCEPT !.b = 0, !.h = @ + 1]
    ELSE IF p.c + 1 < Cylinders THEN [p EXCEPT !.b = 0, !.h = 0, !.c = @ + 1]
    ELSE [c |-> 0, h |-> 0, s |-> 0, b |-> 0]

\* The carry chain of xthdc_image_read_callback and .._write_callback. Past
\* the last byte the cylinder goes back to zero, with a panic.
Carry(p) ==
    IF p.b + 1 < SectorSize THEN [p EXCEPT !.b = @ + 1]
    ELSE IF p.s + 1 < Sectors THEN [p EXCEPT !.b = 0, !.s = @ + 1]
    ELSE IF p.h + 1 < Heads THEN [p EXCEPT !.b = 0, !.s = 0, !.h = @ + 1]
    ELSE IF p.c + 1 < Cylinders THEN [p EXCEPT !.b = 0, !.s = 0, !.h = 0, !.c = @ + 1]
    ELSE [c |-> 0, h |-> 0, s |-> 0, b |-> 0]

\* Positions of a transfer that starts at p: one per byte, and the last left.
Walk(p, bytes) ==
    LET at[k \in 0 .. bytes] == IF k = 0 THEN p ELSE Carry(at[k - 1])
    IN at

\* xthdc_update_chs.
update_chs(cmd) ==
    [c |-> cmd.high * CylBase + cmd.low, h |-> cmd.head, s |-> cmd.sector, b |-> 0]
-----------------------------------------------------------------------------
(* Data port writes.                                                       *)

Expects(bits) == selected /\ "REQ" \in status /\ ("IO" \in status) = ("IO" \in bits)

\* The end every command comes to: interrupt if enabled, the status phase.
Complete ==
    /\ irq' = ("IRQEN" \in mask)
    /\ status' = status \cup {"IO"} \cup (IF "IRQEN" \in mask THEN {"IRQ"} ELSE {})
    /\ state' = "STATUS"

\* Command bytes 0 to 4; the driver sends positions inside the disk.
write_command_byte ==
    /\ state = "COMMAND" /\ n < 5
    /\ \/ n = 0 /\ \E op \in Commands : command' = [command EXCEPT !.op = op]
       \/ n = 1 /\ \E d \in {0, 1}, h \in 0 .. Heads - 1 :
                      command' = [command EXCEPT !.drive = d, !.head = h]
       \/ n = 2 /\ \E s \in 0 .. Sectors - 1, hi \in 0 .. (Cylinders - 1) \div CylBase :
                      command' = [command EXCEPT !.sector = s, !.high = hi]
       \/ n = 3 /\ \E lo \in 0 .. CylBase - 1 :
                      /\ command.high * CylBase + lo < Cylinders
                      /\ command' = [command EXCEPT !.low = lo]
       \/ n = 4 /\ UNCHANGED command
    /\ n' = n + 1
    /\ moved' = <<>> /\ panic' = FALSE /\ polite' = Expects({}) /\ irq' = FALSE
    /\ UNCHANGED <<state, status, mask, command_status, pos, selected>>

\* The sixth byte starts READ or WRITE by DMA: the whole transfer happens
\* here. command_status keeps the value an earlier command left in it.
start_dma ==
    /\ state = "COMMAND" /\ n = 5 /\ command.op \in {"READ", "WRITE"}
    /\ "DRQEN" \in mask
    /\ \E bytes \in {0} \cup {w + 1 : w \in DmaCounts} :
          LET at == Walk(update_chs(command), bytes)
              wraps == {k \in 1 .. bytes : Offset(at[k]) = 0}
          IN /\ moved' = [k \in 1 .. bytes |-> Offset(at[k - 1])]
             /\ pos' = at[bytes]
             /\ panic' = (wraps # {})
             /\ polite' = (Expects({}) /\ Offset(at[0]) + bytes < Size)
    /\ n' = 0
    /\ Complete
    /\ UNCHANGED <<command, mask, command_status, selected>>

\* READ without DMA goes on with a data phase; WRITE is not implemented.
start_pio ==
    /\ state = "COMMAND" /\ n = 5 /\ command.op \in {"READ", "WRITE"}
    /\ "DRQEN" \notin mask
    /\ pos' = update_chs(command) /\ n' = 0
    /\ IF command.op = "READ"
       THEN /\ state' = "READ_SECTOR"
            /\ status' = (status \ {"CD"}) \cup {"IO"}
            /\ panic' = FALSE
       ELSE /\ state' = "STATUS"
            /\ status' = status \cup {"IO"}
            /\ panic' = TRUE
    /\ polite' = (Expects({}) /\ command.op = "READ")
    /\ irq' = FALSE
    /\ moved' = <<>>
    /\ UNCHANGED <<command, mask, command_status, selected>>

StatusOf(cmd) ==
    CASE cmd.op \in {"READY_VERIFY", "REQUEST_SENSE"} -> "0x20"
      [] cmd.op = "RECALIBRATE" /\ cmd.drive = 1      -> "0x22"
      [] OTHER                                        -> "0"

\* Every other command but INITIALIZE_DRIVE ends with its sixth byte.
start_simple ==
    /\ state = "COMMAND" /\ n = 5
    /\ command.op \notin {"READ", "WRITE", "INITIALIZE_DRIVE"}
    /\ command_status' = StatusOf(command)
    /\ Complete
    /\ moved' = <<>> /\ panic' = (command.op = "UNHANDLED")
    /\ polite' = (Expects({}) /\ command.op # "UNHANDLED")
    /\ UNCHANGED <<n, command, mask, pos, selected>>

start_initialize ==
    /\ state = "COMMAND" /\ n = 5 /\ command.op = "INITIALIZE_DRIVE"
    /\ state' = "INITIALIZE_DRIVE" /\ n' = 0
    /\ moved' = <<>> /\ panic' = FALSE /\ polite' = Expects({}) /\ irq' = FALSE
    /\ UNCHANGED <<command, status, mask, command_status, pos, selected>>

write_initialize ==
    /\ state = "INITIALIZE_DRIVE"
    /\ n' = n + 1
    /\ IF n + 1 >= InitBytes
       THEN command_status' = "0" /\ Complete
       ELSE irq' = FALSE /\ UNCHANGED <<command_status, status, state>>
    /\ moved' = <<>> /\ panic' = FALSE /\ polite' = Expects({})
    /\ UNCHANGED <<command, mask, pos, selected>>

write_unexpected ==
    /\ state \in {"IDLE", "STATUS", "READ_SECTOR"}
    /\ moved' = <<>> /\ panic' = TRUE /\ polite' = Expects({}) /\ irq' = FALSE
    /\ UNCHANGED <<state, n, command, status, mask, command_status, pos, selected>>

xthdc_data_write ==
    \/ write_command_byte \/ start_dma \/ start_pio \/ start_simple
    \/ start_initialize \/ write_initialize \/ write_unexpected
-----------------------------------------------------------------------------
(* Data port reads and the other ports.                                    *)

read_status ==
    /\ state = "STATUS"
    /\ status' = status \ {"REQ", "XBSY", "CD", "IO"}
    /\ state' = "IDLE"
    /\ moved' = <<>> /\ panic' = FALSE /\ polite' = Expects({"IO"}) /\ irq' = FALSE
    /\ UNCHANGED <<n, command, mask, command_status, pos, selected>>

\* The byte after the last one of the sector is the status.
read_sector ==
    /\ state = "READ_SECTOR"
    /\ n' = n + 1
    /\ IF n + 1 >= SectorSize
       THEN /\ command_status' = "0"
            /\ irq' = ("IRQEN" \in mask)
            /\ status' = status \cup (IF "IRQEN" \in mask THEN {"IRQ"} ELSE {})
            /\ state' = "STATUS"
       ELSE irq' = FALSE /\ UNCHANGED <<command_status, status, state>>
    /\ moved' = <<>> /\ panic' = FALSE /\ polite' = Expects({"IO"})
    /\ UNCHANGED <<command, mask, pos, selected>>

read_unexpected ==
    /\ state \in {"IDLE", "COMMAND", "INITIALIZE_DRIVE"}
    /\ moved' = <<>> /\ panic' = TRUE /\ polite' = Expects({"IO"}) /\ irq' = FALSE
    /\ UNCHANGED <<state, n, command, status, mask, command_status, pos, selected>>

xthdc_data_read == read_status \/ read_sector \/ read_unexpected

\* The reset port stops the command and leaves the status bits as they are.
xthdc_reset_write ==
    /\ state' = "IDLE" /\ selected' = FALSE
    /\ moved' = <<>> /\ panic' = FALSE /\ polite' = TRUE /\ irq' = FALSE
    /\ UNCHANGED <<n, command, status, mask, command_status, pos>>

xthdc_status_read ==
    /\ status' = status \ {"IRQ"}
    /\ moved' = <<>> /\ panic' = FALSE /\ polite' = TRUE /\ irq' = FALSE
    /\ UNCHANGED <<state, n, command, mask, command_status, pos, selected>>

\* A selection that does not take the direction bit back.
drive_sel_keeps_io ==
    /\ status' = status \cup {"REQ", "XBSY", "CD"}
    /\ state' = "COMMAND" /\ n' = 0 /\ selected' = TRUE
    /\ moved' = <<>> /\ panic' = FALSE /\ polite' = TRUE /\ irq' = FALSE
    /\ UNCHANGED <<command, mask, command_status, pos>>

xthdc_drive_sel_write ==
    /\ status' = (status \cup {"REQ", "XBSY", "CD"}) \ {"IO"}
    /\ state' = "COMMAND" /\ n' = 0 /\ selected' = TRUE
    /\ moved' = <<>> /\ panic' = FALSE /\ polite' = TRUE /\ irq' = FALSE
    /\ UNCHANGED <<command, mask, command_status, pos>>

xthdc_mask_write ==
    /\ mask' \in SUBSET {"DRQEN", "IRQEN"}
    /\ moved' = <<>> /\ panic' = FALSE /\ polite' = TRUE /\ irq' = FALSE
    /\ UNCHANGED <<state, n, command, status, command_status, pos, selected>>

Next ==
    \/ xthdc_data_write \/ xthdc_data_read \/ xthdc_reset_write
    \/ xthdc_status_read \/ xthdc_drive_sel_write \/ xthdc_mask_write

Spec == Init /\ [][Next]_vars
-----------------------------------------------------------------------------
(* Properties.                                                             *)

\* A driver that selects a drive after a reset, then reads or writes the data
\* port as the REQ and IO bits tell it, uses implemented commands and stays
\* clear of the end of the disk meets none of the controller's panics, even
\* when it selects again in mid-command or changes the mask in between.
HandshakeNeverPanics == polite => ~panic

\* While a command is under way the status register tells the phase: busy and
\* request set, and the direction bit exactly when there is a byte to read.
PhaseVisible ==
    selected /\ state # "IDLE" =>
       /\ {"REQ", "XBSY"} \subseteq status
       /\ "IO" \in status <=> state \in {"STATUS", "READ_SECTOR"}

\* The bytes of a DMA transfer are consecutive in the image, across sector,
\* head and cylinder borders, from the sector the command addresses up to the
\* end of the disk.
TransferIsLinear ==
    /\ moved # <<>> => moved[1] = Offset(update_chs(command))
    /\ \A k \in 1 .. Len(moved) - 1 :
          moved[k + 1] = IF moved[k] + 1 = Size THEN 0 ELSE moved[k] + 1
=============================================================================
