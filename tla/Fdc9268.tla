------------------------------ MODULE Fdc9268 ------------------------------
(***************************************************************************)
(* The floppy disk controller (fdc9268.c) as its guest driver sees it: the *)
(* command, parameter and result bytes of the FIFO, the main status        *)
(* register, the interrupt status sensed by SIS, controller reset through  *)
(* the digital output register, and where in the image a transfer lands.   *)
(*                                                                         *)
(* An FDC_STATE_CMD_x_y of the source is the record [cmd |-> x, phase, at] *)
(* with at the position of y among the parameter or result bytes of x.     *)
(***************************************************************************)
EXTENDS Integers, Sequences, FiniteSets

CONSTANTS
    Drives,       \* drive numbers, part of 0..3
    Cylinders,    \* cylinders of an image (80, 40)
    Spt,          \* sectors per track
    SectorSize,   \* FLOPPY_SECTOR_SIZE
    Cs, Hs, Rs,   \* cylinder, head and sector numbers the driver may send
    DmaCounts     \* DMA channel word counts the driver may program

Hpc == 2          \* FLOPPY_HPC
Size == Cylinders * Hpc * Spt * SectorSize

ASSUME FdcAssumption ==
    /\ Drives \subseteq 0 .. 3
    /\ Cylinders \in Nat \ {0} /\ Spt \in Nat \ {0} /\ SectorSize \in Nat \ {0}
    /\ Cs \subseteq Nat /\ Hs \subseteq Nat
    /\ Rs \subseteq Nat \ {0}     \* sector numbers start at one
    /\ DmaCounts \subseteq Nat

Commands == {"SIS", "SDS", "SPECIFY", "RECALIB", "SEEK", "READ", "WRITE"}

\* Bytes the controller takes after the command byte, and gives back.
Params(cmd) ==
    CASE cmd = "SIS"     -> <<>>
      [] cmd = "SDS"     -> <<"DS">>
      [] cmd = "SPECIFY" -> <<"SRT_HUT", "HLT_ND">>
      [] cmd = "RECALIB" -> <<"DS">>
      [] cmd = "SEEK"    -> <<"DS", "NCN">>
      [] OTHER           -> <<"DS", "C", "H", "R", "N", "EOT", "GPL", "DTL">>

Results(cmd) ==
    CASE cmd = "SIS" -> <<"ST0", "PCN">>
      [] cmd = "SDS" -> <<"ST3">>
      [] cmd \in {"READ", "WRITE"} -> <<"ST0", "ST1", "ST2", "C", "H", "R", "N">>
      [] OTHER       -> <<>>

Idle == [cmd |-> "SIS", phase |-> "idle", at |-> 0]
State == [cmd : Commands, phase : {"idle", "param", "result"}, at : 0 .. 8]

VARIABLES
    state,
    dio, busy,    \* bits of the main status register; RQM is always set
    st0,          \* [ic, se, hd, ds]: command status, seek complete, head, drive
    st1,          \* SECTOR_NOT_FOUND reported
    pcn,          \* present cylinder number
    pending_irq, dor_reset,
    chr,          \* cmd_cylinder, cmd_head, cmd_sector
    loaded,       \* drives that hold an image
    start,        \* byte offset at which the last transfer began
    panic,        \* the last access ended in panic()
    polite,       \* the last access followed the handshake and the geometry
    cause         \* what raised the floppy interrupt last

vars == <<state, dio, busy, st0, st1, pcn, pending_irq, dor_reset, chr, loaded,
          start, panic, polite, cause>>

St0 == [ic : {0, 1, 3}, se : BOOLEAN, hd : {0, 1}, ds : 0 .. 3]

TypeOK ==
    /\ state \in State
    /\ dio \in BOOLEAN /\ busy \in BOOLEAN
    /\ st0 \in St0 /\ st1 \in BOOLEAN
    /\ pcn \in Nat
    /\ pending_irq \in BOOLEAN /\ dor_reset \in BOOLEAN
    /\ chr \in [c : Nat, h : Nat, r : Nat]
    /\ loaded \in SUBSET Drives
    /\ start \in Int
    /\ panic \in BOOLEAN /\ polite \in BOOLEAN
    /\ cause \in {"none", "reset", "seek", "transfer"}

\* fdc9268_init clears everything and resets; images are loaded at start-up.
Init ==
    /\ state = Idle
    /\ dio = FALSE /\ busy = FALSE
    /\ st0 = [ic |-> 3, se |-> FALSE, hd |-> 0, ds |-> 0]
    /\ st1 = FALSE
    /\ pcn = 0
    /\ pending_irq = FALSE /\ dor_reset = TRUE
    /\ chr = [c |-> 0, h |-> 0, r |-> 0]
    /\ loaded \in SUBSET Drives
    /\ start = 0
    /\ panic = FALSE /\ polite = TRUE
    /\ cause = "none"
-----------------------------------------------------------------------------
(* The digital output register.                                            *)

fdc_reset ==
    /\ state' = Idle
    /\ dio' = FALSE /\ busy' = FALSE
    /\ st0' = [ic |-> 3, se |-> FALSE, hd |-> 0, ds |-> 0]
    /\ st1' = FALSE
    /\ pcn' = 0
    /\ pending_irq' = FALSE /\ dor_reset' = TRUE
    /\ panic' = FALSE /\ polite' = TRUE
    /\ cause' = "none"
    /\ UNCHANGED <<chr, loaded, start>>

\* The first write that enables DMA after a reset raises the interrupt.
fdc_dor_enable ==
    /\ dor_reset
    /\ dor_reset' = FALSE
    /\ pending_irq' = TRUE /\ cause' = "reset"
    /\ panic' = FALSE /\ polite' = TRUE
    /\ UNCHANGED <<state, dio, busy, st0, st1, pcn, chr, loaded, start>>

fdc_dor_write == fdc_reset \/ fdc_dor_enable
-----------------------------------------------------------------------------
(* FIFO writes: command byte and parameters.                               *)

Taking(name) ==
    /\ state.phase = "param" /\ Params(state.cmd)[state.at] = name
    /\ panic' = FALSE /\ polite' = ~dio

NextParam == [state EXCEPT !.at = @ + 1]
FirstResult(cmd) == [cmd |-> cmd, phase |-> "result", at |-> 1]

\* Faulty: every command drops the seek-complete bit.
write_command_drops_se(cmd) ==
    /\ state.phase = "idle"
    /\ panic' = FALSE /\ polite' = ~dio
    /\ busy' = TRUE
    /\ dio' = IF cmd = "SIS" THEN TRUE ELSE dio
    /\ st0' = [st0 EXCEPT !.se = FALSE]
    /\ state' = IF cmd = "SIS" THEN FirstResult(cmd)
                ELSE [cmd |-> cmd, phase |-> "param", at |-> 1]
    /\ UNCHANGED <<st1, pcn, pending_irq, dor_reset, chr, loaded, start, cause>>

\* FDC_STATE_IDLE: SIS goes straight to its results; RECALIB and SEEK drop
\* the seek-complete bit at once.
write_command(cmd) ==
    /\ state.phase = "idle"
    /\ panic' = FALSE /\ polite' = ~dio
    /\ busy' = TRUE
    /\ dio' = IF cmd = "SIS" THEN TRUE ELSE dio
    /\ st0' = IF cmd \in {"RECALIB", "SEEK"} THEN [st0 EXCEPT !.se = FALSE] ELSE st0
    /\ state' = IF cmd = "SIS" THEN FirstResult(cmd)
                ELSE [cmd |-> cmd, phase |-> "param", at |-> 1]
    /\ UNCHANGED <<st1, pcn, pending_irq, dor_reset, chr, loaded, start, cause>>

\* An unknown command byte in FDC_STATE_IDLE, which no polite driver sends,
\* or any byte while the controller has a result to give.
write_unexpected ==
    /\ state.phase \in {"idle", "result"}
    /\ panic' = TRUE /\ polite' = (state.phase = "result" /\ ~dio)
    /\ UNCHANGED <<state, dio, busy, st0, st1, pcn, pending_irq, dor_reset, chr,
                   loaded, start, cause>>

\* The drive select byte of SDS, SEEK, READ and WRITE.
write_drive(d, h) ==
    /\ Taking("DS") /\ state.cmd # "RECALIB"
    /\ st0' = [st0 EXCEPT !.ds = d, !.hd = h]
    /\ state' = IF state.cmd = "SDS" THEN FirstResult("SDS") ELSE NextParam
    /\ dio' = IF state.cmd = "SDS" THEN TRUE ELSE dio
    /\ UNCHANGED <<busy, st1, pcn, pending_irq, dor_reset, chr, loaded, start, cause>>

write_recalib_drive(d, h) ==
    /\ Taking("DS") /\ state.cmd = "RECALIB"
    /\ pcn' = 0
    /\ st0' = [ic |-> 0, se |-> TRUE, hd |-> h, ds |-> d]
    /\ busy' = FALSE
    /\ pending_irq' = TRUE /\ cause' = "seek"
    /\ state' = Idle
    /\ UNCHANGED <<dio, st1, dor_reset, chr, loaded, start>>

write_seek_ncn(c) ==
    /\ Taking("NCN")
    /\ pcn' = c
    /\ st0' = [st0 EXCEPT !.se = TRUE]
    /\ busy' = FALSE
    /\ pending_irq' = TRUE /\ cause' = "seek"
    /\ state' = Idle
    /\ UNCHANGED <<dio, st1, dor_reset, chr, loaded, start>>

write_cylinder(c) ==
    /\ Taking("C")
    /\ chr' = [chr EXCEPT !.c = c] /\ state' = NextParam
    /\ UNCHANGED <<dio, busy, st0, st1, pcn, pending_irq, dor_reset, loaded, start, cause>>

write_head(h) ==
    /\ Taking("H")
    /\ chr' = [chr EXCEPT !.h = h] /\ state' = NextParam
    /\ UNCHANGED <<dio, busy, st0, st1, pcn, pending_irq, dor_reset, loaded, start, cause>>

write_sector(r) ==
    /\ Taking("R")
    /\ chr' = [chr EXCEPT !.r = r] /\ state' = NextParam
    /\ UNCHANGED <<dio, busy, st0, st1, pcn, pending_irq, dor_reset, loaded, start, cause>>

\* Parameters that are stored without effect or ignored; the last one of
\* SPECIFY ends the command.
write_ignored ==
    /\ \E name \in {"N", "EOT", "GPL", "SRT_HUT", "HLT_ND"} :
          /\ Taking(name)
          /\ state' = IF name = "HLT_ND" THEN Idle ELSE NextParam
          /\ busy' = IF name = "HLT_ND" THEN FALSE ELSE busy
    /\ UNCHANGED <<dio, st0, st1, pcn, pending_irq, dor_reset, chr, loaded, start, cause>>
-----------------------------------------------------------------------------
(* The transfer, started by the last parameter byte of READ and WRITE.     *)

\* Faulty: counts sectors from zero.
LbaFromZero(c, h, r) == (c * Hpc + h) * Spt + r

Lba(c, h, r) == (c * Hpc + h) * Spt + r - 1

\* Faulty: the end of the image counts as an overrun.
OverrunsAtEnd(p, bytes) == bytes > 0 /\ p + bytes >= Size

\* Whether count + 1 callbacks starting at offset p go past the image: the
\* position is advanced after each byte and may reach Size, not exceed it.
Overruns(p, bytes) == bytes > 0 /\ p + bytes > Size

\* Faulty: ST1 keeps what an earlier transfer left in it.
write_dtl_keeps_st1 ==
    /\ state.phase = "param" /\ Params(state.cmd)[state.at] = "DTL"
    /\ st0' = [st0 EXCEPT !.ic = IF st0.ds \in loaded THEN 0 ELSE 1]
    /\ pending_irq' = TRUE /\ cause' = "transfer"
    /\ dio' = TRUE /\ panic' = FALSE /\ polite' = FALSE
    /\ state' = FirstResult(state.cmd)
    /\ UNCHANGED <<busy, st1, pcn, dor_reset, chr, loaded, start>>

\* fdc_image_dma and what the DTL state does with its answer. bytes is zero
\* when the DMA channel is not in the mode the operation needs: nothing is
\* moved, and the command still succeeds.
write_dtl ==
    /\ state.phase = "param" /\ Params(state.cmd)[state.at] = "DTL"
    /\ \E bytes \in {0} \cup {n + 1 : n \in DmaCounts} :
          LET ok    == st0.ds \in loaded
              first == Lba(chr.c, chr.h, chr.r) * SectorSize
          IN /\ start' = IF ok THEN first ELSE start
             /\ st0' = [st0 EXCEPT !.ic = IF ok THEN 0 ELSE 1]
             /\ st1' = ~ok
             /\ panic' = (ok /\ Overruns(first, bytes))
             /\ polite' = (/\ ~dio
                           /\ chr.c < Cylinders /\ chr.h < Hpc
                           /\ chr.r \in 1 .. Spt
                           /\ first + bytes <= Size)
    /\ pending_irq' = TRUE /\ cause' = "transfer"
    /\ dio' = TRUE
    /\ state' = FirstResult(state.cmd)
    /\ UNCHANGED <<busy, pcn, dor_reset, chr, loaded>>

fdc_fifo_write ==
    \/ \E cmd \in Commands : write_command(cmd)
    \/ \E d \in Drives, h \in Hs \cap {0, 1} : write_drive(d, h) \/ write_recalib_drive(d, h)
    \/ \E c \in Cs : write_seek_ncn(c) \/ write_cylinder(c)
    \/ \E h \in Hs : write_head(h)
    \/ \E r \in Rs : write_sector(r)
    \/ write_ignored \/ write_dtl \/ write_unexpected
-----------------------------------------------------------------------------
(* FIFO reads: result bytes. Reading ST0 acknowledges the interrupt; the   *)
(* last byte of a result returns the controller to idle.                   *)

\* Faulty: the result starts again after its last byte.
read_result_restarts ==
    /\ state.phase = "result"
    /\ state' = IF state.at = Len(Results(state.cmd)) THEN FirstResult(state.cmd)
                ELSE [state EXCEPT !.at = @ + 1]
    /\ pending_irq' = FALSE
    /\ panic' = FALSE /\ polite' = dio
    /\ UNCHANGED <<dio, busy, st0, st1, pcn, dor_reset, chr, loaded, start, cause>>

read_result ==
    /\ state.phase = "result"
    /\ LET last == state.at = Len(Results(state.cmd))
       IN /\ state' = IF last THEN Idle ELSE [state EXCEPT !.at = @ + 1]
          /\ dio' = IF last THEN FALSE ELSE dio
          /\ busy' = IF last THEN FALSE ELSE busy
    /\ pending_irq' = IF Results(state.cmd)[state.at] = "ST0" THEN FALSE
                      ELSE pending_irq
    /\ panic' = FALSE /\ polite' = dio
    /\ UNCHANGED <<st0, st1, pcn, dor_reset, chr, loaded, start, cause>>

read_unexpected ==
    /\ state.phase # "result"
    /\ panic' = TRUE /\ polite' = dio
    /\ UNCHANGED <<state, dio, busy, st0, st1, pcn, pending_irq, dor_reset, chr,
                   loaded, start, cause>>

fdc_fifo_read == read_result \/ read_unexpected

\* fdc9268_image_load from the debugger, between two instructions, into a
\* drive that may hold an image. It empties the drive first, and leaves it so
\* when the file cannot be opened, is too large or has no known geometry. All
\* images have the geometry of the constants.
fdc9268_image_load ==
    /\ \E d \in Drives : loaded' \in {loaded \cup {d}, loaded \ {d}}
    /\ UNCHANGED <<state, dio, busy, st0, st1, pcn, pending_irq, dor_reset, chr,
                   start, panic, polite, cause>>

Next == fdc_dor_write \/ fdc_fifo_write \/ fdc_fifo_read \/ fdc9268_image_load

Spec == Init /\ [][Next]_vars

\* A driver that carries on with the byte the status register asks for.
Driver == read_result \/ (state.phase = "param" /\ fdc_fifo_write)
FairSpec == Spec /\ WF_vars(Driver)
-----------------------------------------------------------------------------
(* Properties.                                                             *)

\* A driver that reads the FIFO when the status register has DIO set, writes
\* known commands when it is clear and stays inside the image never runs
\* into one of the controller's panics, whatever was done before: resets in
\* mid-command, rude accesses, an image changed or lost meanwhile. The transfer
\* of the last sector included, which ends exactly at the image size.
HandshakeNeverPanics == polite => ~panic

\* The sector a transfer begins at is the one the command addresses, in the
\* order of a raw image: cylinder by cylinder, head by head (fdc_image_dma).
SectorsBefore(c, h, r) ==
    {s \in (0 .. Cylinders - 1) \X (0 .. Hpc - 1) \X (1 .. Spt) :
        \/ s[1] < c
        \/ s[1] = c /\ s[2] < h
        \/ s[1] = c /\ s[2] = h /\ s[3] < r}

InGeometry == chr.c < Cylinders /\ chr.h < Hpc /\ chr.r \in 1 .. Spt

TransferHitsAddressedSector ==
    (/\ state.phase = "result" /\ state.cmd \in {"READ", "WRITE"}
     /\ st0.ic = 0 /\ InGeometry)
    => start = Cardinality(SectorsBefore(chr.c, chr.h, chr.r)) * SectorSize

\* The two error reports of a transfer agree until the driver has read them:
\* abnormal termination in ST0 exactly when ST1 says sector not found.
TransferStatusAgrees ==
    state.phase = "result" /\ state.cmd \in {"READ", "WRITE"}
    => (st0.ic = 1 <=> st1) /\ st0.ic # 3

\* When SIS is about to answer a driver about the interrupt of a SEEK or
\* RECALIB, seek-complete is still set: no command in between has lost it.
SenseReportsSeekEnd ==
    (/\ state = FirstResult("SIS")
     /\ pending_irq /\ cause = "seek") => st0.se

\* Every command ends: a driver that keeps following the status register
\* gets the controller back to idle.
CommandEnds == state.phase # "idle" ~> state.phase = "idle"
=============================================================================
