---------------------------- MODULE FloppyProofs ----------------------------
(***************************************************************************)
(* Proofs about the floppy controller, for every set of drives, every      *)
(* geometry and every parameter value, and about the DMA controller that   *)
(* it transfers through, for every width of a byte, every size of memory,  *)
(* any read-only addresses and any requests of the two drivers.            *)
(***************************************************************************)
EXTENDS Fdc9268, I8237, FunctionTheorems, FiniteSetTheorems, TLAPS

\* The position inside the current command is one the command has, ...
AtInCommand ==
    /\ state.phase = "param"  => state.at \in 1 .. Len(Params(state.cmd))
    /\ state.phase = "result" => state.at \in 1 .. Len(Results(state.cmd))

\* ... and the main status register tells the driver which phase it is:
\* DIO exactly while result bytes wait, BUSY exactly inside a command.
MsrAgrees ==
    /\ dio <=> state.phase = "result"
    /\ busy <=> state.phase # "idle"

\* The interrupt of a seek keeps its seek-complete bit until the next SEEK
\* or RECALIB is under way.
SeekEndKept ==
    pending_irq /\ cause = "seek"
    => st0.se \/ (state.phase = "param" /\ state.cmd \in {"SEEK", "RECALIB"})

IInv == /\ TypeOK /\ AtInCommand /\ MsrAgrees /\ SeekEndKept
        /\ HandshakeNeverPanics /\ TransferStatusAgrees

\* The byte tables: every command has at most eight parameters and seven
\* results, and only the named parameters are last.
LEMMA ParamTable ==
    ASSUME NEW cmd \in Commands, NEW at \in 1 .. Len(Params(cmd)),
           cmd \notin {"RECALIB", "SDS"},
           Params(cmd)[at] \notin {"NCN", "HLT_ND", "DTL"}
    PROVE  at + 1 \in 1 .. Len(Params(cmd))
<1>1. CASE cmd = "SIS"  BY <1>1 DEF Params
<1>2. CASE cmd = "SPECIFY"  BY <1>2 DEF Params
<1>3. CASE cmd = "SEEK"  BY <1>3 DEF Params
<1>4. CASE cmd \in {"READ", "WRITE"}  BY <1>4 DEF Params
<1> QED  BY <1>1, <1>2, <1>3, <1>4 DEF Commands

LEMMA TableSizes ==
    ASSUME NEW cmd \in Commands
    PROVE  /\ Len(Params(cmd)) \in 0 .. 8 /\ Len(Results(cmd)) \in 0 .. 7
           /\ cmd # "SIS" => Len(Params(cmd)) >= 1
           /\ cmd \in {"SIS", "SDS", "READ", "WRITE"} => Len(Results(cmd)) >= 1
<1>1. CASE cmd \in {"SIS", "SDS"}  BY <1>1 DEF Params, Results
<1>2. CASE cmd \in {"SPECIFY", "RECALIB", "SEEK"}  BY <1>2 DEF Params, Results
<1>3. CASE cmd \in {"READ", "WRITE"}  BY <1>3 DEF Params, Results
<1> QED  BY <1>1, <1>2, <1>3 DEF Commands

\* Which commands a parameter byte can belong to.
LEMMA ParamOwners ==
    ASSUME NEW cmd \in Commands, NEW at \in 1 .. Len(Params(cmd))
    PROVE  /\ Params(cmd)[at] = "NCN" => cmd = "SEEK"
           /\ Params(cmd)[at] \in {"C", "H", "R", "N", "EOT", "GPL", "DTL"}
                 => cmd \in {"READ", "WRITE"}
           /\ Params(cmd)[at] \in {"SRT_HUT", "HLT_ND"} => cmd = "SPECIFY"
           /\ Params(cmd)[at] = "DS" => cmd \in {"SDS", "RECALIB", "SEEK", "READ", "WRITE"}
<1>1. CASE cmd \in {"SIS", "SDS"}  BY <1>1 DEF Params
<1>2. CASE cmd \in {"SPECIFY", "RECALIB", "SEEK"}  BY <1>2 DEF Params
<1>3. CASE cmd \in {"READ", "WRITE"}  BY <1>3 DEF Params
<1> QED  BY <1>1, <1>2, <1>3 DEF Commands

LEMMA InitInv == Init => IInv
<1> SUFFICES ASSUME Init PROVE IInv  OBVIOUS
<1>1. state \in State /\ state.phase = "idle"
  BY DEF Init, Idle, State, Commands
<1>2. st0 \in St0  BY DEF Init, St0
<1>3. chr \in [c : Nat, h : Nat, r : Nat]  BY DEF Init
<1>4. TypeOK
  <2>1. dio \in BOOLEAN /\ busy \in BOOLEAN /\ st1 \in BOOLEAN /\ panic \in BOOLEAN
    BY DEF Init
  <2>2. pending_irq \in BOOLEAN /\ dor_reset \in BOOLEAN /\ polite \in BOOLEAN
    BY DEF Init
  <2>3. /\ pcn \in Nat /\ start \in Int /\ loaded \in SUBSET Drives
        /\ cause \in {"none", "reset", "seek", "transfer"}
    BY DEF Init
  <2> QED  BY <1>1, <1>2, <1>3, <2>1, <2>2, <2>3 DEF TypeOK
<1> QED
  BY <1>1, <1>4 DEF Init, IInv, AtInCommand, MsrAgrees, SeekEndKept,
                    HandshakeNeverPanics, TransferStatusAgrees

LEMMA AtBound ==
    ASSUME NEW n \in 0 .. 8, NEW k \in 1 .. n, k # n
    PROVE  k + 1 \in 0 .. 8 /\ k + 1 \in 1 .. n
OBVIOUS

\* Moving to another byte of the same command.
LEMMA AtUpdate ==
    ASSUME NEW s \in State, NEW k \in 0 .. 8, NEW t, t = [s EXCEPT !.at = k]
    PROVE  t \in State /\ t.cmd = s.cmd /\ t.phase = s.phase /\ t.at = k
BY DEF State

\* Resets, whatever the controller was doing.
LEMMA DorStep ==
    ASSUME IInv, fdc_dor_write PROVE IInv'
<1> USE DEF IInv, AtInCommand, MsrAgrees, SeekEndKept, HandshakeNeverPanics,
            TransferStatusAgrees
<1>1. CASE fdc_reset
  <2>1. state' \in State /\ state'.phase = "idle"
    BY <1>1 DEF fdc_reset, Idle, State, Commands
  <2>2. st0' \in St0  BY <1>1 DEF fdc_reset, St0
  <2>3. TypeOK'  BY <1>1, <2>1, <2>2 DEF fdc_reset, TypeOK
  <2> QED  BY <1>1, <2>1, <2>3 DEF fdc_reset
<1>2. CASE fdc_dor_enable
  <2>1. TypeOK'  BY <1>2 DEF fdc_dor_enable, TypeOK
  <2> QED  BY <1>2, <2>1 DEF fdc_dor_enable
<1> QED  BY <1>1, <1>2 DEF fdc_dor_write

\* Result bytes and reads out of turn.
LEMMA ReadStep ==
    ASSUME IInv, fdc_fifo_read PROVE IInv'
<1> USE DEF IInv, MsrAgrees, SeekEndKept, HandshakeNeverPanics, TransferStatusAgrees
<1>1. CASE read_result
  <2>1. /\ state \in State /\ state.cmd \in Commands
        /\ state.at \in 1 .. Len(Results(state.cmd))
    BY <1>1 DEF read_result, TypeOK, State, AtInCommand
  <2>2. Len(Results(state.cmd)) \in 0 .. 7
    BY <2>1, TableSizes
  <2>3. CASE state.at = Len(Results(state.cmd))
    <3>0. state' = Idle /\ dio' = FALSE /\ busy' = FALSE
      BY <1>1, <2>3 DEF read_result
    <3>1. state' \in State /\ state'.phase = "idle"
      BY <3>0 DEF Idle, State, Commands
    <3>2. TypeOK'  BY <1>1, <3>0, <3>1 DEF read_result, TypeOK
    <3> QED  BY <1>1, <3>0, <3>1, <3>2 DEF read_result, AtInCommand
  <2>4. CASE state.at # Len(Results(state.cmd))
    <3>1. /\ state' = [state EXCEPT !.at = @ + 1]
          /\ dio' = dio /\ busy' = busy
      BY <1>1, <2>4 DEF read_result, TypeOK
    <3>2. /\ state' \in State /\ state'.phase = "result" /\ state'.cmd = state.cmd
          /\ state'.at \in 1 .. Len(Results(state.cmd))
      <4>1. /\ state.at + 1 \in 0 .. 8
            /\ state.at + 1 \in 1 .. Len(Results(state.cmd))
            /\ state.phase = "result"
        <5>1. Len(Results(state.cmd)) \in 0 .. 8  BY <2>2
        <5> QED  BY <1>1, <2>1, <2>4, <5>1, AtBound DEF read_result
      <4>2. state' = [state EXCEPT !.at = state.at + 1]  BY <3>1
      <4> QED  BY <2>1, <4>1, <4>2, AtUpdate
    <3>3. TypeOK'  BY <1>1, <3>1, <3>2 DEF read_result, TypeOK
    <3>4. AtInCommand'  BY <3>2 DEF AtInCommand
    <3> QED  BY <1>1, <3>1, <3>2, <3>3, <3>4 DEF read_result
  <2> QED  BY <2>3, <2>4
<1>2. CASE read_unexpected
  <2>1. TypeOK'  BY <1>2 DEF read_unexpected, TypeOK
  <2> QED  BY <1>2, <2>1 DEF read_unexpected, AtInCommand
<1> QED  BY <1>1, <1>2 DEF fdc_fifo_read

\* A parameter byte that leaves its command in the parameter phase.
LEMMA NextParamOK ==
    ASSUME IInv, NEW name, Taking(name), name \notin {"NCN", "HLT_ND", "DTL"},
           state.cmd \notin {"RECALIB", "SDS"}, state' = NextParam
    PROVE  /\ state' \in State /\ state'.phase = "param" /\ state'.cmd = state.cmd
           /\ AtInCommand'
<1>1. /\ state \in State /\ state.cmd \in Commands /\ state.phase = "param"
      /\ state.at \in 1 .. Len(Params(state.cmd))
      /\ Params(state.cmd)[state.at] = name
  BY DEF IInv, TypeOK, State, AtInCommand, Taking
<1>2. state.at + 1 \in 1 .. Len(Params(state.cmd))
  BY <1>1, ParamTable
<1>3. Len(Params(state.cmd)) \in 0 .. 8
  BY <1>1, TableSizes
<1>4. /\ state' \in State /\ state'.phase = "param" /\ state'.cmd = state.cmd
      /\ state'.at = state.at + 1
  <2>0. ASSUME NEW n \in 0 .. 8, NEW k \in 1 .. n, k + 1 \in 1 .. n
        PROVE  k + 1 \in 0 .. 8
    BY <2>0
  <2>1. state.at + 1 \in 0 .. 8  BY <1>1, <1>2, <1>3, <2>0
  <2>2. state' = [state EXCEPT !.at = state.at + 1]  BY DEF NextParam
  <2> HIDE DEF NextParam
  <2> QED  BY <1>1, <2>1, <2>2, AtUpdate
<1> QED  BY <1>2, <1>4 DEF AtInCommand

\* The first result byte of a command that has results.
LEMMA FirstResultOK ==
    ASSUME NEW cmd \in {"SIS", "SDS", "READ", "WRITE"}, state' = FirstResult(cmd)
    PROVE  /\ state' \in State /\ state'.phase = "result" /\ state'.cmd = cmd
           /\ AtInCommand'
<1>1. cmd \in Commands  BY DEF Commands
<1>2. Len(Results(cmd)) \in 0 .. 7 /\ Len(Results(cmd)) >= 1
  BY <1>1, TableSizes
<1>3. /\ state' \in State /\ state'.phase = "result" /\ state'.cmd = cmd
      /\ state'.at = 1
  BY <1>1 DEF FirstResult, State
<1> QED  BY <1>2, <1>3 DEF AtInCommand

LEMMA IdleOK ==
    ASSUME state' = Idle
    PROVE  state' \in State /\ state'.phase = "idle" /\ AtInCommand'
BY DEF Idle, State, Commands, AtInCommand

\* One byte written to the FIFO.
LEMMA WriteStep ==
    ASSUME IInv, fdc_fifo_write PROVE IInv'
<1> USE DEF MsrAgrees, SeekEndKept, HandshakeNeverPanics, TransferStatusAgrees
<1>0. /\ TypeOK /\ MsrAgrees /\ SeekEndKept /\ TransferStatusAgrees
      /\ state.cmd \in Commands /\ st0 \in St0
  BY DEF IInv, TypeOK, State
<1>1. /\ Drives \subseteq 0 .. 3 /\ Cs \subseteq Nat /\ Hs \subseteq Nat
      /\ Rs \subseteq Nat /\ SectorSize \in Nat /\ Spt \in Nat
  BY FdcAssumption
<1>2. ASSUME NEW cmd \in Commands, write_command(cmd) PROVE IInv'
  <2>1. st0' \in St0 /\ panic' = FALSE /\ polite' \in BOOLEAN /\ busy' = TRUE
    BY <1>0, <1>2 DEF write_command, St0, TypeOK
  <2>2. CASE cmd = "SIS"
    <3>1. state' \in State /\ state'.phase = "result" /\ state'.cmd = "SIS" /\ AtInCommand'
      BY <1>2, <2>2, FirstResultOK DEF write_command
    <3>2. dio' = TRUE /\ st0' = st0
      BY <1>2, <2>2 DEF write_command
    <3>3. TypeOK'
      BY <1>0, <1>2, <2>1, <3>1, <3>2 DEF write_command, TypeOK
    <3> QED
      BY <1>0, <1>2, <2>1, <3>1, <3>2, <3>3 DEF IInv, write_command
  <2>3. CASE cmd # "SIS"
    <3>1. /\ state' = [cmd |-> cmd, phase |-> "param", at |-> 1]
          /\ dio' = dio
      BY <1>2, <2>3 DEF write_command
    <3>2. Len(Params(cmd)) \in 0 .. 8 /\ Len(Params(cmd)) >= 1
      BY <2>3, TableSizes
    <3>3. /\ state' \in State /\ state'.phase = "param" /\ state'.cmd = cmd
          /\ state'.at = 1
      BY <3>1 DEF State
    <3>4. AtInCommand'  BY <3>2, <3>3 DEF AtInCommand
    <3>5. TypeOK'
      BY <1>0, <1>2, <2>1, <3>1, <3>3 DEF write_command, TypeOK
    <3>6. SeekEndKept'
      <4>1. CASE cmd \in {"SEEK", "RECALIB"}  BY <3>3, <4>1
      <4>2. CASE cmd \notin {"SEEK", "RECALIB"}
        <5>1. /\ st0' = st0 /\ pending_irq' = pending_irq /\ cause' = cause
              /\ state.phase = "idle"
          BY <1>2, <4>2 DEF write_command
        <5> QED  BY <1>0, <5>1
      <4> QED  BY <4>1, <4>2
    <3>7. MsrAgrees'
      <4>1. state.phase = "idle"  BY <1>2 DEF write_command
      <4>2. ~dio  BY <1>0, <4>1
      <4> QED  BY <2>1, <3>1, <3>3, <4>2
    <3> QED
      BY <2>1, <3>3, <3>4, <3>5, <3>6, <3>7 DEF IInv
  <2> QED  BY <2>2, <2>3
<1>3. ASSUME NEW d \in Drives, NEW h \in {0, 1}, write_drive(d, h) PROVE IInv'
  <2>1. /\ st0' \in St0 /\ st0'.se = st0.se /\ panic' = FALSE
        /\ polite' \in BOOLEAN /\ state.phase = "param" /\ busy' = busy
    BY <1>0, <1>1, <1>3 DEF write_drive, Taking, St0, TypeOK
  <2>2. CASE state.cmd = "SDS"
    <3>1. state' \in State /\ state'.phase = "result" /\ state'.cmd = "SDS" /\ AtInCommand'
      BY <1>3, <2>2, FirstResultOK DEF write_drive
    <3>2. dio' = TRUE
      BY <1>3, <2>2 DEF write_drive
    <3>3. TypeOK'
      BY <1>0, <1>3, <2>1, <3>1, <3>2 DEF write_drive, TypeOK
    <3> QED
      BY <1>0, <1>3, <2>1, <2>2, <3>1, <3>2, <3>3 DEF IInv, write_drive
  <2>3. CASE state.cmd # "SDS"
    <3>1. state' = NextParam /\ dio' = dio /\ Taking("DS") /\ state.cmd # "RECALIB"
      BY <1>3, <2>3 DEF write_drive
    <3>2. /\ state' \in State /\ state'.phase = "param" /\ state'.cmd = state.cmd
          /\ AtInCommand'
      BY <2>3, <3>1, NextParamOK
    <3>3. TypeOK'
      BY <1>0, <1>3, <2>1, <3>1, <3>2 DEF write_drive, TypeOK
    <3>4. SeekEndKept'
      <4>1. pending_irq' = pending_irq /\ cause' = cause
        BY <1>3 DEF write_drive
      <4> QED  BY <1>0, <2>1, <3>2, <4>1
    <3>5. MsrAgrees'
      BY <1>0, <2>1, <3>1, <3>2
    <3> QED
      BY <2>1, <3>2, <3>3, <3>4, <3>5 DEF IInv
  <2> QED  BY <2>2, <2>3
<1>4. ASSUME NEW d \in Drives, NEW h \in {0, 1}, write_recalib_drive(d, h) PROVE IInv'
  <2>1. /\ st0' \in St0 /\ st0'.se /\ panic' = FALSE /\ polite' \in BOOLEAN
        /\ state.phase = "param" /\ pcn' \in Nat
    BY <1>0, <1>1, <1>4 DEF write_recalib_drive, Taking, St0, TypeOK
  <2>2. state' \in State /\ state'.phase = "idle" /\ AtInCommand'
    BY <1>4, IdleOK DEF write_recalib_drive
  <2>3. TypeOK'
    BY <1>0, <1>4, <2>1, <2>2 DEF write_recalib_drive, TypeOK
  <2> QED
    BY <1>0, <1>4, <2>1, <2>2, <2>3 DEF IInv, write_recalib_drive
<1>5. ASSUME NEW c \in Cs, write_seek_ncn(c) PROVE IInv'
  <2>1. /\ st0' \in St0 /\ st0'.se /\ panic' = FALSE /\ polite' \in BOOLEAN
        /\ state.phase = "param" /\ pcn' \in Nat
    BY <1>0, <1>1, <1>5 DEF write_seek_ncn, Taking, St0, TypeOK
  <2>2. state' \in State /\ state'.phase = "idle" /\ AtInCommand'
    BY <1>5, IdleOK DEF write_seek_ncn
  <2>3. TypeOK'
    BY <1>0, <1>5, <2>1, <2>2 DEF write_seek_ncn, TypeOK
  <2> QED
    BY <1>0, <1>5, <2>1, <2>2, <2>3 DEF IInv, write_seek_ncn
<1>6. ASSUME NEW name \in {"C", "H", "R", "N", "EOT", "GPL", "SRT_HUT"}, Taking(name),
             state' = NextParam, chr' \in [c : Nat, h : Nat, r : Nat],
             UNCHANGED <<dio, busy, st0, st1, pcn, pending_irq, dor_reset, loaded,
                         start, cause>>
      PROVE  IInv'
  <2>1. /\ panic' = FALSE /\ polite' \in BOOLEAN /\ state.phase = "param"
        /\ state.at \in 1 .. Len(Params(state.cmd))
        /\ Params(state.cmd)[state.at] = name
    BY <1>0, <1>6 DEF Taking, TypeOK, IInv, AtInCommand
  <2>2. state.cmd \notin {"RECALIB", "SDS"}
    BY <1>0, <2>1, ParamOwners
  <2>3. /\ state' \in State /\ state'.phase = "param" /\ state'.cmd = state.cmd
        /\ AtInCommand'
    BY <1>6, <2>2, NextParamOK
  <2>4. TypeOK'
    BY <1>0, <1>6, <2>1, <2>3 DEF TypeOK
  <2>5. SeekEndKept' /\ MsrAgrees'
    BY <1>0, <1>6, <2>1, <2>3
  <2> QED
    BY <2>1, <2>3, <2>4, <2>5 DEF IInv
<1>7. ASSUME NEW c \in Cs, write_cylinder(c) PROVE IInv'
  BY <1>0, <1>1, <1>6, <1>7 DEF write_cylinder, TypeOK
<1>8. ASSUME NEW h \in Hs, write_head(h) PROVE IInv'
  BY <1>0, <1>1, <1>6, <1>8 DEF write_head, TypeOK
<1>9. ASSUME NEW r \in Rs, write_sector(r) PROVE IInv'
  BY <1>0, <1>1, <1>6, <1>9 DEF write_sector, TypeOK
<1>10. CASE write_ignored
  <2>1. PICK name \in {"N", "EOT", "GPL", "SRT_HUT", "HLT_ND"} :
          /\ Taking(name)
          /\ state' = IF name = "HLT_ND" THEN Idle ELSE NextParam
          /\ busy' = IF name = "HLT_ND" THEN FALSE ELSE busy
    BY <1>10 DEF write_ignored
  <2>2. CASE name # "HLT_ND"
    BY <1>0, <1>6, <1>10, <2>1, <2>2 DEF write_ignored, TypeOK
  <2>3. CASE name = "HLT_ND"
    <3>1. state' \in State /\ state'.phase = "idle" /\ AtInCommand'
      BY <2>1, <2>3, IdleOK
    <3>2. /\ panic' = FALSE /\ polite' \in BOOLEAN /\ state.phase = "param"
          /\ busy' = FALSE
      BY <1>0, <2>1, <2>3 DEF Taking, TypeOK
    <3>3. state.cmd = "SPECIFY"
      BY <1>0, <2>1, <2>3, ParamOwners DEF Taking, IInv, AtInCommand
    <3>4. TypeOK'
      BY <1>0, <1>10, <3>1, <3>2 DEF write_ignored, TypeOK
    <3> QED
      BY <1>0, <1>10, <3>1, <3>2, <3>3, <3>4 DEF IInv, write_ignored
  <2> QED  BY <2>2, <2>3
<1>11. CASE write_unexpected
  <2>1. TypeOK'  BY <1>0, <1>11 DEF write_unexpected, TypeOK
  <2>2. AtInCommand'  BY <1>11 DEF write_unexpected, IInv, AtInCommand
  <2> QED  BY <1>0, <1>11, <2>1, <2>2 DEF write_unexpected, IInv
<1>12. CASE write_dtl
  <2>1. /\ state.phase = "param" /\ state.at \in 1 .. Len(Params(state.cmd))
        /\ Params(state.cmd)[state.at] = "DTL"
        /\ state' = FirstResult(state.cmd) /\ dio' = TRUE /\ busy' = busy
        /\ pending_irq' = TRUE /\ cause' = "transfer"
    BY <1>12 DEF write_dtl, IInv, AtInCommand
  <2>2. state.cmd \in {"READ", "WRITE"}
    BY <1>0, <2>1, ParamOwners
  <2>3. /\ state' \in State /\ state'.phase = "result" /\ state'.cmd = state.cmd
        /\ AtInCommand'
    BY <2>1, <2>2, FirstResultOK
  <2> DEFINE ok == st0.ds \in loaded
             first == Lba(chr.c, chr.h, chr.r) * SectorSize
  <2>4. PICK bytes \in {0} \cup {n + 1 : n \in DmaCounts} :
          /\ start' = IF ok THEN first ELSE start
          /\ st0' = [st0 EXCEPT !.ic = IF ok THEN 0 ELSE 1]
          /\ st1' = ~ok
          /\ panic' = (ok /\ Overruns(first, bytes))
          /\ polite' = (/\ ~dio /\ chr.c < Cylinders /\ chr.h < Hpc
                        /\ chr.r \in 1 .. Spt /\ first + bytes <= Size)
    BY <1>12 DEF write_dtl
  <2>5. first \in Int
    <3>1. chr.c \in Nat /\ chr.h \in Nat /\ chr.r \in Nat  BY <1>0 DEF TypeOK
    <3> QED  BY <1>1, <3>1 DEF Lba, Hpc
  <2>6. bytes \in Nat
    BY FdcAssumption
  <2>7. Size \in Nat
    BY FdcAssumption DEF Size, Hpc
  <2> HIDE DEF first, ok
  <2>8. panic' \in BOOLEAN /\ polite' \in BOOLEAN /\ st1' \in BOOLEAN /\ start' \in Int
    BY <1>0, <2>4, <2>5 DEF TypeOK
  <2>9. HandshakeNeverPanics'
    <3>1. polite' => first + bytes <= Size  BY <2>4, Zenon
    <3>2. first + bytes <= Size => ~Overruns(first, bytes)
      BY <2>5, <2>6, <2>7 DEF Overruns
    <3>3. panic' => Overruns(first, bytes)  BY <2>4, Zenon
    <3> QED  BY <3>1, <3>2, <3>3
  <2>10. st0' \in St0 /\ (st0'.ic = 1 <=> ~ok) /\ st0'.ic # 3
    BY <1>0, <2>4 DEF St0
  <2>11. TransferStatusAgrees'
    BY <2>3, <2>4, <2>10
  <2>12. TypeOK'
    BY <1>0, <1>12, <2>1, <2>3, <2>8, <2>10 DEF write_dtl, TypeOK
  <2>13. SeekEndKept' /\ MsrAgrees'
    BY <1>0, <2>1, <2>3
  <2> QED  BY <2>3, <2>9, <2>11, <2>12, <2>13 DEF IInv
<1> QED
  BY <1>2, <1>3, <1>4, <1>5, <1>7, <1>8, <1>9, <1>10, <1>11, <1>12
     DEF fdc_fifo_write

LEMMA StepInv == IInv /\ [Next]_vars => IInv'
<1> SUFFICES ASSUME IInv, [Next]_vars PROVE IInv'  OBVIOUS
<1>1. CASE fdc_dor_write   BY <1>1, DorStep
<1>2. CASE fdc_fifo_write  BY <1>2, WriteStep
<1>3. CASE fdc_fifo_read   BY <1>3, ReadStep
<1>4. CASE fdc9268_image_load
  <2>1. TypeOK'
    BY <1>4 DEF fdc9268_image_load, IInv, TypeOK
  <2> QED
    BY <1>4, <2>1
       DEF fdc9268_image_load, IInv, AtInCommand, MsrAgrees, SeekEndKept,
           HandshakeNeverPanics, TransferStatusAgrees
<1>5. CASE UNCHANGED vars
  BY <1>5 DEF vars, IInv, TypeOK, AtInCommand, MsrAgrees, SeekEndKept,
              HandshakeNeverPanics, TransferStatusAgrees
<1> QED  BY <1>1, <1>2, <1>3, <1>4, <1>5 DEF Next

\* The inductive invariant of the floppy controller holds throughout.
THEOREM Invariance == Spec => []IInv
BY InitInv, StepInv, PTL DEF Spec

\* Types, whatever the guest does with the ports.
THEOREM TypeCorrect == Spec => []TypeOK
BY Invariance, PTL DEF IInv

\* The main status register never misleads a driver into a panic
\* (fdc_fifo_read, fdc_fifo_write, the image callbacks).
THEOREM HandshakeSafe == Spec => []HandshakeNeverPanics
BY Invariance, PTL DEF IInv

\* ST0 and ST1 of a transfer agree (FDC_STATE_CMD_READ_DTL, _WRITE_DTL).
THEOREM StatusSafe == Spec => []TransferStatusAgrees
BY Invariance, PTL DEF IInv

\* SIS still finds the seek-complete bit of the interrupt it reports.
THEOREM SeekEndSafe == Spec => []SenseReportsSeekEnd
<1>1. IInv => SenseReportsSeekEnd
  BY DEF IInv, SeekEndKept, SenseReportsSeekEnd, FirstResult
<1> QED  BY <1>1, Invariance, PTL
-----------------------------------------------------------------------------
(* Where a transfer lands: the sectors before the addressed one, counted.  *)

\* Two digits, the lower one below Y, order numbers as they order pairs.
LEMMA DigitOrder ==
    ASSUME NEW Y \in Nat \ {0}, NEW x \in Nat, NEW u \in Nat,
           NEW y \in 0 .. Y - 1, NEW v \in 0 .. Y - 1
    PROVE  x * Y + y < u * Y + v <=> x < u \/ (x = u /\ y < v)
<1>1. ASSUME NEW a \in Nat, NEW b \in Nat, NEW d \in 0 .. Y - 1, NEW e \in 0 .. Y - 1, a < b
      PROVE  a * Y + d < b * Y + e
  <2>1. b - (a + 1) \in Nat
    BY <1>1
  <2>2. (b - (a + 1)) * Y \in Nat
    BY <2>1
  <2>3. (b - (a + 1)) * Y = b * Y - (a * Y + Y)
    BY <2>1
  <2>4. a * Y \in Nat /\ b * Y \in Nat
    BY <1>1
  <2> QED  BY <1>1, <2>2, <2>3, <2>4
<1>2. x * Y \in Nat /\ u * Y \in Nat
  OBVIOUS
<1>3. CASE x < u
  BY <1>1, <1>3
<1>4. CASE u < x
  <2>1. u * Y + v < x * Y + y
    BY <1>1, <1>4
  <2> QED  BY <1>2, <1>4, <2>1
<1>5. CASE x = u
  BY <1>2, <1>5
<1> QED  BY <1>3, <1>4, <1>5

\* Every number has its two digits.
LEMMA Digits ==
    ASSUME NEW Y \in Nat \ {0}, NEW m \in Nat
    PROVE  \E x \in Nat, y \in 0 .. Y - 1 : m = x * Y + y
<1>1. m \div Y \in Nat /\ m % Y \in 0 .. Y - 1
  OBVIOUS
<1>2. m = (m \div Y) * Y + (m % Y)
  OBVIOUS
<1> QED  BY <1>1, <1>2

\* The place of a sector in the raw image, from one.
Place(t) == (t[1] * Hpc + t[2]) * Spt + t[3]
Geometry == (0 .. Cylinders - 1) \X (0 .. Hpc - 1) \X (1 .. Spt)

\* Places order the sectors by cylinder, head and number.
LEMMA PlaceOrder ==
    ASSUME NEW t \in Geometry, NEW u \in Geometry
    PROVE  /\ Place(t) \in Nat \ {0}
           /\ Place(t) < Place(u)
                <=> \/ t[1] < u[1]
                    \/ t[1] = u[1] /\ t[2] < u[2]
                    \/ t[1] = u[1] /\ t[2] = u[2] /\ t[3] < u[3]
<1> DEFINE a == t[1] * 2 + t[2]
           b == u[1] * 2 + u[2]
<1>1. /\ t[1] \in Nat /\ t[2] \in 0 .. 1 /\ t[3] \in 1 .. Spt
      /\ u[1] \in Nat /\ u[2] \in 0 .. 1 /\ u[3] \in 1 .. Spt
      /\ Spt \in Nat \ {0}
  BY FdcAssumption DEF Geometry, Hpc
<1>2. a \in Nat /\ b \in Nat
  BY <1>1
<1>3. a < b <=> t[1] < u[1] \/ (t[1] = u[1] /\ t[2] < u[2])
  BY <1>1
<1>4. a = b <=> t[1] = u[1] /\ t[2] = u[2]
  BY <1>1
<1>5. Place(t) = a * Spt + t[3] /\ Place(u) = b * Spt + u[3]
  BY DEF Place, Hpc
<1> HIDE DEF a, b
<1>6. a * Spt \in Nat /\ b * Spt \in Nat
  BY <1>1, <1>2
<1>7. t[3] - 1 \in 0 .. Spt - 1 /\ u[3] - 1 \in 0 .. Spt - 1
  BY <1>1
<1>8. a * Spt + (t[3] - 1) < b * Spt + (u[3] - 1)
        <=> a < b \/ (a = b /\ t[3] - 1 < u[3] - 1)
  BY <1>1, <1>2, <1>7, DigitOrder
<1>9. Place(t) < Place(u) <=> a < b \/ (a = b /\ t[3] < u[3])
  BY <1>1, <1>5, <1>6, <1>8
<1>10. Place(t) \in Nat \ {0}
  BY <1>1, <1>5, <1>6
<1> QED  BY <1>3, <1>4, <1>9, <1>10

\* Every place before that of a sector is the place of some sector.
LEMMA PlaceTaken ==
    ASSUME NEW u \in Geometry, NEW m \in Nat \ {0}, m < Place(u)
    PROVE  \E t \in Geometry : Place(t) = m
<1>1. /\ Spt \in Nat \ {0} /\ u[1] \in 0 .. Cylinders - 1 /\ u[2] \in 0 .. 1
      /\ u[3] \in 1 .. Spt /\ Cylinders \in Nat
  BY FdcAssumption DEF Geometry, Hpc
<1>2. PICK a \in Nat, y \in 0 .. Spt - 1 : m - 1 = a * Spt + y
  <2>1. m - 1 \in Nat
    OBVIOUS
  <2> QED  BY <1>1, <2>1, Digits
<1>3. PICK x \in Nat, h \in 0 .. 2 - 1 : a = x * 2 + h
  <2>1. 2 \in Nat \ {0}
    OBVIOUS
  <2> QED  BY <2>1, Digits
<1> DEFINE b == u[1] * 2 + u[2]
<1>4. b \in Nat /\ Place(u) = b * Spt + u[3] /\ u[3] - 1 \in 0 .. Spt - 1
  BY <1>1 DEF Place, Hpc
<1>5. ~(b < a)
  <2> HIDE DEF b
  <2>1. b < a => b * Spt + (u[3] - 1) < a * Spt + y
    BY <1>1, <1>2, <1>4, DigitOrder
  <2>2. a * Spt \in Nat /\ b * Spt \in Nat
    BY <1>1, <1>4
  <2> QED  BY <1>1, <1>2, <1>4, <2>1, <2>2
<1>6. x <= u[1]
  BY <1>1, <1>3, <1>5
<1> DEFINE t == <<x, h, y + 1>>
<1>7. t \in Geometry
  BY <1>1, <1>6 DEF Geometry, Hpc
<1>8. Place(t) = m
  <2>1. Place(t) = (x * 2 + h) * Spt + (y + 1)
    BY DEF Place, Hpc
  <2>2. Place(t) = a * Spt + (y + 1)
    BY <1>3, <2>1
  <2>3. a * Spt \in Nat
    BY <1>1
  <2> QED  BY <1>2, <2>2, <2>3
<1> QED  BY <1>7, <1>8

\* The number of sectors before a sector is its logical block address.
LEMMA LbaCounts ==
    ASSUME NEW c \in 0 .. Cylinders - 1, NEW h \in 0 .. Hpc - 1, NEW r \in 1 .. Spt
    PROVE  Cardinality(SectorsBefore(c, h, r)) = Lba(c, h, r)
<1> DEFINE u == <<c, h, r>>
           n == Place(u) - 1
           S == SectorsBefore(c, h, r)
           f == [t \in S |-> Place(t)]
<1>1. u \in Geometry /\ u[1] = c /\ u[2] = h /\ u[3] = r
  BY DEF Geometry
<1>2. Place(u) \in Nat \ {0} /\ n \in Nat
  BY <1>1, PlaceOrder
<1>3. \A t : t \in S <=> t \in Geometry /\ Place(t) < Place(u)
  <2>1. \A t : t \in S
               <=> /\ t \in Geometry
                   /\ \/ t[1] < c
                      \/ t[1] = c /\ t[2] < h
                      \/ t[1] = c /\ t[2] = h /\ t[3] < r
    BY DEF SectorsBefore, Geometry
  <2> HIDE DEF u
  <2>2. \A t \in Geometry : Place(t) < Place(u) <=>
                                \/ t[1] < c
                                \/ t[1] = c /\ t[2] < h
                                \/ t[1] = c /\ t[2] = h /\ t[3] < r
    BY <1>1, PlaceOrder
  <2> HIDE DEF S
  <2> QED  BY <2>1, <2>2
<1> HIDE DEF u, S
<1>4. \A t \in S : t \in Geometry /\ Place(t) \in 1 .. n
  <2> SUFFICES ASSUME NEW t \in S PROVE t \in Geometry /\ Place(t) \in 1 .. n
    OBVIOUS
  <2>1. t \in Geometry /\ Place(t) < Place(u)
    BY <1>3
  <2>2. Place(t) \in Nat \ {0}
    BY <2>1, PlaceOrder
  <2> QED  BY <1>2, <2>1, <2>2
<1>5. f \in [S -> 1 .. n]
  BY <1>4
<1>6. ASSUME NEW t \in S, NEW v \in S, f[t] = f[v] PROVE t = v
  <2>1. t \in Geometry /\ v \in Geometry /\ Place(t) = Place(v)
    BY <1>4, <1>6
  <2>2. Place(t) \in Nat /\ ~(Place(t) < Place(v)) /\ ~(Place(v) < Place(t))
    BY <2>1, PlaceOrder
  <2>3. /\ t[1] \in Nat /\ t[2] \in Nat /\ t[3] \in Nat /\ t = <<t[1], t[2], t[3]>>
        /\ v[1] \in Nat /\ v[2] \in Nat /\ v[3] \in Nat /\ v = <<v[1], v[2], v[3]>>
    BY <2>1, FdcAssumption DEF Geometry, Hpc
  <2>4. /\ ~(t[1] < v[1]) /\ ~(t[1] = v[1] /\ t[2] < v[2])
        /\ ~(t[1] = v[1] /\ t[2] = v[2] /\ t[3] < v[3])
    BY <2>1, <2>2, PlaceOrder
  <2>5. /\ ~(v[1] < t[1]) /\ ~(v[1] = t[1] /\ v[2] < t[2])
        /\ ~(v[1] = t[1] /\ v[2] = t[2] /\ v[3] < t[3])
    BY <2>1, <2>2, PlaceOrder
  <2>6. t[1] = v[1]
    BY <2>3, <2>4, <2>5
  <2>7. t[2] = v[2]
    BY <2>3, <2>4, <2>5, <2>6
  <2>8. t[3] = v[3]
    BY <2>3, <2>4, <2>5, <2>6, <2>7
  <2> QED  BY <2>3, <2>6, <2>7, <2>8
<1>7. ASSUME NEW m \in 1 .. n PROVE \E t \in S : f[t] = m
  <2>1. m \in Nat \ {0} /\ m < Place(u)
    BY <1>2
  <2>2. PICK t \in Geometry : Place(t) = m
    BY <1>1, <2>1, PlaceTaken
  <2>3. t \in S
    BY <1>3, <2>1, <2>2
  <2> QED  BY <2>2, <2>3
<1>8. f \in Bijection(S, 1 .. n)
  <2> HIDE DEF f, n
  <2> QED  BY <1>5, <1>6, <1>7 DEF Bijection, Injection, Surjection, IsInjective
<1>9. ExistsBijection(1 .. n, S)
  BY <1>8, Fun_ExistsBijSymmetric DEF ExistsBijection
<1>10. IsFiniteSet(1 .. n) /\ Cardinality(1 .. n) = n
  <2>1. 1 \in Int /\ n \in Int /\ (IF 1 > n THEN 0 ELSE n - 1 + 1) = n
    <3> HIDE DEF n
    <3> QED  BY <1>2
  <2> HIDE DEF n
  <2> QED  BY <2>1, FS_Interval
<1>11. Cardinality(S) = n
  BY <1>9, <1>10, FS_Bijection
<1>12. n = Lba(c, h, r)
  <2>1. Place(u) = (c * Hpc + h) * Spt + r
    BY <1>1 DEF Place
  <2>2. /\ c \in Int /\ h \in Int /\ r \in Int /\ Spt \in Int /\ Hpc \in Int
        /\ (c * Hpc + h) * Spt \in Int
    BY FdcAssumption DEF Hpc
  <2> QED  BY <2>1, <2>2 DEF Lba
<1> QED  BY <1>11, <1>12 DEF S

\* Only the last parameter of READ or WRITE enters their result phase, and
\* nothing moves the address while the result is read.
LEMMA AddressStep ==
    ASSUME IInv, TransferHitsAddressedSector, [Next]_vars
    PROVE  TransferHitsAddressedSector'
<1> DEFINE InResult == state.phase = "result" /\ state.cmd \in {"READ", "WRITE"}
<1>0. TypeOK /\ AtInCommand /\ state \in State /\ st0 \in St0
  BY DEF IInv, TypeOK
<1>1. ASSUME ~InResult' PROVE TransferHitsAddressedSector'
  BY <1>1 DEF TransferHitsAddressedSector
<1>2. ASSUME InResult' => InResult, UNCHANGED <<st0, chr, start>>
      PROVE  TransferHitsAddressedSector'
  BY <1>2 DEF TransferHitsAddressedSector, InGeometry
<1>3. CASE fdc_dor_write
  BY <1>1, <1>2, <1>3 DEF fdc_dor_write, fdc_reset, fdc_dor_enable, Idle
<1>4. CASE fdc_fifo_read
  <2>1. CASE read_unexpected
    BY <1>2, <2>1 DEF read_unexpected
  <2>2. CASE read_result
    <3>1. UNCHANGED <<st0, chr, start>>
      BY <2>2 DEF read_result
    <3>2. InResult' => InResult
      <4>1. state' = Idle \/ state' = [state EXCEPT !.at = state.at + 1]
        BY <2>2 DEF read_result
      <4>2. state' = [state EXCEPT !.at = state.at + 1]
              => state'.phase = state.phase /\ state'.cmd = state.cmd
        BY <1>0 DEF State
      <4>3. state' = Idle => state'.phase = "idle"
        BY DEF Idle
      <4> QED  BY <4>1, <4>2, <4>3
    <3> QED  BY <1>2, <3>1, <3>2
  <2> QED  BY <1>4, <2>1, <2>2 DEF fdc_fifo_read
<1>5. CASE fdc9268_image_load \/ UNCHANGED vars
  BY <1>2, <1>5 DEF fdc9268_image_load, vars
<1>6. CASE fdc_fifo_write
  <2>1. ASSUME state.phase = "param", state' = NextParam PROVE ~InResult'
    BY <1>0, <2>1 DEF NextParam, State
  <2>2. ASSUME state' = Idle PROVE ~InResult'
    BY <2>2 DEF Idle
  <2>3. ASSUME NEW cmd \in Commands, write_command(cmd) PROVE ~InResult'
    <3>1. \/ state' = FirstResult("SIS")
          \/ state' = [cmd |-> cmd, phase |-> "param", at |-> 1]
      BY <2>3 DEF write_command
    <3> QED  BY <3>1 DEF FirstResult
  <2>4. ASSUME NEW d, NEW h, write_drive(d, h) PROVE ~InResult'
    <3>1. state.phase = "param" /\ (state' = FirstResult("SDS") \/ state' = NextParam)
      BY <2>4 DEF write_drive, Taking
    <3> QED  BY <2>1, <3>1 DEF FirstResult
  <2>5. ASSUME NEW d, NEW h, write_recalib_drive(d, h) PROVE ~InResult'
    BY <2>2, <2>5 DEF write_recalib_drive
  <2>6. ASSUME NEW c, write_seek_ncn(c) PROVE ~InResult'
    BY <2>2, <2>6 DEF write_seek_ncn
  <2>7. ASSUME NEW x, write_cylinder(x) \/ write_head(x) \/ write_sector(x)
        PROVE  ~InResult'
    BY <2>1, <2>7 DEF write_cylinder, write_head, write_sector, Taking
  <2>8. CASE write_ignored
    <3>1. state.phase = "param" /\ (state' = Idle \/ state' = NextParam)
      BY <2>8 DEF write_ignored, Taking
    <3> QED  BY <1>1, <2>1, <2>2, <3>1
  <2>9. CASE write_unexpected
    BY <1>2, <2>9 DEF write_unexpected
  <2>10. CASE write_dtl
    <3> DEFINE first == Lba(chr.c, chr.h, chr.r) * SectorSize
    <3>1. /\ start' = IF st0.ds \in loaded THEN first ELSE start
          /\ st0' = [st0 EXCEPT !.ic = IF st0.ds \in loaded THEN 0 ELSE 1]
          /\ chr' = chr
      BY <2>10 DEF write_dtl
    <3>2. st0'.ic = 0 => start' = first
      BY <1>0, <3>1 DEF St0
    <3>3. chr.c \in Nat /\ chr.h \in Nat /\ chr.r \in Nat
      BY <1>0 DEF TypeOK
    <3>4. InGeometry => Cardinality(SectorsBefore(chr.c, chr.h, chr.r))
                          = Lba(chr.c, chr.h, chr.r)
      <4>1. InGeometry => /\ chr.c \in 0 .. Cylinders - 1 /\ chr.h \in 0 .. Hpc - 1
                          /\ chr.r \in 1 .. Spt
        BY <3>3, FdcAssumption DEF InGeometry, Hpc
      <4> QED  BY <4>1, LbaCounts
    <3> QED
      BY <3>1, <3>2, <3>4 DEF TransferHitsAddressedSector, InGeometry
  <2> QED
    BY <1>1, <1>6, <2>3, <2>4, <2>5, <2>6, <2>7, <2>8, <2>9, <2>10 DEF fdc_fifo_write
<1> QED  BY <1>3, <1>4, <1>5, <1>6 DEF Next

\* fdc_image_dma starts a transfer at the sector the command addresses: as far
\* into the image as there are sectors before it.
THEOREM TransferAddressed == Spec => []TransferHitsAddressedSector
<1>1. Init => TransferHitsAddressedSector
  BY DEF Init, Idle, TransferHitsAddressedSector
<1>2. IInv /\ TransferHitsAddressedSector /\ [Next]_vars => TransferHitsAddressedSector'
  BY AddressStep
<1> QED  BY <1>1, <1>2, Invariance, PTL DEF Spec
-----------------------------------------------------------------------------
(* The DMA controller: the count is read back as it was written, and a     *)
(* transfer moves the requested block, although both drivers write 16-bit  *)
(* registers through one flip-flop.                                        *)

\* Places between the two bytes of a register, ...
Between == {"addr2", "count2", "read2"}

\* ... and the places after each register is complete.
AfterCount == {"go", "read1", "read2", "done"}
AfterPage == {"count1", "count2"} \cup AfterCount
AfterAddr == {"page"} \cup AfterPage
AfterMode == {"addr1", "addr2"} \cup AfterAddr

\* The flip-flop is set exactly while a driver is between two bytes.
FlipFlopTells == dma_flip_flop <=> \E d \in Drivers : pc[d] \in Between

\* The handler never finds the task between two bytes.
HandlerWaits == pc["handler"] # "idle" => pc["task"] \notin Between

\* What the driver has programmed so far is in its channel's registers.
Programmed(d) ==
    /\ pc[d] \in AfterMode => dma_mode[Channel[d]] = want[d].mode
    /\ pc[d] = "addr2" => dma_reg[2 * Channel[d]] = want[d].addr % Base
    /\ pc[d] \in AfterAddr => dma_reg[2 * Channel[d]] = want[d].addr
    /\ pc[d] \in AfterPage => dma_page[Channel[d]] = want[d].page
    /\ pc[d] = "count2" => dma_reg[2 * Channel[d] + 1] = want[d].count % Base
    /\ pc[d] \in AfterCount => dma_reg[2 * Channel[d] + 1] = want[d].count
    /\ pc[d] = "read2" => got[d] = want[d].count % Base
    /\ pc[d] = "done" => got[d] = want[d].count

ChannelsProgrammed == \A d \in Drivers : Programmed(d)

DmaInv == DmaTypeOK /\ FlipFlopTells /\ HandlerWaits /\ ChannelsProgrammed /\ BlockAsRequested
-----------------------------------------------------------------------------
(* Bytes and words.                                                        *)

\* A word is its lower byte and, above it, its upper byte.
LEMMA WordDigits ==
    ASSUME NEW x \in Word
    PROVE  /\ x % Base \in 0 .. Base - 1 /\ x \div Base \in 0 .. Base - 1
           /\ x = (x % Base) + (x \div Base) * Base
           /\ ((x % Base) + (x \div Base) * Base) % WordSize = x
           /\ 0 .. Base - 1 \subseteq Word
<1>0. Base \in Nat /\ Base > 1 /\ x \in Nat /\ x < Base * Base
  BY I8237Assumption DEF Word, WordSize
<1> DEFINE q == x \div Base
           r == x % Base
<1>1. r \in 0 .. Base - 1 /\ q \in Int /\ x = Base * q + r
  BY <1>0
<1> HIDE DEF q, r
<1>2. q >= 0
  BY <1>0, <1>1
<1>3. q < Base
  <2> SUFFICES ASSUME q >= Base PROVE FALSE
    BY <1>0, <1>1
  <2>1. Base * (q - Base) \in Nat
    BY <1>0, <1>1
  <2>2. Base * (q - Base) = Base * q - Base * Base
    BY <1>0, <1>1
  <2>3. QED
    BY <1>0, <1>1, <2>1, <2>2
<1>4. x = r + q * Base
  BY <1>0, <1>1
<1>5. x % WordSize = x
  BY <1>0 DEF WordSize
<1>6. 0 .. Base - 1 \subseteq Word
  <2>1. Base <= Base * Base
    BY <1>0
  <2>2. Base * Base \in Nat
    BY <1>0
  <2>3. QED
    BY <1>0, <2>1, <2>2 DEF Word, WordSize
<1>7. QED
  BY <1>0, <1>1, <1>2, <1>3, <1>4, <1>5, <1>6 DEF q, r

\* Each driver has a channel of its own, with a page, a mode, an address and
\* a count register of its own.
LEMMA ChannelsApart ==
    ASSUME NEW d \in Drivers
    PROVE  /\ Channel[d] \in 0 .. 3 /\ 2 * Channel[d] \in 0 .. 7 /\ 2 * Channel[d] + 1 \in 0 .. 7
           /\ 2 * Channel[d] # 2 * Channel[d] + 1
           /\ \A e \in Drivers \ {d} :
                 /\ Channel[e] # Channel[d]
                 /\ {2 * Channel[e], 2 * Channel[e] + 1}
                       \cap {2 * Channel[d], 2 * Channel[d] + 1} = {}
<1>1. Channel["task"] = 2 /\ Channel["handler"] = 3
  BY DEF Channel
<1>2. CASE d = "task"
  BY <1>1, <1>2 DEF Drivers
<1>3. CASE d = "handler"
  BY <1>1, <1>3 DEF Drivers
<1>4. QED
  BY <1>2, <1>3 DEF Drivers

\* What the driver that moves finds in the flip-flop: its own half.
LEMMA OwnFlipFlop ==
    ASSUME FlipFlopTells, HandlerWaits, NEW d \in Drivers, Turn(d),
           d = "handler" /\ pc[d] = "idle" => InterruptsOn
    PROVE  /\ dma_flip_flop <=> pc[d] \in Between
           /\ \A e \in Drivers \ {d} : pc[e] \notin Between
<1>1. CASE d = "task"
  <2>1. pc["handler"] = "idle"
    BY <1>1 DEF Turn
  <2>2. QED
    BY <1>1, <2>1 DEF FlipFlopTells, Drivers, Between
<1>2. CASE d = "handler"
  <2>1. pc["task"] \notin Between
    BY <1>2 DEF HandlerWaits, InterruptsOn, Between
  <2>2. QED
    BY <1>2, <2>1 DEF FlipFlopTells, Drivers
<1>3. QED
  BY <1>1, <1>2 DEF Drivers

\* A driver that moves takes the flip-flop with it.
LEMMA FlipFlopStep ==
    ASSUME DmaTypeOK, FlipFlopTells, HandlerWaits, NEW d \in Drivers, NEW from, NEW to \in Places,
           Advance(d, from, to), d = "handler" /\ pc[d] = "idle" => InterruptsOn,
           dma_flip_flop' <=> to \in Between, to # "idle" \/ from = "done"
    PROVE  FlipFlopTells' /\ HandlerWaits' /\ pc' \in [Drivers -> Places]
<1>1. \A e \in Drivers \ {d} : pc[e] \notin Between
  BY OwnFlipFlop DEF Advance
<1>2. pc' \in [Drivers -> Places] /\ pc'[d] = to /\ \A e \in Drivers \ {d} : pc'[e] = pc[e]
  BY DEF Advance, DmaTypeOK
<1>3. FlipFlopTells'
  BY <1>1, <1>2 DEF FlipFlopTells
<1>4. HandlerWaits'
  <2>1. CASE d = "task"
    BY <1>2, <2>1 DEF HandlerWaits, Advance, Turn, Drivers
  <2>2. CASE d = "handler"
    BY <1>1, <1>2, <2>2 DEF HandlerWaits, Drivers
  <2>3. QED
    BY <2>1, <2>2 DEF Drivers
<1>5. QED
  BY <1>2, <1>3, <1>4
-----------------------------------------------------------------------------
(* One lemma per action.                                                   *)

\* A driver keeps what it has programmed when nothing of its own changes.
LEMMA OtherKeeps ==
    ASSUME NEW e \in Drivers, Programmed(e), pc'[e] = pc[e], want'[e] = want[e], got'[e] = got[e],
           dma_mode'[Channel[e]] = dma_mode[Channel[e]],
           dma_page'[Channel[e]] = dma_page[Channel[e]],
           dma_reg'[2 * Channel[e]] = dma_reg[2 * Channel[e]],
           dma_reg'[2 * Channel[e] + 1] = dma_reg[2 * Channel[e] + 1]
    PROVE  Programmed(e)'
BY DEF Programmed, AfterMode, AfterAddr, AfterPage, AfterCount

\* BlockAsRequested speaks of the last transfer only.
LEMMA BlockKept ==
    ASSUME BlockAsRequested, moved' = moved
    PROVE  BlockAsRequested'
BY DEF BlockAsRequested

LEMMA DmaStart == DmaInit => DmaInv
<1> SUFFICES ASSUME DmaInit PROVE DmaInv
  OBVIOUS
<1>1. Base \in Nat /\ Base > 1 /\ 0 \in Word /\ 0 \in 0 .. Base - 1
  <2>1. Base \in Nat /\ Base > 1 /\ Base * Base \in Nat /\ Base * Base > 0
    BY I8237Assumption
  <2>2. QED
    BY <2>1 DEF Word, WordSize
<1>2. /\ dma_reg \in [0 .. 7 -> Word] /\ dma_flip_flop \in BOOLEAN
      /\ dma_mode \in [0 .. 3 -> Modes] /\ dma_page \in [0 .. 3 -> 0 .. Base - 1]
      /\ pc \in [Drivers -> Places] /\ got \in [Drivers -> Word]
  BY <1>1 DEF DmaInit, Modes, Places
<1>3. want \in [Drivers -> Request]
  BY I8237Assumption DEF DmaInit
<1>4. \A d \in Drivers : pc[d] = "idle"
  BY DEF DmaInit
<1>5. FlipFlopTells
  BY <1>4 DEF DmaInit, FlipFlopTells, Between
<1>6. HandlerWaits
  BY <1>4 DEF HandlerWaits, Drivers
<1>7. ChannelsProgrammed
  BY <1>4 DEF ChannelsProgrammed, Programmed, AfterMode, AfterAddr, AfterPage, AfterCount
<1>8. BlockAsRequested
  BY DEF DmaInit, NoTransfer, BlockAsRequested
<1>9. QED
  BY <1>2, <1>3, <1>5, <1>6, <1>7, <1>8 DEF DmaInv, DmaTypeOK

\* The invariant's parts that every step of a driver has to bring.
LEMMA Assemble ==
    ASSUME DmaInv, NEW d \in Drivers, DmaTypeOK', FlipFlopTells', HandlerWaits', Programmed(d)',
           \A e \in Drivers \ {d} : Programmed(e)', BlockAsRequested'
    PROVE  DmaInv'
BY DEF DmaInv, ChannelsProgrammed

LEMMA BeginStep ==
    ASSUME DmaInv, NEW d \in Drivers, Begin(d)
    PROVE  DmaInv'
<1>1. DmaTypeOK /\ FlipFlopTells /\ HandlerWaits /\ ChannelsProgrammed /\ BlockAsRequested
  BY DEF DmaInv
<1>2. PICK r \in Requests : want' = [want EXCEPT ![d] = r]
  BY DEF Begin
<1>3. /\ Advance(d, "idle", "mode") /\ UNCHANGED <<chip, got, moved>>
      /\ d = "handler" => InterruptsOn
  BY DEF Begin
<1>4. "mode" \in Places /\ "mode" \notin Between
  BY DEF Places, Between
<1>5. pc[d] = "idle" /\ pc[d] \notin Between /\ Turn(d)
  BY <1>3 DEF Advance, Between
<1>6. dma_flip_flop' <=> "mode" \in Between
  BY <1>1, <1>3, <1>4, <1>5, OwnFlipFlop DEF chip
<1>7. FlipFlopTells' /\ HandlerWaits' /\ pc' \in [Drivers -> Places]
  BY <1>1, <1>3, <1>4, <1>6, FlipFlopStep
<1>8. DmaTypeOK'
  <2>1. want' \in [Drivers -> Request]
    BY <1>1, <1>2, I8237Assumption DEF DmaTypeOK
  <2>2. QED
    BY <1>1, <1>3, <1>7, <2>1 DEF DmaTypeOK, chip
<1>9. pc'[d] = "mode"
  BY <1>1, <1>3 DEF Advance, DmaTypeOK
<1>10. Programmed(d)'
  BY <1>9 DEF Programmed, AfterMode, AfterAddr, AfterPage, AfterCount
<1>11. \A e \in Drivers \ {d} : Programmed(e)'
  <2> TAKE e \in Drivers \ {d}
  <2>1. pc'[e] = pc[e] /\ want'[e] = want[e] /\ got'[e] = got[e] /\ Programmed(e)
    BY <1>1, <1>2, <1>3 DEF DmaTypeOK, Advance, ChannelsProgrammed
  <2>2. QED
    BY <1>3, <2>1, OtherKeeps DEF chip
<1>12. BlockAsRequested'
  BY <1>1, <1>3, BlockKept
<1>13. QED
  BY <1>7, <1>8, <1>10, <1>11, <1>12, Assemble

LEMMA ModeStep ==
    ASSUME DmaInv, NEW d \in Drivers, SetMode(d)
    PROVE  DmaInv'
<1>1. DmaTypeOK /\ FlipFlopTells /\ HandlerWaits /\ ChannelsProgrammed /\ BlockAsRequested
  BY DEF DmaInv
<1>2. /\ Advance(d, "mode", "addr1") /\ UNCHANGED <<want, got, moved>>
      /\ dma_mode' = [dma_mode EXCEPT ![Channel[d]] = want[d].mode]
      /\ UNCHANGED <<dma_reg, dma_flip_flop, dma_page>>
  BY DEF SetMode, i8237_dma_mode_write
<1>3. "addr1" \in Places /\ "addr1" \notin Between
  BY DEF Places, Between
<1>4. pc[d] = "mode" /\ pc[d] \notin Between /\ Turn(d) /\ pc[d] # "idle"
  BY <1>2 DEF Advance, Between
<1>5. dma_flip_flop' <=> "addr1" \in Between
  BY <1>1, <1>2, <1>3, <1>4, OwnFlipFlop
<1>6. FlipFlopTells' /\ HandlerWaits' /\ pc' \in [Drivers -> Places]
  BY <1>1, <1>2, <1>3, <1>4, <1>5, FlipFlopStep
<1>7. DmaTypeOK'
  <2>1. dma_mode' \in [0 .. 3 -> Modes]
    BY <1>1, <1>2 DEF DmaTypeOK, Request
  <2>2. QED
    BY <1>1, <1>2, <1>6, <2>1 DEF DmaTypeOK
<1>8. pc'[d] = "addr1" /\ dma_mode'[Channel[d]] = want'[d].mode
  BY <1>1, <1>2, ChannelsApart DEF Advance, DmaTypeOK
<1>9. Programmed(d)'
  BY <1>8 DEF Programmed, AfterMode, AfterAddr, AfterPage, AfterCount
<1>10. \A e \in Drivers \ {d} : Programmed(e)'
  <2> TAKE e \in Drivers \ {d}
  <2>1. pc'[e] = pc[e] /\ Programmed(e)
    BY <1>1, <1>2 DEF DmaTypeOK, Advance, ChannelsProgrammed
  <2>2. Channel[e] # Channel[d] /\ Channel[e] \in 0 .. 3
    BY ChannelsApart
  <2>3. dma_mode'[Channel[e]] = dma_mode[Channel[e]]
    BY <1>1, <1>2, <2>2 DEF DmaTypeOK
  <2>4. QED
    BY <1>2, <2>1, <2>3, OtherKeeps
<1>11. BlockAsRequested'
  BY <1>1, <1>2, BlockKept
<1>12. QED
  BY <1>6, <1>7, <1>9, <1>10, <1>11, Assemble

LEMMA PageStep ==
    ASSUME DmaInv, NEW d \in Drivers, SetPage(d)
    PROVE  DmaInv'
<1>1. DmaTypeOK /\ FlipFlopTells /\ HandlerWaits /\ ChannelsProgrammed /\ BlockAsRequested
  BY DEF DmaInv
<1>2. /\ Advance(d, "page", "count1") /\ UNCHANGED <<want, got, moved>>
      /\ dma_page' = [dma_page EXCEPT ![Channel[d]] = want[d].page]
      /\ UNCHANGED <<dma_reg, dma_flip_flop, dma_mode>>
  BY DEF SetPage, i8237_dma_page_write
<1>3. "count1" \in Places /\ "count1" \notin Between
  BY DEF Places, Between
<1>4. pc[d] = "page" /\ pc[d] \notin Between /\ Turn(d) /\ pc[d] # "idle"
  BY <1>2 DEF Advance, Between
<1>5. dma_flip_flop' <=> "count1" \in Between
  BY <1>1, <1>2, <1>3, <1>4, OwnFlipFlop
<1>6. FlipFlopTells' /\ HandlerWaits' /\ pc' \in [Drivers -> Places]
  BY <1>1, <1>2, <1>3, <1>4, <1>5, FlipFlopStep
<1>7. DmaTypeOK'
  <2>1. dma_page' \in [0 .. 3 -> 0 .. Base - 1]
    BY <1>1, <1>2 DEF DmaTypeOK, Request
  <2>2. QED
    BY <1>1, <1>2, <1>6, <2>1 DEF DmaTypeOK
<1>8. pc'[d] = "count1" /\ dma_page'[Channel[d]] = want'[d].page
  BY <1>1, <1>2, ChannelsApart DEF Advance, DmaTypeOK
<1>9. Programmed(d)'
  <2>1. Programmed(d)
    BY <1>1 DEF ChannelsProgrammed
  <2>2. QED
    BY <1>2, <1>4, <1>8, <2>1 DEF Programmed, AfterMode, AfterAddr, AfterPage, AfterCount
<1>10. \A e \in Drivers \ {d} : Programmed(e)'
  <2> TAKE e \in Drivers \ {d}
  <2>1. pc'[e] = pc[e] /\ Programmed(e)
    BY <1>1, <1>2 DEF DmaTypeOK, Advance, ChannelsProgrammed
  <2>2. Channel[e] # Channel[d] /\ Channel[e] \in 0 .. 3
    BY ChannelsApart
  <2>3. dma_page'[Channel[e]] = dma_page[Channel[e]]
    BY <1>1, <1>2, <2>2 DEF DmaTypeOK
  <2>4. QED
    BY <1>2, <2>1, <2>3, OtherKeeps
<1>11. BlockAsRequested'
  BY <1>1, <1>2, BlockKept
<1>12. QED
  BY <1>6, <1>7, <1>9, <1>10, <1>11, Assemble

\* The two bytes of a register: what a write leaves in it, and that it leaves
\* every other register alone.
LEMMA RegisterWrite ==
    ASSUME DmaInv, NEW d \in Drivers, Turn(d), pc[d] # "idle",
           NEW r \in {2 * Channel[d], 2 * Channel[d] + 1}, NEW w \in Word,
           \/ pc[d] \notin Between /\ i8237_dma_reg_write(r, w % Base)
           \/ /\ pc[d] \in Between /\ dma_reg[r] = w % Base
              /\ i8237_dma_reg_write(r, w \div Base)
    PROVE  /\ dma_reg' \in [0 .. 7 -> Word]
           /\ dma_reg'[r] = IF pc[d] \in Between THEN w ELSE w % Base
           /\ \A q \in 0 .. 7 : q # r => dma_reg'[q] = dma_reg[q]
           /\ dma_flip_flop' <=> pc[d] \notin Between
           /\ UNCHANGED <<dma_mode, dma_page>>
<1>1. DmaTypeOK /\ FlipFlopTells /\ HandlerWaits
  BY DEF DmaInv
<1>2. r \in 0 .. 7 /\ dma_reg \in [0 .. 7 -> Word] /\ dma_flip_flop \in BOOLEAN
  BY <1>1, ChannelsApart DEF DmaTypeOK
<1>3. dma_flip_flop <=> pc[d] \in Between
  BY <1>1, OwnFlipFlop
<1>4. /\ w % Base \in Word /\ ((w % Base) + (w \div Base) * Base) % WordSize = w
  BY WordDigits
<1>5. CASE pc[d] \notin Between /\ i8237_dma_reg_write(r, w % Base)
  <2>1. dma_reg' = [dma_reg EXCEPT ![r] = w % Base]
    BY <1>3, <1>5 DEF i8237_dma_reg_write
  <2>2. dma_flip_flop' = ~dma_flip_flop /\ UNCHANGED <<dma_mode, dma_page>>
    BY <1>5 DEF i8237_dma_reg_write
  <2>3. QED
    BY <1>2, <1>3, <1>4, <1>5, <2>1, <2>2
<1>6. CASE /\ pc[d] \in Between /\ dma_reg[r] = w % Base
           /\ i8237_dma_reg_write(r, w \div Base)
  <2>1. dma_reg' = [dma_reg EXCEPT ![r] = (dma_reg[r] + (w \div Base) * Base) % WordSize]
    BY <1>3, <1>6 DEF i8237_dma_reg_write
  <2>2. dma_reg' = [dma_reg EXCEPT ![r] = w]
    BY <1>4, <1>6, <2>1
  <2>3. dma_flip_flop' = ~dma_flip_flop /\ UNCHANGED <<dma_mode, dma_page>>
    BY <1>6 DEF i8237_dma_reg_write
  <2>4. QED
    BY <1>2, <1>3, <1>4, <1>6, <2>2, <2>3
<1>7. QED
  BY <1>5, <1>6

LEMMA DmaAddressStep ==
    ASSUME DmaInv, NEW d \in Drivers, SetAddress(d)
    PROVE  DmaInv'
<1> DEFINE r == 2 * Channel[d]
           w == want[d].addr
<1>1. DmaTypeOK /\ FlipFlopTells /\ HandlerWaits /\ ChannelsProgrammed /\ BlockAsRequested
  BY DEF DmaInv
<1>2. /\ UNCHANGED <<want, got, moved>>
      /\ \/ Advance(d, "addr1", "addr2") /\ i8237_dma_reg_write(r, w % Base)
         \/ Advance(d, "addr2", "page") /\ i8237_dma_reg_write(r, w \div Base)
  BY DEF SetAddress
<1>3. w \in Word /\ Programmed(d)
  BY <1>1 DEF DmaTypeOK, Request, ChannelsProgrammed
<1>4. /\ Turn(d) /\ pc[d] \in {"addr1", "addr2"}
      /\ pc'[d] = IF pc[d] = "addr1" THEN "addr2" ELSE "page"
      /\ \A e \in Drivers \ {d} : pc'[e] = pc[e]
  BY <1>1, <1>2 DEF Advance, DmaTypeOK
<1>5. pc[d] \in Between <=> pc[d] = "addr2"
  BY <1>4 DEF Between
<1>6. /\ dma_reg' \in [0 .. 7 -> Word]
      /\ dma_reg'[r] = IF pc[d] \in Between THEN w ELSE w % Base
      /\ \A q \in 0 .. 7 : q # r => dma_reg'[q] = dma_reg[q]
      /\ dma_flip_flop' <=> pc[d] \notin Between
      /\ UNCHANGED <<dma_mode, dma_page>>
  <2>1. \/ pc[d] \notin Between /\ i8237_dma_reg_write(r, w % Base)
        \/ pc[d] \in Between /\ dma_reg[r] = w % Base /\ i8237_dma_reg_write(r, w \div Base)
    <3>1. CASE Advance(d, "addr1", "addr2") /\ i8237_dma_reg_write(r, w % Base)
      BY <3>1 DEF Advance, Between
    <3>2. CASE Advance(d, "addr2", "page") /\ i8237_dma_reg_write(r, w \div Base)
      BY <1>3, <3>2 DEF Advance, Between, Programmed
    <3>3. QED
      BY <1>2, <3>1, <3>2
  <2>2. r \in {2 * Channel[d], 2 * Channel[d] + 1} /\ pc[d] # "idle"
    BY <1>4
  <2> HIDE DEF r, w
  <2>3. QED
    BY <1>3, <1>4, <2>1, <2>2, RegisterWrite
<1>7. FlipFlopTells' /\ HandlerWaits' /\ pc' \in [Drivers -> Places]
  <2>1. {"addr2", "page"} \subseteq Places
    BY DEF Places
  <2>2. /\ dma_flip_flop' <=> pc'[d] \in Between
    BY <1>4, <1>5, <1>6 DEF Between
  <2>3. Advance(d, pc[d], pc'[d]) /\ pc[d] # "idle" /\ pc'[d] # "idle" /\ pc'[d] \in Places
    BY <1>2, <1>4, <2>1 DEF Advance
  <2>4. QED
    BY <1>1, <2>2, <2>3, FlipFlopStep
<1>8. dma_flip_flop' \in BOOLEAN
  BY <1>2 DEF i8237_dma_reg_write
<1>9. DmaTypeOK'
  BY <1>1, <1>2, <1>6, <1>7, <1>8 DEF DmaTypeOK
<1>10. Programmed(d)'
  <2>1. dma_reg'[2 * Channel[d] + 1] = dma_reg[2 * Channel[d] + 1]
    BY <1>6, ChannelsApart
  <2>2. QED
    BY <1>2, <1>3, <1>4, <1>5, <1>6, <2>1
       DEF Programmed, AfterMode, AfterAddr, AfterPage, AfterCount
<1>11. \A e \in Drivers \ {d} : Programmed(e)'
  <2> TAKE e \in Drivers \ {d}
  <2>1. /\ 2 * Channel[e] \in 0 .. 7 /\ 2 * Channel[e] # r
        /\ 2 * Channel[e] + 1 \in 0 .. 7 /\ 2 * Channel[e] + 1 # r
    BY ChannelsApart
  <2>2. Programmed(e)
    BY <1>1 DEF ChannelsProgrammed
  <2> HIDE DEF r
  <2>3. QED
    BY <1>2, <1>4, <1>6, <2>1, <2>2, OtherKeeps
<1>12. BlockAsRequested'
  BY <1>1, <1>2, BlockKept
<1>13. QED
  BY <1>7, <1>9, <1>10, <1>11, <1>12, Assemble

LEMMA CountStep ==
    ASSUME DmaInv, NEW d \in Drivers, SetCount(d)
    PROVE  DmaInv'
<1> DEFINE r == 2 * Channel[d] + 1
           w == want[d].count
<1>1. DmaTypeOK /\ FlipFlopTells /\ HandlerWaits /\ ChannelsProgrammed /\ BlockAsRequested
  BY DEF DmaInv
<1>2. /\ UNCHANGED <<want, got, moved>>
      /\ \/ Advance(d, "count1", "count2") /\ i8237_dma_reg_write(r, w % Base)
         \/ Advance(d, "count2", "go") /\ i8237_dma_reg_write(r, w \div Base)
  BY DEF SetCount
<1>3. w \in Word /\ Programmed(d)
  BY <1>1 DEF DmaTypeOK, Request, ChannelsProgrammed
<1>4. /\ Turn(d) /\ pc[d] \in {"count1", "count2"}
      /\ pc'[d] = IF pc[d] = "count1" THEN "count2" ELSE "go"
      /\ \A e \in Drivers \ {d} : pc'[e] = pc[e]
  BY <1>1, <1>2 DEF Advance, DmaTypeOK
<1>5. pc[d] \in Between <=> pc[d] = "count2"
  BY <1>4 DEF Between
<1>6. /\ dma_reg' \in [0 .. 7 -> Word]
      /\ dma_reg'[r] = IF pc[d] \in Between THEN w ELSE w % Base
      /\ \A q \in 0 .. 7 : q # r => dma_reg'[q] = dma_reg[q]
      /\ dma_flip_flop' <=> pc[d] \notin Between
      /\ UNCHANGED <<dma_mode, dma_page>>
  <2>1. \/ pc[d] \notin Between /\ i8237_dma_reg_write(r, w % Base)
        \/ pc[d] \in Between /\ dma_reg[r] = w % Base /\ i8237_dma_reg_write(r, w \div Base)
    <3>1. CASE Advance(d, "count1", "count2") /\ i8237_dma_reg_write(r, w % Base)
      BY <3>1 DEF Advance, Between
    <3>2. CASE Advance(d, "count2", "go") /\ i8237_dma_reg_write(r, w \div Base)
      BY <1>3, <3>2 DEF Advance, Between, Programmed
    <3>3. QED
      BY <1>2, <3>1, <3>2
  <2>2. r \in {2 * Channel[d], 2 * Channel[d] + 1} /\ pc[d] # "idle"
    BY <1>4
  <2> HIDE DEF r, w
  <2>3. QED
    BY <1>3, <1>4, <2>1, <2>2, RegisterWrite
<1>7. FlipFlopTells' /\ HandlerWaits' /\ pc' \in [Drivers -> Places]
  <2>1. {"count2", "go"} \subseteq Places
    BY DEF Places
  <2>2. /\ dma_flip_flop' <=> pc'[d] \in Between
    BY <1>4, <1>5, <1>6 DEF Between
  <2>3. Advance(d, pc[d], pc'[d]) /\ pc[d] # "idle" /\ pc'[d] # "idle" /\ pc'[d] \in Places
    BY <1>2, <1>4, <2>1 DEF Advance
  <2>4. QED
    BY <1>1, <2>2, <2>3, FlipFlopStep
<1>8. dma_flip_flop' \in BOOLEAN
  BY <1>2 DEF i8237_dma_reg_write
<1>9. DmaTypeOK'
  BY <1>1, <1>2, <1>6, <1>7, <1>8 DEF DmaTypeOK
<1>10. Programmed(d)'
  <2>1. dma_reg'[2 * Channel[d]] = dma_reg[2 * Channel[d]]
    BY <1>6, ChannelsApart
  <2>2. QED
    BY <1>2, <1>3, <1>4, <1>5, <1>6, <2>1
       DEF Programmed, AfterMode, AfterAddr, AfterPage, AfterCount
<1>11. \A e \in Drivers \ {d} : Programmed(e)'
  <2> TAKE e \in Drivers \ {d}
  <2>1. /\ 2 * Channel[e] \in 0 .. 7 /\ 2 * Channel[e] # r
        /\ 2 * Channel[e] + 1 \in 0 .. 7 /\ 2 * Channel[e] + 1 # r
    BY ChannelsApart
  <2>2. Programmed(e)
    BY <1>1 DEF ChannelsProgrammed
  <2> HIDE DEF r
  <2>3. QED
    BY <1>2, <1>4, <1>6, <2>1, <2>2, OtherKeeps
<1>12. BlockAsRequested'
  BY <1>1, <1>2, BlockKept
<1>13. QED
  BY <1>7, <1>9, <1>10, <1>11, <1>12, Assemble

\* The transfer of a channel that is programmed as its driver wants.
LEMMA TransferIsBlock ==
    ASSUME DmaTypeOK, NEW d \in Drivers, Programmed(d), pc[d] = "go",
           moved' = [asked |-> TRUE, want |-> want[d],
                     bytes |-> IF want[d].dir = "write" THEN fe2010_dma_write(Channel[d])
                                                        ELSE fe2010_dma_read(Channel[d])]
    PROVE  BlockAsRequested'
<1> DEFINE w == want[d]
           first == w.page * WordSize + w.addr
           stored == {i \in 0 .. w.count : first + i \in (0 .. MemSize - 1) \ ReadOnly}
<1>1. /\ w.addr \in Nat /\ w.page \in Nat /\ w.count \in Nat
      /\ w.mode \in Modes /\ w.dir \in Directions
  BY I8237Assumption DEF DmaTypeOK, Request, Word
<1>2. WordSize \in Nat /\ MemSize \in Nat
  BY I8237Assumption DEF WordSize, MemSize
<1>3. first \in Nat
  BY <1>1, <1>2
<1>4. /\ dma_mode[Channel[d]] = w.mode /\ DmaCount(Channel[d]) = w.count
      /\ DmaAddress(Channel[d]) = first
  <2>1. /\ dma_mode[Channel[d]] = w.mode /\ dma_reg[2 * Channel[d]] = w.addr
        /\ dma_page[Channel[d]] = w.page /\ dma_reg[2 * Channel[d] + 1] = w.count
    BY DEF Programmed, AfterMode, AfterAddr, AfterPage, AfterCount
  <2>2. w.addr + w.page * WordSize = first
    BY <1>1, <1>2
  <2>3. QED
    BY <2>1, <2>2 DEF DmaCount, DmaAddress
<1>5. moved'.asked /\ moved'.want = w
  OBVIOUS
<1> HIDE DEF first
<1>6. ASSUME w.mode # w.dir PROVE moved'.bytes = <<>>
  <2>1. CASE w.dir = "write"
    BY <1>4, <1>6, <2>1 DEF fe2010_dma_write
  <2>2. CASE w.dir = "read"
    BY <1>4, <1>6, <2>2 DEF fe2010_dma_read
  <2>3. QED
    BY <1>1, <2>1, <2>2 DEF Directions
<1>7. ASSUME w.mode = "write", w.dir = "write"
      PROVE  DOMAIN moved'.bytes = stored /\ \A i \in stored : moved'.bytes[i] = first + i
  <2>1. {i \in 0 .. w.count : first + i < MemSize /\ first + i \notin ReadOnly} = stored
    BY <1>1, <1>2, <1>3
  <2>2. moved'.bytes = fe2010_dma_write(Channel[d])
    BY <1>7
  <2>3. fe2010_dma_write(Channel[d]) = [i \in stored |-> first + i]
    BY <1>4, <1>7, <2>1 DEF fe2010_dma_write
  <2>4. QED
    BY <2>2, <2>3
<1>8. ASSUME w.mode = "read", w.dir = "read"
      PROVE  /\ DOMAIN moved'.bytes = 0 .. w.count
             /\ \A i \in 0 .. w.count :
                   moved'.bytes[i] = IF first + i < MemSize THEN first + i ELSE Nowhere
  <2>1. moved'.bytes = fe2010_dma_read(Channel[d])
    BY <1>8
  <2>2. fe2010_dma_read(Channel[d]) =
           [i \in 0 .. w.count |-> IF first + i < MemSize THEN first + i ELSE Nowhere]
    BY <1>4, <1>8 DEF fe2010_dma_read
  <2>3. QED
    BY <2>1, <2>2
<1>9. w.mode # w.dir \/ (w.mode = "write" /\ w.dir = "write")
                     \/ (w.mode = "read" /\ w.dir = "read")
  BY <1>1 DEF Modes, Directions
<1>10. CASE w.mode # w.dir
  BY <1>5, <1>6, <1>10 DEF BlockAsRequested
<1>11. CASE w.mode = "write" /\ w.dir = "write"
  BY <1>5, <1>7, <1>11 DEF BlockAsRequested, first
<1>12. CASE w.mode = "read" /\ w.dir = "read"
  BY <1>5, <1>8, <1>12 DEF BlockAsRequested, first
<1>13. QED
  BY <1>9, <1>10, <1>11, <1>12

\* The command and the end of a driver's work leave the registers alone.
LEMMA CommandStep ==
    ASSUME DmaInv, NEW d \in Drivers, Command(d) \/ End(d)
    PROVE  DmaInv'
<1>1. DmaTypeOK /\ FlipFlopTells /\ HandlerWaits /\ ChannelsProgrammed /\ BlockAsRequested
  BY DEF DmaInv
<1>2. /\ UNCHANGED <<chip, want, got>>
      /\ Advance(d, "go", "read1") \/ Advance(d, "done", "idle")
  BY DEF Command, End
<1>3. /\ Turn(d) /\ pc[d] \in {"go", "done"} /\ pc[d] # "idle"
      /\ pc'[d] = IF pc[d] = "go" THEN "read1" ELSE "idle"
      /\ \A e \in Drivers \ {d} : pc'[e] = pc[e]
  BY <1>1, <1>2 DEF Advance, DmaTypeOK
<1>4. FlipFlopTells' /\ HandlerWaits' /\ pc' \in [Drivers -> Places]
  <2>1. dma_flip_flop' <=> pc'[d] \in Between
    BY <1>1, <1>2, <1>3, OwnFlipFlop DEF Between, chip
  <2>2. Advance(d, pc[d], pc'[d]) /\ pc'[d] \in Places
    BY <1>2, <1>3 DEF Advance, Places
  <2>3. pc'[d] # "idle" \/ pc[d] = "done"
    BY <1>3
  <2>4. QED
    BY <1>1, <1>3, <2>1, <2>2, <2>3, FlipFlopStep
<1>5. DmaTypeOK'
  BY <1>1, <1>2, <1>4 DEF DmaTypeOK, chip
<1>6. Programmed(d)'
  <2>1. Programmed(d)
    BY <1>1 DEF ChannelsProgrammed
  <2>2. QED
    BY <1>2, <1>3, <2>1 DEF Programmed, AfterMode, AfterAddr, AfterPage, AfterCount, chip
<1>7. \A e \in Drivers \ {d} : Programmed(e)'
  <2> TAKE e \in Drivers \ {d}
  <2>1. Programmed(e)
    BY <1>1 DEF ChannelsProgrammed
  <2>2. QED
    BY <1>2, <1>3, <2>1, OtherKeeps DEF chip
<1>8. BlockAsRequested'
  <2>1. CASE Command(d)
    BY <1>1, <2>1, TransferIsBlock DEF Command, Advance, ChannelsProgrammed
  <2>2. CASE End(d)
    BY <1>1, <2>2, BlockKept DEF End
  <2>3. QED
    BY <2>1, <2>2
<1>9. QED
  BY <1>4, <1>5, <1>6, <1>7, <1>8, Assemble

LEMMA ReadCountStep ==
    ASSUME DmaInv, NEW d \in Drivers, ReadCount(d)
    PROVE  DmaInv'
<1> DEFINE r == 2 * Channel[d] + 1
           w == want[d].count
<1>1. DmaTypeOK /\ FlipFlopTells /\ HandlerWaits /\ ChannelsProgrammed /\ BlockAsRequested
  BY DEF DmaInv
<1>2. /\ UNCHANGED <<want, moved, dma_reg, dma_mode, dma_page>>
      /\ Advance(d, "read1", "read2") \/ Advance(d, "read2", "done")
      /\ dma_flip_flop' = ~dma_flip_flop
      /\ got' = [got EXCEPT ![d] = IF pc[d] = "read1" THEN DmaByte(r)
                                   ELSE (got[d] + DmaByte(r) * Base) % WordSize]
  BY DEF ReadCount, i8237_dma_reg_read
<1>3. /\ Turn(d) /\ pc[d] \in {"read1", "read2"} /\ pc[d] # "idle"
      /\ pc'[d] = IF pc[d] = "read1" THEN "read2" ELSE "done"
      /\ \A e \in Drivers \ {d} : pc'[e] = pc[e]
  BY <1>1, <1>2 DEF Advance, DmaTypeOK
<1>4. dma_flip_flop <=> pc[d] = "read2"
  BY <1>1, <1>3, OwnFlipFlop DEF Between
<1>5. FlipFlopTells' /\ HandlerWaits' /\ pc' \in [Drivers -> Places]
  <2>1. dma_flip_flop' <=> pc'[d] \in Between
    BY <1>2, <1>3, <1>4 DEF Between
  <2>2. Advance(d, pc[d], pc'[d]) /\ pc'[d] \in Places
    BY <1>2, <1>3 DEF Advance, Places
  <2>3. pc'[d] # "idle"
    BY <1>3
  <2>4. QED
    BY <1>1, <1>3, <2>1, <2>2, <2>3, FlipFlopStep
<1>6. w \in Word /\ Programmed(d)
  BY <1>1 DEF DmaTypeOK, Request, ChannelsProgrammed
<1>7. dma_reg[r] = w
  BY <1>3, <1>6 DEF Programmed, AfterCount
<1>8. /\ w % Base \in Word /\ ((w % Base) + (w \div Base) * Base) % WordSize = w
  BY <1>6, WordDigits
<1>9. got'[d] = (IF pc[d] = "read1" THEN w % Base ELSE w) /\ got' \in [Drivers -> Word]
  <2>1. CASE pc[d] = "read1"
    <3>1. DmaByte(r) = w % Base
      BY <1>4, <1>7, <2>1 DEF DmaByte
    <3>2. QED
      BY <1>1, <1>2, <1>8, <2>1, <3>1 DEF DmaTypeOK
  <2>2. CASE pc[d] = "read2"
    <3>1. DmaByte(r) = w \div Base
      BY <1>4, <1>7, <2>2 DEF DmaByte
    <3>2. got[d] = w % Base
      BY <1>6, <2>2 DEF Programmed
    <3>3. got' = [got EXCEPT ![d] = w]
      BY <1>2, <1>8, <2>2, <3>1, <3>2
    <3>4. QED
      BY <1>1, <1>6, <2>2, <3>3 DEF DmaTypeOK
  <2>3. QED
    BY <1>3, <2>1, <2>2
<1>10. DmaTypeOK'
  <2>1. dma_flip_flop' \in BOOLEAN
    BY <1>2
  <2>2. QED
    BY <1>1, <1>2, <1>5, <1>9, <2>1 DEF DmaTypeOK
<1>11. Programmed(d)'
  BY <1>2, <1>3, <1>6, <1>9 DEF Programmed, AfterMode, AfterAddr, AfterPage, AfterCount
<1>12. \A e \in Drivers \ {d} : Programmed(e)'
  <2> TAKE e \in Drivers \ {d}
  <2>1. Programmed(e) /\ got'[e] = got[e]
    BY <1>1, <1>2 DEF ChannelsProgrammed, DmaTypeOK
  <2>2. QED
    BY <1>2, <1>3, <2>1, OtherKeeps
<1>13. BlockAsRequested'
  BY <1>1, <1>2, BlockKept
<1>14. QED
  BY <1>5, <1>10, <1>11, <1>12, <1>13, Assemble
-----------------------------------------------------------------------------
\* Every step of either driver keeps the invariant.
LEMMA DmaStep == DmaInv /\ [DmaNext]_dma_vars => DmaInv'
<1> SUFFICES ASSUME DmaInv, [DmaNext]_dma_vars PROVE DmaInv'
  OBVIOUS
<1>1. CASE DmaNext
  <2>1. PICK d \in Drivers :
           \/ Begin(d) \/ SetMode(d) \/ SetAddress(d) \/ SetPage(d) \/ SetCount(d)
           \/ Command(d) \/ ReadCount(d) \/ End(d)
    BY <1>1 DEF DmaNext
  <2>2. QED
    BY <2>1, BeginStep, ModeStep, DmaAddressStep, PageStep, CountStep, CommandStep, ReadCountStep
<1>2. CASE UNCHANGED dma_vars
  <2>1. DmaTypeOK' /\ FlipFlopTells' /\ HandlerWaits' /\ BlockAsRequested'
    BY <1>2, BlockKept DEF dma_vars, DmaInv, DmaTypeOK, FlipFlopTells, HandlerWaits
  <2>2. ChannelsProgrammed'
    BY <1>2 DEF dma_vars, DmaInv, ChannelsProgrammed, Programmed
  <2>3. QED
    BY <2>1, <2>2 DEF DmaInv
<1>3. QED
  BY <1>1, <1>2

\* The inductive invariant holds in every reachable state.
THEOREM DmaInvariance == DmaSpec => []DmaInv
BY DmaStart, DmaStep, PTL DEF DmaSpec

\* Registers, flip-flop, pages and modes keep their widths.
THEOREM DmaTypeCorrect == DmaSpec => []DmaTypeOK
<1>1. DmaInv => DmaTypeOK
  BY DEF DmaInv
<1>2. QED
  BY <1>1, DmaInvariance, PTL

\* A transfer moves the block its driver asked for, whatever the other driver
\* programs through the shared flip-flop in between.
THEOREM BlockSafe == DmaSpec => []BlockAsRequested
<1>1. DmaInv => BlockAsRequested
  BY DEF DmaInv
<1>2. QED
  BY <1>1, DmaInvariance, PTL

\* The count register reads back, byte by byte, as it was written.
THEOREM CountSafe == DmaSpec => []CountReadsBack
<1>1. DmaInv => CountReadsBack
  BY DEF DmaInv, ChannelsProgrammed, Programmed, CountReadsBack
<1>2. QED
  BY <1>1, DmaInvariance, PTL
=============================================================================
