------------------------------- MODULE I8088 --------------------------------
(***************************************************************************)
(* The 8088 of i8088.c with the memory of mem.c and the port table of      *)
(* io.c: fetching, prefixes, effective addresses, the stack, interrupts,   *)
(* string and control instructions. The processor is deterministic, so an  *)
(* instruction is an operator from states to states.                       *)
(*                                                                         *)
(* A state is a record: the registers by name, the flags f, the prefixes   *)
(* seg and rep of the instruction, halt, panic, the memory m (an address   *)
(* that is not in its domain holds zero), the read-only sections rom and   *)
(* the ports that some device has hooked, each a latch.                    *)
(***************************************************************************)
EXTENDS I8088Alu

CONSTANT Garbage    \* what an uninitialised eaddr holds

ASSUME CpuAssumption == Garbage \in Nat /\ Garbage < 65536

REG16  == <<"ax", "cx", "dx", "bx", "sp", "bp", "si", "di">>
REGSEG == <<"es", "cs", "ss", "ds">>

Word(v) == v % 65536
Lo(v) == v % 256
Hi(v) == v \div 256

MEM_SECTION == 8192
-----------------------------------------------------------------------------
(* Memory: sixteen bytes per segment step, a megabyte that wraps; offsets  *)
(* wrap inside their segment. Writes to a read-only section are dropped.   *)

Linear(seg, off) == (seg * 16 + Word(off)) % 1048576

mem_read(s, addr) == IF addr \in DOMAIN s.m THEN s.m[addr] ELSE 0

mem_read_by_segment(s, seg, off) == mem_read(s, Linear(seg, off))

mem_write(s, addr, v) ==
    IF addr \div MEM_SECTION \in s.rom THEN s
    ELSE [s EXCEPT !.m = [adr \in {addr} \cup DOMAIN @ |-> IF adr = addr THEN v ELSE @[adr]]]

mem_write_by_segment(s, seg, off, v) == mem_write(s, Linear(seg, off), v)

Read16(s, seg, off) ==
    mem_read_by_segment(s, seg, off) + 256 * mem_read_by_segment(s, seg, off + 1)

Write16(s, seg, off, v) ==
    mem_write_by_segment(mem_write_by_segment(s, seg, off, Lo(v)), seg, off + 1, Hi(v))

\* The byte k places after ip; Skip moves ip past what was fetched.
fetch(s, k) == mem_read_by_segment(s, s.cs, s.ip + k)
fetch_16(s, k) == fetch(s, k) + 256 * fetch(s, k + 1)
Imm(w, s, k) == IF w = 8 THEN fetch(s, k) ELSE fetch_16(s, k)
Skip(s, n) == [s EXCEPT !.ip = Word(@ + n)]

io_read(s, port) == IF Word(port) \in DOMAIN s.io THEN s.io[Word(port)] ELSE 255
io_write(s, port, v) ==
    IF Word(port) \in DOMAIN s.io THEN [s EXCEPT !.io[Word(port)] = v] ELSE s
-----------------------------------------------------------------------------
(* Operands.                                                               *)

\* A segment override replaces the default segment register.
Segment(s, default) == s[IF s.seg = "none" THEN default ELSE s.seg]

eaddr_read_8(s, default, off) == mem_read_by_segment(s, Segment(s, default), off)
eaddr_read_16(s, default, off) == Read16(s, Segment(s, default), off)
eaddr_write_8(s, default, off, v) ==
    mem_write_by_segment(s, Segment(s, default), off, v)
eaddr_write_16(s, default, off, v) == Write16(s, Segment(s, default), off, v)

EffectiveBase(s, rm) ==
    << s.bx + s.si, s.bx + s.di, s.bp + s.si, s.bp + s.di,
       s.si, s.di, s.bp, s.bx >>[rm + 1]

DefaultSegment(mod, rm) ==
    IF rm \in {2, 3} \/ (rm = 6 /\ mod # 0) THEN "ss" ELSE "ds"

\* The ModRM byte at ip with its displacement: registers and address it
\* names, and the number of bytes. Mode 0 with rm 6 is a direct address.
Modrm(s) ==
    LET b == fetch(s, 0)
        mod == b \div 64
        rm == b % 8
        direct == mod = 0 /\ rm = 6
        disp == CASE mod = 1 -> Signed(8, fetch(s, 1))
                  [] mod = 2 \/ direct -> fetch_16(s, 1)
                  [] OTHER -> 0
    IN [mod |-> mod, reg |-> (b \div 8) % 8, rm |-> rm,
        ea |-> IF mod = 3 THEN Garbage
               ELSE Word((IF direct THEN 0 ELSE EffectiveBase(s, rm)) + disp),
        default |-> DefaultSegment(mod, rm),
        size |-> CASE mod = 1 -> 2 [] mod = 2 \/ direct -> 3 [] OTHER -> 1]

modrm_get_reg_8(s, k) ==
    IF k < 4 THEN Lo(s[REG16[k + 1]]) ELSE Hi(s[REG16[k - 3]])
modrm_set_reg_8(s, k, v) ==
    IF k < 4 THEN [s EXCEPT ![REG16[k + 1]] = @ - Lo(@) + v]
             ELSE [s EXCEPT ![REG16[k - 3]] = Lo(@) + 256 * v]
modrm_get_reg_16(s, k) == s[REG16[k + 1]]
modrm_set_reg_16(s, k, v) == [s EXCEPT ![REG16[k + 1]] = v]

modrm_get_reg_seg(s, k) == s[REGSEG[(k % 4) + 1]]
modrm_set_reg_seg(s, k, v) == [s EXCEPT ![REGSEG[(k % 4) + 1]] = v]

modrm_get_rm_8(s, d) ==
    IF d.mod = 3 THEN modrm_get_reg_8(s, d.rm) ELSE eaddr_read_8(s, d.default, d.ea)
modrm_get_rm_16(s, d) ==
    IF d.mod = 3 THEN modrm_get_reg_16(s, d.rm) ELSE eaddr_read_16(s, d.default, d.ea)
modrm_get_rm_eaddr_16(s, d, off) == modrm_get_rm_16(s, [d EXCEPT !.ea = off])

modrm_set_rm_eaddr_8(s, d, v) ==
    IF d.mod = 3 THEN modrm_set_reg_8(s, d.rm, v)
    ELSE eaddr_write_8(s, d.default, d.ea, v)

\* Faulty: the address is worked out again from the registers.
modrm_set_rm_recomputed_16(s, d, v) ==
    IF d.mod = 3 THEN modrm_set_reg_16(s, d.rm, v)
    ELSE eaddr_write_16(s, d.default, EffectiveBase(s, d.rm), v)

modrm_set_rm_eaddr_16(s, d, v) ==
    IF d.mod = 3 THEN modrm_set_reg_16(s, d.rm, v)
    ELSE eaddr_write_16(s, d.default, d.ea, v)

\* Both widths under one name.
Reg(w, s, k) == IF w = 8 THEN modrm_get_reg_8(s, k) ELSE modrm_get_reg_16(s, k)
SetReg(w, s, k, v) ==
    IF w = 8 THEN modrm_set_reg_8(s, k, v) ELSE modrm_set_reg_16(s, k, v)
Rm(w, s, d) == IF w = 8 THEN modrm_get_rm_8(s, d) ELSE modrm_get_rm_16(s, d)
SetRm(w, s, d, v) ==
    IF w = 8 THEN modrm_set_rm_eaddr_8(s, d, v) ELSE modrm_set_rm_eaddr_16(s, d, v)

\* Even opcodes are the byte forms.
Width(op) == IF op % 2 = 0 THEN 8 ELSE 16
-----------------------------------------------------------------------------
(* The stack and interrupts.                                               *)

push(s, v) ==
    LET sp == Word(s.sp - 2)
    IN Write16([s EXCEPT !.sp = sp], s.ss, sp, v)
OnStack(s, k) == Read16(s, s.ss, s.sp + k)
Drop(s, n) == [s EXCEPT !.sp = Word(@ + n)]

\* The register is read after sp has moved: PUSH SP pushes the new value.
push_reg(s, k) == push(s, IF k = 4 THEN Word(s.sp - 2) ELSE modrm_get_reg_16(s, k))
\* POP SP leaves what it has read.
pop_reg(s, k) == modrm_set_reg_16(IF k = 4 THEN s ELSE Drop(s, 2), k, OnStack(s, 0))

push_seg(s, k) == push(s, modrm_get_reg_seg(s, k))
pop_seg(s, k) == modrm_set_reg_seg(Drop(s, 2), k, OnStack(s, 0))

\* The flags as a word; POPF and IRET set the unused bits x.
FlagsWord(f) ==
    f.c + 4 * f.p + 16 * f.a + 64 * f.z + 128 * f.s
        + 256 * f.t + 512 * f.i + 1024 * f.d + 2048 * f.o + f.x
UnusedSet == 61442
FlagsOf(v) ==
    [c |-> Bit(v, 0), p |-> Bit(v, 2), a |-> Bit(v, 4), z |-> Bit(v, 6),
     s |-> Bit(v, 7), t |-> Bit(v, 8), i |-> Bit(v, 9), d |-> Bit(v, 10),
     o |-> Bit(v, 11), x |-> UnusedSet]

\* Faulty: four bytes are made room for.
interrupt_short_frame(s, n) ==
    LET t == Write16(push(push(s, s.cs), s.ip), s.ss, s.sp, FlagsWord(s.f))
    IN [t EXCEPT !.ip = Read16(t, 0, n * 4), !.cs = Read16(t, 0, n * 4 + 2), !.f.t = 0]

i8088_interrupt(s, n) ==
    LET t == push(push(push(s, FlagsWord(s.f)), s.cs), s.ip)
    IN [t EXCEPT !.ip = Read16(t, 0, n * 4), !.cs = Read16(t, 0, n * 4 + 2), !.f.t = 0]

i8088_irq(s, n) ==
    LET t == [s EXCEPT !.halt = FALSE]
    IN IF t.f.i = 0 THEN t ELSE [i8088_interrupt(t, n + 8) EXCEPT !.f.i = 0]

iret(s) ==
    [Drop(s, 6) EXCEPT !.ip = OnStack(s, 0), !.cs = OnStack(s, 2),
                       !.f = FlagsOf(OnStack(s, 4))]
-----------------------------------------------------------------------------
(* Arithmetic and moves. In every instruction below, s.ip is past the      *)
(* opcode.                                                                 *)

AluOp(k, w, f, x, y) ==
    CASE k = 0 -> add(w, f, x, y)
      [] k = 1 -> or(w, f, x, y)
      [] k = 2 -> adc(w, f, x, y)
      [] k = 3 -> sbb(w, f, x, y)
      [] k = 4 -> and(w, f, x, y)
      [] k = 5 -> sub(w, f, x, y)
      [] k = 6 -> xor(w, f, x, y)
      [] k = 7 -> [sub(w, f, x, y) EXCEPT !.val = x]     \* CMP

\* The six forms of a two-operand instruction: rm with reg, reg with rm and
\* the accumulator with an immediate, each for bytes and words.
Binary(k, s, form) ==
    LET w == Width(form)
        d == Modrm(s)
        dest == CASE form < 2 -> Rm(w, s, d)
                  [] form \in 2 .. 3 -> Reg(w, s, d.reg)
                  [] OTHER -> Reg(w, s, 0)
        src == CASE form < 2 -> Reg(w, s, d.reg)
                 [] form \in 2 .. 3 -> Rm(w, s, d)
                 [] OTHER -> Imm(w, s, 0)
        r == AluOp(k, w, s.f, dest, src)
        t == [Skip(s, IF form < 4 THEN d.size ELSE w \div 8) EXCEPT !.f = r.f]
    IN CASE form < 2 -> SetRm(w, t, d, r.val)
         [] form \in 2 .. 3 -> SetReg(w, t, d.reg, r.val)
         [] OTHER -> SetReg(w, t, 0, r.val)

ADD(s, form) == Binary(0, s, form)
OR(s, form)  == Binary(1, s, form)
ADC(s, form) == Binary(2, s, form)
SBB(s, form) == Binary(3, s, form)
AND(s, form) == Binary(4, s, form)
SUB(s, form) == Binary(5, s, form)
XOR(s, form) == Binary(6, s, form)
CMP(s, form) == Binary(7, s, form)

INC(s, k) ==
    LET r == inc(16, s.f, modrm_get_reg_16(s, k))
    IN modrm_set_reg_16([s EXCEPT !.f = r.f], k, r.val)
DEC(s, k) ==
    LET r == dec_wide(16, s.f, modrm_get_reg_16(s, k))
    IN modrm_set_reg_16([s EXCEPT !.f = r.f], k, r.val)

\* An immediate into rm; the result is written back even for CMP.
Group(w, s, imm, n) ==
    LET d == Modrm(s)
        r == AluOp(d.reg, w, s.f, Rm(w, s, d), imm)
    IN SetRm(w, [Skip(s, d.size + n) EXCEPT !.f = r.f], d, r.val)

opcode_80(s) == Group(8, s, fetch(s, Modrm(s).size), 1)
opcode_81(s) == Group(16, s, fetch_16(s, Modrm(s).size), 2)
opcode_83(s) == Group(16, s, Word(Signed(8, fetch(s, Modrm(s).size))), 1)

ShiftOp(k, w, f, x, count) ==
    CASE k = 0 -> rol(w, f, x, count)
      [] k = 1 -> ror(w, f, x, count)
      [] k = 2 -> rcl(w, f, x, count)
      [] k = 3 -> rcr(w, f, x, count)
      [] k = 4 -> shl(w, f, x, count)
      [] k = 5 -> shr(w, f, x, count)
      [] k = 7 -> sar(w, f, x, count)

ShiftRm(w, s, count) ==
    LET d == Modrm(s)
        t == Skip(s, d.size)
        r == ShiftOp(d.reg, w, s.f, Rm(w, s, d), count)
    IN IF d.reg = 6 THEN [t EXCEPT !.panic = TRUE]
       ELSE SetRm(w, [t EXCEPT !.f = r.f], d, r.val)

opcode_d0_d2(s, count) == ShiftRm(8, s, count)
opcode_d1_d3(s, count) == ShiftRm(16, s, count)

\* The double-width accumulator of MUL and DIV: AX, or DX and AX.
Wide(w, s) == IF w = 8 THEN s.ax ELSE s.dx * 65536 + s.ax
SetWide(w, s, lo, hi) ==
    IF w = 8 THEN [s EXCEPT !.ax = lo + 256 * hi] ELSE [s EXCEPT !.ax = lo, !.dx = hi]

Multiply(w, s, p) == [SetWide(w, s, p.lo, p.hi) EXCEPT !.f = p.f]
Divide(w, s, q) == IF q.ok THEN SetWide(w, s, q.q, q.r) ELSE i8088_interrupt(s, 0)

\* 0xF6 and 0xF7: TEST, NOT, NEG and the instructions on the accumulator. TEST
\* writes its operand back as it was.
Unary(w, s) ==
    LET d == Modrm(s)
        v == Rm(w, s, d)
        t == Skip(s, d.size)
        neg == sub(w, s.f, 0, v)
        test == [Skip(t, w \div 8) EXCEPT !.f = and(w, s.f, Imm(w, t, 0), v).f]
    IN CASE d.reg < 2 -> SetRm(w, test, d, v)
         [] d.reg = 2 -> SetRm(w, t, d, Pow2[w] - 1 - v)
         [] d.reg = 3 -> SetRm(w, [t EXCEPT !.f = neg.f], d, neg.val)
         [] d.reg = 4 -> Multiply(w, t, mul(w, s.f, Reg(w, s, 0), v))
         [] d.reg = 5 -> Multiply(w, t, imul(w, s.f, Reg(w, s, 0), v))
         [] d.reg = 6 -> Divide(w, t, div(w, Wide(w, s), v))
         [] d.reg = 7 -> Divide(w, t, idiv(w, Wide(w, s), v))

opcode_f6(s) == Unary(8, s)
opcode_f7(s) == Unary(16, s)

TEST(s, op) ==
    LET w == Width(op)
        d == Modrm(s)
    IN [Skip(s, d.size) EXCEPT !.f = and(w, s.f, Reg(w, s, d.reg), Rm(w, s, d)).f]
TEST_imm(s, op) ==
    LET w == Width(op)
    IN [Skip(s, w \div 8) EXCEPT !.f = and(w, s.f, Reg(w, s, 0), Imm(w, s, 0)).f]

XCHG(s, op) ==
    LET w == Width(op)
        d == Modrm(s)
        t == SetReg(w, Skip(s, d.size), d.reg, Rm(w, s, d))
    IN SetRm(w, t, d, Reg(w, s, d.reg))
XCHG_ax(s, k) == [modrm_set_reg_16(s, k, s.ax) EXCEPT !.ax = modrm_get_reg_16(s, k)]

MOV_rm_reg(s, op) ==
    LET d == Modrm(s) IN SetRm(Width(op), Skip(s, d.size), d, Reg(Width(op), s, d.reg))
MOV_reg_rm(s, op) ==
    LET d == Modrm(s) IN SetReg(Width(op), Skip(s, d.size), d.reg, Rm(Width(op), s, d))
MOV_rm_seg(s) ==
    LET d == Modrm(s)
    IN modrm_set_rm_eaddr_16(Skip(s, d.size), d, modrm_get_reg_seg(s, d.reg))
MOV_seg_rm(s) ==
    LET d == Modrm(s)
    IN modrm_set_reg_seg(Skip(s, d.size), d.reg, modrm_get_rm_16(s, d))
LEA(s) == LET d == Modrm(s) IN modrm_set_reg_16(Skip(s, d.size), d.reg, d.ea)
POP_rm(s) ==
    LET d == Modrm(s)
    IN modrm_set_rm_eaddr_16(Drop(Skip(s, d.size), 2), d, OnStack(s, 0))

\* LES and LDS: the segment register is written last.
LoadPointer(s, seg) ==
    LET d == Modrm(s)
        t == modrm_set_reg_16(Skip(s, d.size), d.reg, modrm_get_rm_16(s, d))
    IN [t EXCEPT ![seg] = modrm_get_rm_eaddr_16(t, d, d.ea + 2)]

MOV_rm_imm(s, op) ==
    LET w == Width(op)
        d == Modrm(s)
    IN SetRm(w, Skip(s, d.size + w \div 8), d, Imm(w, s, d.size))
MOV_reg8_imm(s, k) == modrm_set_reg_8(Skip(s, 1), k, fetch(s, 0))
MOV_reg16_imm(s, k) == modrm_set_reg_16(Skip(s, 2), k, fetch_16(s, 0))

\* The accumulator and a direct address.
MOV_moffs(s, op) ==
    LET off == fetch_16(s, 0)
        t == Skip(s, 2)
    IN CASE op = 160 -> modrm_set_reg_8(t, 0, eaddr_read_8(s, "ds", off))
         [] op = 161 -> [t EXCEPT !.ax = eaddr_read_16(s, "ds", off)]
         [] op = 162 -> eaddr_write_8(t, "ds", off, Lo(s.ax))
         [] op = 163 -> eaddr_write_16(t, "ds", off, s.ax)

CBW(s) == [s EXCEPT !.ax = Word(Signed(8, Lo(@)))]
CWD(s) == [s EXCEPT !.dx = IF s.ax < 32768 THEN 0 ELSE 65535]
XLAT(s) == modrm_set_reg_8(s, 0, eaddr_read_8(s, "ds", s.bx + Lo(s.ax)))

SAHF(s) ==
    LET h == Hi(s.ax)
    IN [s EXCEPT !.f.s = Bit(h, 7), !.f.z = Bit(h, 6), !.f.a = Bit(h, 4),
                 !.f.p = Bit(h, 2), !.f.c = Bit(h, 0)]
LAHF(s) ==
    modrm_set_reg_8(s, 4,
        128 * s.f.s + 64 * s.f.z + 16 * s.f.a + 4 * s.f.p + 2 + s.f.c)

\* DAA, DAS, AAA, AAS: opcodes 0x27, 0x2F, 0x37, 0x3F.
Adjust(s, op) ==
    LET r == CASE op = 39 -> daa(Lo(s.ax), s.f)
               [] op = 47 -> das(Lo(s.ax), s.f)
               [] op = 55 -> aaa(Lo(s.ax), Hi(s.ax), s.f)
               [] op = 63 -> aas(Lo(s.ax), Hi(s.ax), s.f)
        t == [s EXCEPT !.f = r.f]
    IN IF op < 48 THEN modrm_set_reg_8(t, 0, r.val)
       ELSE [t EXCEPT !.ax = r.val + 256 * r.ah]

AAM(s) ==
    LET base == fetch(s, 0)
        t == Skip(s, 1)
        r == Result(8, Lo(s.ax) % base, s.f)
    IN IF base = 0 THEN i8088_interrupt(t, 0)
       ELSE [t EXCEPT !.ax = r.val + 256 * (Lo(s.ax) \div base), !.f = r.f]
AAD(s) ==
    LET r == Result(8, Lo(Hi(s.ax) * fetch(s, 0) + Lo(s.ax)), s.f)
    IN [Skip(s, 1) EXCEPT !.ax = r.val, !.f = r.f]

IN_al(s, port) == modrm_set_reg_8(s, 0, io_read(s, port))
IN_ax(s, port) == [s EXCEPT !.ax = io_read(s, port) + 256 * io_read(s, port + 1)]
OUT_al(s, port) == io_write(s, port, Lo(s.ax))
OUT_ax(s, port) == io_write(io_write(s, port, Lo(s.ax)), port + 1, Hi(s.ax))
-----------------------------------------------------------------------------
(* Control.                                                                *)

\* A short jump when b holds; the displacement is signed.
Jump(s, b) ==
    Skip(s, IF b THEN 1 + Signed(8, fetch(s, 0)) ELSE 1)

Jcc(s, k) == Jump(s, Condition(s.f, k))

\* LOOPNE, LOOPE, LOOP and JCXZ.
Loop(s, op) ==
    LET t == IF op = 227 THEN s ELSE [s EXCEPT !.cx = Word(@ - 1)]
    IN Jump(t, CASE op = 224 -> t.f.z = 0 /\ t.cx # 0
                 [] op = 225 -> t.f.z = 1 /\ t.cx # 0
                 [] op = 226 -> t.cx # 0
                 [] op = 227 -> t.cx = 0)

CALL(s) == LET t == push(Skip(s, 2), Word(s.ip + 2)) IN Skip(t, fetch_16(s, 0))
JMP(s) == Skip(s, 2 + fetch_16(s, 0))
CALL_far(s) ==
    LET t == push(push(s, s.cs), Word(s.ip + 4))
    IN [t EXCEPT !.ip = fetch_16(s, 0), !.cs = fetch_16(s, 2)]
JMP_far(s) == [s EXCEPT !.ip = fetch_16(s, 0), !.cs = fetch_16(s, 2)]

\* Faulty: the parameters are not released.
RET_keeps_parameters(s, n) == [Drop(s, 2) EXCEPT !.ip = OnStack(s, 0)]

\* n bytes of parameters are released too.
RET(s, n) == [Drop(s, 2 + n) EXCEPT !.ip = OnStack(s, 0)]
RET_far(s, n) == [Drop(s, 4 + n) EXCEPT !.ip = OnStack(s, 0), !.cs = OnStack(s, 2)]

INT(s) == i8088_interrupt(Skip(s, 1), fetch(s, 0))
INTO(s) == IF s.f.o = 1 THEN i8088_interrupt(s, 4) ELSE s

\* INC and DEC of a byte; the other values of reg panic.
opcode_fe(s) ==
    LET d == Modrm(s)
        t == Skip(s, d.size)
        v == modrm_get_rm_8(s, d)
        r == IF d.reg = 0 THEN inc(8, s.f, v) ELSE dec(8, s.f, v)
    IN IF d.reg > 1 THEN [t EXCEPT !.panic = TRUE]
       ELSE modrm_set_rm_eaddr_8([t EXCEPT !.f = r.f], d, r.val)

\* INC, DEC, CALL, JMP and PUSH of a word. A far call reads the segment
\* after it has pushed the return address.
opcode_ff(s) ==
    LET d == Modrm(s)
        t == Skip(s, d.size)
        v == modrm_get_rm_16(s, d)
        r == IF d.reg = 0 THEN inc(16, s.f, v) ELSE dec_wide(16, s.f, v)
        Far(u) == [u EXCEPT !.ip = v, !.cs = modrm_get_rm_eaddr_16(u, d, d.ea + 2)]
    IN CASE d.reg < 2 -> modrm_set_rm_eaddr_16([t EXCEPT !.f = r.f], d, r.val)
         [] d.reg = 2 -> [push(t, t.ip) EXCEPT !.ip = v]
         [] d.reg = 3 -> Far(push(push(t, t.cs), t.ip))
         [] d.reg = 4 -> [t EXCEPT !.ip = v]
         [] d.reg = 5 -> Far(t)
         [] d.reg > 5 -> push(t, IF d.mod = 3 /\ d.rm = 4 THEN Word(v - 2) ELSE v)

\* CMC, CLC, STC, CLI, STI, CLD, STD.
FlagOp(s, op) ==
    CASE op = 245 -> [s EXCEPT !.f.c = 1 - @]
      [] op = 248 -> [s EXCEPT !.f.c = 0]
      [] op = 249 -> [s EXCEPT !.f.c = 1]
      [] op = 250 -> [s EXCEPT !.f.i = 0]
      [] op = 251 -> [s EXCEPT !.f.i = 1]
      [] op = 252 -> [s EXCEPT !.f.d = 0]
      [] op = 253 -> [s EXCEPT !.f.d = 1]
-----------------------------------------------------------------------------
(* String instructions. SI goes with DS or the override, DI with ES.       *)

Forward(s, w) == IF s.f.d = 1 THEN -(w \div 8) ELSE w \div 8
MoveSi(s, w) == [s EXCEPT !.si = Word(@ + Forward(s, w))]
MoveDi(s, w) == [s EXCEPT !.di = Word(@ + Forward(s, w))]
AtDi(s, w) == IF w = 8 THEN mem_read_by_segment(s, s.es, s.di) ELSE Read16(s, s.es, s.di)
AtSi(s, w) == IF w = 8 THEN eaddr_read_8(s, "ds", s.si) ELSE eaddr_read_16(s, "ds", s.si)

\* Faulty: the index registers always advance.
movs_ignores_direction(s, w) ==
    LET one == mem_write_by_segment(s, s.es, s.di, eaddr_read_8(s, "ds", s.si))
        both == mem_write_by_segment(one, s.es, s.di + 1, eaddr_read_8(one, "ds", s.si + 1))
        t == IF w = 8 THEN one ELSE both
    IN [t EXCEPT !.si = Word(@ + w \div 8), !.di = Word(@ + w \div 8)]

\* MOVSW is two byte moves, the second reading after the first has written.
movs(s, w) ==
    LET one == mem_write_by_segment(s, s.es, s.di, eaddr_read_8(s, "ds", s.si))
        both == mem_write_by_segment(one, s.es, s.di + 1, eaddr_read_8(one, "ds", s.si + 1))
    IN MoveSi(MoveDi(IF w = 8 THEN one ELSE both, w), w)
cmps(s, w) ==
    MoveSi(MoveDi([s EXCEPT !.f = sub(w, s.f, AtSi(s, w), AtDi(s, w)).f], w), w)
scas(s, w) == MoveDi([s EXCEPT !.f = sub(w, s.f, Reg(w, s, 0), AtDi(s, w)).f], w)
stos(s, w) ==
    MoveDi(IF w = 8 THEN mem_write_by_segment(s, s.es, s.di, Lo(s.ax))
                    ELSE Write16(s, s.es, s.di, s.ax), w)
lods(s, w) == MoveSi(SetReg(w, s, 0, AtSi(s, w)), w)

StringStep(s, op) ==
    LET w == Width(op)
    IN CASE op \in 164 .. 165 -> movs(s, w)
         [] op \in 166 .. 167 -> cmps(s, w)
         [] op \in 170 .. 171 -> stos(s, w)
         [] op \in 172 .. 173 -> lods(s, w)
         [] op \in 174 .. 175 -> scas(s, w)

Compares(op) == op \in {166, 167, 174, 175}

\* All iterations of a repeated instruction run inside one i8088_execute: CX
\* of them, or fewer where a comparing one stops because the zero flag is not
\* the one asked for.
Repeat(s, op) ==
    LET Once(t) == [StringStep(t, op) EXCEPT !.cx = Word(@ - 1)]
        Goes(t) == Compares(op) => t.f.z = IF t.rep = "ez" THEN 1 ELSE 0
        at[k \in 0 .. s.cx] ==
            IF k = 0 THEN [s |-> s, on |-> TRUE]
            ELSE LET u == at[k - 1]
                     t == Once(u.s)
                 IN IF u.on THEN [s |-> t, on |-> Goes(t)] ELSE u
    IN at[s.cx].s

String(s, op) == IF s.rep = "none" THEN StringStep(s, op) ELSE Repeat(s, op)
-----------------------------------------------------------------------------
(* One instruction.                                                        *)

SegmentPrefix ==
    [op \in {38, 46, 54, 62} |->
        CASE op = 38 -> "es" [] op = 46 -> "cs" [] op = 54 -> "ss" [] op = 62 -> "ds"]

\* A segment override or LOCK, then a repeat prefix.
PrefixPair(s) ==
    LET op == fetch(s, 0)
        a == CASE op \in DOMAIN SegmentPrefix ->
                     [Skip(s, 1) EXCEPT !.seg = SegmentPrefix[op]]
               [] op = 240 -> [Skip(s, 1) EXCEPT !.panic = TRUE]
               [] OTHER -> s
        r == fetch(a, 0)
    IN IF r \in {242, 243}
       THEN [Skip(a, 1) EXCEPT !.rep = IF r = 242 THEN "nenz" ELSE "ez"] ELSE a

Overrides(s) == fetch(s, 0) \in DOMAIN SegmentPrefix

\* After those, another override starts over (the gotos of the opcode switch).
\* In a segment of nothing but prefixes that never ends; then there is no such
\* number of rounds.
Rounds == 0 .. 65536
Prefixes(s) ==
    LET at[k \in Nat] ==
            IF k = 0 THEN PrefixPair(s)
            ELSE LET u == at[k - 1] IN IF Overrides(u) THEN PrefixPair(u) ELSE u
    IN at[CHOOSE k \in Rounds : ~Overrides(at[k])]

BinaryOpcode(s, op) ==
    LET form == op % 8
    IN CASE op < 8 -> ADD(s, form)
         [] op \in 8 .. 15 -> OR(s, form)
         [] op \in 16 .. 23 -> ADC(s, form)
         [] op \in 24 .. 31 -> SBB(s, form)
         [] op \in 32 .. 39 -> AND(s, form)
         [] op \in 40 .. 47 -> SUB(s, form)
         [] op \in 48 .. 55 -> XOR(s, form)
         [] op \in 56 .. 63 -> CMP(s, form)

\* s.ip is past the opcode. What has no case panics, as do 0x60 to 0x6F.
Opcode(s, op) ==
    LET k == op % 8
    IN CASE op < 64 /\ k < 6 -> BinaryOpcode(s, op)
         [] op < 32 /\ k = 6 -> push_seg(s, op \div 8)
         [] op < 32 /\ k = 7 -> pop_seg(s, op \div 8)
         [] op \in {39, 47, 55, 63} -> Adjust(s, op)
         [] op \in 64 .. 71 -> INC(s, k)
         [] op \in 72 .. 79 -> DEC(s, k)
         [] op \in 80 .. 87 -> push_reg(s, k)
         [] op \in 88 .. 95 -> pop_reg(s, k)
         [] op \in 112 .. 127 -> Jcc(s, op - 112)
         [] op \in {128, 130} -> opcode_80(s)
         [] op = 129 -> opcode_81(s)
         [] op = 131 -> opcode_83(s)
         [] op \in 132 .. 133 -> TEST(s, op)
         [] op \in 134 .. 135 -> XCHG(s, op)
         [] op \in 136 .. 137 -> MOV_rm_reg(s, op)
         [] op \in 138 .. 139 -> MOV_reg_rm(s, op)
         [] op = 140 -> MOV_rm_seg(s)
         [] op = 141 -> LEA(s)
         [] op = 142 -> MOV_seg_rm(s)
         [] op = 143 -> POP_rm(s)
         [] op \in 144 .. 151 -> XCHG_ax(s, k)
         [] op = 152 -> CBW(s)
         [] op = 153 -> CWD(s)
         [] op = 154 -> CALL_far(s)
         [] op = 156 -> push(s, FlagsWord(s.f))
         [] op = 157 -> [Drop(s, 2) EXCEPT !.f = FlagsOf(OnStack(s, 0))]
         [] op = 158 -> SAHF(s)
         [] op = 159 -> LAHF(s)
         [] op \in 160 .. 163 -> MOV_moffs(s, op)
         [] op \in 168 .. 169 -> TEST_imm(s, op)
         [] op \in 164 .. 167 \cup 170 .. 175 -> String(s, op)
         [] op \in 176 .. 183 -> MOV_reg8_imm(s, k)
         [] op \in 184 .. 191 -> MOV_reg16_imm(s, k)
         [] op = 194 -> RET(s, fetch_16(s, 0))
         [] op = 195 -> RET(s, 0)
         [] op = 196 -> LoadPointer(s, "es")
         [] op = 197 -> LoadPointer(s, "ds")
         [] op \in 198 .. 199 -> MOV_rm_imm(s, op)
         [] op = 202 -> RET_far(s, fetch_16(s, 0))
         [] op = 203 -> RET_far(s, 0)
         [] op = 204 -> i8088_interrupt(s, 3)
         [] op = 205 -> INT(s)
         [] op = 206 -> INTO(s)
         [] op = 207 -> iret(s)
         [] op \in {208, 210} -> opcode_d0_d2(s, IF op = 208 THEN 1 ELSE Lo(s.cx))
         [] op \in {209, 211} -> opcode_d1_d3(s, IF op = 209 THEN 1 ELSE Lo(s.cx))
         [] op = 212 -> AAM(s)
         [] op = 213 -> AAD(s)
         [] op = 215 -> XLAT(s)
         [] op \in 216 .. 223 -> Skip(s, Modrm(s).size)      \* ESC
         [] op \in 224 .. 227 -> Loop(s, op)
         [] op = 228 -> IN_al(Skip(s, 1), fetch(s, 0))
         [] op = 229 -> IN_ax(Skip(s, 1), fetch(s, 0))
         [] op = 230 -> OUT_al(Skip(s, 1), fetch(s, 0))
         [] op = 231 -> OUT_ax(Skip(s, 1), fetch(s, 0))
         [] op = 232 -> CALL(s)
         [] op = 233 -> JMP(s)
         [] op = 234 -> JMP_far(s)
         [] op = 235 -> Jump(s, TRUE)
         [] op = 236 -> IN_al(s, s.dx)
         [] op = 237 -> IN_ax(s, s.dx)
         [] op = 238 -> OUT_al(s, s.dx)
         [] op = 239 -> OUT_ax(s, s.dx)
         [] op = 244 -> [s EXCEPT !.halt = TRUE]
         [] op \in {245} \cup 248 .. 253 -> FlagOp(s, op)
         [] op = 246 -> opcode_f6(s)
         [] op = 247 -> opcode_f7(s)
         [] op = 254 -> opcode_fe(s)
         [] op = 255 -> opcode_ff(s)
         [] OTHER -> [s EXCEPT !.panic = TRUE]     \* WAIT and unknown opcodes

i8088_execute(s) ==
    IF s.halt THEN s
    ELSE LET t == Prefixes([s EXCEPT !.seg = "none", !.rep = "none"])
         IN Opcode(Skip(t, 1), fetch(t, 0))

i8088_reset(s) ==
    [s EXCEPT !.f = [FlagsOf(0) EXCEPT !.x = 0], !.ip = 0, !.cs = 65535,
              !.ds = 0, !.ss = 0, !.es = 0]
=============================================================================
