------------------------------ MODULE MCI8088 -------------------------------
(***************************************************************************)
(* The 8088 against reference definitions. An input is two operands of W   *)
(* bits, carry and auxiliary carry. The arithmetic is checked on every     *)
(* input as it is. From some inputs the processor also runs a job, a short *)
(* program built from the input with code, data and stack on both sides of *)
(* the 64 KB wrap; the properties compare the processor with the one that  *)
(* began the job.                                                          *)
(***************************************************************************)
EXTENDS I8088Arithmetic, I8088

CONSTANT Places     \* the second operands from which programs run

ASSUME PlacesAssumption == Places \subseteq Operands

AllOperands == 0 .. 2^W - 1
FirstPlaces == 0 .. 15

VARIABLES
    start,          \* the processor at the beginning of the job
    cpu,            \* the processor
    executed,       \* instructions since then
    interrupted     \* the processor when the interrupt came

vars == <<x, y, c, a, job, start, cpu, executed, interrupted>>
-----------------------------------------------------------------------------
(* Decimal arithmetic.                                                     *)

\* The packed form of a two-digit number, and the numbers a pair of operands
\* stands for: with six bits and more, every one is reached.
Bcd(v) == (v \div 10) * 16 + (v % 10)
Decimals(v) == {v, v + 36} \cap 0 .. 99

\* ADC and DAA add decimal numbers with their carry; SBB and DAS subtract.
PackedDecimals ==
    \A u \in Decimals(x), v \in Decimals(y) :
       LET plus == adc(8, f, Bcd(u), Bcd(v))
           sum == daa(plus.val, plus.f)
           minus == sbb(8, f, Bcd(u), Bcd(v))
           diff == das(minus.val, minus.f)
       IN /\ sum.val = Bcd((u + v + c) % 100)
          /\ (sum.f.c = 1) = (u + v + c > 99)
          /\ diff.val = Bcd((u - v - c) % 100)
          /\ (diff.f.c = 1) = (u < v + c)

\* ADD and AAA add decimal digits, with the carry to AH; SUB and AAS subtract.
UnpackedDigits ==
    x <= 9 /\ y <= 9 =>
       LET plus == add(8, f, x, y)
           sum == aaa(plus.val, 0, plus.f)
           minus == sub(8, f, x, y)
           diff == aas(minus.val, 1, minus.f)
       IN /\ sum.ah * 10 + sum.val = x + y
          /\ diff.ah * 10 + diff.val = 10 + x - y
          /\ sum.f.c = sum.ah /\ diff.f.c = 1 - diff.ah
-----------------------------------------------------------------------------
(* Programs.                                                               *)

\* Offsets on both sides of the end of a segment.
NearX == Word(x - 32)
NearY == Word(y - 8)

\* Four segments that do not overlap, and low memory with the vectors.
Code == 4096
Data == 8192
Other == 12288
Stack == 16384

\* The bytes b at seg:off.
Bytes(seg, off, b) ==
    [adr \in {Linear(seg, off + k - 1) : k \in DOMAIN b} |->
        b[((adr - seg * 16 - off) % 65536) + 1]]
WordBytes(v) == <<Lo(v), Hi(v)>>

\* A processor about to run the program at Code:ip.
Cpu(ip, program) ==
    [ax |-> 4386, cx |-> 13124, dx |-> 21862, bx |-> 30600, sp |-> 30000, bp |-> 3,
     si |-> 65530, di |-> 65500, cs |-> Code, ds |-> Data, es |-> Other, ss |-> Stack,
     ip |-> ip, f |-> [FlagsOf(0) EXCEPT !.c = c, !.a = a, !.i = 1],
     seg |-> "none", rep |-> "none", halt |-> FALSE, panic |-> FALSE,
     m |-> Bytes(Code, ip, program), rom |-> {}, io |-> <<>>]

With(s, seg, off, b) ==
    LET new == Bytes(seg, off, b)
    IN [s EXCEPT !.m = [adr \in DOMAIN new \cup DOMAIN @ |->
                           IF adr \in DOMAIN new THEN new[adr] ELSE @[adr]]]

At(s, seg, off) == mem_read_by_segment(s, seg, off)

\* The same bytes outside a set of addresses.
SameMemory(s, t, except) ==
    \A adr \in (DOMAIN s.m \cup DOMAIN t.m) \ except : mem_read(s, adr) = mem_read(t, adr)

\* The same processor, apart from the memory and the prefixes.
Registers(s) == [k \in DOMAIN s \ {"m", "seg", "rep"} |-> s[k]]

\* The k bytes below the top of the stack.
BelowStack(s, k) == {Linear(s.ss, s.sp - i) : i \in 1 .. k}
-----------------------------------------------------------------------------
\* AAM 10; AAD 10.
DigitsProgram == [Cpu(100, <<212, 10, 213, 10>>) EXCEPT !.ax = x * y]

\* PUSH AX; ADC AL,127; PUSHF; MOV CX,3; CLI; REP ES: MOVSB; STI; SBB BX,BX;
\* POPF; POP DX, with the handler PUSH AX; INC AX; POP AX; IRET.
MainLength == 10
InterruptedProgram ==
    LET main == << 80, 20, 127, 156, 185, 3, 0, 250, 243, 38, 164, 251, 27, 219, 157, 90 >>
        s == [Cpu(NearX, main) EXCEPT !.sp = NearY, !.f.t = a]
    IN With(With(s, Other, 100, << 80, 64, 88, 207 >>),
            0, 4 * ((y % 8) + 8), << Lo(100), Hi(100), Lo(Other), Hi(Other) >>)
-----------------------------------------------------------------------------
\* The forms of a call: near and far, direct and through a pointer at
\* DS:BX + disp, and INT.
CallForms == 1 .. 5
Far(form) == form \in {2, 4, 5}
CallBytes(form, disp, from, to, seg) ==
    CASE form = 1 -> <<232>> \o WordBytes(Word(to - from - 3))
      [] form = 2 -> <<154>> \o WordBytes(to) \o WordBytes(seg)
      [] form = 3 -> <<255, 87, disp>>
      [] form = 4 -> <<255, 95, disp>>
      [] form = 5 -> <<205, 128 + disp>>

\* The matching return, which releases k bytes; IRET releases none.
ReturnBytes(form, k) ==
    CASE form = 5 -> <<207>>
      [] form \in {1, 3} -> IF k = 0 THEN <<195>> ELSE <<194>> \o WordBytes(k)
      [] form \in {2, 4} -> IF k = 0 THEN <<203>> ELSE <<202>> \o WordBytes(k)

\* The caller's part: PUSH AX when there is a parameter, and the call.
Caller(form, k, disp, from, to, seg) ==
    IF k = 0 THEN CallBytes(form, disp, from, to, seg)
    ELSE <<80>> \o CallBytes(form, disp, Word(from + 1), to, seg)

\* A routine at 1000 is called, which calls one at 2000; each may release a
\* parameter of two bytes.
OuterForm == (y % 5) + 1
InnerForm == (x % 5) + 1
OuterParameter == IF OuterForm = 5 THEN 0 ELSE 2 * c
InnerParameter == IF InnerForm = 5 THEN 0 ELSE 2 * a
OuterSegment == IF Far(OuterForm) THEN Other ELSE Code
InnerSegment == IF Far(InnerForm) THEN Other ELSE OuterSegment
CallLength == 4 + (OuterParameter + InnerParameter) \div 2

MainCode == Caller(OuterForm, OuterParameter, 0, NearX, 1000, OuterSegment)
OuterCode ==
    Caller(InnerForm, InnerParameter, 8, 1000, 2000, InnerSegment)
        \o ReturnBytes(OuterForm, OuterParameter)

\* With pointers to both where the indirect calls and INT take them from.
CallProgram ==
    LET outer == WordBytes(1000) \o WordBytes(OuterSegment)
        inner == WordBytes(2000) \o WordBytes(InnerSegment)
        s == [Cpu(NearX, MainCode) EXCEPT !.sp = NearY, !.bx = NearY]
        t == With(With(s, OuterSegment, 1000, OuterCode),
                  InnerSegment, 2000, ReturnBytes(InnerForm, InnerParameter))
        u == With(With(t, Data, NearY, outer), Data, NearY + 8, inner)
    IN With(With(u, 0, 4 * 128, outer), 0, 4 * 136, inner)
-----------------------------------------------------------------------------
(* Repeated string instructions: the direction is c, the size a.           *)

StringOpcode == [movs |-> 164, cmps |-> 166, stos |-> 170, lods |-> 172, scas |-> 174]
StringJobs == DOMAIN StringOpcode

size == 1 + a
elements == (x \div 3) % 6
extent == elements * size

\* Byte k of a block, in the order in which it is passed; a word at p has its
\* higher byte first when the direction is down.
Passed(p, k) == Word(IF c = 0 THEN p + k ELSE p + size - 1 - k)

\* Where SI and DI are after k elements.
Moved(p, k) == Word(IF c = 0 THEN p + k * size ELSE p - k * size)

\* The zero flag that a search goes on with; stores take either prefix.
wanted == y % 2 = 0
RepeatPrefix == IF wanted THEN 243 ELSE 242

\* The source is reached through DS, or with an override through SS, its
\* prefix before or behind the repeat prefix.
Prefixed(op) ==
    CASE (x + y) % 3 = 0 -> <<RepeatPrefix, op>>
      [] (x + y) % 3 = 1 -> <<54, RepeatPrefix, op>>
      [] (x + y) % 3 = 2 -> <<RepeatPrefix, 54, op>>
Overridden == (x + y) % 3 # 0

\* The blocks of a search are in different segments and have few values; a
\* copy is in one segment, where the source may overlap the target.
Searching == {"cmps", "scas"}
StringProgram(name) ==
    LET search == name \in Searching
        s == [Cpu(100, Prefixed(StringOpcode[name] + a)) EXCEPT
                !.ax = IF search THEN 257 ELSE @, !.cx = elements,
                !.si = NearX, !.di = NearY, !.es = IF search THEN Other ELSE Data,
                !.ds = IF Overridden THEN Other + 4096 ELSE Data,
                !.ss = IF Overridden THEN Data ELSE Stack, !.f.d = c]
        source == [k \in 1 .. 24 |-> IF search THEN (k % 4) \div 2 ELSE k]
        target == [k \in 1 .. 24 |-> (k % 5) \div 3]
        t == With(s, Data, NearX - 12, source)
    IN IF search THEN With(t, Other, NearY - 12, target) ELSE t
-----------------------------------------------------------------------------
(* Memory operands: x is the two lower fields of ModRM, y gives the mode    *)
(* and the displacement, c an ES override, a the size.                      *)

mode == y % 4
reg == x \div 8
rm == x % 8

Direct == mode = 0 /\ rm = 6
Displacement ==
    CASE mode = 1 -> <<Lo(41 * y)>>
      [] mode = 2 \/ Direct -> WordBytes(Word(1031 * y - 1))
      [] OTHER -> <<>>
AddressRegisters ==
    IF Direct THEN {}
    ELSE << {"bx", "si"}, {"bx", "di"}, {"bp", "si"}, {"bp", "di"},
            {"si"}, {"di"}, {"bp"}, {"bx"} >>[rm + 1]

\* The address that the registers give before the instruction.
Address(s) ==
    LET Part(r) == IF r \in AddressRegisters THEN s[r] ELSE 0
        disp == CASE mode = 1 -> Signed(8, Lo(41 * y))
                  [] mode = 2 \/ Direct -> Word(1031 * y - 1)
                  [] OTHER -> 0
    IN Word(Part("bx") + Part("bp") + Part("si") + Part("di") + disp)
AddressSegment ==
    IF c = 1 THEN Other ELSE IF "bp" \in AddressRegisters THEN Stack ELSE Data

\* The value of k bytes at an offset.
Stored(s, seg, off, k) ==
    At(s, seg, off) + (IF k = 2 THEN 256 * At(s, seg, off + 1) ELSE 0)

OperandOpcode ==
    [xchg |-> 134 + a, mov |-> 136 + a, add_rm |-> a, add_reg |-> 2 + a, pop |-> 143,
     les |-> 196, lds |-> 197]
OperandJobs == DOMAIN OperandOpcode

\* What an instruction is tried with: POP has words only and the pointers are
\* in memory.
Applies(name) ==
    /\ name = "pop" => size = 2
    /\ name \in {"les", "lds"} => mode # 3

OperandCode(name) ==
    (IF c = 1 THEN <<38>> ELSE <<>>) \o <<OperandOpcode[name], 64 * mode + x>> \o Displacement

\* A known stack top and memory operand.
OperandProgram(name) ==
    LET s == Cpu(NearY, OperandCode(name))
        t == With(s, Stack, s.sp, <<119, 136>>)
    IN With(t, AddressSegment, Address(s), <<17, 34, 51, 68>>)
-----------------------------------------------------------------------------
(* The processor at work.                                                  *)

Jobs == {"digits", "interrupt", "call"} \cup StringJobs \cup OperandJobs

Prepared(name) ==
    CASE name = "digits" -> DigitsProgram
      [] name = "interrupt" -> InterruptedProgram
      [] name = "call" -> CallProgram
      [] name \in StringJobs -> StringProgram(name)
      [] name \in OperandJobs -> OperandProgram(name)

Steps(name) ==
    CASE name = "digits" -> 2
      [] name = "interrupt" -> MainLength
      [] name = "call" -> CallLength
      [] name \in StringJobs \cup OperandJobs -> 1

NoCpu == [halt |-> TRUE]

\* The handler has returned, or it has not been entered.
Back == interrupted # NoCpu /\ cpu.cs # Other

Done == IF interrupted = NoCpu THEN executed = Steps(job) ELSE Back

Init ==
    /\ InputInit
    /\ job = "none" /\ start = NoCpu /\ cpu = NoCpu /\ executed = 0 /\ interrupted = NoCpu

Another == job = "none" /\ NextInput /\ UNCHANGED <<job, start, cpu, executed, interrupted>>

Begin ==
    /\ job = "none" /\ y \in Places
    /\ \E name \in Jobs :
          /\ name \in OperandJobs => Applies(name)
          /\ job' = name /\ start' = Prepared(name)
    /\ cpu' = start' /\ executed' = 0
    /\ UNCHANGED <<input, interrupted>>

Execute ==
    /\ job # "none" /\ ~Done
    /\ cpu' = i8088_execute(cpu) /\ executed' = executed + 1
    /\ UNCHANGED <<input, job, start, interrupted>>

Interrupt ==
    /\ job = "interrupt" /\ interrupted = NoCpu
    /\ cpu' = i8088_irq(cpu, y % 8) /\ interrupted' = cpu
    /\ UNCHANGED <<input, job, start, executed>>

End ==
    /\ job # "none" /\ Done
    /\ job' = "none" /\ start' = NoCpu /\ cpu' = NoCpu /\ executed' = 0 /\ interrupted' = NoCpu
    /\ UNCHANGED input

Next == Another \/ Begin \/ Execute \/ Interrupt \/ End

Spec == Init /\ [][Next]_vars
-----------------------------------------------------------------------------
\* AAM splits a product of two digits into its digits, and AAD undoes it.
ProductDigits ==
    job = "digits" /\ x <= 9 /\ y <= 9 =>
       /\ executed = 1 => cpu.ax = 256 * ((x * y) \div 10) + ((x * y) % 10)
       /\ executed = 2 => cpu.ax = x * y

\* Decimal arithmetic on packed bytes and on single digits is what the
\* adjustment instructions (DAA, DAS, AAA, AAS, AAM, AAD) make of binary
\* arithmetic.
DecimalArithmetic ==
    IF job = "none" THEN PackedDecimals /\ UnpackedDigits ELSE ProductDigits

\* An interrupt between two instructions is not seen by the program: it is
\* taken exactly when interrupts are on (i8088_irq, i8088_interrupt), and when
\* the handler, which keeps the registers it uses, ends with IRET, registers,
\* flags and memory are what they were, the stack below apart. Code and stack
\* may lie across the end of their segments.
InterruptTransparent ==
    job = "interrupt" /\ Back =>
       /\ (cpu.m = interrupted.m) = (interrupted.f.i = 0)
       /\ Registers(cpu) = Registers(interrupted)
       /\ SameMemory(cpu, interrupted, BelowStack(interrupted, 8))

\* A routine that calls another returns behind the call with the stack
\* pointer, the registers and the flags of before, for every pair of call
\* forms, with and without a parameter that the callee releases, also where
\* the instruction, the pointers or the stack lie across the end of their
\* segment (0xE8, 0x9A, 0xFF, 0xCD and 0xC2, 0xC3, 0xCA, 0xCB, 0xCF).
CallsReturn ==
    job = "call" /\ Done =>
       /\ Registers(cpu) = [Registers(start) EXCEPT !.ip = Word(@ + Len(MainCode))]
       /\ SameMemory(cpu, start, BelowStack(start, 16))
-----------------------------------------------------------------------------
\* The block is copied byte by byte in the order of the direction: a copy that
\* runs into its own source repeats it with the period of the distance. (A
\* word copy to one byte further is left out: the code moves its bytes one by
\* one, the processor both at once; and so is one to one byte before.)
CopyBlock ==
    LET distance == Word(IF c = 0 THEN start.di - start.si ELSE start.si - start.di)
        From(k) == IF distance \in 1 .. extent - 1 THEN k % distance ELSE k
        target == {Linear(Data, Passed(start.di, k)) : k \in 0 .. extent - 1}
    IN size = 1 \/ distance \notin {1, 65535} =>
       /\ \A k \in 0 .. extent - 1 :
             At(cpu, Data, Passed(start.di, k)) = At(start, Data, Passed(start.si, From(k)))
       /\ SameMemory(start, cpu, target)
       /\ Registers(cpu) = [Registers(start) EXCEPT !.cx = 0, !.ip = cpu.ip,
                              !.si = Moved(@, elements), !.di = Moved(@, elements)]

\* The block is filled with AL or AX, and nothing else is written.
FillBlock ==
    LET target == {Linear(Data, Passed(start.di, k)) : k \in 0 .. extent - 1}
        Fill(k) == IF size = 1 \/ (k % 2 = 0) = (c = 0) THEN Lo(start.ax) ELSE Hi(start.ax)
    IN /\ \A k \in 0 .. extent - 1 : At(cpu, Data, Passed(start.di, k)) = Fill(k)
       /\ SameMemory(start, cpu, target)
       /\ Registers(cpu) = [Registers(start) EXCEPT !.cx = 0, !.ip = cpu.ip,
                              !.di = Moved(@, elements)]

\* The last element is loaded.
LoadBlock ==
    LET last == Moved(start.si, elements - 1)
        value == IF size = 1 THEN start.ax - Lo(start.ax) + At(start, Data, last)
                 ELSE Stored(start, Data, last, 2)
    IN Registers(cpu) = [Registers(start) EXCEPT !.cx = 0, !.ip = cpu.ip,
                           !.si = Moved(@, elements), !.ax = IF elements = 0 THEN @ ELSE value]

\* CMPS and SCAS stop behind the first element that is unlike what the prefix
\* asks for, and the zero flag tells whether there was one.
SearchBlock ==
    LET Element(seg, p, k) == Stored(start, seg, Moved(p, k), size)
        Equal(k) == Element(Other, start.di, k) =
                      IF job = "cmps" THEN Element(Data, start.si, k)
                      ELSE start.ax % 2^(8 * size)
        Ends(k) == Equal(k) # wanted /\ \A j \in 0 .. k - 1 : Equal(j) = wanted
        first == {k \in 0 .. elements - 1 : Ends(k)}
        passed == IF first = {} THEN elements ELSE 1 + CHOOSE k \in first : TRUE
    IN /\ cpu.cx = elements - passed
       /\ cpu.di = Moved(start.di, passed)
       /\ cpu.si = IF job = "cmps" THEN Moved(start.si, passed) ELSE start.si
       /\ elements > 0 => (cpu.f.z = 1) = (wanted = (first = {}))
       /\ elements = 0 => cpu.f = start.f
       /\ SameMemory(start, cpu, {})

\* A repeated string instruction is the block operation it stands for: copy,
\* fill, load, compare or search of CX elements, up or down, across the end of
\* a segment, onto itself, with a segment override on either side of the
\* repeat prefix, and with nothing to do (0xA4 to 0xAF in i8088_execute).
BlockOperations ==
    job \in StringJobs /\ Done =>
       /\ job = "movs" => CopyBlock
       /\ job = "stos" => FillBlock
       /\ job = "lods" => LoadBlock
       /\ job \in Searching => SearchBlock
-----------------------------------------------------------------------------
Before ==
    IF mode = 3 THEN Reg(8 * size, start, rm)
    ELSE Stored(start, AddressSegment, Address(start), size)

\* Only the registers of regs, the instruction pointer and the operand have
\* changed. With mode 3 the operand is a register.
Leaves(regs, value) ==
    LET expected == [regs EXCEPT !.ip = Word(@ + Len(OperandCode(job)))]
        operand == {Linear(AddressSegment, Address(start) + k) : k \in 0 .. size - 1}
    IN IF mode = 3 THEN Registers(cpu) = Registers(SetReg(8 * size, expected, rm, value))
       ELSE /\ Registers(cpu) = Registers(expected)
            /\ Stored(cpu, AddressSegment, Address(start), size) = value
            /\ SameMemory(start, cpu, operand)

\* LES and LDS load a register and a segment register.
LeavesPointer(seg) ==
    LET off == Address(start)
    IN Leaves([start EXCEPT ![REG16[reg + 1]] = Stored(start, AddressSegment, off, 2),
                            ![seg] = Stored(start, AddressSegment, off + 2, 2)], Before)

\* An instruction that reads and writes one operand uses the address that its
\* registers had before it, also when it changes one of them (XCHG BX,[BX],
\* LES BX,[BX], POP), and writes nothing but that operand: the address that
\* modrm_get_rm_16 stored is the one that modrm_set_rm_eaddr_16 writes to.
OperandsAreStable ==
    job \in OperandJobs /\ Done =>
       LET w == 8 * size
           register == Reg(w, start, reg)
           r == add(w, start.f, Before, register)
           flagged == [start EXCEPT !.f = r.f]
           summed == SetReg(w, flagged, reg, r.val)
       IN /\ job = "xchg" => Leaves(SetReg(w, start, reg, Before), register)
          /\ job = "mov" => Leaves(start, register)
          /\ job = "add_rm" => Leaves(flagged, r.val)
          /\ job = "add_reg" => Leaves(summed, IF mode = 3 THEN Reg(w, summed, rm) ELSE Before)
          /\ job = "pop" => Leaves([start EXCEPT !.sp = @ + 2], 34935)
          /\ job = "les" => LeavesPointer("es")
          /\ job = "lds" => LeavesPointer("ds")
=============================================================================
