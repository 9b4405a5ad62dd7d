--------------------------- MODULE I8088Arithmetic ---------------------------
(***************************************************************************)
(* What the arithmetic of I8088Alu is for. An input is two operands of W   *)
(* bits, a carry and an auxiliary carry; a step goes to another input. The *)
(* properties compare the instructions on the input with the numbers that  *)
(* the operands stand for. They speak of inputs on which the processor     *)
(* runs no job: what a job is, is up to the module that has a processor.   *)
(***************************************************************************)
EXTENDS I8088Alu, FiniteSets

CONSTANTS
    W,          \* bits of an operand; even
    Operands    \* the operands to try

ASSUME AluAssumption ==
    /\ W \in Nat /\ W >= 4 /\ W % 2 = 0
    /\ Operands \subseteq 0 .. Pow2[W] - 1 /\ 0 \in Operands

VARIABLES
    x, y, c, a,     \* the input
    job             \* what the processor runs, or "none"

input == <<x, y, c, a>>

f == [a |-> a, c |-> c, o |-> 0, p |-> 0, s |-> 0, z |-> 0]

InputTypeOK == x \in Operands /\ y \in Operands /\ c \in 0 .. 1 /\ a \in 0 .. 1

InputInit == x = 0 /\ y = 0 /\ c = 0 /\ a = 0

\* The next operand, or the first one again.
After(v) ==
    IF \E u \in Operands : u > v
    THEN CHOOSE u \in Operands : u > v /\ \A t \in Operands : t > v => u <= t
    ELSE 0

NextInput ==
    \/ x' = After(x) /\ UNCHANGED <<y, c, a>>
    \/ y' = After(y) /\ UNCHANGED <<x, c, a>>
    \/ c' = 1 - c /\ UNCHANGED <<x, y, a>>
    \/ a' = 1 - a /\ UNCHANGED <<x, y, c>>

InputSpec == InputInit /\ [][NextInput]_input
-----------------------------------------------------------------------------
\* After CMP every conditional jump (0x70 to 0x7F) goes where its name says:
\* overflow, below, equal, below or equal, sign, parity, less, less or equal,
\* each followed by its opposite (i8088_cmp_8, i8088_cmp_16). Parity is that
\* of the low byte.
ConditionsDecide ==
    LET g == sub(W, f, x, y).f
        diff == Signed(W, x) - Signed(W, y)
        r == (x - y) % Pow2[W]
        Ones == {k \in 0 .. 7 : Bit(r, k) = 1}
        relation == << diff \notin -(Pow2[W - 1]) .. Pow2[W - 1] - 1, x < y, x = y, x <= y,
                       r >= Pow2[W - 1], Cardinality(Ones) % 2 = 0, diff < 0, diff <= 0 >>
    IN job = "none" =>
       \A k \in 1 .. 8 : /\ Condition(g, 2 * k - 2) = relation[k]
                         /\ Condition(g, 2 * k - 1) # relation[k]

\* What remains of a result, and of the results of its two halves, where the
\* lower one is below m.
Whole(r) == [val |-> r.val, c |-> r.f.c, o |-> r.f.o, s |-> r.f.s]
Joined(m, low, high) ==
    [val |-> high.val * m + low.val, c |-> high.f.c, o |-> high.f.o, s |-> high.f.s]

\* Arithmetic on long numbers: ADD of the low halves and ADC of the high ones
\* gives the sum and the carry, sign and overflow of one addition of double
\* width; likewise SUB and SBB.
HalvesChain ==
    LET h == W \div 2
        m == Pow2[h]
        Add(low) == Joined(m, low, adc(h, low.f, x \div m, y \div m))
        Sub(low) == Joined(m, low, sbb(h, low.f, x \div m, y \div m))
    IN job = "none" =>
       /\ Add(add(h, f, x % m, y % m)) = Whole(add(W, f, x, y))
       /\ Add(adc(h, f, x % m, y % m)) = Whole(adc(W, f, x, y))
       /\ Sub(sub(h, f, x % m, y % m)) = Whole(sub(W, f, x, y))
       /\ Sub(sbb(h, f, x % m, y % m)) = Whole(sbb(W, f, x, y))

\* Division of [y, low] by x leaves a remainder smaller than the divisor and
\* with the sign of the dividend, reports a divide error exactly when the
\* quotient does not fit (IDIV: nor when it is the most negative number), and
\* undoes multiplication. The flags play no part.
DivisionIsExact ==
    c = 0 /\ a = 0 => \A low \in 0 .. Pow2[W] - 1 :
       LET v == y * Pow2[W] + low
           u == div(W, v, x)
           i == idiv(W, v, x)
           q == Signed(W, i.q)
           r == Signed(W, i.r)
           sv == Signed(2 * W, v)
           sx == Signed(W, x)
           p == mul(W, f, x, low)
       IN /\ u.ok => u.q * x + u.r = v /\ u.r < x
          /\ ~u.ok <=> x = 0 \/ v >= x * Pow2[W]
          /\ i.ok => /\ q * sx + r = sv /\ Abs(r) < Abs(sx)
                     /\ r # 0 => (r < 0) = (sv < 0)
          /\ ~i.ok <=> x = 0 \/ Abs(sv) >= Abs(sx) * Pow2[W - 1]
          /\ x # 0 => div(W, (p.hi * Pow2[W]) + p.lo, x) = [ok |-> TRUE, q |-> low, r |-> 0]

\* IMUL is signed multiplication, and carry tells that the high half is needed.
SignedProduct ==
    LET p == imul(W, f, x, y)
        v == Signed(W, x) * Signed(W, y)
    IN /\ Signed(2 * W, p.hi * Pow2[W] + p.lo) = v
       /\ (p.f.c = 0) = (v \in -(Pow2[W - 1]) .. Pow2[W - 1] - 1)

\* MUL, IMUL, DIV and IDIV are exact and report what does not fit.
MultiplyAndDivide == job = "none" => DivisionIsExact /\ SignedProduct

\* Shift counts up to past twice the width.
count == y % (2 * W + 2)

\* Shifts multiply and divide by powers of two, and carry is the last bit that
\* left, for counts past the width too.
ShiftsScale ==
    LET l == shl(W, f, x, count)
        r == shr(W, f, x, count)
        s == sar(W, f, x, count)
    IN /\ l.val = (x * Pow2[count]) % Pow2[W]
       /\ r.val = x \div Pow2[count]
       /\ Signed(W, s.val) = Signed(W, x) \div Pow2[count]
       /\ count > 0 => /\ l.f.c = IF count <= W THEN Bit(x, W - count) ELSE 0
                       /\ r.f.c = Bit(x, count - 1)
                       /\ s.f.c = IF count <= W THEN Bit(x, count - 1) ELSE Top(W, x)

\* A rotate to the right undoes the same rotate to the left; the rotates
\* through carry have period W + 1, the others period W.
RotatesUndo ==
    LET l == rcl(W, f, x, count)
        r == rcr(W, l.f, l.val, count)
        k == count % W
    IN /\ r.val = x /\ r.f.c = c
       /\ ror(W, f, rol(W, f, x, count).val, count).val = x
       /\ l.val = rcl(W, f, x, count + W + 1).val
       /\ rol(W, f, x, count).val = ((x * Pow2[k]) % Pow2[W]) + (x \div Pow2[W - k])

\* Shifts scale and rotates undo each other, for every count.
ShiftsAndRotates == job = "none" => ShiftsScale /\ RotatesUndo
=============================================================================
