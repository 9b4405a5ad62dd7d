------------------------------ MODULE I8088Alu ------------------------------
(***************************************************************************)
(* The arithmetic of the 8088 (i8088.c): what each instruction leaves in   *)
(* its operand and in the flags, as operators on unsigned numbers. The     *)
(* source has an 8-bit and a 16-bit copy of most of them; here the width w *)
(* is a parameter. An operator returns [val, f], the result and the flags. *)
(***************************************************************************)
EXTENDS Integers, Sequences

LOCAL INSTANCE FiniteSetsExt

Flags == [a : 0 .. 1, c : 0 .. 1, o : 0 .. 1, p : 0 .. 1, s : 0 .. 1, z : 0 .. 1]

\* Two to the power of n.
Pow2[n \in Nat] == IF n = 0 THEN 1 ELSE 2 * Pow2[n - 1]

Flag(b) == IF b THEN 1 ELSE 0
Bit(x, k) == (x \div Pow2[k]) % 2
Top(w, x) == Bit(x, w - 1)
Signed(w, x) == IF Top(w, x) = 1 THEN x - Pow2[w] ELSE x

\* Folded by exclusive or from eight bits to four, to two and to one.
parity_even(v) ==
    LET v4 == [k \in 0 .. 3 |-> (Bit(v, k) + Bit(v, k + 4)) % 2]
        v2 == [k \in 0 .. 1 |-> (v4[k] + v4[k + 2]) % 2]
    IN 1 - ((v2[0] + v2[1]) % 2)

\* The flags every result decides, and the result.
Result(w, r, f) ==
    [val |-> r, f |-> [f EXCEPT !.p = parity_even(r), !.s = Top(w, r), !.z = Flag(r = 0)]]

\* Overflow of an addition or a subtraction, from the three sign bits.
Overflow(w, x, y, r) ==
    Flag(Top(w, x) = Top(w, y) /\ Top(w, r) # Top(w, x))
-----------------------------------------------------------------------------
(* Addition, subtraction, comparison and logic.                            *)

\* Faulty: the carry is left out of the sum.
adc_without_carry(w, f, x, y) ==
    LET r == (x + y) % Pow2[w]
    IN Result(w, r, [f EXCEPT !.a = Bit((x % 16) + (y % 16), 4),
                              !.c = Bit(x + y, w),
                              !.o = Overflow(w, x, y, r)])

adc(w, f, x, y) ==
    LET sum == x + y + f.c
        r == sum % Pow2[w]
    IN Result(w, r, [f EXCEPT !.a = Bit((x % 16) + (y % 16) + f.c, 4),
                              !.c = Bit(sum, w),
                              !.o = Overflow(w, x, y, r)])

add(w, f, x, y) == adc(w, [f EXCEPT !.c = 0], x, y)

\* Faulty: overflow as for an addition.
sbb_adds_overflow(w, f, x, y) ==
    LET diff == x - y - f.c
        r == diff % Pow2[w]
    IN Result(w, r, [f EXCEPT !.a = Bit((x % 16) - (y % 16) - f.c, 4),
                              !.c = Bit(diff, w),
                              !.o = Overflow(w, x, y, r)])

\* The complement of y has y's sign bit reversed. \div rounds down, so bit 4
\* and bit w of a negative difference are those of its two's complement.
sbb(w, f, x, y) ==
    LET diff == x - y - f.c
        r == diff % Pow2[w]
    IN Result(w, r, [f EXCEPT !.a = Bit((x % 16) - (y % 16) - f.c, 4),
                              !.c = Bit(diff, w),
                              !.o = Overflow(w, x, Pow2[w] - 1 - y, r)])

\* SUB and CMP; CMP drops the result.
sub(w, f, x, y) == sbb(w, [f EXCEPT !.c = 0], x, y)

\* The word of the bits that x and y have in common. A bit of the sum x + y
\* counts twice where both have it and once where one has it.
Common(w, x, y) ==
    MapThenSumSet(LAMBDA k : Bit(x, k) * Bit(y, k) * Pow2[k], 0 .. w - 1)

and(w, f, x, y) ==
    LET r == Common(w, x, y)
    IN Result(w, r, [f EXCEPT !.c = 0, !.o = Overflow(w, x, y, r)])
or(w, f, x, y) == Result(w, x + y - Common(w, x, y), [f EXCEPT !.c = 0, !.o = 0])
xor(w, f, x, y) == Result(w, x + y - 2 * Common(w, x, y), [f EXCEPT !.c = 0, !.o = 0])

inc(w, f, x) ==
    LET r == (x + 1) % Pow2[w]
    IN Result(w, r, [f EXCEPT !.a = Flag(r % 16 = 0), !.o = Flag(x = Pow2[w - 1] - 1)])

\* The 8-bit form; the 16-bit one leaves no overflow.
dec(w, f, x) ==
    LET r == (x - 1) % Pow2[w]
    IN Result(w, r, [f EXCEPT !.a = Flag(x % 16 = 0),
                              !.o = Flag(Top(w, x) = 1 /\ Top(w, r) = 0)])

dec_wide(w, f, x) ==
    LET r == (x - 1) % Pow2[w]
    IN Result(w, r, [f EXCEPT !.a = Flag(x % 16 = 0), !.o = 0])
-----------------------------------------------------------------------------
\* The sixteen conditions of 0x70 to 0x7F, odd ones negated.
Condition(f, k) ==
    LET base == k \div 2
        holds == CASE base = 0 -> f.o = 1
                   [] base = 1 -> f.c = 1
                   [] base = 2 -> f.z = 1
                   [] base = 3 -> f.c = 1 \/ f.z = 1
                   [] base = 4 -> f.s = 1
                   [] base = 5 -> f.p = 1
                   [] base = 6 -> f.s # f.o
                   [] base = 7 -> f.z = 1 \/ f.s # f.o
    IN holds = (k % 2 = 0)
-----------------------------------------------------------------------------
(* Decimal adjustment of AL, and of AH for AAA and AAS.                    *)

DecimalAdjust(al, f, sign) ==
    LET low == al % 16 > 9 \/ f.a = 1
        high == al > (IF f.a = 1 THEN 159 ELSE 153) \/ f.c = 1
        r == (al + sign * ((IF low THEN 6 ELSE 0) + (IF high THEN 96 ELSE 0))) % 256
        g == [f EXCEPT !.a = IF low THEN 1 ELSE @, !.c = IF high THEN 1 ELSE @]
    IN IF sign = 1
       THEN Result(8, r, [g EXCEPT !.o = Flag(al < 128 /\ r >= 128)])
       ELSE Result(8, r, [g EXCEPT !.o = Flag(al >= 128 /\ r < 128)])

\* Faulty: only the low digit is adjusted.
daa_low_digit(al, f) ==
    LET low == al % 16 > 9 \/ f.a = 1
    IN Result(8, (IF low THEN al + 6 ELSE al) % 256, [f EXCEPT !.a = Flag(low)])

daa(al, f) == DecimalAdjust(al, f, 1)
das(al, f) == DecimalAdjust(al, f, -1)

\* The flags come from AL before its high digit is cut off.
AsciiAdjust(al, ah, f, sign) ==
    LET low == al % 16 > 9 \/ f.a = 1
        r == IF low THEN (al + sign * 6) % 256 ELSE al
        g == Result(8, r, [f EXCEPT !.a = Flag(low), !.c = Flag(low),
                !.o = IF sign = 1 THEN Flag(al < 128 /\ r >= 128)
                                  ELSE Flag(al >= 128 /\ r < 128)]).f
    IN [val |-> r % 16, ah |-> IF low THEN (ah + sign) % 256 ELSE ah, f |-> g]

aaa(al, ah, f) == AsciiAdjust(al, ah, f, 1)
aas(al, ah, f) == AsciiAdjust(al, ah, f, -1)
-----------------------------------------------------------------------------
(* Multiplication and division: a double-width number as [lo, hi].         *)

\* p, s and z come from the high half.
Product(w, f, v, c) ==
    LET hi == v \div Pow2[w]
    IN [lo |-> v % Pow2[w], hi |-> hi,
        f |-> [f EXCEPT !.c = c, !.o = c, !.p = parity_even(hi),
                        !.s = Top(w, hi), !.z = Flag(hi = 0)]]

mul(w, f, x, y) == Product(w, f, x * y, Flag(x * y >= Pow2[w]))

imul(w, f, x, y) ==
    LET v == Signed(w, x) * Signed(w, y)
        u == v % Pow2[2 * w]
    IN Product(w, f, u, Flag(v # Signed(w, u % Pow2[w])))

\* FALSE in ok is the divide error interrupt, which leaves the registers.
DivideError == [ok |-> FALSE, q |-> 0, r |-> 0]

div(w, dividend, y) ==
    IF y = 0 \/ dividend \div y > Pow2[w] - 1 THEN DivideError
    ELSE [ok |-> TRUE, q |-> dividend \div y, r |-> dividend % y]

\* C's / and % round towards zero.
Abs(v) == IF v < 0 THEN -v ELSE v
Quot(v, d) == IF (v < 0) = (d < 0) THEN Abs(v) \div Abs(d) ELSE -(Abs(v) \div Abs(d))

\* Faulty: the most negative quotient is let through.
idiv_to_minimum(w, dividend, y) ==
    LET v == Signed(2 * w, dividend)
        d == Signed(w, y)
        q == Quot(v, d)
    IN IF y = 0 \/ dividend = Pow2[2 * w - 1] \/ q > Pow2[w - 1] - 1 \/ q < -(Pow2[w - 1])
       THEN DivideError
       ELSE [ok |-> TRUE, q |-> q % Pow2[w], r |-> (v - q * d) % Pow2[w]]

idiv(w, dividend, y) ==
    LET v == Signed(2 * w, dividend)
        d == Signed(w, y)
        q == Quot(v, d)
    IN IF y = 0 \/ dividend = Pow2[2 * w - 1] \/ q > Pow2[w - 1] - 1 \/ q <= -(Pow2[w - 1])
       THEN DivideError
       ELSE [ok |-> TRUE, q |-> q % Pow2[w], r |-> (v - q * d) % Pow2[w]]
-----------------------------------------------------------------------------
(* Rotates and shifts: one step, count times; the overflow flag only for a *)
(* count of one. A count of zero changes nothing. A step works on the       *)
(* operand and the carry.                                                  *)

Pairs(w) == [x : 0 .. Pow2[w] - 1, c : 0 .. 1]

Repeated(step, v, count) ==
    LET at[k \in Nat] == IF k = 0 THEN v ELSE step[at[k - 1]]
    IN at[count]

\* One bit to the left, in at the bottom, the top bit out to carry.
Left(w, v, in) == [x |-> ((v.x * 2) % Pow2[w]) + in, c |-> Top(w, v.x)]
\* One bit to the right, in at the top, the bottom bit out to carry.
Right(w, v, in) == [x |-> v.x \div 2 + in * Pow2[w - 1], c |-> v.x % 2]

\* Rotates touch carry and overflow only.
Rotate(f, v, count, o) ==
    [val |-> v.x, f |-> IF count = 0 THEN f
                        ELSE IF count = 1 THEN [f EXCEPT !.c = v.c, !.o = o]
                        ELSE [f EXCEPT !.c = v.c]]

LeftOverflow(w, v) == Flag(Top(w, v.x) # v.c)
RightOverflow(w, v) == Flag(Top(w, v.x) # Bit(v.x, w - 2))

rcl(w, f, x, count) ==
    LET v == Repeated([u \in Pairs(w) |-> Left(w, u, u.c)], [x |-> x, c |-> f.c], count)
    IN Rotate(f, v, count, LeftOverflow(w, v))
\* Faulty: the bit that leaves comes in at once.
rcr_without_carry(w, f, x, count) ==
    LET v == Repeated([u \in Pairs(w) |-> Right(w, u, u.x % 2)], [x |-> x, c |-> f.c], count)
    IN Rotate(f, v, count, RightOverflow(w, v))

rcr(w, f, x, count) ==
    LET v == Repeated([u \in Pairs(w) |-> Right(w, u, u.c)], [x |-> x, c |-> f.c], count)
    IN Rotate(f, v, count, RightOverflow(w, v))
rol(w, f, x, count) ==
    LET v == Repeated([u \in Pairs(w) |-> Left(w, u, Top(w, u.x))], [x |-> x, c |-> f.c], count)
    IN Rotate(f, v, count, LeftOverflow(w, v))
ror(w, f, x, count) ==
    LET v == Repeated([u \in Pairs(w) |-> Right(w, u, u.x % 2)], [x |-> x, c |-> f.c], count)
    IN Rotate(f, v, count, RightOverflow(w, v))

\* Shifts also set the flags of their result.
Shift(w, f, v, count, o) ==
    LET g == Rotate(f, v, count, o).f
    IN IF count = 0 THEN [val |-> v.x, f |-> f] ELSE Result(w, v.x, g)

shl(w, f, x, count) ==
    LET v == Repeated([u \in Pairs(w) |-> Left(w, u, 0)], [x |-> x, c |-> f.c], count)
    IN Shift(w, f, v, count, LeftOverflow(w, v))
shr(w, f, x, count) ==
    LET v == Repeated([u \in Pairs(w) |-> Right(w, u, 0)], [x |-> x, c |-> f.c], count)
    IN Shift(w, f, v, count, Top(w, x))
sar(w, f, x, count) ==
    LET v == Repeated([u \in Pairs(w) |-> Right(w, u, Top(w, x))], [x |-> x, c |-> f.c], count)
    IN Shift(w, f, v, count, 0)
=============================================================================
