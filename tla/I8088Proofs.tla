--------------------------------- MODULE I8088Proofs --------------------------
(***************************************************************************)
(* Proofs about the 8088: first about the arithmetic of I8088Alu, for      *)
(* every even width of the operands from four bits on, bytes and words     *)
(* among them, and for every operand; then about the processor of I8088,   *)
(* for every state of its registers, flags and memory: that an interrupt   *)
(* and its IRET, and a handler between two instructions of a program,      *)
(* leave the program what it was; and about decimal numbers, on which the  *)
(* adjustment instructions work.                                           *)
(***************************************************************************)
EXTENDS MCI8088, FiniteSetTheorems, WellFoundedInduction, TLAPS

-----------------------------------------------------------------------------
(* Recursion.                                                              *)

\* A set of numbers has a least one.
LEMMA LeastNumber ==
    ASSUME NEW T \in SUBSET Nat, T # {}
    PROVE  \E u \in T : \A v \in T : u <= v
<1> DEFINE R == {ss \in Nat \X Nat : ss[1] < ss[2]}
<1>1. IsWellFoundedOn(R, Nat)
  BY NatLessThanWellFounded DEF OpToRel
<1> HIDE DEF R
<1>2. PICK u \in T : \A v \in T : ~(<<v, u>> \in R)
  BY <1>1, WFMin
<1>3. \A v \in T : ~(v < u)
  BY <1>2 DEF R
<1>4. QED
  BY <1>2, <1>3

\* Induction over the numbers, for a property given by its set.
LEMMA CountUp ==
    ASSUME NEW T, 0 \in T, \A k \in Nat : k \in T => k + 1 \in T
    PROVE  Nat \subseteq T
<1> SUFFICES ASSUME Nat \ T # {} PROVE FALSE
  OBVIOUS
<1>1. PICK u \in Nat \ T : \A v \in Nat \ T : u <= v
  <2>1. Nat \ T \in SUBSET Nat
    OBVIOUS
  <2>2. QED
    BY <2>1, LeastNumber
<1>2. u \in Nat /\ u # 0
  BY <1>1
<1>3. u - 1 \in Nat /\ ~(u <= u - 1)
  BY <1>2
<1>4. u - 1 \in T
  BY <1>1, <1>3
<1>5. (u - 1) + 1 \in T
  BY <1>3, <1>4
<1>6. (u - 1) + 1 = u
  BY <1>2
<1>7. QED
  BY <1>1, <1>5, <1>6

\* The iterates of a step function.
Iterated(g, S, step, v) ==
    g \in [Nat -> S] /\ g[0] = v /\ \A n \in Nat : g[n + 1] = step[g[n]]

\* Every step function has them: for each length there is one row of
\* them, and the rows agree.
LEMMA Iterates ==
    ASSUME NEW S, NEW step \in [S -> S], NEW v \in S
    PROVE  \E g : Iterated(g, S, step, v)
<1> DEFINE Row(r, m) == /\ r \in [0 .. m -> S] /\ r[0] = v
                        /\ \A k \in 0 .. m - 1 : r[k + 1] = step[r[k]]
<1>1. \A m \in Nat : \E r : Row(r, m)
  <2> DEFINE T == {m \in Nat : \E r : Row(r, m)}
  <2>1. 0 \in T
    <3>1. Row([k \in 0 .. 0 |-> v], 0)
      OBVIOUS
    <3>2. QED
      BY <3>1
  <2>2. ASSUME NEW m \in Nat, m \in T PROVE m + 1 \in T
    <3>1. PICK r : Row(r, m)
      BY <2>2
    <3> DEFINE e == [k \in 0 .. m + 1 |-> IF k = m + 1 THEN step[r[m]] ELSE r[k]]
    <3>2. m \in 0 .. m /\ r[m] \in S
      BY <3>1
    <3>3. e \in [0 .. m + 1 -> S]
      BY <3>1, <3>2
    <3>4. e[0] = v
      BY <3>1
    <3>5. ASSUME NEW k \in 0 .. (m + 1) - 1 PROVE e[k + 1] = step[e[k]]
      <4>1. k \in 0 .. m + 1 /\ k + 1 \in 0 .. m + 1 /\ k # m + 1 /\ k \in 0 .. m
        BY <3>5
      <4>2. e[k] = r[k]
        BY <4>1
      <4>3. CASE k = m
        BY <4>1, <4>2, <4>3
      <4>4. CASE k # m
        <5>1. k \in 0 .. m - 1 /\ k + 1 # m + 1
          BY <4>1, <4>4
        <5>2. QED
          BY <3>1, <4>1, <4>2, <5>1
      <4>5. QED
        BY <4>3, <4>4
    <3>6. Row(e, m + 1)
      BY <3>3, <3>4, <3>5
    <3>7. QED
      BY <3>6
  <2> HIDE DEF T
  <2>3. Nat \subseteq T
    BY <2>1, <2>2, CountUp
  <2>4. QED
    BY <2>3 DEF T
<1>2. ASSUME NEW m \in Nat, NEW r, Row(r, m), NEW e, Row(e, m + 1)
      PROVE  r[m] = e[m]
  <2> DEFINE T == {k \in Nat : k <= m => r[k] = e[k]}
  <2>1. 0 \in T
    BY <1>2
  <2>2. ASSUME NEW k \in Nat, k \in T PROVE k + 1 \in T
    <3> SUFFICES ASSUME k + 1 <= m PROVE r[k + 1] = e[k + 1]
      BY <2>2
    <3>1. k \in 0 .. m - 1 /\ k \in 0 .. (m + 1) - 1 /\ k <= m
      BY <2>2
    <3>2. QED
      BY <1>2, <2>2, <3>1
  <2> HIDE DEF T
  <2>3. m \in T
    BY <2>1, <2>2, CountUp
  <2>4. QED
    BY <2>3 DEF T
<1> DEFINE row(m) == CHOOSE r : Row(r, m)
           g == [n \in Nat |-> row(n)[n]]
<1>3. \A m \in Nat : Row(row(m), m)
  BY <1>1
<1> HIDE DEF row
<1>4. g \in [Nat -> S]
  BY <1>3
<1>5. g[0] = v
  BY <1>3
<1>6. ASSUME NEW n \in Nat PROVE g[n + 1] = step[g[n]]
  <2>1. n + 1 \in Nat /\ n \in 0 .. (n + 1) - 1
    BY <1>6
  <2>2. Row(row(n), n) /\ Row(row(n + 1), n + 1)
    BY <1>3, <2>1
  <2>3. row(n)[n] = row(n + 1)[n]
    BY <1>2, <2>2
  <2>4. row(n + 1)[n + 1] = step[row(n + 1)[n]]
    BY <2>1, <2>2
  <2>5. QED
    BY <2>1, <2>3, <2>4
<1>7. Iterated(g, S, step, v)
  BY <1>4, <1>5, <1>6 DEF Iterated
<1>8. QED
  BY <1>7

\* The powers of two are what their recursion says.
LEMMA Powers ==
    /\ Pow2[0] = 1
    /\ \A n \in Nat : Pow2[n] \in Nat /\ Pow2[n] > 0 /\ Pow2[n + 1] = 2 * Pow2[n]
<1> DEFINE double == [n \in Nat |-> 2 * n]
           e(g) == [n \in Nat |-> IF n = 0 THEN 1 ELSE 2 * g[n - 1]]
<1>1. PICK g : Iterated(g, Nat, double, 1)
  <2>1. double \in [Nat -> Nat] /\ 1 \in Nat
    OBVIOUS
  <2> HIDE DEF double
  <2>2. QED
    BY <2>1, Iterates
<1>2. g = e(g)
  <2> USE <1>1 DEF Iterated
  <2>1. ASSUME NEW n \in Nat PROVE g[n] = IF n = 0 THEN 1 ELSE 2 * g[n - 1]
    <3>1. CASE n = 0
      BY <1>1, <3>1
    <3>2. CASE n # 0
      <4>1. n - 1 \in Nat /\ (n - 1) + 1 = n
        BY <3>2
      <4>2. g[(n - 1) + 1] = double[g[n - 1]] /\ g[n - 1] \in Nat
        BY <1>1, <4>1
      <4>3. QED
        BY <3>2, <4>1, <4>2
    <3>3. QED
      BY <3>1, <3>2
  <2>2. QED
    BY <1>1, <2>1
<1>3. Pow2 = e(Pow2)
  BY <1>2 DEF Pow2
<1> HIDE DEF double
<1>4. \A n \in Nat : Pow2[n] = IF n = 0 THEN 1 ELSE 2 * Pow2[n - 1]
  BY <1>3
<1>5. Pow2[0] = 1
  BY <1>4
<1>6. \A n \in Nat : Pow2[n + 1] = 2 * Pow2[n]
  <2> TAKE n \in Nat
  <2>1. n + 1 \in Nat /\ n + 1 # 0 /\ (n + 1) - 1 = n
    OBVIOUS
  <2>2. QED
    BY <1>4, <2>1
<1> DEFINE T == {n \in Nat : Pow2[n] \in Nat /\ Pow2[n] > 0}
<1>7. Nat \subseteq T
  <2>1. 0 \in T
    BY <1>5
  <2>2. ASSUME NEW n \in Nat, n \in T PROVE n + 1 \in T
    BY <1>6, <2>2
  <2> HIDE DEF T
  <2>3. QED
    BY <2>1, <2>2, CountUp
<1>8. QED
  BY <1>5, <1>6, <1>7

\* Steps are repeated one after the other.
LEMMA RepeatedSteps ==
    ASSUME NEW S, NEW step \in [S -> S], NEW v \in S
    PROVE  /\ Repeated(step, v, 0) = v
           /\ \A n \in Nat : /\ Repeated(step, v, n) \in S
                             /\ Repeated(step, v, n + 1) = step[Repeated(step, v, n)]
<1> DEFINE e(g) == [k \in Nat |-> IF k = 0 THEN v ELSE step[g[k - 1]]]
           at == CHOOSE h : h = e(h)
<1>1. PICK g : Iterated(g, S, step, v)
  BY Iterates
<1>2. g = e(g)
  <2> USE <1>1 DEF Iterated
  <2>1. ASSUME NEW n \in Nat PROVE g[n] = IF n = 0 THEN v ELSE step[g[n - 1]]
    <3>1. CASE n = 0
      BY <1>1, <3>1
    <3>2. CASE n # 0
      <4>1. n - 1 \in Nat /\ (n - 1) + 1 = n
        BY <3>2
      <4>2. g[(n - 1) + 1] = step[g[n - 1]]
        BY <1>1, <4>1
      <4>3. QED
        BY <3>2, <4>1, <4>2
    <3>3. QED
      BY <3>1, <3>2
  <2>2. QED
    BY <1>1, <2>1
<1>3. at = e(at)
  BY <1>2
<1>4. \A n : Repeated(step, v, n) = at[n]
  BY DEF Repeated
<1> HIDE DEF at
<1>5. \A n \in Nat : at[n] = IF n = 0 THEN v ELSE step[at[n - 1]]
  BY <1>3
<1>6. at[0] = v
  BY <1>5
<1>7. \A n \in Nat : at[n + 1] = step[at[n]]
  <2> TAKE n \in Nat
  <2>1. n + 1 \in Nat /\ n + 1 # 0 /\ (n + 1) - 1 = n
    OBVIOUS
  <2>2. QED
    BY <1>5, <2>1
<1> DEFINE T == {n \in Nat : at[n] \in S}
<1>8. Nat \subseteq T
  <2>1. 0 \in T
    BY <1>6
  <2>2. ASSUME NEW n \in Nat, n \in T PROVE n + 1 \in T
    BY <1>7, <2>2
  <2> HIDE DEF T
  <2>3. QED
    BY <2>1, <2>2, CountUp
<1>9. QED
  BY <1>4, <1>6, <1>7, <1>8
-----------------------------------------------------------------------------
(* Numbers.                                                                *)

\* Multiplication keeps the order.
LEMMA Monotone ==
    ASSUME NEW d \in Nat, NEW p \in Int, NEW q \in Int, p <= q
    PROVE  p * d <= q * d
<1>1. (q - p) * d \in Nat
  OBVIOUS
<1>2. (q - p) * d = q * d - p * d
  OBVIOUS
<1>3. QED
  BY <1>1, <1>2

\* A quotient and a remainder are determined by the number that they make.
LEMMA Division ==
    ASSUME NEW d \in Nat \ {0}, NEW q \in Int, NEW r \in 0 .. d - 1
    PROVE  (q * d + r) \div d = q /\ (q * d + r) % d = r
<1> DEFINE v == q * d + r
           p == v \div d
           s == v % d
<1>1. v \in Int
  OBVIOUS
<1> HIDE DEF v
<1>2. p \in Int /\ s \in 0 .. d - 1 /\ v = d * p + s
  BY <1>1
<1> HIDE DEF p, s
<1>3. d * p = p * d /\ p * d \in Int /\ q * d \in Int
  BY <1>2
<1>4. ~(p + 1 <= q)
  <2> SUFFICES ASSUME p + 1 <= q PROVE FALSE
    OBVIOUS
  <2>1. (p + 1) * d <= q * d
    BY <1>2, Monotone
  <2>2. (p + 1) * d = p * d + d
    BY <1>2
  <2>3. QED
    BY <1>2, <1>3, <2>1, <2>2 DEF v
<1>5. ~(q + 1 <= p)
  <2> SUFFICES ASSUME q + 1 <= p PROVE FALSE
    OBVIOUS
  <2>1. (q + 1) * d <= p * d
    BY <1>2, Monotone
  <2>2. (q + 1) * d = q * d + d
    OBVIOUS
  <2>3. QED
    BY <1>2, <1>3, <2>1, <2>2 DEF v
<1>6. p = q
  BY <1>2, <1>4, <1>5
<1>7. s = r
  BY <1>2, <1>3, <1>6 DEF v
<1>8. QED
  BY <1>6, <1>7 DEF p, s, v

\* Every number has them.
LEMMA Divided ==
    ASSUME NEW d \in Nat \ {0}, NEW v \in Int
    PROVE  v \div d \in Int /\ v % d \in 0 .. d - 1 /\ v = (v \div d) * d + (v % d)
<1> DEFINE p == v \div d
           s == v % d
<1>1. p \in Int /\ s \in 0 .. d - 1 /\ v = d * p + s
  OBVIOUS
<1> HIDE DEF p, s
<1>2. d * p = p * d
  BY <1>1
<1>3. QED
  BY <1>1, <1>2 DEF p, s

\* Powers of two multiply by adding their exponents.
LEMMA PowerOfSum ==
    ASSUME NEW m \in Nat, NEW n \in Nat
    PROVE  Pow2[m + n] = Pow2[m] * Pow2[n]
<1> DEFINE T == {k \in Nat : Pow2[m + k] = Pow2[m] * Pow2[k]}
<1>1. 0 \in T
  BY Powers
<1>2. ASSUME NEW k \in Nat, k \in T PROVE k + 1 \in T
  <2>1. m + (k + 1) = (m + k) + 1 /\ m + k \in Nat
    OBVIOUS
  <2>2. Pow2[(m + k) + 1] = 2 * Pow2[m + k] /\ Pow2[k + 1] = 2 * Pow2[k]
    BY <2>1, Powers
  <2>3. Pow2[m] \in Nat /\ Pow2[k] \in Nat
    BY Powers
  <2>4. 2 * (Pow2[m] * Pow2[k]) = Pow2[m] * (2 * Pow2[k])
    BY <2>3
  <2>5. QED
    BY <1>2, <2>1, <2>2, <2>4
<1> HIDE DEF T
<1>3. n \in T
  BY <1>1, <1>2, CountUp
<1>4. QED
  BY <1>3 DEF T

\* A word of w bits has an upper and a lower half.
LEMMA Halves ==
    ASSUME NEW w \in Nat, w > 0
    PROVE  /\ Pow2[w - 1] \in Nat /\ Pow2[w - 1] > 0
           /\ Pow2[w] \in Nat /\ Pow2[w] = 2 * Pow2[w - 1]
<1>1. w - 1 \in Nat /\ (w - 1) + 1 = w
  OBVIOUS
<1>2. QED
  BY <1>1, Powers

\* Bits are bits, and the bits of the result of a flag function are too.
LEMMA BitValue ==
    ASSUME NEW v \in Int, NEW n \in Nat
    PROVE  Bit(v, n) \in 0 .. 1
<1>1. Pow2[n] \in Nat \ {0}
  BY Powers
<1>2. v \div Pow2[n] \in Int
  BY <1>1, Divided
<1>3. QED
  BY <1>2 DEF Bit

\* The top bit says in which half a word lies, which is its sign.
LEMMA TopTells ==
    ASSUME NEW w \in Nat, w > 0, NEW v \in 0 .. Pow2[w] - 1
    PROVE  /\ Top(w, v) = Flag(v >= Pow2[w - 1])
           /\ Signed(w, v) = IF v >= Pow2[w - 1] THEN v - Pow2[w] ELSE v
           /\ Signed(w, v) \in -Pow2[w - 1] .. Pow2[w - 1] - 1
           /\ Top(w, v) = Flag(Signed(w, v) < 0)
<1> DEFINE H == Pow2[w - 1]
<1>1. H \in Nat \ {0} /\ Pow2[w] = 2 * H /\ v \in Nat
  BY Halves
<1> HIDE DEF H
<1>2. CASE v >= H
  <2>1. v - H \in 0 .. H - 1 /\ 1 * H + (v - H) = v
    BY <1>1, <1>2
  <2>2. v \div H = 1
    BY <1>1, <2>1, Division
  <2>3. Top(w, v) = 1
    BY <2>2 DEF Top, Bit, H
  <2>4. QED
    BY <1>1, <1>2, <2>3 DEF Signed, Flag, H
<1>3. CASE ~(v >= H)
  <2>1. v \in 0 .. H - 1 /\ 0 * H + v = v
    BY <1>1, <1>3
  <2>2. v \div H = 0
    BY <1>1, <2>1, Division
  <2>3. Top(w, v) = 0
    BY <2>2 DEF Top, Bit, H
  <2>4. QED
    BY <1>1, <1>3, <2>3 DEF Signed, Flag, H
<1>4. QED
  BY <1>2, <1>3

\* A number that overshoots a word by less than a word, upwards or downwards.
LEMMA Wrapped ==
    ASSUME NEW w \in Nat, NEW v \in -Pow2[w] .. 2 * Pow2[w] - 1
    PROVE  /\ v < 0 => v % Pow2[w] = v + Pow2[w] /\ Bit(v, w) = 1
           /\ v >= 0 /\ v < Pow2[w] => v % Pow2[w] = v /\ Bit(v, w) = 0
           /\ v >= Pow2[w] => v % Pow2[w] = v - Pow2[w] /\ Bit(v, w) = 1
           /\ v % Pow2[w] \in 0 .. Pow2[w] - 1
<1> DEFINE M == Pow2[w]
           s == v % M
           b == Bit(v, w)
<1>1. M \in Nat \ {0} /\ v \in Int /\ v >= -M /\ v < 2 * M
  BY Powers
<1> HIDE DEF M
<1> HIDE DEF s, b
<1> SUFFICES /\ v < 0 => s = v + M /\ b = 1
             /\ v >= 0 /\ v < M => s = v /\ b = 0
             /\ v >= M => s = v - M /\ b = 1
             /\ s \in 0 .. M - 1
  BY DEF s, b, M
<1>2. CASE v < 0
  <2>1. v + M \in 0 .. M - 1 /\ (-1) * M + (v + M) = v
    BY <1>1, <1>2
  <2>2. v \div M = -1 /\ s = v + M
    <3>1. /\ ((-1) * M + (v + M)) \div M = -1
          /\ ((-1) * M + (v + M)) % M = v + M
      BY <1>1, <2>1, Division, SMTT(30)
    <3>2. QED
      BY <2>1, <3>1 DEF s
  <2>3. b = 1
    BY <2>2 DEF b, Bit, M
  <2>4. QED
    BY <1>1, <1>2, <2>1, <2>2, <2>3
<1>3. CASE v \in 0 .. M - 1
  <2>1. 0 * M + v = v
    BY <1>1
  <2>2. v \div M = 0 /\ s = v
    BY <1>1, <1>3, <2>1, Division DEF s
  <2>3. b = 0
    BY <2>2 DEF b, Bit, M
  <2>4. QED
    BY <1>1, <1>3, <2>2, <2>3
<1>4. CASE v >= M
  <2>1. v - M \in 0 .. M - 1 /\ 1 * M + (v - M) = v
    BY <1>1, <1>4
  <2>2. v \div M = 1 /\ s = v - M
    <3>1. (1 * M + (v - M)) \div M = 1 /\ (1 * M + (v - M)) % M = v - M
      BY <1>1, <2>1, Division
    <3>2. QED
      BY <2>1, <3>1 DEF s
  <2>3. b = 1
    BY <2>2 DEF b, Bit, M
  <2>4. QED
    BY <1>1, <1>4, <2>1, <2>2, <2>3
<1>5. QED
  BY <1>1, <1>2, <1>3, <1>4
-----------------------------------------------------------------------------
(* Addition and subtraction.                                               *)

\* Parity is a bit.
LEMMA ParityValue ==
    ASSUME NEW v \in Int
    PROVE  parity_even(v) \in 0 .. 1
<1> DEFINE v4 == [k \in 0 .. 3 |-> (Bit(v, k) + Bit(v, k + 4)) % 2]
           v2 == [k \in 0 .. 1 |-> (v4[k] + v4[k + 2]) % 2]
<1>1. \A k \in 0 .. 7 : Bit(v, k) \in 0 .. 1
  BY BitValue
<1>2. \A k \in 0 .. 3 : v4[k] \in 0 .. 1
  <2> TAKE k \in 0 .. 3
  <2>1. k \in 0 .. 7 /\ k + 4 \in 0 .. 7
    OBVIOUS
  <2>2. Bit(v, k) \in 0 .. 1 /\ Bit(v, k + 4) \in 0 .. 1
    BY <1>1, <2>1
  <2>3. QED
    BY <2>2
<1>3. parity_even(v) = 1 - ((v2[0] + v2[1]) % 2)
  BY DEF parity_even
<1> HIDE DEF v4
<1>4. \A k \in 0 .. 1 : v2[k] \in 0 .. 1
  <2> TAKE k \in 0 .. 1
  <2>1. v4[k] \in 0 .. 1 /\ v4[k + 2] \in 0 .. 1
    BY <1>2
  <2>2. QED
    BY <2>1
<1> HIDE DEF v2
<1>5. v2[0] \in 0 .. 1 /\ v2[1] \in 0 .. 1
  BY <1>4
<1>6. QED
  BY <1>3, <1>5

\* What a result says of itself.
LEMMA ResultFlags ==
    ASSUME NEW w \in Nat, w > 0, NEW r \in 0 .. Pow2[w] - 1, NEW g \in Flags
    PROVE  /\ Result(w, r, g).val = r
           /\ Result(w, r, g).f \in Flags
           /\ Result(w, r, g).f.c = g.c /\ Result(w, r, g).f.o = g.o
           /\ Result(w, r, g).f.p = parity_even(r)
           /\ Result(w, r, g).f.s = Top(w, r) /\ Result(w, r, g).f.z = Flag(r = 0)
<1>1. Pow2[w] \in Nat
  BY Powers
<1>2. parity_even(r) \in 0 .. 1
  BY <1>1, ParityValue
<1>3. Top(w, r) \in 0 .. 1 /\ Flag(r = 0) \in 0 .. 1
  BY TopTells DEF Flag
<1>4. QED
  BY <1>2, <1>3 DEF Result, Flags

\* The difference of two words with a borrow is the result, less the borrow
\* that it leaves.
LEMMA Subtracts ==
    ASSUME NEW w \in Nat, w > 0, NEW g \in Flags,
           NEW u \in 0 .. Pow2[w] - 1, NEW v \in 0 .. Pow2[w] - 1,
           NEW r, r = sbb(w, g, u, v)
    PROVE  /\ r.val \in 0 .. Pow2[w] - 1 /\ r.f \in Flags
           /\ u - v - g.c = r.val - r.f.c * Pow2[w]
           /\ r.f.s = Top(w, r.val) /\ r.f.z = Flag(r.val = 0) /\ r.f.p = parity_even(r.val)
           /\ r.f.o = Flag(Top(w, u) # Top(w, v) /\ Top(w, r.val) # Top(w, u))
<1> DEFINE M == Pow2[w]
           d == u - v - g.c
           e == d % M
           b == Bit(d, w)
           h == Bit((u % 16) - (v % 16) - g.c, 4)
           o == Overflow(w, u, M - 1 - v, e)
           k == [g EXCEPT !.a = h, !.c = b, !.o = o]
<1>1. M \in Nat /\ M > 0 /\ M = 2 * Pow2[w - 1] /\ Pow2[w - 1] \in Nat
  BY Halves
<1>2. g.c \in 0 .. 1 /\ u \in Int /\ v \in Int
  BY <1>1 DEF Flags
<1>3. d \in -M .. M - 1 /\ d \in Int
  BY <1>1, <1>2
<1>4. r = Result(w, e, k)
  BY DEF sbb
<1> HIDE DEF d
<1>5. d = e - b * M /\ b \in 0 .. 1 /\ e \in 0 .. M - 1
  <2>1. d \in -Pow2[w] .. 2 * Pow2[w] - 1
    BY <1>1, <1>3
  <2>2. /\ d < 0 => e = d + M /\ b = 1
        /\ d >= 0 /\ d < M => e = d /\ b = 0
        /\ e \in 0 .. M - 1
    BY <2>1, Wrapped
  <2> HIDE DEF e, b, M
  <2>3. CASE d < 0
    BY <1>1, <1>3, <2>2, <2>3
  <2>4. CASE ~(d < 0)
    BY <1>1, <1>3, <2>2, <2>4
  <2>5. QED
    BY <2>3, <2>4
<1>6. h \in 0 .. 1
  <2>1. u % 16 \in Int /\ v % 16 \in Int
    BY <1>2
  <2>2. QED
    BY <1>2, <2>1, BitValue
<1>7. o = Flag(Top(w, u) # Top(w, v) /\ Top(w, e) # Top(w, u))
  <2>1. M - 1 - v \in 0 .. M - 1
    BY <1>1
  <2>2. (Top(w, u) = Top(w, M - 1 - v)) <=> (Top(w, u) # Top(w, v))
    <3>1. /\ Top(w, M - 1 - v) = Flag(M - 1 - v >= Pow2[w - 1])
          /\ Top(w, v) = Flag(v >= Pow2[w - 1])
          /\ Top(w, u) = Flag(u >= Pow2[w - 1])
      BY <2>1, TopTells
    <3>2. M - 1 - v >= Pow2[w - 1] <=> ~(v >= Pow2[w - 1])
      BY <1>1, <1>2
    <3>3. QED
      BY <3>1, <3>2 DEF Flag
  <2>3. QED
    BY <2>2 DEF Overflow
<1>8. o \in 0 .. 1
  BY <1>7 DEF Flag
<1> HIDE DEF M, e, b, h, o
<1>9. k \in Flags /\ k.c = b /\ k.o = o
  BY <1>5, <1>6, <1>8 DEF Flags
<1> HIDE DEF k
<1>10. /\ r.val = e /\ r.f \in Flags
       /\ r.f.c = b /\ r.f.o = o
       /\ r.f.p = parity_even(e) /\ r.f.s = Top(w, e) /\ r.f.z = Flag(e = 0)
  <2>1. e \in 0 .. Pow2[w] - 1
    BY <1>5 DEF M
  <2>2. QED
    BY <1>4, <1>9, <2>1, ResultFlags
<1>11. d = r.val - r.f.c * Pow2[w]
  BY <1>5, <1>10 DEF M
<1>12. r.val \in 0 .. Pow2[w] - 1
  BY <1>5, <1>10 DEF M
<1>13. QED
  BY <1>7, <1>10, <1>11, <1>12 DEF d

\* The sum of two words with a carry is the result and the carry that it leaves.
LEMMA Adds ==
    ASSUME NEW w \in Nat, w > 0, NEW g \in Flags,
           NEW u \in 0 .. Pow2[w] - 1, NEW v \in 0 .. Pow2[w] - 1,
           NEW r, r = adc(w, g, u, v)
    PROVE  /\ r.val \in 0 .. Pow2[w] - 1 /\ r.f \in Flags
           /\ u + v + g.c = r.f.c * Pow2[w] + r.val
           /\ r.f.s = Top(w, r.val) /\ r.f.z = Flag(r.val = 0) /\ r.f.p = parity_even(r.val)
           /\ r.f.o = Flag(Top(w, u) = Top(w, v) /\ Top(w, r.val) # Top(w, u))
<1> DEFINE M == Pow2[w]
           d == u + v + g.c
           e == d % M
           b == Bit(d, w)
           h == Bit((u % 16) + (v % 16) + g.c, 4)
           o == Overflow(w, u, v, e)
           k == [g EXCEPT !.a = h, !.c = b, !.o = o]
<1>1. M \in Nat /\ M > 0 /\ M = 2 * Pow2[w - 1] /\ Pow2[w - 1] \in Nat
  BY Halves
<1>2. g.c \in 0 .. 1 /\ u \in Int /\ v \in Int
  BY <1>1 DEF Flags
<1>3. d \in 0 .. 2 * M - 1 /\ d \in Int
  BY <1>1, <1>2
<1>4. r = Result(w, e, k)
  BY DEF adc
<1> HIDE DEF d
<1>5. d = b * M + e /\ b \in 0 .. 1 /\ e \in 0 .. M - 1
  <2>1. d \in -Pow2[w] .. 2 * Pow2[w] - 1
    BY <1>1, <1>3
  <2>2. /\ d >= 0 /\ d < M => e = d /\ b = 0
        /\ d >= M => e = d - M /\ b = 1
        /\ e \in 0 .. M - 1
    BY <2>1, Wrapped
  <2> HIDE DEF e, b, M
  <2>3. CASE d < M
    BY <1>1, <1>3, <2>2, <2>3
  <2>4. CASE ~(d < M)
    BY <1>1, <1>3, <2>2, <2>4
  <2>5. QED
    BY <2>3, <2>4
<1>6. h \in 0 .. 1
  <2>1. u % 16 \in Int /\ v % 16 \in Int
    BY <1>2
  <2>2. QED
    BY <1>2, <2>1, BitValue
<1>7. o = Flag(Top(w, u) = Top(w, v) /\ Top(w, e) # Top(w, u))
  BY DEF Overflow
<1>8. o \in 0 .. 1
  BY <1>7 DEF Flag
<1> HIDE DEF M, e, b, h, o
<1>9. k \in Flags /\ k.c = b /\ k.o = o
  BY <1>5, <1>6, <1>8 DEF Flags
<1> HIDE DEF k
<1>10. /\ r.val = e /\ r.f \in Flags
       /\ r.f.c = b /\ r.f.o = o
       /\ r.f.p = parity_even(e) /\ r.f.s = Top(w, e) /\ r.f.z = Flag(e = 0)
  <2>1. e \in 0 .. Pow2[w] - 1
    BY <1>5 DEF M
  <2>2. QED
    BY <1>4, <1>9, <2>1, ResultFlags
<1>11. d = r.f.c * Pow2[w] + r.val
  BY <1>5, <1>10 DEF M
<1>12. r.val \in 0 .. Pow2[w] - 1
  BY <1>5, <1>10 DEF M
<1>13. QED
  BY <1>7, <1>10, <1>11, <1>12 DEF d
-----------------------------------------------------------------------------
(* Conditions.                                                             *)

Ones(v, m) == {k \in 0 .. m - 1 : Bit(v, k) = 1}

\* Bit by bit, the ones are counted.
LEMMA OneMore ==
    ASSUME NEW v \in Int, NEW m \in Nat, IsFiniteSet(Ones(v, m))
    PROVE  /\ IsFiniteSet(Ones(v, m + 1))
           /\ Cardinality(Ones(v, m + 1)) = Cardinality(Ones(v, m)) + Bit(v, m)
<1>1. Bit(v, m) \in 0 .. 1
  BY BitValue
<1>2. Cardinality(Ones(v, m)) \in Nat
  BY FS_CardinalityType
<1>3. CASE Bit(v, m) = 0
  <2>1. Ones(v, m + 1) = Ones(v, m)
    BY <1>3 DEF Ones
  <2>2. QED
    BY <1>2, <1>3, <2>1
<1>4. CASE Bit(v, m) = 1
  <2>1. Ones(v, m + 1) = Ones(v, m) \cup {m} /\ m \notin Ones(v, m)
    BY <1>4 DEF Ones
  <2>2. QED
    BY <1>4, <2>1, FS_AddElement
<1>5. QED
  BY <1>1, <1>3, <1>4

\* Folding tells whether the number of ones is even.
LEMMA ParityCounts ==
    ASSUME NEW v \in Int
    PROVE  (Cardinality(Ones(v, 8)) % 2 = 0) <=> (parity_even(v) = 1)
<1> DEFINE n(m) == Cardinality(Ones(v, m))
<1>1. IsFiniteSet(Ones(v, 0)) /\ n(0) = 0
  <2>1. Ones(v, 0) = {}
    BY DEF Ones
  <2>2. QED
    BY <2>1, FS_EmptySet
<1>2. IsFiniteSet(Ones(v, 1)) /\ n(1) = Bit(v, 0)
  <2>1. IsFiniteSet(Ones(v, 0 + 1)) /\ n(0 + 1) = n(0) + Bit(v, 0)
    BY <1>1, OneMore
  <2>2. Bit(v, 0) \in 0 .. 1
    BY BitValue
  <2>3. QED
    BY <1>1, <2>1, <2>2
<1>3. IsFiniteSet(Ones(v, 2)) /\ n(2) = n(1) + Bit(v, 1)
  <2>1. IsFiniteSet(Ones(v, 1 + 1)) /\ n(1 + 1) = n(1) + Bit(v, 1)
    BY <1>2, OneMore
  <2>2. QED
    BY <2>1
<1>4. IsFiniteSet(Ones(v, 3)) /\ n(3) = n(2) + Bit(v, 2)
  <2>1. IsFiniteSet(Ones(v, 2 + 1)) /\ n(2 + 1) = n(2) + Bit(v, 2)
    BY <1>3, OneMore
  <2>2. QED
    BY <2>1
<1>5. IsFiniteSet(Ones(v, 4)) /\ n(4) = n(3) + Bit(v, 3)
  <2>1. IsFiniteSet(Ones(v, 3 + 1)) /\ n(3 + 1) = n(3) + Bit(v, 3)
    BY <1>4, OneMore
  <2>2. QED
    BY <2>1
<1>6. IsFiniteSet(Ones(v, 5)) /\ n(5) = n(4) + Bit(v, 4)
  <2>1. IsFiniteSet(Ones(v, 4 + 1)) /\ n(4 + 1) = n(4) + Bit(v, 4)
    BY <1>5, OneMore
  <2>2. QED
    BY <2>1
<1>7. IsFiniteSet(Ones(v, 6)) /\ n(6) = n(5) + Bit(v, 5)
  <2>1. IsFiniteSet(Ones(v, 5 + 1)) /\ n(5 + 1) = n(5) + Bit(v, 5)
    BY <1>6, OneMore
  <2>2. QED
    BY <2>1
<1>8. IsFiniteSet(Ones(v, 7)) /\ n(7) = n(6) + Bit(v, 6)
  <2>1. IsFiniteSet(Ones(v, 6 + 1)) /\ n(6 + 1) = n(6) + Bit(v, 6)
    BY <1>7, OneMore
  <2>2. QED
    BY <2>1
<1>9. n(8) = n(7) + Bit(v, 7)
  <2>1. n(7 + 1) = n(7) + Bit(v, 7)
    BY <1>8, OneMore
  <2>2. QED
    BY <2>1
<1>10. \A k \in 0 .. 7 : Bit(v, k) \in 0 .. 1
  BY BitValue
<1> DEFINE b == [k \in 0 .. 7 |-> Bit(v, k)]
           v4 == [k \in 0 .. 3 |-> (Bit(v, k) + Bit(v, k + 4)) % 2]
           v2 == [k \in 0 .. 1 |-> (v4[k] + v4[k + 2]) % 2]
<1>11. n(8) = b[0] + b[1] + b[2] + b[3] + b[4] + b[5] + b[6] + b[7]
  BY <1>2, <1>3, <1>4, <1>5, <1>6, <1>7, <1>8, <1>9, <1>10
<1>12. \A k \in 0 .. 7 : b[k] \in 0 .. 1
  BY <1>10
<1>13. \A k \in 0 .. 3 : v4[k] = (b[k] + b[k + 4]) % 2
  <2> TAKE k \in 0 .. 3
  <2>1. k \in 0 .. 7 /\ k + 4 \in 0 .. 7
    OBVIOUS
  <2>2. QED
    BY <2>1
<1>14. parity_even(v) = 1 - ((v2[0] + v2[1]) % 2)
  BY DEF parity_even
<1> HIDE DEF n, b, v4
<1>15. v2[0] = (v4[0] + v4[2]) % 2 /\ v2[1] = (v4[1] + v4[3]) % 2
  BY DEF v2
<1> HIDE DEF v2
<1>16. /\ v4[0] = (b[0] + b[4]) % 2 /\ v4[1] = (b[1] + b[5]) % 2
       /\ v4[2] = (b[2] + b[6]) % 2 /\ v4[3] = (b[3] + b[7]) % 2
  BY <1>13
<1>17. /\ b[0] \in 0 .. 1 /\ b[1] \in 0 .. 1 /\ b[2] \in 0 .. 1 /\ b[3] \in 0 .. 1
       /\ b[4] \in 0 .. 1 /\ b[5] \in 0 .. 1 /\ b[6] \in 0 .. 1 /\ b[7] \in 0 .. 1
  BY <1>12
<1>18. (n(8) % 2 = 0) <=> ((v2[0] + v2[1]) % 2 = 0)
  BY <1>11, <1>15, <1>16, <1>17
<1>19. v2[0] \in 0 .. 1 /\ v2[1] \in 0 .. 1
  BY <1>15, <1>16, <1>17
<1>20. QED
  BY <1>14, <1>18, <1>19 DEF n

\* Inputs stay inputs.
LEMMA InputStep ==
    ASSUME InputTypeOK, [NextInput]_input PROVE InputTypeOK'
<1>1. \A v \in Operands : After(v) \in Operands
  <2> TAKE v \in Operands
  <2> DEFINE T == {u \in Operands : u > v}
  <2>1. CASE T # {}
    <3>1. T \in SUBSET Nat
      <4>1. Pow2[W] \in Nat
        BY AluAssumption, Powers
      <4>2. Operands \subseteq Nat
        BY AluAssumption, <4>1
      <4>3. QED
        BY <4>2
    <3>2. PICK u \in T : \A t \in T : u <= t
      BY <2>1, <3>1, LeastNumber
    <3>3. u \in Operands /\ u > v /\ \A t \in Operands : t > v => u <= t
      BY <3>2
    <3>4. QED
      BY <3>3 DEF After
  <2>2. CASE T = {}
    BY <2>2, AluAssumption DEF After
  <2>3. QED
    BY <2>1, <2>2
<1>2. QED
  BY <1>1 DEF NextInput, input, InputTypeOK

\* So every input there is can be tried with the arithmetic.
LEMMA InputsStay ==
    InputSpec => []InputTypeOK
<1>1. InputInit => InputTypeOK
  BY AluAssumption DEF InputInit, InputTypeOK
<1>2. QED
  BY <1>1, InputStep, PTL DEF InputSpec

\* The operands of an input are words.
LEMMA Inputs ==
    ASSUME InputTypeOK
    PROVE  /\ x \in 0 .. Pow2[W] - 1 /\ y \in 0 .. Pow2[W] - 1 /\ W \in Nat /\ W > 0
           /\ f \in Flags /\ f.c = c /\ c \in 0 .. 1
           /\ [f EXCEPT !.c = 0] \in Flags /\ [f EXCEPT !.c = 0].c = 0
  BY AluAssumption DEF InputTypeOK, f, Flags

\* The sixteen conditions are eight and their opposites.
LEMMA ConditionPairs ==
    ASSUME NEW g
    PROVE  /\ (Condition(g, 0) <=> g.o = 1) /\ (Condition(g, 1) <=> ~(g.o = 1))
           /\ (Condition(g, 2) <=> g.c = 1) /\ (Condition(g, 3) <=> ~(g.c = 1))
           /\ (Condition(g, 4) <=> g.z = 1) /\ (Condition(g, 5) <=> ~(g.z = 1))
           /\ (Condition(g, 6) <=> (g.c = 1 \/ g.z = 1)) /\ (Condition(g, 7) <=> ~(g.c = 1 \/ g.z = 1))
           /\ (Condition(g, 8) <=> g.s = 1) /\ (Condition(g, 9) <=> ~(g.s = 1))
           /\ (Condition(g, 10) <=> g.p = 1) /\ (Condition(g, 11) <=> ~(g.p = 1))
           /\ (Condition(g, 12) <=> g.s # g.o) /\ (Condition(g, 13) <=> ~(g.s # g.o))
           /\ (Condition(g, 14) <=> (g.z = 1 \/ g.s # g.o)) /\ (Condition(g, 15) <=> ~(g.z = 1 \/ g.s # g.o))
<1>1. (Condition(g, 0) <=> g.o = 1) /\ (Condition(g, 1) <=> ~(g.o = 1))
  BY DEF Condition
<1>2. (Condition(g, 2) <=> g.c = 1) /\ (Condition(g, 3) <=> ~(g.c = 1))
  BY DEF Condition
<1>3. (Condition(g, 4) <=> g.z = 1) /\ (Condition(g, 5) <=> ~(g.z = 1))
  BY DEF Condition
<1>4. (Condition(g, 6) <=> (g.c = 1 \/ g.z = 1)) /\ (Condition(g, 7) <=> ~(g.c = 1 \/ g.z = 1))
  BY DEF Condition
<1>5. (Condition(g, 8) <=> g.s = 1) /\ (Condition(g, 9) <=> ~(g.s = 1))
  BY DEF Condition
<1>6. (Condition(g, 10) <=> g.p = 1) /\ (Condition(g, 11) <=> ~(g.p = 1))
  BY DEF Condition
<1>7. (Condition(g, 12) <=> g.s # g.o) /\ (Condition(g, 13) <=> ~(g.s # g.o))
  BY DEF Condition
<1>8. (Condition(g, 14) <=> (g.z = 1 \/ g.s # g.o)) /\ (Condition(g, 15) <=> ~(g.z = 1 \/ g.s # g.o))
  BY DEF Condition
<1>9. QED
  BY <1>1, <1>2, <1>3, <1>4, <1>5, <1>6, <1>7, <1>8

\* A difference of words, the borrow, the sign and the overflow of which tell
\* how the words compare, unsigned and signed.
LEMMA Compared ==
    ASSUME NEW w \in Nat, w > 0, NEW g \in Flags, g.c = 0,
           NEW u \in 0 .. Pow2[w] - 1, NEW v \in 0 .. Pow2[w] - 1,
           NEW r, r = sbb(w, g, u, v)
    PROVE  /\ r.val = (u - v) % Pow2[w]
           /\ (r.f.c = 1) <=> (u < v)
           /\ (r.f.z = 1) <=> (u = v)
           /\ (r.f.s = 1) <=> (r.val >= Pow2[w - 1])
           /\ (r.f.o = 1) <=> (Signed(w, u) - Signed(w, v) \notin -Pow2[w - 1] .. Pow2[w - 1] - 1)
           /\ (r.f.s # r.f.o) <=> (Signed(w, u) - Signed(w, v) < 0)
           /\ (u = v) <=> (Signed(w, u) - Signed(w, v) = 0)
<1> DEFINE H == Pow2[w - 1]
           M == Pow2[w]
           e == r.val
           b == r.f.c
<1>1. H \in Nat /\ H > 0 /\ M = 2 * H /\ u \in Nat /\ v \in Nat /\ u < M /\ v < M
  BY Halves
<1>2. /\ e \in 0 .. M - 1 /\ b \in 0 .. 1 /\ u - v - 0 = e - b * M
      /\ r.f.s = Top(w, e) /\ r.f.z = Flag(e = 0)
      /\ r.f.o = Flag(Top(w, u) # Top(w, v) /\ Top(w, e) # Top(w, u))
  <2>1. /\ r.val \in 0 .. Pow2[w] - 1 /\ r.f \in Flags
        /\ u - v - g.c = r.val - r.f.c * Pow2[w]
        /\ r.f.s = Top(w, r.val) /\ r.f.z = Flag(r.val = 0)
        /\ r.f.o = Flag(Top(w, u) # Top(w, v) /\ Top(w, r.val) # Top(w, u))
    BY Subtracts
  <2>2. r.f.c \in 0 .. 1
    BY <2>1 DEF Flags
  <2>3. QED
    BY <2>1, <2>2
<1>3. e = (u - v) % M
  <2>1. u - v \in -Pow2[w] .. 2 * Pow2[w] - 1
    BY <1>1
  <2>2. (u - v) % Pow2[w] \in 0 .. Pow2[w] - 1
    BY <2>1, Wrapped
  <2>3. M \in Nat \ {0} /\ -b \in Int
    BY <1>1, <1>2
  <2>4. (-b) * M + e = u - v
    <3> HIDE DEF H, M, e, b
    <3>1. b = 0 \/ b = 1
      BY <1>2
    <3>2. QED
      BY <1>1, <1>2, <3>1
  <2> DEFINE q == -b
  <2>5. (q * M + e) % M = e
    <3>1. M \in Nat \ {0} /\ q \in Int /\ e \in 0 .. M - 1
      BY <1>2, <2>3
    <3> HIDE DEF H, M, e, b, q
    <3>2. QED
      BY <3>1, Division
  <2>6. QED
    BY <2>4, <2>5
<1>4. e = u - v + (IF u < v THEN M ELSE 0) /\ b = (IF u < v THEN 1 ELSE 0)
  <2> HIDE DEF H, M, e, b
  <2>1. b = 0 \/ b = 1
    BY <1>2
  <2>2. QED
    BY <1>1, <1>2, <2>1
<1>5. /\ Top(w, u) = Flag(u >= H) /\ Signed(w, u) = IF u >= H THEN u - M ELSE u
      /\ Top(w, v) = Flag(v >= H) /\ Signed(w, v) = IF v >= H THEN v - M ELSE v
      /\ Top(w, e) = Flag(e >= H)
  BY <1>2, TopTells
<1> HIDE DEF H, M, e, b
<1>6. (b = 1 <=> u < v) /\ (r.f.z = 1 <=> u = v) /\ (r.f.s = 1 <=> e >= H)
  <2>1. b = 1 <=> u < v
    BY <1>4
  <2>2. r.f.z = 1 <=> e = 0
    BY <1>2 DEF Flag
  <2>3. e = 0 <=> u = v
    <3>1. CASE u < v
      <4>1. e = u - v + M
        BY <1>4, <3>1
      <4>2. QED
        BY <1>1, <3>1, <4>1
    <3>2. CASE ~(u < v)
      <4>1. e = u - v
        BY <1>1, <1>4, <3>2
      <4>2. QED
        BY <1>1, <3>2, <4>1
    <3>3. QED
      BY <3>1, <3>2
  <2>4. r.f.s = 1 <=> e >= H
    BY <1>2, <1>5 DEF Flag
  <2>5. QED
    BY <2>1, <2>2, <2>3, <2>4
<1> DEFINE su == Signed(w, u)
           sv == Signed(w, v)
<1>7. (r.f.o = 1) <=> (su - sv \notin -H .. H - 1)
  BY <1>1, <1>2, <1>4, <1>5 DEF Flag
<1>8. (r.f.s # r.f.o) <=> (su - sv < 0)
  BY <1>1, <1>2, <1>4, <1>5 DEF Flag
<1>9. (u = v) <=> (su - sv = 0)
  BY <1>1, <1>5
<1>10. QED
  BY <1>2, <1>3, <1>6, <1>7, <1>8, <1>9 DEF H, M, e, b

\* For every even width from four bits on and every pair of operands, each
\* conditional jump after CMP goes where its name says (i8088_cmp_8,
\* i8088_cmp_16, 0x70 to 0x7F in i8088_execute).
THEOREM JumpsDecide == InputSpec => []ConditionsDecide
<1>1. InputTypeOK => ConditionsDecide
  <2> SUFFICES ASSUME InputTypeOK PROVE ConditionsDecide
    OBVIOUS
  <2> DEFINE res == sub(W, f, x, y)
             g == res.f
             diff == Signed(W, x) - Signed(W, y)
             r == (x - y) % Pow2[W]
  <2>1. /\ W \in Nat /\ W > 0 /\ x \in 0 .. Pow2[W] - 1 /\ y \in 0 .. Pow2[W] - 1
        /\ [f EXCEPT !.c = 0] \in Flags /\ [f EXCEPT !.c = 0].c = 0
        /\ Pow2[W] \in Nat /\ x \in Int /\ y \in Int
    BY Inputs, Powers
  <2>2. res = sbb(W, [f EXCEPT !.c = 0], x, y)
    BY DEF sub
  <2>3. /\ res.val = r
        /\ (g.c = 1) <=> (x < y)
        /\ (g.z = 1) <=> (x = y)
        /\ (g.s = 1) <=> (res.val >= Pow2[W - 1])
        /\ (g.o = 1) <=> (diff \notin -Pow2[W - 1] .. Pow2[W - 1] - 1)
        /\ (g.s # g.o) <=> (diff < 0)
        /\ (x = y) <=> (diff = 0)
    <3> DEFINE k == [f EXCEPT !.c = 0]
    <3>1. k \in Flags /\ k.c = 0 /\ res = sbb(W, k, x, y)
      BY <2>1, <2>2
    <3> HIDE DEF k, res
    <3>2. QED
      BY <2>1, <3>1, Compared
  <2>4. g.p = parity_even(res.val) /\ res.val \in 0 .. Pow2[W] - 1
    <3> DEFINE k == [f EXCEPT !.c = 0]
    <3>1. k \in Flags /\ res = sbb(W, k, x, y)
      BY <2>1, <2>2
    <3> HIDE DEF k, res
    <3>2. QED
      BY <2>1, <3>1, Subtracts
  <2>5. (g.p = 1) <=> (Cardinality(Ones(r, 8)) % 2 = 0)
    <3>1. res.val \in Int
      BY <2>1, <2>4
    <3>2. QED
      BY <2>3, <2>4, <3>1, ParityCounts
  <2>6. Ones(r, 8) = {k \in 0 .. 7 : Bit(r, k) = 1}
    BY DEF Ones
  <2> DEFINE relation == << diff \notin -(Pow2[W - 1]) .. Pow2[W - 1] - 1, x < y, x = y, x <= y,
                            r >= Pow2[W - 1], Cardinality(Ones(r, 8)) % 2 = 0, diff < 0, diff <= 0 >>
  <2>7. diff \in Int
    <3>1. Signed(W, x) \in Int /\ Signed(W, y) \in Int
      <4>1. Pow2[W - 1] \in Nat
        BY <2>1, Halves
      <4>2. QED
        BY <2>1, <4>1, TopTells
    <3>2. QED
      BY <3>1
  <2> HIDE DEF res, diff, r
  <2>8. /\ (x <= y) <=> (g.c = 1 \/ g.z = 1)
        /\ (diff <= 0) <=> (g.z = 1 \/ g.s # g.o)
    BY <2>1, <2>3, <2>7
  <2>9. /\ relation[1] <=> (g.o = 1)
        /\ relation[2] <=> (g.c = 1)
        /\ relation[3] <=> (g.z = 1)
        /\ relation[4] <=> (g.c = 1 \/ g.z = 1)
        /\ relation[5] <=> (g.s = 1)
        /\ relation[6] <=> (g.p = 1)
        /\ relation[7] <=> (g.s # g.o)
        /\ relation[8] <=> (g.z = 1 \/ g.s # g.o)
    BY <2>3, <2>5, <2>8
  <2> HIDE DEF relation
  <2>10. ASSUME NEW k \in 1 .. 8
         PROVE  /\ Condition(g, 2 * k - 2) <=> relation[k]
                /\ Condition(g, 2 * k - 1) <=> ~relation[k]
    <3>1. k \in {1, 2, 3, 4, 5, 6, 7, 8}
      OBVIOUS
    <3>2. 2 * k - 1 = (2 * k - 2) + 1
      OBVIOUS
    <3>3. QED
      BY <2>9, <3>1, <3>2, ConditionPairs
  <2>11. ASSUME NEW k \in 1 .. 8
         PROVE  /\ Condition(g, 2 * k - 2) = relation[k]
                /\ Condition(g, 2 * k - 1) # relation[k]
    <3>1. Condition(g, 2 * k - 2) \in BOOLEAN /\ Condition(g, 2 * k - 1) \in BOOLEAN
      BY Zenon DEF Condition
    <3>2. relation[k] \in BOOLEAN
      <4>1. k \in {1, 2, 3, 4, 5, 6, 7, 8}
        OBVIOUS
      <4>2. relation[1] \in BOOLEAN
        BY DEF relation
      <4>3. relation[2] \in BOOLEAN
        BY DEF relation
      <4>4. relation[3] \in BOOLEAN
        BY DEF relation
      <4>5. relation[4] \in BOOLEAN
        BY DEF relation
      <4>6. relation[5] \in BOOLEAN
        BY DEF relation
      <4>7. relation[6] \in BOOLEAN
        BY DEF relation
      <4>8. relation[7] \in BOOLEAN
        BY DEF relation
      <4>9. relation[8] \in BOOLEAN
        BY DEF relation
      <4>10. QED
        BY <4>1, <4>2, <4>3, <4>4, <4>5, <4>6, <4>7, <4>8, <4>9
    <3>3. QED
      BY <2>10, <3>1, <3>2
  <2>12. QED
    BY <2>6, <2>11 DEF ConditionsDecide, res, diff, r, relation
<1>2. QED
  BY <1>1, InputsStay, PTL
-----------------------------------------------------------------------------
(* Words made of two halves.                                               *)

\* A word of twice the width is a pair of words, ...
LEMMA Paired ==
    ASSUME NEW h \in Nat, h > 0, NEW u \in 0 .. Pow2[h + h] - 1
    PROVE  /\ u \div Pow2[h] \in 0 .. Pow2[h] - 1 /\ u % Pow2[h] \in 0 .. Pow2[h] - 1
           /\ u = (u \div Pow2[h]) * Pow2[h] + (u % Pow2[h])
<1> DEFINE m == Pow2[h]
           q == u \div m
           r == u % m
<1>0. m \in Nat \ {0}
  BY Powers
<1>1. m \in Nat \ {0} /\ Pow2[h + h] = m * m
  BY <1>0, PowerOfSum
<1>2. m * m \in Nat
  BY <1>1
<1>3. u \in Nat /\ u < m * m
  BY <1>1, <1>2
<1> HIDE DEF m
<1>4. q \in Int /\ r \in 0 .. m - 1 /\ u = q * m + r
  <2>1. u \in Int
    BY <1>3
  <2>2. QED
    BY <1>0, <2>1, Divided
<1> HIDE DEF q, r
<1>5. ~(m <= q)
  <2> SUFFICES ASSUME m <= q PROVE FALSE
    OBVIOUS
  <2>1. m * m <= q * m
    BY <1>1, <1>4, Monotone
  <2>2. QED
    BY <1>1, <1>2, <1>3, <1>4, <2>1
<1>6. ~(q + 1 <= 0)
  <2> SUFFICES ASSUME q + 1 <= 0 PROVE FALSE
    OBVIOUS
  <2>1. (q + 1) * m <= 0 * m
    BY <1>1, <1>4, Monotone
  <2>2. (q + 1) * m = q * m + m
    BY <1>1, <1>4
  <2>3. QED
    BY <1>1, <1>3, <1>4, <2>1, <2>2
<1>7. q \in 0 .. m - 1
  BY <1>1, <1>4, <1>5, <1>6
<1>8. QED
  BY <1>4, <1>7 DEF m, q, r

\* ... a pair of words is one of twice the width, and the higher has its sign.
LEMMA PairTop ==
    ASSUME NEW h \in Nat, h > 0, NEW q \in 0 .. Pow2[h] - 1, NEW r \in 0 .. Pow2[h] - 1
    PROVE  /\ q * Pow2[h] + r \in 0 .. Pow2[h + h] - 1
           /\ Top(h + h, q * Pow2[h] + r) = Top(h, q)
<1> DEFINE m == Pow2[h]
           t == Pow2[h - 1]
           u == q * m + r
<1>1. m \in Nat \ {0} /\ t \in Nat /\ q \in Nat /\ r \in Nat /\ q < m /\ r < m
  BY Halves
<1>2. Pow2[h + h] = m * m /\ Pow2[(h + h) - 1] = t * m
  <2>1. Pow2[h + h] = m * m
    BY PowerOfSum
  <2>2. h - 1 \in Nat /\ (h - 1) + h = (h + h) - 1
    OBVIOUS
  <2>3. Pow2[(h - 1) + h] = t * m
    BY <2>2, PowerOfSum
  <2>4. QED
    BY <2>1, <2>2, <2>3
<1> HIDE DEF m, t
<1>3. (q + 1) * m <= m * m /\ q * m \in Nat /\ m * m \in Nat /\ t * m \in Nat
  <2>1. q + 1 <= m /\ q + 1 \in Int
    BY <1>1
  <2>2. (q + 1) * m <= m * m
    BY <1>1, <2>1, Monotone
  <2>3. QED
    BY <1>1, <2>2
<1>4. (q + 1) * m = q * m + m
  BY <1>1
<1>5. u \in 0 .. m * m - 1
  BY <1>1, <1>3, <1>4
<1>6. u >= t * m <=> q >= t
  <2>1. CASE q >= t
    <3>1. t * m <= q * m
      BY <1>1, <2>1, Monotone
    <3>2. QED
      BY <1>1, <1>3, <2>1, <3>1
  <2>2. CASE ~(q >= t)
    <3>1. (q + 1) * m <= t * m
      <4>1. q + 1 <= t /\ q + 1 \in Int
        BY <1>1, <2>2
      <4>2. QED
        BY <1>1, <4>1, Monotone
    <3>2. QED
      BY <1>1, <1>3, <1>4, <2>2, <3>1
  <2>3. QED
    BY <2>1, <2>2
<1>7. Top(h + h, u) = Flag(u >= t * m)
  <2>1. u \in 0 .. Pow2[h + h] - 1 /\ h + h \in Nat /\ h + h > 0
    BY <1>2, <1>5
  <2> HIDE DEF u
  <2>2. QED
    BY <1>2, <2>1, TopTells
<1>8. Top(h, q) = Flag(q >= t)
  BY TopTells DEF t
<1>9. QED
  BY <1>2, <1>5, <1>6, <1>7, <1>8 DEF m, Flag

\* Adding halves, with the carry of the lower into the higher, is adding.
LEMMA AddsChain ==
    ASSUME NEW h \in Nat, h > 0, NEW g \in Flags,
           NEW u \in 0 .. Pow2[h + h] - 1, NEW v \in 0 .. Pow2[h + h] - 1,
           NEW low, low = adc(h, g, u % Pow2[h], v % Pow2[h]),
           NEW high, high = adc(h, low.f, u \div Pow2[h], v \div Pow2[h])
    PROVE  Joined(Pow2[h], low, high) = Whole(adc(h + h, g, u, v))
<1> DEFINE m == Pow2[h]
           n == Pow2[h + h]
           uh == u \div m
           ul == u % m
           vh == v \div m
           vl == v % m
           whole == adc(h + h, g, u, v)
<1>1. m \in Nat /\ m > 0 /\ n \in Nat /\ n > 0 /\ h + h \in Nat /\ h + h > 0
  BY Powers
<1>2. n = m * m
  BY <1>1, PowerOfSum
<1>3. /\ uh \in 0 .. m - 1 /\ ul \in 0 .. m - 1 /\ u = uh * m + ul
      /\ vh \in 0 .. m - 1 /\ vl \in 0 .. m - 1 /\ v = vh * m + vl
  BY Paired
<1> HIDE DEF uh, ul, vh, vl
<1>4. /\ low.val \in 0 .. m - 1 /\ low.f \in Flags
      /\ ul + vl + g.c = low.f.c * m + low.val
  BY <1>3, Adds DEF ul, vl
<1>5. /\ high.val \in 0 .. m - 1 /\ high.f \in Flags
      /\ uh + vh + low.f.c = high.f.c * m + high.val
      /\ high.f.s = Top(h, high.val)
      /\ high.f.o = Flag(Top(h, uh) = Top(h, vh) /\ Top(h, high.val) # Top(h, uh))
  <2>1. /\ uh \in 0 .. Pow2[h] - 1 /\ vh \in 0 .. Pow2[h] - 1 /\ low.f \in Flags
        /\ high = adc(h, low.f, uh, vh)
    BY <1>3, <1>4 DEF uh, vh
  <2> HIDE DEF m, n, whole
  <2>2. /\ high.val \in 0 .. Pow2[h] - 1 /\ high.f \in Flags
        /\ uh + vh + low.f.c = high.f.c * Pow2[h] + high.val
        /\ high.f.s = Top(h, high.val)
        /\ high.f.o = Flag(Top(h, uh) = Top(h, vh) /\ Top(h, high.val) # Top(h, uh))
    BY <2>1, Adds, SMTT(60)
  <2>3. QED
    BY <2>2 DEF m
<1>6. /\ whole.val \in 0 .. n - 1 /\ whole.f \in Flags
      /\ u + v + g.c = whole.f.c * n + whole.val
      /\ whole.f.s = Top(h + h, whole.val)
      /\ whole.f.o = Flag(/\ Top(h + h, u) = Top(h + h, v)
                          /\ Top(h + h, whole.val) # Top(h + h, u))
  <2> DEFINE w == h + h
  <2>1. /\ w \in Nat /\ w > 0 /\ u \in 0 .. Pow2[w] - 1 /\ v \in 0 .. Pow2[w] - 1
        /\ whole = adc(w, g, u, v) /\ n = Pow2[w]
    BY <1>1
  <2> HIDE DEF w, whole, n
  <2>2. /\ whole.val \in 0 .. n - 1 /\ whole.f \in Flags
        /\ u + v + g.c = whole.f.c * n + whole.val
        /\ whole.f.s = Top(w, whole.val)
        /\ whole.f.o = Flag(Top(w, u) = Top(w, v) /\ Top(w, whole.val) # Top(w, u))
    BY <2>1, Adds, SMTT(60)
  <2>3. QED
    BY <2>2 DEF w
<1>7. Top(h + h, u) = Top(h, uh) /\ Top(h + h, v) = Top(h, vh)
  BY <1>3, PairTop
<1>8. /\ high.val * m + low.val \in 0 .. n - 1
      /\ Top(h + h, high.val * m + low.val) = Top(h, high.val)
  BY <1>4, <1>5, PairTop
<1>9. g.c \in 0 .. 1 /\ low.f.c \in 0 .. 1 /\ high.f.c \in 0 .. 1 /\ whole.f.c \in 0 .. 1
  BY <1>4, <1>5, <1>6 DEF Flags
<1> DEFINE e == high.val
           r == low.val
           b == high.f.c
           k == low.f.c
           eb == whole.val
           bb == whole.f.c
<1>10. b * n + (e * m + r) = bb * n + eb
  <2> HIDE DEF e, r, b, k, eb, bb, m, n, whole
  <2>1. /\ e \in Int /\ r \in Int /\ b \in Int /\ k \in Int /\ eb \in Int /\ bb \in Int
        /\ m \in Int /\ n \in Int /\ uh \in Int /\ ul \in Int /\ vh \in Int /\ vl \in Int
        /\ g.c \in Int
    <3>1. m \in Int /\ n \in Int
      BY <1>1
    <3>2. uh \in Int /\ ul \in Int /\ vh \in Int /\ vl \in Int
      BY <1>3, <3>1
    <3>3. e \in Int /\ r \in Int /\ eb \in Int
      BY <1>4, <1>5, <1>6, <3>1, SMTT(30) DEF e, r, eb
    <3>4. b \in Int /\ k \in Int /\ bb \in Int /\ g.c \in Int
      BY <1>9 DEF b, k, bb
    <3>5. QED
      BY <3>1, <3>2, <3>3, <3>4
  <2>2. /\ uh + vh + k = b * m + e /\ ul + vl + g.c = k * m + r
        /\ uh * m + ul + (vh * m + vl) + g.c = bb * n + eb
    BY <1>3, <1>4, <1>5, <1>6 DEF e, r, b, k, eb, bb
  <2>3. (uh + vh + k) * m = uh * m + vh * m + k * m
    BY <2>1
  <2>4. (b * m + e) * m = b * (m * m) + e * m
    BY <2>1
  <2>5. uh * m \in Int /\ vh * m \in Int /\ k * m \in Int /\ e * m \in Int /\ bb * n \in Int /\ b * n \in Int
    BY <2>1
  <2>6. uh * m + vh * m + k * m = b * n + e * m
    BY <1>2, <2>2, <2>3, <2>4
  <2> DEFINE pu == uh * m
             pv == vh * m
             pk == k * m
             pe == e * m
             pb == b * n
             pbb == bb * n
             gc == g.c
  <2>7. /\ pu + pv + pk = pb + pe /\ ul + vl + gc = pk + r
        /\ pu + ul + (pv + vl) + gc = pbb + eb
    BY <2>2, <2>6
  <2>8. /\ pu \in Int /\ pv \in Int /\ pk \in Int /\ pe \in Int /\ pb \in Int /\ pbb \in Int
        /\ ul \in Int /\ vl \in Int /\ gc \in Int /\ r \in Int /\ eb \in Int
    BY <2>1, <2>5
  <2> SUFFICES pb + (pe + r) = pbb + eb
    OBVIOUS
  <2> HIDE DEF pu, pv, pk, pe, pb, pbb, gc
  <2>9. pb + (pe + r) = pu + pv + (pk + r)
    BY <2>7, <2>8
  <2>10. pu + pv + (pk + r) = pu + pv + (ul + vl + gc)
    BY <2>7
  <2>11. pu + pv + (ul + vl + gc) = pu + ul + (pv + vl) + gc
    BY <2>8
  <2>12. QED
    BY <2>7, <2>9, <2>10, <2>11
<1>11. b = bb /\ e * m + r = eb
  <2>1. n \in Nat \ {0} /\ b \in Int /\ bb \in Int
    BY <1>1, <1>9
  <2> HIDE DEF n
  <2>2. (b * n + (e * m + r)) \div n = b /\ (b * n + (e * m + r)) % n = e * m + r
    BY <1>8, <2>1, Division
  <2>3. (bb * n + eb) \div n = bb /\ (bb * n + eb) % n = eb
    BY <1>6, <2>1, Division
  <2>4. QED
    BY <1>10, <2>2, <2>3
<1>12. whole.f.s = high.f.s /\ whole.f.o = high.f.o
  BY <1>5, <1>6, <1>7, <1>8, <1>11
<1>13. QED
  BY <1>11, <1>12 DEF Joined, Whole

\* Subtracting halves, with the borrow of the lower from the higher, is
\* subtracting.
LEMMA SubtractsChain ==
    ASSUME NEW h \in Nat, h > 0, NEW g \in Flags,
           NEW u \in 0 .. Pow2[h + h] - 1, NEW v \in 0 .. Pow2[h + h] - 1,
           NEW low, low = sbb(h, g, u % Pow2[h], v % Pow2[h]),
           NEW high, high = sbb(h, low.f, u \div Pow2[h], v \div Pow2[h])
    PROVE  Joined(Pow2[h], low, high) = Whole(sbb(h + h, g, u, v))
<1> DEFINE m == Pow2[h]
           n == Pow2[h + h]
           uh == u \div m
           ul == u % m
           vh == v \div m
           vl == v % m
           whole == sbb(h + h, g, u, v)
<1>1. m \in Nat /\ m > 0 /\ n \in Nat /\ n > 0 /\ h + h \in Nat /\ h + h > 0
  BY Powers
<1>2. n = m * m
  BY <1>1, PowerOfSum
<1>3. /\ uh \in 0 .. m - 1 /\ ul \in 0 .. m - 1 /\ u = uh * m + ul
      /\ vh \in 0 .. m - 1 /\ vl \in 0 .. m - 1 /\ v = vh * m + vl
  BY Paired
<1> HIDE DEF uh, ul, vh, vl
<1>4. /\ low.val \in 0 .. m - 1 /\ low.f \in Flags
      /\ ul - vl - g.c = low.val - low.f.c * m
  BY <1>3, Subtracts DEF ul, vl
<1>5. /\ high.val \in 0 .. m - 1 /\ high.f \in Flags
      /\ uh - vh - low.f.c = high.val - high.f.c * m
      /\ high.f.s = Top(h, high.val)
      /\ high.f.o = Flag(Top(h, uh) # Top(h, vh) /\ Top(h, high.val) # Top(h, uh))
  <2>1. /\ uh \in 0 .. Pow2[h] - 1 /\ vh \in 0 .. Pow2[h] - 1 /\ low.f \in Flags
        /\ high = sbb(h, low.f, uh, vh)
    BY <1>3, <1>4 DEF uh, vh
  <2> HIDE DEF m, n, whole
  <2>2. /\ high.val \in 0 .. Pow2[h] - 1 /\ high.f \in Flags
        /\ uh - vh - low.f.c = high.val - high.f.c * Pow2[h]
        /\ high.f.s = Top(h, high.val)
        /\ high.f.o = Flag(Top(h, uh) # Top(h, vh) /\ Top(h, high.val) # Top(h, uh))
    BY <2>1, Subtracts, SMTT(60)
  <2>3. QED
    BY <2>2 DEF m
<1>6. /\ whole.val \in 0 .. n - 1 /\ whole.f \in Flags
      /\ u - v - g.c = whole.val - whole.f.c * n
      /\ whole.f.s = Top(h + h, whole.val)
      /\ whole.f.o = Flag(/\ Top(h + h, u) # Top(h + h, v)
                          /\ Top(h + h, whole.val) # Top(h + h, u))
  <2> DEFINE w == h + h
  <2>1. /\ w \in Nat /\ w > 0 /\ u \in 0 .. Pow2[w] - 1 /\ v \in 0 .. Pow2[w] - 1
        /\ whole = sbb(w, g, u, v) /\ n = Pow2[w]
    BY <1>1
  <2> HIDE DEF w, whole, n
  <2>2. /\ whole.val \in 0 .. n - 1 /\ whole.f \in Flags
        /\ u - v - g.c = whole.val - whole.f.c * n
        /\ whole.f.s = Top(w, whole.val)
        /\ whole.f.o = Flag(Top(w, u) # Top(w, v) /\ Top(w, whole.val) # Top(w, u))
    BY <2>1, Subtracts, SMTT(60)
  <2>3. QED
    BY <2>2 DEF w
<1>7. Top(h + h, u) = Top(h, uh) /\ Top(h + h, v) = Top(h, vh)
  BY <1>3, PairTop
<1>8. /\ high.val * m + low.val \in 0 .. n - 1
      /\ Top(h + h, high.val * m + low.val) = Top(h, high.val)
  BY <1>4, <1>5, PairTop
<1>9. g.c \in 0 .. 1 /\ low.f.c \in 0 .. 1 /\ high.f.c \in 0 .. 1 /\ whole.f.c \in 0 .. 1
  BY <1>4, <1>5, <1>6 DEF Flags
<1> DEFINE e == high.val
           r == low.val
           b == high.f.c
           k == low.f.c
           eb == whole.val
           bb == whole.f.c
<1>10. (-b) * n + (e * m + r) = (-bb) * n + eb
  <2> HIDE DEF e, r, b, k, eb, bb, m, n, whole
  <2>1. /\ e \in Int /\ r \in Int /\ b \in Int /\ k \in Int /\ eb \in Int /\ bb \in Int
        /\ m \in Int /\ n \in Int /\ uh \in Int /\ ul \in Int /\ vh \in Int /\ vl \in Int
        /\ g.c \in Int
    <3>1. m \in Int /\ n \in Int
      BY <1>1
    <3>2. uh \in Int /\ ul \in Int /\ vh \in Int /\ vl \in Int
      BY <1>3, <3>1
    <3>3. e \in Int /\ r \in Int /\ eb \in Int
      BY <1>4, <1>5, <1>6, <3>1, SMTT(30) DEF e, r, eb
    <3>4. b \in Int /\ k \in Int /\ bb \in Int /\ g.c \in Int
      BY <1>9 DEF b, k, bb
    <3>5. QED
      BY <3>1, <3>2, <3>3, <3>4
  <2>2. /\ uh - vh - k = e - b * m /\ ul - vl - g.c = r - k * m
        /\ (uh * m + ul) - (vh * m + vl) - g.c = eb - bb * n
    <3>1. uh - vh - k = e - b * m
      BY <1>5 DEF e, b, k
    <3>2. ul - vl - g.c = r - k * m
      BY <1>4 DEF r, k
    <3>3. u - v - g.c = eb - bb * n
      BY <1>6 DEF eb, bb
    <3>4. u = uh * m + ul /\ v = vh * m + vl
      BY <1>3
    <3>5. (uh * m + ul) - (vh * m + vl) - g.c = eb - bb * n
      BY <3>3, <3>4, Zenon
    <3>6. QED
      BY <3>1, <3>2, <3>5, Zenon
  <2>3. (uh - vh - k) * m = uh * m - vh * m - k * m
    BY <2>1
  <2>4. (e - b * m) * m = e * m - b * (m * m)
    BY <2>1
  <2>5. uh * m \in Int /\ vh * m \in Int /\ k * m \in Int /\ e * m \in Int /\ bb * n \in Int /\ b * n \in Int
    BY <2>1
  <2>6. uh * m - vh * m - k * m = e * m - b * n
    BY <1>2, <2>2, <2>3, <2>4
  <2>7. (-b) * n = -(b * n) /\ (-bb) * n = -(bb * n)
    BY <2>1
  <2> DEFINE p == uh * m
             q == vh * m
             s == k * m
             bn == b * n
             bbn == bb * n
             em == e * m
  <2>8. /\ p \in Int /\ q \in Int /\ s \in Int /\ em \in Int /\ bbn \in Int /\ bn \in Int
        /\ ul - vl - g.c = r - s /\ (p + ul) - (q + vl) - g.c = eb - bbn /\ p - q - s = em - bn
    BY <2>2, <2>5, <2>6
  <2>9. (-b) * n + (e * m + r) = -bn + (em + r) /\ (-bb) * n + eb = -bbn + eb
    BY <2>7
  <2> HIDE DEF p, q, s, bn, bbn, em
  <2>10. -bn + (em + r) = -bbn + eb
    BY <2>1, <2>8
  <2>11. QED
    BY <2>9, <2>10
<1>11. b = bb /\ e * m + r = eb
  <2>1. n \in Nat \ {0} /\ -b \in Int /\ -bb \in Int /\ b \in Int /\ bb \in Int
    BY <1>1, <1>9
  <2> HIDE DEF n
  <2>2. ((-b) * n + (e * m + r)) \div n = -b /\ ((-b) * n + (e * m + r)) % n = e * m + r
    BY <1>8, <2>1, Division
  <2>3. ((-bb) * n + eb) \div n = -bb /\ ((-bb) * n + eb) % n = eb
    BY <1>6, <2>1, Division
  <2>4. -b = -bb /\ e * m + r = eb
    BY <1>10, <2>2, <2>3, Zenon
  <2>5. QED
    BY <2>1, <2>4
<1>12. whole.f.s = high.f.s /\ whole.f.o = high.f.o
  BY <1>5, <1>6, <1>7, <1>8, <1>11
<1>13. QED
  BY <1>11, <1>12 DEF Joined, Whole

\* For every even width from four bits on and every pair of operands, ADD and
\* ADC, or SUB and SBB, on the halves are the addition or the subtraction of
\* the whole, in value, carry, sign and overflow (i8088_add_8, i8088_adc_8,
\* i8088_sub_8, i8088_sbb_8 and their word forms).
THEOREM LongNumbers == InputSpec => []HalvesChain
<1>1. InputTypeOK => HalvesChain
  <2> SUFFICES ASSUME InputTypeOK PROVE HalvesChain
    OBVIOUS
  <2> DEFINE h == W \div 2
             m == Pow2[h]
             g == [f EXCEPT !.c = 0]
             Add(low) == Joined(m, low, adc(h, low.f, x \div m, y \div m))
             Sub(low) == Joined(m, low, sbb(h, low.f, x \div m, y \div m))
  <2>1. W = h + h /\ h \in Nat /\ h > 0
    BY AluAssumption
  <2>2. f \in Flags /\ g \in Flags
    BY Inputs
  <2>3. x \in 0 .. Pow2[h + h] - 1 /\ y \in 0 .. Pow2[h + h] - 1
    BY Inputs, <2>1
  <2> HIDE DEF h
  <2>4. ASSUME NEW e \in Flags
        PROVE  /\ Add(adc(h, e, x % m, y % m)) = Whole(adc(W, e, x, y))
               /\ Sub(sbb(h, e, x % m, y % m)) = Whole(sbb(W, e, x, y))
    BY <2>1, <2>3, <2>4, AddsChain, SubtractsChain
  <2>5. /\ add(h, f, x % m, y % m) = adc(h, g, x % m, y % m) /\ add(W, f, x, y) = adc(W, g, x, y)
        /\ sub(h, f, x % m, y % m) = sbb(h, g, x % m, y % m) /\ sub(W, f, x, y) = sbb(W, g, x, y)
    BY DEF add, sub
  <2>6. QED
    BY <2>2, <2>4, <2>5 DEF HalvesChain, h
<1>2. QED
  BY <1>1, InputsStay, PTL
-----------------------------------------------------------------------------
(* Multiplication and division.                                            *)

\* A number in the range of signed words is the sign of its own word.
LEMMA SignedBack ==
    ASSUME NEW w \in Nat, w > 0, NEW v \in -Pow2[w - 1] .. Pow2[w - 1] - 1
    PROVE  v % Pow2[w] \in 0 .. Pow2[w] - 1 /\ Signed(w, v % Pow2[w]) = v
<1> DEFINE H == Pow2[w - 1]
           M == Pow2[w]
<1>1. H \in Nat /\ H > 0 /\ M \in Nat /\ M = 2 * H /\ v \in Int /\ v >= -H /\ v < H
  BY Halves
<1>2. v \in -M .. 2 * M - 1
  <2> HIDE DEF H, M
  <2>1. QED
    BY <1>1
<1>3. /\ v < 0 => v % M = v + M
      /\ v >= 0 => v % M = v
      /\ v % M \in 0 .. M - 1
  BY <1>1, <1>2, Wrapped
<1>4. Signed(w, v % M) = IF v % M >= H THEN (v % M) - M ELSE v % M
  BY <1>3, TopTells
<1> HIDE DEF H, M
<1>5. v % M \in 0 .. M - 1 /\ Signed(w, v % M) = v
  BY <1>1, <1>3, <1>4
<1>6. QED
  BY <1>5 DEF M

\* The quotient is below a bound when the dividend is below so many divisors.
LEMMA QuotientBound ==
    ASSUME NEW d \in Nat \ {0}, NEW v \in Nat, NEW k \in Nat
    PROVE  v \div d \in Nat /\ (v \div d < k <=> v < d * k)
<1> DEFINE q == v \div d
           r == v % d
<1>1. q \in Int /\ r \in 0 .. d - 1 /\ v = q * d + r
  BY Divided
<1> HIDE DEF q, r
<1>2. ASSUME q < k PROVE v < d * k
  <2>1. (q + 1) * d <= k * d
    BY <1>1, <1>2, Monotone
  <2>2. (q + 1) * d = q * d + d /\ q * d \in Int /\ k * d = d * k /\ k * d \in Int
    BY <1>1
  <2>3. QED
    BY <1>1, <2>1, <2>2
<1>3. ASSUME ~(q < k) PROVE ~(v < d * k)
  <2>1. k * d <= q * d
    BY <1>1, <1>3, Monotone
  <2>2. q * d \in Int /\ k * d = d * k /\ k * d \in Int
    BY <1>1
  <2>3. QED
    BY <1>1, <2>1, <2>2
<1>4. ~(q < 0)
  <2>1. ASSUME q < 0 PROVE FALSE
    <3>1. (q + 1) * d <= 0 * d
      BY <1>1, <2>1, Monotone
    <3>2. (q + 1) * d = q * d + d /\ q * d \in Int /\ 0 * d = 0
      BY <1>1
    <3>3. QED
      BY <1>1, <3>1, <3>2
  <2>2. QED
    BY <2>1
<1>5. QED
  BY <1>1, <1>2, <1>3, <1>4 DEF q

\* The remainder for a multiple of the divisor's modulus.
LEMMA Remainders ==
    ASSUME NEW d \in Nat \ {0}, NEW e \in Nat \ {0}, NEW v \in Int
    PROVE  (v % (d * e)) % d = v % d
<1> DEFINE n == d * e
           q == v \div n
           r == v % n
           s == r \div d
           t == r % d
<1>1. n \in Nat \ {0}
  BY Monotone
<1>2. q \in Int /\ r \in Int /\ v = q * n + r
  <2> HIDE DEF n
  <2>1. q \in Int /\ r \in 0 .. n - 1 /\ v = q * n + r
    BY <1>1, Divided
  <2>2. QED
    BY <1>1, <2>1
<1>3. s \in Int /\ t \in 0 .. d - 1 /\ r = s * d + t
  BY <1>2, Divided
<1>4. v = (q * e + s) * d + t /\ q * e + s \in Int
  <2> HIDE DEF q, r, s, t
  <2>1. (q * e + s) * d = q * (d * e) + s * d /\ q * e \in Int /\ q * (d * e) \in Int /\ s * d \in Int
    BY <1>2, <1>3
  <2>2. QED
    BY <1>2, <1>3, <2>1
<1> HIDE DEF q, r, s
<1>5. v % d = t
  <2> HIDE DEF t
  <2>1. QED
    BY <1>3, <1>4, Division
<1>6. QED
  BY <1>5 DEF r

\* Division that rounds towards zero, by the signs of the operands.
LEMMA Quotient ==
    ASSUME NEW v \in Int, NEW d \in Int, d # 0
    PROVE  /\ Abs(v) \in Nat /\ Abs(d) \in Nat \ {0}
           /\ Abs(v) \div Abs(d) \in Nat
           /\ Quot(v, d) \in Int /\ Abs(Quot(v, d)) = Abs(v) \div Abs(d)
           /\ Quot(v, d) * d \in Int
           /\ Abs(v - Quot(v, d) * d) < Abs(d)
           /\ v - Quot(v, d) * d # 0 => (v - Quot(v, d) * d < 0 <=> v < 0)
<1> DEFINE A == Abs(v)
           D == Abs(d)
           k == A \div D
           j == A % D
           q == Quot(v, d)
<1>1. /\ A \in Nat /\ D \in Nat \ {0}
      /\ v < 0 => A = -v
      /\ ~(v < 0) => A = v
      /\ d < 0 => D = -d
      /\ ~(d < 0) => D = d
  BY DEF Abs
<1>2. k \in Nat /\ j \in 0 .. D - 1 /\ A = k * D + j /\ k * D \in Int
  <2> HIDE DEF A, D
  <2>1. k \in Nat
    BY <1>1, QuotientBound
  <2>2. j \in 0 .. D - 1 /\ A = k * D + j
    BY <1>1, Divided
  <2>3. QED
    BY <1>1, <2>1, <2>2
<1>3. /\ (v < 0 <=> d < 0) => q = k
      /\ ~(v < 0 <=> d < 0) => q = -k
  <2>1. ((v < 0) = (d < 0)) <=> (v < 0 <=> d < 0)
    <3>1. (v < 0) \in BOOLEAN /\ (d < 0) \in BOOLEAN
      OBVIOUS
    <3>2. QED
      BY <3>1
  <2>2. q = IF (v < 0) = (d < 0) THEN k ELSE -k
    BY DEF Quot
  <2> HIDE DEF q, k
  <2>3. QED
    BY <2>1, <2>2
<1> HIDE DEF A, D, k, j, q
<1>4. q \in Int /\ Abs(q) = k
  BY <1>2, <1>3 DEF Abs
<1>5. q * d \in Int /\ q * d = IF v < 0 THEN -(k * D) ELSE k * D
  <2>1. q * d \in Int
    BY <1>4
  <2>2. CASE v < 0 /\ d < 0
    <3>1. q = k /\ d = -D
      BY <1>1, <1>3, <2>2
    <3>2. k * (-D) = -(k * D)
      BY <1>1, <1>2
    <3>3. q * d = -(k * D)
      BY <3>1, <3>2, Zenon
    <3>4. QED
      BY <2>1, <2>2, <3>3, Zenon
  <2>3. CASE v < 0 /\ ~(d < 0)
    <3>1. q = -k /\ d = D
      BY <1>1, <1>3, <2>3
    <3>2. (-k) * D = -(k * D)
      BY <1>1, <1>2
    <3>3. QED
      BY <2>3, <3>1, <3>2
  <2>4. CASE ~(v < 0) /\ d < 0
    <3>1. q = -k /\ d = -D
      BY <1>1, <1>3, <2>4
    <3>2. (-k) * (-D) = k * D
      BY <1>1, <1>2
    <3>3. QED
      BY <2>4, <3>1, <3>2
  <2>5. CASE ~(v < 0) /\ ~(d < 0)
    <3>1. q = k /\ d = D
      BY <1>1, <1>3, <2>5
    <3>2. q * d = k * D
      BY <3>1, Zenon
    <3>3. QED
      BY <2>1, <2>5, <3>2, Zenon
  <2>6. QED
    BY <2>1, <2>2, <2>3, <2>4, <2>5
<1>6. v - q * d = IF v < 0 THEN -j ELSE j
  <2> DEFINE p == q * d
             s == k * D
  <2>1. p \in Int /\ s \in Int /\ p = (IF v < 0 THEN -s ELSE s) /\ A = s + j /\ j \in Int
    BY <1>1, <1>2, <1>5
  <2> HIDE DEF p, s
  <2>2. v - p = IF v < 0 THEN -j ELSE j
    BY <1>1, <2>1
  <2>3. QED
    BY <2>2 DEF p
<1>7. /\ Abs(v - q * d) < D
      /\ v - q * d # 0 => (v - q * d < 0 <=> v < 0)
  <2> DEFINE e == v - q * d
  <2>1. e = (IF v < 0 THEN -j ELSE j) /\ j \in Int /\ j >= 0 /\ j < D /\ D \in Int
    BY <1>1, <1>2, <1>6
  <2> HIDE DEF e
  <2>2. Abs(e) < D /\ (e # 0 => (e < 0 <=> v < 0))
    BY <2>1 DEF Abs
  <2>3. QED
    BY <2>2 DEF e
<1>8. QED
  BY <1>1, <1>2, <1>4, <1>5, <1>7 DEF A, D, k, q

\* DIV is exact and fails when the quotient has no room.
LEMMA Divides ==
    ASSUME NEW w \in Nat, NEW d \in 0 .. Pow2[w] - 1, NEW v \in Nat,
           NEW u, u = div(w, v, d)
    PROVE  /\ u.ok \in BOOLEAN
           /\ u.ok => u.q * d + u.r = v /\ u.r < d
           /\ ~u.ok <=> (d = 0 \/ v >= d * Pow2[w])
<1> DEFINE M == Pow2[w]
<1>1. M \in Nat /\ M > 0 /\ d \in Nat
  BY Powers
<1>2. CASE d = 0
  <2>1. u = DivideError
    BY <1>2 DEF div
  <2>2. u.ok = FALSE
    BY <2>1 DEF DivideError
  <2>3. QED
    BY <1>2, <2>2
<1>3. CASE d # 0
  <2> DEFINE q == v \div d
             r == v % d
  <2>1. q \in Nat /\ (q < M <=> v < d * M)
    BY <1>1, <1>3, QuotientBound
  <2>2. r \in 0 .. d - 1 /\ v = q * d + r
    <3>1. d \in Nat \ {0} /\ v \in Int
      BY <1>1, <1>3
    <3>2. QED
      BY <3>1, Divided
  <2>3. u = IF q > M - 1 THEN DivideError ELSE [ok |-> TRUE, q |-> q, r |-> r]
    BY <1>3 DEF div
  <2>4. d * M \in Int
    BY <1>1
  <2> HIDE DEF q, r, M
  <2>5. CASE q > M - 1
    <3>1. u.ok = FALSE
      BY <2>3, <2>5 DEF DivideError
    <3>2. ~(v < d * M)
      BY <1>1, <2>1, <2>5
    <3>3. v >= d * M
      BY <2>4, <3>2
    <3>4. QED
      BY <3>1, <3>3 DEF M
  <2>6. CASE ~(q > M - 1)
    <3>1. u.ok = TRUE /\ u.q = q /\ u.r = r
      BY <2>3, <2>6
    <3>2. v < d * M
      BY <1>1, <2>1, <2>6
    <3>3. ~(v >= d * M)
      BY <2>4, <3>2
    <3>4. u.q * d + u.r = v /\ u.r < d
      BY <1>1, <2>2, <3>1
    <3>5. QED
      BY <1>3, <3>1, <3>3, <3>4 DEF M
  <2>7. QED
    BY <2>5, <2>6
<1>4. QED
  BY <1>2, <1>3

\* DIV takes back what MUL has done.
LEMMA DividesProduct ==
    ASSUME NEW w \in Nat, w > 0, NEW g, NEW d \in 0 .. Pow2[w] - 1, d # 0, NEW q \in 0 .. Pow2[w] - 1,
           NEW p, p = mul(w, g, d, q)
    PROVE  div(w, (p.hi * Pow2[w]) + p.lo, d) = [ok |-> TRUE, q |-> q, r |-> 0]
<1> DEFINE M == Pow2[w]
           v == d * q
<1>1. M \in Nat \ {0} /\ d \in Nat \ {0} /\ q \in Nat /\ q < M
  BY Powers
<1>2. v \in Nat /\ v = q * d + 0
  BY <1>1
<1>3. p.hi = v \div M /\ p.lo = v % M
  BY DEF mul, Product
<1>4. (p.hi * M) + p.lo = v
  <2> HIDE DEF v, M
  <2>1. v = (v \div M) * M + (v % M)
    BY <1>1, <1>2, Divided
  <2>2. QED
    BY <1>3, <2>1
<1>5. v \div d = q /\ v % d = 0
  <2>1. 0 \in 0 .. d - 1
    BY <1>1
  <2>2. (q * d + 0) \div d = q /\ (q * d + 0) % d = 0
    BY <1>1, <2>1, Division
  <2>3. QED
    BY <1>2, <2>2
<1>6. ~(q > M - 1)
  BY <1>1
<1> HIDE DEF v, M
<1>7. div(w, v, d) = [ok |-> TRUE, q |-> q, r |-> 0]
  BY <1>5, <1>6 DEF div, M
<1>8. QED
  BY <1>4, <1>7 DEF M

\* IDIV is exact, rounds towards zero, and fails when the quotient or its
\* negative has no room.
LEMMA DividesSigned ==
    ASSUME NEW w \in Nat, w > 0, NEW y0 \in 0 .. Pow2[w] - 1, NEW v0 \in 0 .. Pow2[2 * w] - 1,
           NEW i, i = idiv(w, v0, y0)
    PROVE  LET v == Signed(2 * w, v0)
               d == Signed(w, y0)
               q == Signed(w, i.q)
               r == Signed(w, i.r)
           IN /\ i.ok \in BOOLEAN
              /\ i.ok => /\ q * d + r = v /\ Abs(r) < Abs(d)
                         /\ r # 0 => (r < 0 <=> v < 0)
              /\ ~i.ok <=> (y0 = 0 \/ Abs(v) >= Abs(d) * Pow2[w - 1])
<1> DEFINE H == Pow2[w - 1]
           M == Pow2[w]
           v == Signed(2 * w, v0)
           d == Signed(w, y0)
           k == Quot(v, d)
           e == v - k * d
           q == Signed(w, i.q)
           r == Signed(w, i.r)
<1>1. H \in Nat /\ H > 0 /\ M \in Nat /\ M = 2 * H
  BY Halves
<1>2. Pow2[2 * w - 1] = 2 * (H * H) /\ Pow2[2 * w] = 2 * Pow2[2 * w - 1] /\ H * H \in Nat
      /\ 2 * w \in Nat /\ 2 * w > 0
  <2>1. 2 * w \in Nat /\ 2 * w > 0 /\ 2 * w - 1 = (w - 1) + w /\ w - 1 \in Nat
    OBVIOUS
  <2>2. Pow2[2 * w - 1] = H * M
    BY <2>1, PowerOfSum
  <2>3. H * (2 * H) = 2 * (H * H) /\ H * H \in Nat
    BY <1>1
  <2>4. Pow2[2 * w] = 2 * Pow2[2 * w - 1]
    BY <2>1, Halves
  <2>5. QED
    BY <1>1, <2>1, <2>2, <2>3, <2>4
<1>3. /\ d \in Int /\ d >= -H /\ d < H
      /\ d = IF y0 >= H THEN y0 - M ELSE y0
  <2>1. d \in -H .. H - 1 /\ d = IF y0 >= H THEN y0 - M ELSE y0
    BY TopTells
  <2> HIDE DEF d, H
  <2>2. QED
    BY <1>1, <2>1
<1>4. v \in Int /\ v0 = Pow2[2 * w - 1] => Abs(v) = 2 * (H * H)
  <2>1. v = IF v0 >= Pow2[2 * w - 1] THEN v0 - Pow2[2 * w] ELSE v0
    BY <1>2, TopTells
  <2> HIDE DEF v, H
  <2>2. QED
    BY <1>2, <2>1 DEF Abs
<1>5. v \in Int
  <2>1. v = IF v0 >= Pow2[2 * w - 1] THEN v0 - Pow2[2 * w] ELSE v0
    BY <1>2, TopTells
  <2> HIDE DEF v, H
  <2>2. QED
    BY <1>2, <2>1
<1>6. d = 0 <=> y0 = 0
  <2> HIDE DEF d, H, M
  <2>1. y0 \in Int /\ y0 >= 0 /\ y0 < M
    BY <1>1 DEF M
  <2>2. QED
    BY <1>1, <1>3, <2>1
<1>7. i = IF y0 = 0 \/ v0 = Pow2[2 * w - 1] \/ k > H - 1 \/ k <= -H THEN DivideError
          ELSE [ok |-> TRUE, q |-> k % M, r |-> e % M]
  BY DEF idiv
<1>8. CASE y0 = 0
  <2>1. i.ok = FALSE
    BY <1>7, <1>8 DEF DivideError
  <2>2. QED
    BY <1>8, <2>1
<1>9. CASE y0 # 0
  <2> DEFINE A == Abs(v)
             D == Abs(d)
  <2>1. /\ A \in Nat /\ D \in Nat \ {0} /\ A \div D \in Nat /\ k \in Int /\ Abs(k) = A \div D
        /\ k * d \in Int /\ Abs(e) < D /\ (e # 0 => (e < 0 <=> v < 0))
    <3>1. d # 0
      BY <1>6, <1>9
    <3> HIDE DEF d, v
    <3>2. QED
      BY <1>3, <1>5, <3>1, Quotient
  <2>2. D <= H
    <3> HIDE DEF d, H
    <3>1. QED
      BY <1>1, <1>3 DEF Abs
  <2>3. Abs(k) < H <=> A < D * H
    <3> HIDE DEF A, D, k, H
    <3>1. QED
      BY <1>1, <2>1, QuotientBound
  <2>4. D * H \in Nat /\ D * H <= H * H /\ H * H < 2 * (H * H)
    <3> HIDE DEF D, H
    <3>1. D * H \in Nat /\ H * H \in Nat /\ H * H > 0
      BY <1>1, <2>1
    <3>2. D * H <= H * H
      BY <1>1, <2>1, <2>2, Monotone
    <3>3. QED
      BY <3>1, <3>2
  <2>5. Abs(k) < H <=> ~(k > H - 1 \/ k <= -H)
    <3> HIDE DEF k, H
    <3>1. QED
      BY <1>1, <2>1 DEF Abs
  <2>6. v0 = Pow2[2 * w - 1] => ~(A < D * H)
    <3> HIDE DEF D, H
    <3>1. v0 = Pow2[2 * w - 1] => A = 2 * (H * H)
      BY <1>4, <1>5
    <3> HIDE DEF A
    <3> DEFINE s == D * H
               t == H * H
    <3>2. s \in Nat /\ t \in Nat /\ s <= t /\ t < 2 * t
      BY <1>2, <2>4
    <3> HIDE DEF s, t
    <3>3. 2 * t \in Nat /\ ~(2 * t < s)
      BY <3>2
    <3>4. QED
      BY <3>1, <3>3 DEF s, t
  <2>7. CASE A < D * H
    <3>1. k > -H /\ k < H
      <4> HIDE DEF k, H
      <4>1. QED
        BY <1>1, <2>1, <2>3, <2>5, <2>7
    <3>2. i = [ok |-> TRUE, q |-> k % M, r |-> e % M]
      BY <1>7, <1>9, <2>3, <2>5, <2>6, <2>7, Zenon
    <3>3. i.ok = TRUE /\ i.q = k % M /\ i.r = e % M
      BY <3>2
    <3>4. q = k
      <4> HIDE DEF k
      <4>1. k \in -H .. H - 1
        BY <1>1, <2>1, <3>1
      <4>2. Signed(w, k % M) = k
        BY <4>1, SignedBack
      <4>3. QED
        BY <3>3, <4>2
    <3>5. r = e
      <4> HIDE DEF k, H, d, v, A, D
      <4>1. e \in Int
        BY <1>5, <2>1
      <4> HIDE DEF e
      <4>2. e \in -H .. H - 1
        BY <1>1, <2>1, <2>2, <4>1 DEF Abs
      <4>3. Signed(w, e % M) = e
        BY <4>2, SignedBack DEF H
      <4>4. QED
        BY <3>3, <4>3
    <3>6. q * d + r = v
      <4> HIDE DEF k, v, d
      <4>1. k * d + e = v
        BY <1>5, <2>1
      <4>2. QED
        BY <3>4, <3>5, <4>1
    <3>7. Abs(r) < Abs(d) /\ (r # 0 => (r < 0 <=> v < 0))
      BY <2>1, <3>5, Zenon
    <3>8. ~(A >= D * H)
      <4> HIDE DEF A, D, H
      <4>1. QED
        BY <2>1, <2>4, <2>7
    <3>9. QED
      BY <1>9, <3>3, <3>6, <3>7, <3>8, Zenon
  <2>8. CASE ~(A < D * H)
    <3>1. i = DivideError
      BY <1>7, <2>3, <2>5, <2>8, Zenon
    <3>2. i.ok = FALSE
      BY <3>1 DEF DivideError
    <3>3. A >= D * H
      <4> HIDE DEF A, D, H
      <4>1. QED
        BY <2>1, <2>4, <2>8
    <3>4. QED
      BY <3>2, <3>3
  <2>9. QED
    BY <2>7, <2>8
<1>10. QED
  BY <1>8, <1>9

\* The product of two signed words has room in a signed double word.
LEMMA ProductFits ==
    ASSUME NEW H \in Nat, NEW d \in Int, NEW e \in Int,
           d >= -H, d <= H, e >= -H, e <= H
    PROVE  d * e \in Int /\ H * H \in Nat /\ d * e >= -(H * H) /\ d * e <= H * H
<1>1. ASSUME NEW u \in 0 .. H, NEW v \in 0 .. H
      PROVE  u * v \in Nat /\ u * v <= H * H
  <2>1. u * v <= H * v /\ v * H <= H * H
    BY Monotone
  <2>2. u * v \in Nat /\ H * v \in Nat /\ v * H = H * v /\ H * H \in Nat
    OBVIOUS
  <2>3. QED
    BY <2>1, <2>2
<1> DEFINE u == IF d < 0 THEN -d ELSE d
           v == IF e < 0 THEN -e ELSE e
<1>2. u \in 0 .. H /\ v \in 0 .. H /\ (d = u \/ d = -u) /\ (e = v \/ e = -v)
  OBVIOUS
<1> HIDE DEF u, v
<1>3. u * v \in Nat /\ u * v <= H * H
  BY <1>1, <1>2
<1>4. d * e = u * v \/ d * e = -(u * v)
  <2>1. (-u) * v = -(u * v) /\ u * (-v) = -(u * v) /\ (-u) * (-v) = u * v
    BY <1>2
  <2>2. QED
    BY <1>2, <2>1, Zenon
<1>5. d * e \in Int /\ H * H \in Nat
  OBVIOUS
<1> DEFINE p == d * e
           s == u * v
           t == H * H
<1>6. p \in Int /\ s \in Nat /\ t \in Nat /\ s <= t /\ (p = s \/ p = -s)
  BY <1>3, <1>4, <1>5
<1> HIDE DEF p, s, t
<1>7. p >= -t /\ p <= t
  BY <1>6
<1>8. QED
  BY <1>5, <1>7 DEF p, t

\* IMUL is signed multiplication, and carry tells when the high half says
\* more than the sign of the low one.
LEMMA MultipliesSigned ==
    ASSUME NEW w \in Nat, w > 0, NEW g \in Flags,
           NEW x0 \in 0 .. Pow2[w] - 1, NEW y0 \in 0 .. Pow2[w] - 1,
           NEW p, p = imul(w, g, x0, y0)
    PROVE  LET v == Signed(w, x0) * Signed(w, y0)
           IN /\ Signed(2 * w, p.hi * Pow2[w] + p.lo) = v
              /\ p.f.c = 0 <=> v \in -Pow2[w - 1] .. Pow2[w - 1] - 1
<1> DEFINE H == Pow2[w - 1]
           M == Pow2[w]
           N == Pow2[2 * w]
           d == Signed(w, x0)
           e == Signed(w, y0)
           v == d * e
           u == v % N
<1>1. H \in Nat /\ H > 0 /\ M \in Nat \ {0} /\ M = 2 * H
  BY Halves
<1>2. /\ 2 * w \in Nat /\ 2 * w > 0 /\ N = M * M /\ N \in Nat \ {0}
      /\ Pow2[2 * w - 1] = 2 * (H * H)
  <2>1. 2 * w \in Nat /\ 2 * w > 0 /\ 2 * w - 1 = (w - 1) + w /\ w - 1 \in Nat /\ 2 * w = w + w
    OBVIOUS
  <2>2. Pow2[2 * w - 1] = H * M /\ N = M * M
    BY <2>1, PowerOfSum
  <2>3. H * (2 * H) = 2 * (H * H)
    BY <1>1
  <2>4. N \in Nat \ {0}
    BY <2>1, Powers
  <2>5. QED
    BY <1>1, <2>1, <2>2, <2>3, <2>4
<1>3. /\ d \in Int /\ d >= -H /\ d <= H
      /\ e \in Int /\ e >= -H /\ e <= H
  <2>1. d \in -H .. H - 1 /\ e \in -H .. H - 1
    BY TopTells
  <2> HIDE DEF d, e, H
  <2>2. QED
    BY <1>1, <2>1
<1>4. v \in Int /\ v >= -(H * H) /\ v <= H * H /\ H * H \in Nat
  <2> HIDE DEF d, e, H
  <2>1. QED
    BY <1>1, <1>3, ProductFits
<1>5. v \in -Pow2[2 * w - 1] .. Pow2[2 * w - 1] - 1
  <2>1. H * H > 0
    <3> HIDE DEF H
    <3>1. QED
      BY <1>1
  <2> DEFINE t == H * H
             b == Pow2[2 * w - 1]
  <2>2. t \in Nat /\ t > 0 /\ b = 2 * t /\ v \in Int /\ v >= -t /\ v <= t
    BY <1>2, <1>4, <2>1
  <2> HIDE DEF t, b, v
  <2>3. QED
    BY <2>2 DEF b
<1>6. Signed(2 * w, u) = v /\ u \in 0 .. N - 1
  <2> HIDE DEF v
  <2>1. QED
    BY <1>2, <1>5, SignedBack
<1>7. p.hi = u \div M /\ p.lo = u % M /\ p.f = [g EXCEPT !.c = Flag(v # Signed(w, u % M)),
        !.o = Flag(v # Signed(w, u % M)), !.p = parity_even(u \div M), !.s = Top(w, u \div M),
        !.z = Flag(u \div M = 0)]
  BY DEF imul, Product
<1>8. p.hi * M + p.lo = u
  <2> HIDE DEF u, M
  <2>1. u \in Int
    BY <1>2, <1>6
  <2>2. u = (u \div M) * M + (u % M)
    BY <1>1, <2>1, Divided
  <2>3. QED
    BY <1>7, <2>2
<1>9. u % M = v % M
  <2> HIDE DEF v, M
  <2>1. (v % (M * M)) % M = v % M
    BY <1>1, <1>4, Remainders
  <2>2. QED
    BY <1>2, <2>1
<1>10. p.f.c = 0 <=> v = Signed(w, v % M)
  <2>1. p.f.c = Flag(v # Signed(w, u % M))
    BY <1>7 DEF Flags
  <2> HIDE DEF u, v, M
  <2>2. QED
    BY <1>9, <2>1 DEF Flag
<1>11. v = Signed(w, v % M) <=> v \in -H .. H - 1
  <2> HIDE DEF v
  <2>1. v \in -H .. H - 1 => Signed(w, v % M) = v
    BY SignedBack
  <2>2. v % M \in 0 .. M - 1
    <3> HIDE DEF M
    <3>1. QED
      BY <1>1, <1>4, Divided
  <2>3. Signed(w, v % M) \in -H .. H - 1
    BY <2>2, TopTells
  <2>4. QED
    BY <2>1, <2>3
<1>12. QED
  BY <1>6, <1>8, <1>10, <1>11

\* For every even width from four bits on and all operands, MUL, IMUL, DIV and
\* IDIV are exact: a division leaves a remainder smaller than the divisor and
\* with the sign of the dividend, reports a divide error exactly when the
\* quotient has no room, and undoes multiplication (i8088_mul_8,
\* i8088_imul_8, i8088_div_8, i8088_idiv_8 and their word forms).
THEOREM ProductsAndQuotients == InputSpec => []MultiplyAndDivide
<1>1. InputTypeOK => DivisionIsExact
  <2> SUFFICES ASSUME InputTypeOK, NEW low \in 0 .. Pow2[W] - 1
      PROVE  LET v == y * Pow2[W] + low
                 u == div(W, v, x)
                 i == idiv(W, v, x)
                 q == Signed(W, i.q)
                 r == Signed(W, i.r)
                 sv == Signed(2 * W, v)
                 sx == Signed(W, x)
                 p == mul(W, f, x, low)
             IN /\ u.ok => u.q * x + u.r = v /\ u.r < x
                /\ ~u.ok <=> x = 0 \/ v >= x * Pow2[W]
                /\ i.ok => /\ q * sx + r = sv /\ Abs(r) < Abs(sx)
                           /\ r # 0 => (r < 0) = (sv < 0)
                /\ ~i.ok <=> x = 0 \/ Abs(sv) >= Abs(sx) * Pow2[W - 1]
                /\ x # 0 => div(W, (p.hi * Pow2[W]) + p.lo, x) = [ok |-> TRUE, q |-> low, r |-> 0]
    BY DEF DivisionIsExact
  <2> DEFINE v == y * Pow2[W] + low
             u == div(W, v, x)
             i == idiv(W, v, x)
             r == Signed(W, i.r)
             sv == Signed(2 * W, v)
             p == mul(W, f, x, low)
  <2>1. W \in Nat /\ W > 0 /\ x \in 0 .. Pow2[W] - 1 /\ y \in 0 .. Pow2[W] - 1 /\ W + W = 2 * W
    BY Inputs
  <2>2. v \in 0 .. Pow2[2 * W] - 1
    BY <2>1, PairTop
  <2>3. v \in Nat
    <3>1. Pow2[2 * W] \in Nat
      BY <2>1, Powers
    <3> HIDE DEF v
    <3>2. QED
      BY <2>2, <3>1
  <2> HIDE DEF v
  <2>4. /\ u.ok => u.q * x + u.r = v /\ u.r < x
        /\ ~u.ok <=> x = 0 \/ v >= x * Pow2[W]
    <3> HIDE DEF u
    <3>1. u = div(W, v, x)
      BY DEF u
    <3>2. QED
      BY <2>1, <2>3, <3>1, Divides
  <2>5. /\ i.ok => /\ Signed(W, i.q) * Signed(W, x) + r = sv /\ Abs(r) < Abs(Signed(W, x))
                   /\ r # 0 => (r < 0 <=> sv < 0)
        /\ ~i.ok <=> x = 0 \/ Abs(sv) >= Abs(Signed(W, x)) * Pow2[W - 1]
    <3>1. i = idiv(W, v, x)
      BY DEF i
    <3> HIDE DEF i
    <3>2. QED
      BY <2>1, <2>2, <3>1, DividesSigned
  <2>6. (r < 0) = (sv < 0) <=> (r < 0 <=> sv < 0)
    <3>1. (r < 0) \in BOOLEAN /\ (sv < 0) \in BOOLEAN
      OBVIOUS
    <3>2. QED
      BY <3>1
  <2>7. x # 0 => div(W, (p.hi * Pow2[W]) + p.lo, x) = [ok |-> TRUE, q |-> low, r |-> 0]
    <3>1. p = mul(W, f, x, low)
      BY DEF p
    <3> HIDE DEF p
    <3>2. QED
      BY <2>1, <3>1, DividesProduct
  <2> DEFINE q == Signed(W, i.q)
             sx == Signed(W, x)
  <2>8. /\ i.ok => /\ q * sx + r = sv /\ Abs(r) < Abs(sx)
                   /\ r # 0 => (r < 0) = (sv < 0)
        /\ ~i.ok <=> x = 0 \/ Abs(sv) >= Abs(sx) * Pow2[W - 1]
    <3> HIDE DEF i, r, sv
    <3>1. QED
      BY <2>5, <2>6, Zenon
  <2> HIDE DEF u, i, r, sv, p, q, sx
  <2>9. QED
    BY <2>4, <2>7, <2>8, Zenon DEF u, i, r, sv, p, q, sx, v
<1>2. InputTypeOK => SignedProduct
  <2> SUFFICES ASSUME InputTypeOK PROVE SignedProduct
    OBVIOUS
  <2> DEFINE p == imul(W, f, x, y)
             v == Signed(W, x) * Signed(W, y)
  <2>1. /\ Signed(2 * W, p.hi * Pow2[W] + p.lo) = v
        /\ p.f.c = 0 <=> v \in -Pow2[W - 1] .. Pow2[W - 1] - 1
    <3>1. /\ W \in Nat /\ W > 0 /\ x \in 0 .. Pow2[W] - 1 /\ y \in 0 .. Pow2[W] - 1 /\ f \in Flags
          /\ p = imul(W, f, x, y)
      BY Inputs
    <3> HIDE DEF p
    <3>2. QED
      BY <3>1, MultipliesSigned
  <2> HIDE DEF p, v
  <2>2. (p.f.c = 0) = (v \in -Pow2[W - 1] .. Pow2[W - 1] - 1)
    <3>1. (p.f.c = 0) \in BOOLEAN /\ (v \in -Pow2[W - 1] .. Pow2[W - 1] - 1) \in BOOLEAN
      OBVIOUS
    <3>2. QED
      BY <2>1, <3>1
  <2>3. QED
    BY <2>1, <2>2 DEF SignedProduct, p, v
<1>3. InputTypeOK => MultiplyAndDivide
  BY <1>1, <1>2 DEF MultiplyAndDivide
<1>4. QED
  BY <1>3, InputsStay, PTL
-----------------------------------------------------------------------------
(* Multiples.                                                              *)

\* Adding a multiple of the divisor.
LEMMA AddMultiple ==
    ASSUME NEW d \in Nat \ {0}, NEW v \in Int, NEW q \in Int
    PROVE  (v + q * d) \div d = (v \div d) + q /\ (v + q * d) % d = v % d
<1> DEFINE p == v \div d
           r == v % d
<1>1. p \in Int /\ r \in 0 .. d - 1 /\ v = p * d + r
  BY Divided
<1> HIDE DEF p, r
<1>2. v + q * d = (p + q) * d + r
  <2>1. (p + q) * d = p * d + q * d /\ p * d \in Int /\ q * d \in Int /\ r \in Int
    BY <1>1
  <2>2. QED
    BY <1>1, <2>1
<1>3. ((p + q) * d + r) \div d = p + q /\ ((p + q) * d + r) % d = r
  BY <1>1, Division
<1>4. QED
  BY <1>2, <1>3 DEF p, r

\* Dividing twice.
LEMMA DividedTwice ==
    ASSUME NEW d \in Nat \ {0}, NEW e \in Nat \ {0}, NEW v \in Int
    PROVE  /\ d * e \in Nat \ {0}
           /\ (v \div d) \div e = v \div (d * e)
           /\ (v % (d * e)) \div d = (v \div d) % e
<1> DEFINE q == v \div d
           r == v % d
           p == q \div e
           s == q % e
<1>1. d * e \in Nat \ {0}
  BY Monotone
<1>2. q \in Int /\ r \in 0 .. d - 1 /\ v = q * d + r
  BY Divided
<1>3. p \in Int /\ s \in 0 .. e - 1 /\ q = p * e + s
  <2> HIDE DEF q
  <2>1. QED
    BY <1>2, Divided
<1> HIDE DEF q, r, p, s
<1>4. v = p * (d * e) + (s * d + r)
  <2>1. (p * e + s) * d = p * (d * e) + s * d
    BY <1>2, <1>3
  <2>2. p * (d * e) \in Int /\ s * d \in Int /\ r \in Int
    BY <1>2, <1>3
  <2>3. v = (p * (d * e) + s * d) + r
    BY <1>2, <1>3, <2>1
  <2>4. QED
    BY <2>2, <2>3
<1>5. s * d + r \in 0 .. d * e - 1
  <2>1. s * d <= (e - 1) * d /\ 0 * d <= s * d
    BY <1>3, Monotone
  <2>2. (e - 1) * d = d * e - d /\ d * e \in Int /\ s * d \in Int /\ 0 * d = 0
    BY <1>3
  <2>3. QED
    BY <1>2, <2>1, <2>2
<1>6. v \div (d * e) = p /\ v % (d * e) = s * d + r
  <2> DEFINE n == d * e
             t == s * d + r
  <2>1. n \in Nat \ {0} /\ t \in 0 .. n - 1 /\ v = p * n + t
    BY <1>1, <1>4, <1>5
  <2> HIDE DEF n, t
  <2>2. (p * n + t) \div n = p /\ (p * n + t) % n = t
    BY <1>3, <2>1, Division
  <2>3. QED
    BY <2>1, <2>2 DEF n, t
<1>7. (s * d + r) \div d = s
  BY <1>2, <1>3, Division
<1>8. QED
  BY <1>1, <1>6, <1>7 DEF q, p, s

\* Dividing a multiple by a multiple.
LEMMA Cancelled ==
    ASSUME NEW d \in Nat \ {0}, NEW e \in Nat \ {0}, NEW v \in Int
    PROVE  (v * e) \div (d * e) = v \div d /\ (v * e) % (d * e) = (v % d) * e
<1> DEFINE q == v \div d
           r == v % d
           n == d * e
           t == r * e
<1>1. q \in Int /\ r \in 0 .. d - 1 /\ v = q * d + r
  BY Divided
<1>2. n \in Nat \ {0}
  BY Monotone
<1> HIDE DEF q, r
<1>3. v * e = q * n + t
  <2>1. (q * d + r) * e = q * (d * e) + r * e
    BY <1>1
  <2>2. QED
    BY <1>1, <2>1
<1>4. t \in 0 .. n - 1
  <2>1. 0 * e <= r * e /\ r * e <= (d - 1) * e
    BY <1>1, Monotone
  <2>2. (d - 1) * e = d * e - e /\ d * e \in Int /\ r * e \in Int /\ 0 * e = 0
    BY <1>1
  <2>3. QED
    BY <2>1, <2>2
<1> HIDE DEF n, t
<1>5. (q * n + t) \div n = q /\ (q * n + t) % n = t
  BY <1>1, <1>2, <1>4, Division
<1>6. (v * e) \div n = q /\ (v * e) % n = t
  BY <1>3, <1>5
<1>7. QED
  BY <1>6 DEF q, r, n, t

\* The remainder of a product needs the remainder of its factor only.
LEMMA ProductRemainder ==
    ASSUME NEW d \in Nat \ {0}, NEW v \in Int, NEW e \in Int
    PROVE  ((v % d) * e) % d = (v * e) % d
<1> DEFINE q == v \div d
           r == v % d
<1>1. q \in Int /\ r \in 0 .. d - 1 /\ v = q * d + r
  BY Divided
<1> HIDE DEF q, r
<1>2. v * e = r * e + (q * e) * d
  <2>1. (q * d + r) * e = r * e + (q * e) * d
    BY <1>1
  <2>2. QED
    BY <1>1, <2>1
<1>3. r * e \in Int /\ q * e \in Int
  BY <1>1
<1>4. (r * e + (q * e) * d) % d = (r * e) % d
  BY <1>3, AddMultiple
<1>5. QED
  BY <1>2, <1>4 DEF r
-----------------------------------------------------------------------------
(* Rotating a number of n bits.                                            *)

\* The rows of numbers in which each is the one before with its top bit
\* brought round to the bottom.
Rotated(g, n) ==
    /\ g \in [Nat -> 0 .. Pow2[n] - 1]
    /\ \A k \in Nat : g[k + 1] = 2 * (g[k] % Pow2[n - 1]) + (g[k] \div Pow2[n - 1])

\* DividedTwice and ProductRemainder for the number two, stated apart because the
\* provers rewrite what they see divided by a numeral.
LEMMA DividedByTwo ==
    ASSUME NEW d \in Nat \ {0}, NEW v \in Int
    PROVE  (v \div d) \div 2 = v \div (d * 2)
<1> DEFINE two == 2
<1>1. two \in Nat \ {0}
  OBVIOUS
<1> HIDE DEF two
<1>2. (v \div d) \div two = v \div (d * two)
  BY <1>1, DividedTwice
<1>3. QED
  BY <1>2 DEF two

\* The digit above a remainder.
LEMMA ModuloTwo ==
    ASSUME NEW d \in Nat \ {0}, NEW v \in Int
    PROVE  (v % (d * 2)) \div d = (v \div d) % 2
<1> DEFINE two == 2
<1>1. two \in Nat \ {0}
  OBVIOUS
<1> HIDE DEF two
<1>2. (v % (d * two)) \div d = (v \div d) % two
  BY <1>1, DividedTwice
<1>3. QED
  BY <1>2 DEF two

\* A multiple of a remainder has the remainder of the multiple.
LEMMA TwiceRemainder ==
    ASSUME NEW d \in Nat \ {0}, NEW v \in Int
    PROVE  ((v % d) * 2) % d = (v * 2) % d
<1> DEFINE two == 2
<1>1. two \in Int
  OBVIOUS
<1> HIDE DEF two
<1>2. ((v % d) * two) % d = (v * two) % d
  BY <1>1, ProductRemainder
<1>3. QED
  BY <1>2 DEF two

\* One step: the number z stands with its n - k lower bits moved up by k
\* and its k upper ones below them. d has the value of the next top bit, e
\* that of the lowest moved one.
LEMMA RotatedOnce ==
    ASSUME NEW d \in Nat \ {0}, NEW e \in Nat \ {0}, NEW z \in 0 .. (2 * d) * e - 1,
           NEW u, u = (z % (2 * d)) * e + (z \div (2 * d))
    PROVE  2 * (u % (d * e)) + (u \div (d * e)) = (z % d) * (2 * e) + (z \div d)
<1> DEFINE q == z \div d
           r == z % d
           p == q \div 2
           t == q % 2
           n == d * e
           s == r * e + p
<1>0. z \in Nat /\ 2 * d \in Nat \ {0} /\ (2 * d) * e = 2 * (d * e) /\ d * e \in Nat \ {0}
  <2>1. 2 * d \in Nat \ {0} /\ (2 * d) * e = 2 * (d * e)
    OBVIOUS
  <2>2. d * e \in Nat \ {0}
    BY DividedTwice
  <2>3. QED
    BY <2>1, <2>2
<1>1. q \in Int /\ r \in 0 .. d - 1 /\ z = q * d + r
  BY <1>0, Divided
<1>2. p \in Int /\ t \in 0 .. 1 /\ q = 2 * p + t
  <2> HIDE DEF q
  <2>1. QED
    BY <1>1
<1>3. z \div (2 * d) = p /\ z % (2 * d) = t * d + r
  <2>1. 2 * d = d * 2
    OBVIOUS
  <2>2. z \div (d * 2) = p
    <3>1. z \in Int
      BY <1>0
    <3>2. QED
      BY <3>1, DividedByTwo
  <2> HIDE DEF q, r, p, t
  <2>3. z = p * (2 * d) + (t * d + r)
    <3>1. (2 * p + t) * d = p * (2 * d) + t * d /\ p * (2 * d) \in Int /\ t * d \in Int
      BY <1>2
    <3>2. QED
      BY <1>1, <1>2, <3>1
  <2>4. t * d + r \in 0 .. 2 * d - 1
    <3>1. t = 0 \/ t = 1
      BY <1>2
    <3>2. t * d = 0 \/ t * d = d
      BY <3>1
    <3>3. QED
      BY <1>1, <3>2
  <2>5. (p * (2 * d) + (t * d + r)) % (2 * d) = t * d + r
    <3> DEFINE k == 2 * d
               b == t * d + r
    <3>1. k \in Nat \ {0} /\ b \in 0 .. k - 1
      BY <1>0, <2>4
    <3> HIDE DEF k, b
    <3>2. (p * k + b) % k = b
      BY <1>2, <3>1, Division
    <3>3. QED
      BY <3>2 DEF k, b
  <2>6. QED
    BY <2>1, <2>2, <2>3, <2>5
<1>4. p \in 0 .. e - 1
  <2>1. z \div (2 * d) \in Nat
    BY <1>0, QuotientBound
  <2>2. z < (2 * d) * e
    <3>1. (2 * d) * e \in Nat
      BY <1>0
    <3>2. QED
      BY <3>1
  <2>3. z \div (2 * d) < e
    BY <1>0, <2>2, QuotientBound
  <2> HIDE DEF p
  <2>4. QED
    BY <1>3, <2>1, <2>3
<1> HIDE DEF q, r, p, t
<1>5. u = t * n + s
  <2>1. u = (t * d + r) * e + p
    BY <1>3
  <2>2. (t * d + r) * e = t * (d * e) + r * e /\ t * (d * e) \in Int /\ r * e \in Int
    BY <1>1, <1>2
  <2>3. QED
    BY <1>2, <2>1, <2>2
<1>6. s \in 0 .. n - 1
  <2>1. 0 * e <= r * e /\ r * e <= (d - 1) * e
    BY <1>1, Monotone
  <2>2. (d - 1) * e = d * e - e /\ r * e \in Int /\ 0 * e = 0
    BY <1>1
  <2>3. QED
    BY <1>0, <1>4, <2>1, <2>2
<1> HIDE DEF n, s
<1>7. u \div n = t /\ u % n = s
  <2>1. n \in Nat \ {0}
    BY <1>0 DEF n
  <2>2. (t * n + s) \div n = t /\ (t * n + s) % n = s
    BY <1>2, <1>6, <2>1, Division
  <2>3. QED
    BY <1>5, <2>2
<1>8. 2 * s + t = r * (2 * e) + q
  <2>1. 2 * (r * e) = r * (2 * e) /\ r * e \in Int
    BY <1>1
  <2>2. 2 * s + t = 2 * (r * e) + 2 * p + t
    BY <1>2, <2>1 DEF s
  <2>3. QED
    BY <1>1, <1>2, <2>1, <2>2
<1>9. QED
  BY <1>7, <1>8 DEF n, q, r

\* k steps of rotation.
LEMMA Rotation ==
    ASSUME NEW n \in Nat \ {0}, NEW g, Rotated(g, n)
    PROVE  \A k \in 0 .. n :
             g[k] = (g[0] % Pow2[n - k]) * Pow2[k] + (g[0] \div Pow2[n - k])
<1> DEFINE z == g[0]
           T == {k \in Nat : k <= n => g[k] = (z % Pow2[n - k]) * Pow2[k] + (z \div Pow2[n - k])}
<1>1. z \in 0 .. Pow2[n] - 1
  BY DEF Rotated
<1>2. 0 \in T
  <2>1. Pow2[n] \in Nat \ {0} /\ Pow2[0] = 1 /\ n - 0 = n
    BY Powers
  <2>2. 0 * Pow2[n] + z = z
    BY <1>1, <2>1
  <2>3. z \div Pow2[n] = 0 /\ z % Pow2[n] = z
    <3> DEFINE N == Pow2[n]
    <3>1. N \in Nat \ {0} /\ z \in 0 .. N - 1 /\ 0 * N + z = z
      BY <1>1, <2>1, <2>2
    <3> HIDE DEF z, N
    <3>2. (0 * N + z) \div N = 0 /\ (0 * N + z) % N = z
      BY <3>1, Division
    <3>3. QED
      BY <3>1, <3>2 DEF N
  <2>4. z = z * 1 + 0
    BY <1>1, <2>1
  <2>5. QED
    BY <2>1, <2>3, <2>4
<1>3. ASSUME NEW k \in Nat, k \in T, k + 1 <= n
      PROVE  g[k + 1] = (z % Pow2[n - (k + 1)]) * Pow2[k + 1] + (z \div Pow2[n - (k + 1)])
  <2> DEFINE d == Pow2[n - (k + 1)]
             e == Pow2[k]
  <2>1. n - (k + 1) \in Nat /\ n - k = (n - (k + 1)) + 1 /\ n - 1 = (n - (k + 1)) + k
        /\ n = ((n - (k + 1)) + 1) + k /\ k <= n /\ (n - (k + 1)) + 1 \in Nat
    BY <1>3
  <2>2. /\ d \in Nat \ {0} /\ e \in Nat \ {0} /\ Pow2[n - k] = 2 * d /\ Pow2[k + 1] = 2 * e
    BY <2>1, Powers
  <2>3. Pow2[n - 1] = d * e
    BY <2>1, PowerOfSum
  <2>4. Pow2[n] = (2 * d) * e
    BY <2>1, <2>2, PowerOfSum
  <2>5. g[k] = (z % (2 * d)) * e + (z \div (2 * d))
    BY <1>3, <2>1, <2>2
  <2>6. g[k + 1] = 2 * (g[k] % (d * e)) + (g[k] \div (d * e))
    BY <2>3 DEF Rotated
  <2>7. 2 * (g[k] % (d * e)) + (g[k] \div (d * e)) = (z % d) * (2 * e) + (z \div d)
    <3>1. z \in 0 .. (2 * d) * e - 1 /\ d \in Nat \ {0} /\ e \in Nat \ {0}
      BY <1>1, <2>2, <2>4
    <3> DEFINE u == g[k]
    <3>2. u = (z % (2 * d)) * e + (z \div (2 * d))
      BY <2>5
    <3> HIDE DEF z, d, e, u
    <3>3. 2 * (u % (d * e)) + (u \div (d * e)) = (z % d) * (2 * e) + (z \div d)
      BY <3>1, <3>2, RotatedOnce, ZenonT(30)
    <3>4. QED
      BY <3>3 DEF u
  <2> HIDE DEF z, d, e
  <2>8. QED
    BY <2>2, <2>6, <2>7 DEF d
<1>4. \A k \in Nat : k \in T => k + 1 \in T
  <2> HIDE DEF z
  <2>1. QED
    BY <1>3
<1> HIDE DEF T
<1>5. Nat \subseteq T
  BY <1>2, <1>4, CountUp
<1>6. QED
  <2> HIDE DEF z
  <2>1. \A k \in 0 .. n : k \in Nat /\ k <= n
    OBVIOUS
  <2>2. QED
    BY <1>5, <2>1 DEF T, z

Period(g, p) == \A k \in Nat : g[p + k] = g[k]

\* After n steps every bit is back in its place.
LEMMA RotationPeriod ==
    ASSUME NEW n \in Nat \ {0}, NEW g, Rotated(g, n),
           NEW m \in Nat
    PROVE  Period(g, n) /\ Period(g, m * n)
<1> DEFINE z == g[0]
           T == {i \in Nat : g[i + n] = g[i]}
           U == {j \in Nat : \A i \in Nat : g[j * n + i] = g[i]}
<1>1. g[n] = z
  <2>1. g[n] = (z % Pow2[n - n]) * Pow2[n] + (z \div Pow2[n - n])
    BY Rotation
  <2>2. n - n = 0 /\ Pow2[0] = 1 /\ z \in Int /\ Pow2[n] \in Nat
    <3>1. z \in 0 .. Pow2[n] - 1 /\ Pow2[n] \in Nat
      BY Powers DEF Rotated
    <3> HIDE DEF z
    <3>2. QED
      BY <3>1, Powers
  <2> HIDE DEF z
  <2>3. z % 1 = 0 /\ z \div 1 = z
    BY <2>2
  <2>4. 0 * Pow2[n] + z = z
    BY <2>2
  <2>5. QED
    BY <2>1, <2>2, <2>3, <2>4
<1>2. 0 \in T
  BY <1>1
<1>3. ASSUME NEW i \in T PROVE i + 1 \in T
  <2>1. i \in Nat /\ i + n \in Nat /\ (i + n) + 1 = (i + 1) + n /\ g[i + n] = g[i]
    BY <1>3
  <2>2. g[(i + n) + 1] = 2 * (g[i + n] % Pow2[n - 1]) + (g[i + n] \div Pow2[n - 1])
    BY <2>1 DEF Rotated
  <2>3. g[i + 1] = 2 * (g[i] % Pow2[n - 1]) + (g[i] \div Pow2[n - 1])
    BY <2>1 DEF Rotated
  <2>4. g[(i + 1) + n] = g[i + 1]
    BY <2>1, <2>2, <2>3
  <2>5. QED
    BY <2>1, <2>4
<1>4. Nat \subseteq T
  <2> HIDE DEF T
  <2>1. QED
    BY <1>2, <1>3, CountUp
<1>5. \A i \in Nat : g[i + n] = g[i]
  BY <1>4
<1>6. 0 \in U
  <2>1. \A i \in Nat : 0 * n + i = i
    OBVIOUS
  <2>2. QED
    BY <2>1
<1>7. ASSUME NEW j \in U PROVE j + 1 \in U
  <2>1. j \in Nat /\ j * n \in Nat /\ (j + 1) * n = j * n + n
    <3>1. j \in Nat
      BY <1>7
    <3> HIDE DEF U
    <3>2. QED
      BY <3>1
  <2>2. ASSUME NEW i \in Nat PROVE g[(j + 1) * n + i] = g[i]
    <3>1. j * n + i \in Nat /\ (j + 1) * n + i = (j * n + i) + n
      <4> DEFINE p == j * n
      <4>1. p \in Nat /\ (j + 1) * n = p + n
        BY <2>1
      <4> HIDE DEF p, U
      <4>2. p + i \in Nat /\ (j + 1) * n + i = (p + i) + n
        BY <4>1
      <4>3. QED
        BY <4>2 DEF p
    <3>2. g[(j * n + i) + n] = g[j * n + i]
      BY <1>5, <3>1
    <3>3. g[j * n + i] = g[i]
      BY <1>7
    <3>4. QED
      BY <3>1, <3>2, <3>3
  <2>3. QED
    BY <2>1, <2>2
<1>8. Nat \subseteq U
  <2> HIDE DEF U
  <2>1. QED
    BY <1>6, <1>7, CountUp
<1>9. QED
  <2>1. m \in U /\ \A k \in Nat : n + k = k + n
    BY <1>8
  <2>2. Period(g, n)
    BY <1>5, <2>1 DEF Period
  <2>3. Period(g, m * n)
    BY <2>1 DEF Period
  <2>4. QED
    BY <2>2, <2>3

\* A rotation by any count is that by its remainder.
LEMMA RotationRemainder ==
    ASSUME NEW n \in Nat \ {0}, NEW g, Rotated(g, n), NEW k \in Nat
    PROVE  /\ k % n \in 0 .. n - 1
           /\ g[k] = (g[0] % Pow2[n - (k % n)]) * Pow2[k % n] + (g[0] \div Pow2[n - (k % n)])
<1> DEFINE m == k \div n
           r == k % n
<1>1. m \in Nat /\ r \in 0 .. n - 1 /\ k = m * n + r
  <2>1. m \in Nat
    BY QuotientBound
  <2>2. QED
    BY <2>1, Divided
<1>2. r \in Nat /\ r \in 0 .. n
  <2> HIDE DEF r
  <2>1. QED
    BY <1>1
<1> HIDE DEF m, r
<1>3. g[k] = g[r]
  <2> DEFINE t == m * n
  <2>1. t \in Nat /\ t = m * n /\ k = t + r
    BY <1>1
  <2> HIDE DEF t
  <2>2. m \in Nat /\ r \in Nat
    BY <1>1, <1>2
  <2>3. Period(g, m * n)
    BY <2>2, RotationPeriod
  <2>4. Period(g, t)
    BY <2>1, <2>3
  <2>5. g[t + r] = g[r]
    BY <2>1, <2>2, <2>4 DEF Period
  <2>6. QED
    BY <2>1, <2>5
<1>4. g[r] = (g[0] % Pow2[n - r]) * Pow2[r] + (g[0] \div Pow2[n - r])
  BY <1>2, Rotation
<1>5. QED
  BY <1>1, <1>3, <1>4 DEF r
-----------------------------------------------------------------------------
(* One step of the rotates and shifts.                                     *)

\* To the left: what the pair stands for is doubled, with the new bit below.
LEMMA LeftStep ==
    ASSUME NEW w \in Nat, w > 0, NEW v \in Pairs(w), NEW in \in 0 .. 1,
           NEW u, u = Left(w, v, in)
    PROVE  /\ u \in Pairs(w)
           /\ u.c = v.x \div Pow2[w - 1] /\ u.c = Top(w, v.x)
           /\ u.c * Pow2[w] + u.x = 2 * v.x + in
           /\ u.x = 2 * (v.x % Pow2[w - 1]) + in
           /\ u.x % 2 = in
<1> DEFINE H == Pow2[w - 1]
           M == Pow2[w]
           q == v.x \div H
           r == v.x % H
<1>1. H \in Nat \ {0} /\ M = 2 * H /\ M \in Nat \ {0}
  BY Halves
<1>2. v.x \in 0 .. M - 1 /\ v.x \in Nat /\ v.x < H * 2
  <2>1. v.x \in 0 .. M - 1
    BY DEF Pairs
  <2> HIDE DEF H, M
  <2>2. QED
    BY <1>1, <2>1
<1>3. q \in 0 .. 1 /\ r \in 0 .. H - 1 /\ v.x = q * H + r
  <2>1. r \in 0 .. H - 1 /\ v.x = q * H + r
    <3> HIDE DEF H
    <3>1. v.x \in Int
      BY <1>2
    <3>2. QED
      BY <1>1, <3>1, Divided
  <2>2. q \in Nat /\ q < 2
    BY <1>1, <1>2, QuotientBound
  <2> HIDE DEF q, r, H
  <2>3. QED
    BY <2>1, <2>2
<1>4. u.x = ((v.x * 2) % M) + in /\ u.c = Top(w, v.x)
  BY DEF Left
<1>5. u.c = q
  <2>1. Top(w, v.x) = q % 2
    BY DEF Top, Bit
  <2> HIDE DEF q
  <2>2. QED
    BY <1>3, <1>4, <2>1
<1> HIDE DEF H, M, q, r
<1>6. v.x * 2 = q * M + 2 * r /\ 2 * r \in 0 .. M - 1
  <2>1. q = 0 \/ q = 1
    BY <1>3
  <2>2. q * H \in Int /\ q * M = 2 * (q * H)
    BY <1>1, <2>1
  <2>3. QED
    BY <1>1, <1>2, <1>3, <2>2
<1>7. (v.x * 2) % M = 2 * r
  <2> DEFINE s == 2 * r
  <2>1. q \in Int /\ s \in 0 .. M - 1
    BY <1>3, <1>6
  <2> HIDE DEF s
  <2>2. (q * M + s) % M = s
    BY <1>1, <2>1, Division
  <2>3. QED
    BY <1>6, <2>2 DEF s
<1>8. u.x = 2 * r + in /\ u.x \in 0 .. M - 1
  <2>1. u.x = 2 * r + in
    BY <1>4, <1>7
  <2>2. QED
    BY <1>1, <1>3, <2>1
<1>9. u.x % 2 = in
  BY <1>3, <1>8
<1>10. u.c * M + u.x = 2 * v.x + in
  <2>1. q * M \in Int
    BY <1>1, <1>3
  <2>2. QED
    BY <1>2, <1>3, <1>5, <1>6, <1>8, <2>1
<1>11. u \in Pairs(w)
  <2>1. u = [x |-> u.x, c |-> u.c]
    BY DEF Left
  <2>2. u.x \in 0 .. Pow2[w] - 1 /\ u.c \in 0 .. 1
    BY <1>3, <1>5, <1>8 DEF M
  <2>3. QED
    BY <2>1, <2>2 DEF Pairs
<1>12. QED
  BY <1>4, <1>5, <1>8, <1>9, <1>10, <1>11 DEF q, r, H, M

\* To the right: the new bit stands above, the one below goes to the carry.
LEMMA RightStep ==
    ASSUME NEW w \in Nat, w > 0, NEW v \in Pairs(w), NEW in \in 0 .. 1,
           NEW u, u = Right(w, v, in)
    PROVE  /\ u \in Pairs(w)
           /\ u.c = v.x % 2
           /\ u.x = (v.x \div 2) + in * Pow2[w - 1]
           /\ 2 * u.x + u.c = in * Pow2[w] + v.x
<1> DEFINE H == Pow2[w - 1]
           M == Pow2[w]
<1>1. H \in Nat \ {0} /\ M = 2 * H /\ M \in Nat \ {0}
  BY Halves
<1>2. v.x \in 0 .. M - 1
  BY DEF Pairs
<1>3. u.x = (v.x \div 2) + in * H /\ u.c = v.x % 2 /\ u = [x |-> u.x, c |-> u.c]
  BY DEF Right
<1> HIDE DEF H, M
<1>4. in * H \in Int /\ in * M = 2 * (in * H) /\ (in * H = 0 \/ in * H = H)
  <2>1. in = 0 \/ in = 1
    OBVIOUS
  <2>2. QED
    BY <1>1, <2>1
<1>5. u.x \in 0 .. M - 1 /\ u.c \in 0 .. 1 /\ 2 * u.x + u.c = in * M + v.x
  <2> DEFINE p == in * H
  <2>1. p \in Int /\ in * M = 2 * p /\ (p = 0 \/ p = H) /\ u.x = (v.x \div 2) + p
    BY <1>3, <1>4
  <2> HIDE DEF p
  <2>2. QED
    BY <1>1, <1>2, <1>3, <2>1
<1>6. u \in Pairs(w)
  BY <1>3, <1>5 DEF Pairs, M
<1>7. QED
  BY <1>3, <1>5, <1>6 DEF H, M

\* The pair after k steps of each instruction.
ShiftsLeft(w, v, k) == Repeated([u \in Pairs(w) |-> Left(w, u, 0)], v, k)  \* SHL
ShiftsRight(w, v, k) == Repeated([u \in Pairs(w) |-> Right(w, u, 0)], v, k)  \* SHR
ShiftsSigned(w, x0, v, k) == Repeated([u \in Pairs(w) |-> Right(w, u, Top(w, x0))], v, k)  \* SAR on x0
TurnsLeft(w, v, k) == Repeated([u \in Pairs(w) |-> Left(w, u, u.c)], v, k)  \* RCL
TurnsRight(w, v, k) == Repeated([u \in Pairs(w) |-> Right(w, u, u.c)], v, k)  \* RCR
RoundsLeft(w, v, k) == Repeated([u \in Pairs(w) |-> Left(w, u, Top(w, u.x))], v, k)  \* ROL
RoundsRight(w, v, k) == Repeated([u \in Pairs(w) |-> Right(w, u, u.x % 2)], v, k)  \* ROR

\* Each step takes a pair to a pair.
LEMMA StepMaps ==
    ASSUME NEW w \in Nat, w > 0, NEW x0 \in Int
    PROVE  /\ [u \in Pairs(w) |-> Left(w, u, 0)] \in [Pairs(w) -> Pairs(w)]
           /\ [u \in Pairs(w) |-> Right(w, u, 0)] \in [Pairs(w) -> Pairs(w)]
           /\ [u \in Pairs(w) |-> Right(w, u, Top(w, x0))] \in [Pairs(w) -> Pairs(w)]
           /\ [u \in Pairs(w) |-> Left(w, u, u.c)] \in [Pairs(w) -> Pairs(w)]
           /\ [u \in Pairs(w) |-> Right(w, u, u.c)] \in [Pairs(w) -> Pairs(w)]
           /\ [u \in Pairs(w) |-> Left(w, u, Top(w, u.x))] \in [Pairs(w) -> Pairs(w)]
           /\ [u \in Pairs(w) |-> Right(w, u, u.x % 2)] \in [Pairs(w) -> Pairs(w)]
<1>1. ASSUME NEW u \in Pairs(w), NEW in \in 0 .. 1
      PROVE  Left(w, u, in) \in Pairs(w) /\ Right(w, u, in) \in Pairs(w)
  BY LeftStep, RightStep
<1>2. ASSUME NEW u \in Pairs(w)
      PROVE  u.c \in 0 .. 1 /\ Top(w, u.x) \in 0 .. 1 /\ u.x % 2 \in 0 .. 1
  <2>1. Pow2[w] \in Nat
    BY Powers
  <2>2. u.x \in 0 .. Pow2[w] - 1 /\ u.c \in 0 .. 1
    BY DEF Pairs
  <2>3. u.x \in Int /\ w - 1 \in Nat
    BY <2>1, <2>2
  <2>4. QED
    BY <2>2, <2>3, BitValue DEF Top
<1>3. Top(w, x0) \in 0 .. 1 /\ 0 \in 0 .. 1
  BY BitValue DEF Top
<1>4. QED
  BY <1>1, <1>2, <1>3

\* The steps of each instruction, count by count: RepeatedSteps for its step.
\* SHL moves zeros in from the right.
LEMMA ShiftLeftSteps ==
    ASSUME NEW w \in Nat, w > 0, NEW v \in Pairs(w)
    PROVE  /\ ShiftsLeft(w, v, 0) = v
           /\ \A k \in Nat : /\ ShiftsLeft(w, v, k) \in Pairs(w)
                             /\ ShiftsLeft(w, v, k + 1) = Left(w, ShiftsLeft(w, v, k), 0)
<1> DEFINE step == [u \in Pairs(w) |-> Left(w, u, 0)]
<1>1. step \in [Pairs(w) -> Pairs(w)]
  BY StepMaps
<1>2. \A u \in Pairs(w) : step[u] = Left(w, u, 0)
  OBVIOUS
<1>3. \A k \in Nat : ShiftsLeft(w, v, k) = Repeated(step, v, k)
  BY DEF ShiftsLeft
<1> HIDE DEF step
<1>4. /\ Repeated(step, v, 0) = v
      /\ \A k \in Nat : /\ Repeated(step, v, k) \in Pairs(w)
                        /\ Repeated(step, v, k + 1) = step[Repeated(step, v, k)]
  BY <1>1, RepeatedSteps
<1>5. \A k \in Nat : k + 1 \in Nat /\ 0 \in Nat
  OBVIOUS
<1>6. QED
  BY <1>2, <1>3, <1>4, <1>5

\* SHR moves zeros in from the left.
LEMMA ShiftRightSteps ==
    ASSUME NEW w \in Nat, w > 0, NEW v \in Pairs(w)
    PROVE  /\ ShiftsRight(w, v, 0) = v
           /\ \A k \in Nat : /\ ShiftsRight(w, v, k) \in Pairs(w)
                             /\ ShiftsRight(w, v, k + 1) = Right(w, ShiftsRight(w, v, k), 0)
<1> DEFINE step == [u \in Pairs(w) |-> Right(w, u, 0)]
<1>1. step \in [Pairs(w) -> Pairs(w)]
  BY StepMaps
<1>2. \A u \in Pairs(w) : step[u] = Right(w, u, 0)
  OBVIOUS
<1>3. \A k \in Nat : ShiftsRight(w, v, k) = Repeated(step, v, k)
  BY DEF ShiftsRight
<1> HIDE DEF step
<1>4. /\ Repeated(step, v, 0) = v
      /\ \A k \in Nat : /\ Repeated(step, v, k) \in Pairs(w)
                        /\ Repeated(step, v, k + 1) = step[Repeated(step, v, k)]
  BY <1>1, RepeatedSteps
<1>5. \A k \in Nat : k + 1 \in Nat /\ 0 \in Nat
  OBVIOUS
<1>6. QED
  BY <1>2, <1>3, <1>4, <1>5

\* SAR moves the sign in from the left.
LEMMA ShiftSignedSteps ==
    ASSUME NEW w \in Nat, w > 0, NEW x0 \in Int, NEW v \in Pairs(w)
    PROVE  /\ ShiftsSigned(w, x0, v, 0) = v
           /\ \A k \in Nat : /\ ShiftsSigned(w, x0, v, k) \in Pairs(w)
                             /\ ShiftsSigned(w, x0, v, k + 1) = Right(w, ShiftsSigned(w, x0, v, k), Top(w, x0))
<1> DEFINE step == [u \in Pairs(w) |-> Right(w, u, Top(w, x0))]
<1>1. step \in [Pairs(w) -> Pairs(w)]
  BY StepMaps
<1>2. \A u \in Pairs(w) : step[u] = Right(w, u, Top(w, x0))
  OBVIOUS
<1>3. \A k \in Nat : ShiftsSigned(w, x0, v, k) = Repeated(step, v, k)
  BY DEF ShiftsSigned
<1> HIDE DEF step
<1>4. /\ Repeated(step, v, 0) = v
      /\ \A k \in Nat : /\ Repeated(step, v, k) \in Pairs(w)
                        /\ Repeated(step, v, k + 1) = step[Repeated(step, v, k)]
  BY <1>1, RepeatedSteps
<1>5. \A k \in Nat : k + 1 \in Nat /\ 0 \in Nat
  OBVIOUS
<1>6. QED
  BY <1>2, <1>3, <1>4, <1>5

\* RCL moves the carry in from the right.
LEMMA TurnLeftSteps ==
    ASSUME NEW w \in Nat, w > 0, NEW v \in Pairs(w)
    PROVE  /\ TurnsLeft(w, v, 0) = v
           /\ \A k \in Nat : /\ TurnsLeft(w, v, k) \in Pairs(w)
                             /\ TurnsLeft(w, v, k + 1) = Left(w, TurnsLeft(w, v, k), TurnsLeft(w, v, k).c)
<1> DEFINE step == [u \in Pairs(w) |-> Left(w, u, u.c)]
<1>1. step \in [Pairs(w) -> Pairs(w)]
  BY StepMaps
<1>2. \A u \in Pairs(w) : step[u] = Left(w, u, u.c)
  OBVIOUS
<1>3. \A k \in Nat : TurnsLeft(w, v, k) = Repeated(step, v, k)
  BY DEF TurnsLeft
<1> HIDE DEF step
<1>4. /\ Repeated(step, v, 0) = v
      /\ \A k \in Nat : /\ Repeated(step, v, k) \in Pairs(w)
                        /\ Repeated(step, v, k + 1) = step[Repeated(step, v, k)]
  BY <1>1, RepeatedSteps
<1>5. \A k \in Nat : k + 1 \in Nat /\ 0 \in Nat
  OBVIOUS
<1>6. QED
  BY <1>2, <1>3, <1>4, <1>5

\* RCR moves the carry in from the left.
LEMMA TurnRightSteps ==
    ASSUME NEW w \in Nat, w > 0, NEW v \in Pairs(w)
    PROVE  /\ TurnsRight(w, v, 0) = v
           /\ \A k \in Nat : /\ TurnsRight(w, v, k) \in Pairs(w)
                             /\ TurnsRight(w, v, k + 1) = Right(w, TurnsRight(w, v, k), TurnsRight(w, v, k).c)
<1> DEFINE step == [u \in Pairs(w) |-> Right(w, u, u.c)]
<1>1. step \in [Pairs(w) -> Pairs(w)]
  BY StepMaps
<1>2. \A u \in Pairs(w) : step[u] = Right(w, u, u.c)
  OBVIOUS
<1>3. \A k \in Nat : TurnsRight(w, v, k) = Repeated(step, v, k)
  BY DEF TurnsRight
<1> HIDE DEF step
<1>4. /\ Repeated(step, v, 0) = v
      /\ \A k \in Nat : /\ Repeated(step, v, k) \in Pairs(w)
                        /\ Repeated(step, v, k + 1) = step[Repeated(step, v, k)]
  BY <1>1, RepeatedSteps
<1>5. \A k \in Nat : k + 1 \in Nat /\ 0 \in Nat
  OBVIOUS
<1>6. QED
  BY <1>2, <1>3, <1>4, <1>5

\* ROL moves the top bit in from the right.
LEMMA RoundLeftSteps ==
    ASSUME NEW w \in Nat, w > 0, NEW v \in Pairs(w)
    PROVE  /\ RoundsLeft(w, v, 0) = v
           /\ \A k \in Nat : /\ RoundsLeft(w, v, k) \in Pairs(w)
                             /\ RoundsLeft(w, v, k + 1) = Left(w, RoundsLeft(w, v, k), Top(w, RoundsLeft(w, v, k).x))
<1> DEFINE step == [u \in Pairs(w) |-> Left(w, u, Top(w, u.x))]
<1>1. step \in [Pairs(w) -> Pairs(w)]
  BY StepMaps
<1>2. \A u \in Pairs(w) : step[u] = Left(w, u, Top(w, u.x))
  OBVIOUS
<1>3. \A k \in Nat : RoundsLeft(w, v, k) = Repeated(step, v, k)
  BY DEF RoundsLeft
<1> HIDE DEF step
<1>4. /\ Repeated(step, v, 0) = v
      /\ \A k \in Nat : /\ Repeated(step, v, k) \in Pairs(w)
                        /\ Repeated(step, v, k + 1) = step[Repeated(step, v, k)]
  BY <1>1, RepeatedSteps
<1>5. \A k \in Nat : k + 1 \in Nat /\ 0 \in Nat
  OBVIOUS
<1>6. QED
  BY <1>2, <1>3, <1>4, <1>5

\* ROR moves the bottom bit in from the left.
LEMMA RoundRightSteps ==
    ASSUME NEW w \in Nat, w > 0, NEW v \in Pairs(w)
    PROVE  /\ RoundsRight(w, v, 0) = v
           /\ \A k \in Nat : /\ RoundsRight(w, v, k) \in Pairs(w)
                             /\ RoundsRight(w, v, k + 1) = Right(w, RoundsRight(w, v, k), RoundsRight(w, v, k).x % 2)
<1> DEFINE step == [u \in Pairs(w) |-> Right(w, u, u.x % 2)]
<1>1. step \in [Pairs(w) -> Pairs(w)]
  BY StepMaps
<1>2. \A u \in Pairs(w) : step[u] = Right(w, u, u.x % 2)
  OBVIOUS
<1>3. \A k \in Nat : RoundsRight(w, v, k) = Repeated(step, v, k)
  BY DEF RoundsRight
<1> HIDE DEF step
<1>4. /\ Repeated(step, v, 0) = v
      /\ \A k \in Nat : /\ Repeated(step, v, k) \in Pairs(w)
                        /\ Repeated(step, v, k + 1) = step[Repeated(step, v, k)]
  BY <1>1, RepeatedSteps
<1>5. \A k \in Nat : k + 1 \in Nat /\ 0 \in Nat
  OBVIOUS
<1>6. QED
  BY <1>2, <1>3, <1>4, <1>5
-----------------------------------------------------------------------------
(* Shifts by any count.                                                    *)

\* SHL multiplies.
LEMMA ShiftLeftScales ==
    ASSUME NEW w \in Nat, w > 0, NEW v \in Pairs(w)
    PROVE  \A k \in Nat : ShiftsLeft(w, v, k).x = (v.x * Pow2[k]) % Pow2[w]
<1> DEFINE M == Pow2[w]
           at(k) == ShiftsLeft(w, v, k)
           T == {k \in Nat : at(k).x = (v.x * Pow2[k]) % M}
<1>1. M \in Nat \ {0}
  BY Powers
<1>2. v.x \in 0 .. M - 1 /\ v.x \in Int
  <2>1. v.x \in 0 .. M - 1
    BY DEF Pairs
  <2> HIDE DEF M
  <2>2. QED
    BY <1>1, <2>1
<1>3. 0 \in T
  <2> DEFINE none == 0
             xx == v.x
  <2>1. at(0) = v /\ Pow2[0] = 1
    BY ShiftLeftSteps, Powers
  <2>2. none \in Int /\ xx \in 0 .. M - 1 /\ xx \in Int
    BY <1>2
  <2> HIDE DEF M, none, xx
  <2>3. (none * M + xx) % M = xx
    BY <1>1, <2>2, Division
  <2>4. xx * 1 = none * M + xx
    BY <1>1, <2>2 DEF none
  <2>5. QED
    BY <2>1, <2>3, <2>4 DEF xx
<1>4. ASSUME NEW k \in T PROVE k + 1 \in T
  <2>1. k \in Nat /\ k + 1 \in Nat /\ at(k).x = (v.x * Pow2[k]) % M
    BY <1>4
  <2>2. at(k + 1).x = ((at(k).x * 2) % M) + 0
    <3>1. at(k + 1) = Left(w, at(k), 0)
      BY <2>1, ShiftLeftSteps
    <3> HIDE DEF at, M
    <3>2. QED
      BY <3>1 DEF Left, M
  <2>3. Pow2[k + 1] = 2 * Pow2[k] /\ Pow2[k] \in Int
    BY <2>1, Powers
  <2> DEFINE p == v.x * Pow2[k]
  <2>4. p \in Int /\ v.x * Pow2[k + 1] = p * 2
    BY <1>2, <2>3
  <2> HIDE DEF p, at, M
  <2>5. ((p % M) * 2) % M = (p * 2) % M /\ ((p % M) * 2) % M \in 0 .. M - 1
    <3>1. ((p % M) * 2) % M = (p * 2) % M
      BY <1>1, <2>4, TwiceRemainder
    <3>2. (p * 2) % M \in 0 .. M - 1
      <4>1. p * 2 \in Int
        BY <2>4
      <4>2. QED
        BY <1>1, <4>1, Divided
    <3>3. QED
      BY <3>1, <3>2
  <2>6. at(k).x = p % M
    BY <2>1 DEF p
  <2>7. at(k + 1).x = (p * 2) % M
    BY <1>1, <2>2, <2>5, <2>6
  <2>8. QED
    BY <2>1, <2>4, <2>7
<1> HIDE DEF T
<1>5. Nat \subseteq T
  BY <1>3, <1>4, CountUp
<1>6. QED
  BY <1>5 DEF T

\* The carry of SHL is the last bit that left, and clear when there was none.
LEMMA ShiftLeftCarry ==
    ASSUME NEW w \in Nat, w > 0, NEW v \in Pairs(w), NEW k \in Nat
    PROVE  ShiftsLeft(w, v, k + 1).c = IF k + 1 <= w THEN Bit(v.x, w - (k + 1)) ELSE 0
<1> DEFINE H == Pow2[w - 1]
           M == Pow2[w]
           e == Pow2[k]
           p == v.x * e
           u == ShiftsLeft(w, v, k)
<1>1. H \in Nat \ {0} /\ M = 2 * H /\ M \in Nat \ {0} /\ e \in Nat \ {0}
  BY Halves, Powers
<1>2. v.x \in 0 .. M - 1 /\ v.x \in Int /\ p \in Int
  <2>1. v.x \in 0 .. M - 1
    BY DEF Pairs
  <2> HIDE DEF M, e
  <2>2. QED
    BY <1>1, <2>1
<1>3. u.x = p % M
  BY ShiftLeftScales
<1>4. ShiftsLeft(w, v, k + 1).c = (u.x \div H) % 2
  <2>1. ShiftsLeft(w, v, k + 1) = Left(w, u, 0)
    BY ShiftLeftSteps
  <2> HIDE DEF u
  <2>2. QED
    BY <2>1 DEF Left, Top, Bit
<1>5. CASE k + 1 <= w
  <2> DEFINE d == Pow2[w - (k + 1)]
  <2>1. H = d * e /\ d \in Nat \ {0}
    <3>1. w - 1 = (w - (k + 1)) + k /\ w - (k + 1) \in Nat
      BY <1>5
    <3>2. Pow2[(w - (k + 1)) + k] = d * e
      BY <3>1, PowerOfSum
    <3>3. d \in Nat \ {0}
      BY <3>1, Powers
    <3>4. QED
      BY <3>1, <3>2, <3>3
  <2>2. (p % M) \div H = (p \div H) % 2
    <3> HIDE DEF p, M, H
    <3>1. (p % (H * 2)) \div H = (p \div H) % 2
      BY <1>1, <1>2, ModuloTwo
    <3>2. H * 2 = M
      BY <1>1
    <3>3. QED
      BY <3>1, <3>2
  <2>3. p \div H = v.x \div d
    <3> HIDE DEF d, e, H
    <3>1. (v.x * e) \div (d * e) = v.x \div d
      BY <1>1, <1>2, <2>1, Cancelled
    <3>2. QED
      BY <2>1, <3>1
  <2>4. ((v.x \div d) % 2) % 2 = (v.x \div d) % 2
    <3>1. v.x \div d \in Int
      <4> HIDE DEF d
      <4>1. QED
        BY <1>2, <2>1, Divided
    <3> DEFINE b == v.x \div d
    <3> HIDE DEF b
    <3>2. b \in Int => (b % 2) % 2 = b % 2
      OBVIOUS
    <3>3. QED
      BY <3>1, <3>2 DEF b
  <2>5. ShiftsLeft(w, v, k + 1).c = (v.x \div d) % 2
    BY <1>3, <1>4, <2>2, <2>3, <2>4
  <2>6. QED
    BY <1>5, <2>5 DEF Bit
<1>6. CASE ~(k + 1 <= w)
  <2> DEFINE d == Pow2[k - w]
             n == v.x * d
  <2>1. e = d * M /\ d \in Int
    <3>1. k = (k - w) + w /\ k - w \in Nat
      BY <1>6
    <3>2. Pow2[(k - w) + w] = d * M
      BY <3>1, PowerOfSum
    <3>3. d \in Int
      BY <3>1, Powers
    <3>4. QED
      BY <3>1, <3>2, <3>3
  <2>2. p = n * M + 0 /\ n \in Int /\ 0 \in 0 .. M - 1
    <3> HIDE DEF d, M, e
    <3>1. v.x * (d * M) = (v.x * d) * M /\ v.x * d \in Int /\ v.x * (d * M) \in Int
      BY <1>1, <1>2, <2>1
    <3>2. QED
      BY <1>1, <2>1, <3>1
  <2>3. (n * M + 0) % M = 0
    <3> HIDE DEF n, M
    <3>1. QED
      BY <1>1, <2>2, Division
  <2>4. u.x = 0
    BY <1>3, <2>2, <2>3
  <2>5. (0 \div H) % 2 = 0
    <3> HIDE DEF H
    <3>1. 0 * H + 0 = 0 /\ 0 \in 0 .. H - 1
      BY <1>1
    <3>2. (0 * H + 0) \div H = 0
      BY <1>1, <3>1, Division
    <3>3. QED
      BY <3>1, <3>2
  <2>6. QED
    BY <1>4, <1>6, <2>4, <2>5
<1>7. QED
  BY <1>5, <1>6

\* SHR divides, and its carry is the last bit that left.
LEMMA ShiftRightScales ==
    ASSUME NEW w \in Nat, w > 0, NEW v \in Pairs(w)
    PROVE  \A k \in Nat : /\ ShiftsRight(w, v, k).x = v.x \div Pow2[k]
                          /\ ShiftsRight(w, v, k + 1).c = Bit(v.x, k)
<1> DEFINE at(k) == ShiftsRight(w, v, k)
           T == {k \in Nat : at(k).x = v.x \div Pow2[k]}
<1>1. v.x \in Int /\ Pow2[w - 1] \in Int
  <2>1. v.x \in 0 .. Pow2[w] - 1 /\ Pow2[w] \in Nat
    BY Powers DEF Pairs
  <2>2. Pow2[w - 1] \in Int
    BY Halves
  <2>3. QED
    BY <2>1, <2>2
<1>2. 0 \in T
  <2>1. at(0) = v /\ Pow2[0] = 1
    BY ShiftRightSteps, Powers
  <2>2. v.x \div 1 = v.x
    BY <1>1
  <2>3. QED
    BY <2>1, <2>2
<1>3. ASSUME NEW k \in Nat
      PROVE  at(k + 1).x = at(k).x \div 2 + 0 * Pow2[w - 1] /\ at(k + 1).c = at(k).x % 2
  <2>1. at(k + 1) = Right(w, at(k), 0)
    BY ShiftRightSteps
  <2> HIDE DEF at
  <2>2. QED
    BY <2>1 DEF Right
<1>4. ASSUME NEW k \in T PROVE k + 1 \in T
  <2>1. k \in Nat /\ k + 1 \in Nat /\ at(k).x = v.x \div Pow2[k]
    BY <1>4
  <2>2. Pow2[k + 1] = 2 * Pow2[k] /\ Pow2[k] \in Nat \ {0}
    BY <2>1, Powers
  <2> DEFINE d == Pow2[k]
             q == v.x \div d
  <2>3. at(k + 1).x = q \div 2 + 0 * Pow2[w - 1]
    BY <1>3, <2>1
  <2> HIDE DEF at, d
  <2>4. q \div 2 = v.x \div (d * 2) /\ q \in Int
    BY <1>1, <2>2, DividedByTwo, Divided DEF d
  <2>5. d * 2 = Pow2[k + 1]
    BY <2>2 DEF d
  <2>6. q \div 2 + 0 * Pow2[w - 1] = q \div 2
    <3> HIDE DEF q
    <3>1. QED
      BY <1>1, <2>4
  <2>7. at(k + 1).x = v.x \div Pow2[k + 1]
    BY <2>3, <2>4, <2>5, <2>6
  <2>8. QED
    BY <2>1, <2>7
<1>5. Nat \subseteq T
  <2> HIDE DEF T
  <2>1. QED
    BY <1>2, <1>4, CountUp
<1>6. QED
  <2>1. \A k \in Nat : at(k).x = v.x \div Pow2[k]
    BY <1>5
  <2>2. \A k \in Nat : at(k + 1).c = (v.x \div Pow2[k]) % 2
    <3> HIDE DEF at
    <3>1. QED
      BY <1>3, <2>1
  <2>3. QED
    BY <2>1, <2>2 DEF Bit

\* Division brings a number nearer to zero and keeps its sign.
LEMMA Shrinks ==
    ASSUME NEW d \in Nat \ {0}, NEW b \in Nat, NEW v \in -b .. b - 1
    PROVE  v \div d \in -b .. b - 1 /\ (v \div d < 0 <=> v < 0)
<1> DEFINE q == v \div d
           r == v % d
<1>1. q \in Int /\ r \in 0 .. d - 1 /\ v = q * d + r /\ q * d \in Int /\ v \in Int
  <2>1. v \in Int
    OBVIOUS
  <2>2. q \in Int /\ r \in 0 .. d - 1 /\ v = q * d + r
    BY <2>1, Divided
  <2>3. q * d \in Int
    BY <2>2
  <2>4. QED
    BY <2>1, <2>2, <2>3
<1> HIDE DEF q, r
<1>2. CASE v >= 0
  <2>1. q >= 0
    <3>1. v \div d \in Nat
      BY <1>2, QuotientBound
    <3>2. QED
      BY <3>1 DEF q
  <2>2. 1 * q <= d * q
    BY <1>1, <2>1, Monotone
  <2>3. 1 * q = q /\ d * q = q * d
    BY <1>1
  <2>4. q <= v
    BY <1>1, <2>2, <2>3
  <2>5. q \in -b .. b - 1 /\ (q < 0 <=> v < 0)
    BY <1>1, <1>2, <2>1, <2>4
  <2>6. QED
    BY <2>5 DEF q
<1>3. CASE v < 0
  <2>1. q < 0
    <3>1. ASSUME q >= 0 PROVE FALSE
      <4>1. 0 * d <= q * d /\ 0 * d = 0
        BY <1>1, <3>1, Monotone
      <4>2. QED
        BY <1>1, <1>3, <4>1
    <3>2. QED
      BY <1>1, <3>1
  <2> DEFINE n == -(q + 1)
  <2>2. n \in Nat /\ q = -n - 1
    BY <1>1, <2>1
  <2>3. 1 * n <= d * n /\ 1 * n = n
    BY <2>2, Monotone
  <2>4. (q + 1) * d = q * d + d /\ (q + 1) * d = -(d * n) /\ d * n \in Int
    BY <1>1
  <2> HIDE DEF n
  <2>5. v <= q
    BY <1>1, <2>2, <2>3, <2>4
  <2>6. q \in -b .. b - 1 /\ (q < 0 <=> v < 0)
    BY <1>1, <1>3, <2>1, <2>5
  <2>7. QED
    BY <2>6 DEF q
<1>4. QED
  BY <1>1, <1>2, <1>3

\* SAR divides the signed number and rounds down.
LEMMA ShiftSignedScales ==
    ASSUME NEW w \in Nat, w > 0, NEW v \in Pairs(w), NEW k \in Nat
    PROVE  /\ ShiftsSigned(w, v.x, v, k).x
                = (Signed(w, v.x) \div Pow2[k]) + Top(w, v.x) * Pow2[w]
           /\ Signed(w, ShiftsSigned(w, v.x, v, k).x) = Signed(w, v.x) \div Pow2[k]
<1> DEFINE H == Pow2[w - 1]
           M == Pow2[w]
           s == Signed(w, v.x)
           t == Top(w, v.x)
           at(i) == ShiftsSigned(w, v.x, v, i)
           T == {i \in Nat : at(i).x = (s \div Pow2[i]) + t * M}
<1>1. H \in Nat \ {0} /\ M = 2 * H /\ M \in Nat \ {0}
  BY Halves
<1>2. v.x \in 0 .. M - 1 /\ v.x \in Int
  <2>1. v.x \in 0 .. M - 1
    BY DEF Pairs
  <2> HIDE DEF M
  <2>2. QED
    BY <1>1, <2>1
<1>3. s \in -H .. H - 1 /\ s \in Int /\ t \in 0 .. 1 /\ v.x = s + t * M /\ (t = 1 <=> s < 0)
  <2>1. s \in -H .. H - 1 /\ t = Flag(v.x >= H) /\ s = (IF v.x >= H THEN v.x - M ELSE v.x) /\ t = Flag(s < 0)
    BY <1>2, TopTells
  <2> HIDE DEF H, M, s, t
  <2>2. t \in 0 .. 1 /\ (t = 1 <=> v.x >= H) /\ (t = 1 <=> s < 0)
    BY <2>1 DEF Flag
  <2>3. t * M = IF t = 1 THEN M ELSE 0
    BY <1>1, <2>2
  <2>4. QED
    BY <1>1, <1>2, <2>1, <2>2, <2>3
<1>4. 0 \in T
  <2>1. at(0) = v /\ Pow2[0] = 1
    BY <1>2, ShiftSignedSteps, Powers
  <2>2. s \div 1 = s
    <3> HIDE DEF s
    <3>1. QED
      BY <1>3
  <2>3. QED
    BY <1>3, <2>1, <2>2
<1>5. ASSUME NEW i \in T PROVE i + 1 \in T
  <2>1. i \in Nat /\ i + 1 \in Nat /\ at(i).x = (s \div Pow2[i]) + t * M
    BY <1>5
  <2>2. at(i + 1).x = (at(i).x \div 2) + t * H
    <3>1. at(i + 1) = Right(w, at(i), t)
      <4> DEFINE x0 == v.x
      <4>1. x0 \in Int
        BY <1>2
      <4> HIDE DEF x0
      <4>2. \A j \in Nat : /\ ShiftsSigned(w, x0, v, j) \in Pairs(w)
                           /\ ShiftsSigned(w, x0, v, j + 1)
                                = Right(w, ShiftsSigned(w, x0, v, j), Top(w, x0))
        BY <4>1, ShiftSignedSteps, ZenonT(30)
      <4>3. QED
        BY <2>1, <4>2 DEF x0
    <3> HIDE DEF at, t
    <3>2. QED
      BY <3>1 DEF Right, H
  <2>3. Pow2[i + 1] = 2 * Pow2[i] /\ Pow2[i] \in Nat \ {0}
    BY <2>1, Powers
  <2> DEFINE d == Pow2[i]
             q == s \div d
             p == t * H
  <2>4. q \in Int /\ q \div 2 = s \div (d * 2) /\ d * 2 = Pow2[i + 1]
    <3> HIDE DEF s
    <3>1. d \in Nat \ {0} /\ d * 2 = Pow2[i + 1]
      BY <2>3
    <3> HIDE DEF d
    <3>2. QED
      BY <1>3, <3>1, Divided, DividedByTwo
  <2>5. p \in Int /\ t * M = 2 * p
    <3> HIDE DEF t, H, M
    <3>1. t = 0 \/ t = 1
      BY <1>3
    <3>2. QED
      BY <1>1, <3>1
  <2>6. at(i).x = q + t * M
    BY <2>1
  <2> HIDE DEF q, p, at, t, M, H
  <2>7. (q + 2 * p) \div 2 + p = (q \div 2) + 2 * p
    BY <2>4, <2>5
  <2>8. at(i + 1).x = (q \div 2) + t * M
    BY <2>2, <2>5, <2>6, <2>7 DEF p
  <2>9. at(i + 1).x = (s \div Pow2[i + 1]) + t * M
    BY <2>4, <2>8
  <2>10. QED
    BY <2>1, <2>9 DEF at, t, M
<1>6. Nat \subseteq T
  <2> HIDE DEF T
  <2>1. QED
    BY <1>4, <1>5, CountUp
<1>7. at(k).x = (s \div Pow2[k]) + t * M
  BY <1>6
<1> DEFINE q == s \div Pow2[k]
           u == at(k).x
<1>8. q \in -H .. H - 1 /\ (q < 0 <=> s < 0)
  <2>1. Pow2[k] \in Nat \ {0}
    BY Powers
  <2> HIDE DEF s, H
  <2>2. QED
    BY <1>1, <1>3, <2>1, Shrinks
<1>9. Signed(w, u) = q
  <2>1. t * M = IF q < 0 THEN M ELSE 0
    <3> HIDE DEF t, M, q, s
    <3>1. QED
      BY <1>1, <1>3, <1>8
  <2>2. u = q + t * M
    BY <1>7
  <2> HIDE DEF t, q, u, M, H
  <2>3. u \in 0 .. M - 1 /\ (u >= H <=> q < 0)
    BY <1>1, <1>8, <2>1, <2>2
  <2>4. Signed(w, u) = IF u >= H THEN u - M ELSE u
    BY <2>3, TopTells DEF M, H
  <2>5. QED
    BY <1>1, <1>8, <2>1, <2>2, <2>3, <2>4
<1>10. QED
  BY <1>7, <1>9

\* The carry of SAR is the last bit that left, and the sign once all have.
LEMMA ShiftSignedCarry ==
    ASSUME NEW w \in Nat, w > 0, NEW v \in Pairs(w), NEW k \in Nat
    PROVE  ShiftsSigned(w, v.x, v, k + 1).c = IF k + 1 <= w THEN Bit(v.x, k) ELSE Top(w, v.x)
<1> DEFINE H == Pow2[w - 1]
           M == Pow2[w]
           d == Pow2[k]
           s == Signed(w, v.x)
           t == Top(w, v.x)
           q == s \div d
           u == ShiftsSigned(w, v.x, v, k)
<1>1. H \in Nat \ {0} /\ M = 2 * H /\ M \in Nat \ {0} /\ d \in Nat \ {0}
  BY Halves, Powers
<1>2. v.x \in 0 .. M - 1 /\ v.x \in Int
  <2>1. v.x \in 0 .. M - 1
    BY DEF Pairs
  <2> HIDE DEF M
  <2>2. QED
    BY <1>1, <2>1
<1>3. s \in -H .. H - 1 /\ s \in Int /\ t \in 0 .. 1 /\ v.x = s + t * M /\ (t = 1 <=> s < 0)
  <2>1. s \in -H .. H - 1 /\ t = Flag(v.x >= H) /\ s = (IF v.x >= H THEN v.x - M ELSE v.x) /\ t = Flag(s < 0)
    BY <1>2, TopTells
  <2> HIDE DEF H, M, s, t
  <2>2. t \in 0 .. 1 /\ (t = 1 <=> v.x >= H) /\ (t = 1 <=> s < 0)
    BY <2>1 DEF Flag
  <2>3. t * M = IF t = 1 THEN M ELSE 0
    BY <1>1, <2>2
  <2>4. QED
    BY <1>1, <1>2, <2>1, <2>2, <2>3
<1>4. q \in Int
  <2> HIDE DEF s, d
  <2>1. QED
    BY <1>1, <1>3, Divided
<1>5. ShiftsSigned(w, v.x, v, k + 1).c = u.x % 2
  <2> DEFINE x0 == v.x
  <2>1. x0 \in Int
    BY <1>2
  <2> HIDE DEF x0
  <2>2. \A j \in Nat : /\ ShiftsSigned(w, x0, v, j) \in Pairs(w)
                       /\ ShiftsSigned(w, x0, v, j + 1)
                            = Right(w, ShiftsSigned(w, x0, v, j), Top(w, x0))
    BY <2>1, ShiftSignedSteps
  <2>3. ShiftsSigned(w, x0, v, k + 1) = Right(w, ShiftsSigned(w, x0, v, k), Top(w, x0))
    BY <2>2
  <2>4. ShiftsSigned(w, x0, v, k + 1).c = ShiftsSigned(w, x0, v, k).x % 2
    BY <2>3 DEF Right
  <2>5. QED
    BY <2>4 DEF x0
<1>6. u.x = q + t * M
  BY ShiftSignedScales
<1>7. u.x % 2 = q % 2
  <2> DEFINE p == t * H
  <2>1. p \in Int /\ t * M = 2 * p
    <3> HIDE DEF t, H, M
    <3>1. t = 0 \/ t = 1
      BY <1>3
    <3>2. QED
      BY <1>1, <3>1
  <2> HIDE DEF p, q, u, t, M
  <2>2. (q + 2 * p) % 2 = q % 2
    BY <1>4, <2>1
  <2>3. QED
    BY <1>6, <2>1, <2>2
<1>8. CASE k + 1 <= w
  <2> DEFINE e == Pow2[w - (k + 1)]
             p == t * e
  <2>1. e \in Nat \ {0} /\ M = (2 * e) * d
    <3>1. w - (k + 1) \in Nat /\ w = ((w - (k + 1)) + 1) + k /\ (w - (k + 1)) + 1 \in Nat
      BY <1>8
    <3>2. e \in Nat \ {0} /\ Pow2[(w - (k + 1)) + 1] = 2 * e
      BY <3>1, Powers
    <3>3. Pow2[((w - (k + 1)) + 1) + k] = Pow2[(w - (k + 1)) + 1] * d
      BY <3>1, PowerOfSum
    <3>4. QED
      BY <3>1, <3>2, <3>3
  <2>2. p \in Int /\ t * M = (2 * p) * d
    <3> HIDE DEF e, d, t, M
    <3>1. p \in Int
      BY <1>3, <2>1
    <3>2. t = 0 \/ t = 1
      BY <1>3
    <3>3. CASE t = 0
      <4>1. p = 0 /\ t * M = 0 /\ (2 * 0) * d = 0
        BY <1>1, <2>1, <3>3
      <4>2. QED
        BY <3>1, <4>1
    <3>4. CASE t = 1
      <4>1. p = e /\ t * M = M
        BY <1>1, <2>1, <3>4
      <4>2. QED
        BY <2>1, <3>1, <4>1
    <3>5. QED
      BY <3>2, <3>3, <3>4
  <2> HIDE DEF p
  <2>3. v.x \div d = q + 2 * p
    <3> DEFINE n == 2 * p
    <3>1. n \in Int /\ v.x = s + n * d
      BY <1>3, <2>2
    <3> HIDE DEF n, s, d
    <3>2. (s + n * d) \div d = (s \div d) + n
      BY <1>1, <1>3, <3>1, AddMultiple
    <3>3. QED
      BY <3>1, <3>2 DEF n
  <2>4. (q + 2 * p) % 2 = q % 2
    <3> HIDE DEF q
    <3>1. QED
      BY <1>4, <2>2
  <2>5. Bit(v.x, k) = q % 2
    BY <2>3, <2>4 DEF Bit
  <2>6. QED
    BY <1>5, <1>7, <1>8, <2>5
<1>9. CASE ~(k + 1 <= w)
  <2> DEFINE e == Pow2[k - w]
             r == s + t * d
  <2>1. d >= M
    <3>1. k - w \in Nat /\ k = (k - w) + w
      BY <1>9
    <3>2. e \in Nat /\ e > 0
      BY <3>1, Powers
    <3>3. Pow2[(k - w) + w] = e * M
      BY <3>1, PowerOfSum
    <3> HIDE DEF e, M
    <3>4. 1 * M <= e * M /\ 1 * M = M
      BY <1>1, <3>2, Monotone
    <3>5. QED
      BY <1>1, <3>1, <3>3, <3>4
  <2>2. r \in 0 .. d - 1 /\ s = (-t) * d + r
    <3> HIDE DEF d, t, s, H, M
    <3>1. t = 0 \/ t = 1
      BY <1>3
    <3>2. t * d = (IF t = 1 THEN d ELSE 0) /\ (-t) * d = (IF t = 1 THEN -d ELSE 0)
      BY <1>1, <3>1
    <3>3. QED
      BY <1>1, <1>3, <2>1, <3>1, <3>2
  <2>3. q = -t
    <3>1. -t \in Int
      <4> HIDE DEF t
      <4>1. QED
        BY <1>3
    <3> DEFINE n == -t
    <3> HIDE DEF d, s, r, n
    <3>2. (n * d + r) \div d = n
      BY <1>1, <2>2, <3>1, Division DEF n
    <3>3. QED
      BY <2>2, <3>2 DEF n
  <2>4. q % 2 = t
    <3> HIDE DEF q, t
    <3>1. QED
      BY <1>3, <2>3
  <2>5. QED
    BY <1>5, <1>7, <1>9, <2>4
<1>10. QED
  BY <1>8, <1>9

\* What a shift returns of the pair it ends with.
LEMMA Shifted ==
    ASSUME NEW w, NEW g \in Flags, NEW v, NEW k \in Nat, NEW o
    PROVE  /\ Shift(w, g, v, k, o).val = v.x
           /\ k > 0 => Shift(w, g, v, k, o).f.c = v.c
<1>1. CASE k = 0
  BY <1>1 DEF Shift
<1>2. CASE k # 0
  <2>1. Shift(w, g, v, k, o) = Result(w, v.x, Rotate(g, v, k, o).f)
    BY <1>2 DEF Shift
  <2>2. Rotate(g, v, k, o).f = IF k = 1 THEN [g EXCEPT !.c = v.c, !.o = o] ELSE [g EXCEPT !.c = v.c]
    BY <1>2 DEF Rotate
  <2>3. \E b : Rotate(g, v, k, o).f = [a |-> g.a, c |-> v.c, o |-> b, p |-> g.p, s |-> g.s, z |-> g.z]
    BY <2>2 DEF Flags
  <2>4. Result(w, v.x, Rotate(g, v, k, o).f).f.c = v.c
    <3>1. PICK b : Rotate(g, v, k, o).f
                     = [a |-> g.a, c |-> v.c, o |-> b, p |-> g.p, s |-> g.s, z |-> g.z]
      BY <2>3
    <3> DEFINE e == [a |-> g.a, c |-> v.c, o |-> b, p |-> g.p, s |-> g.s, z |-> g.z]
    <3>2. Result(w, v.x, e).f = [e EXCEPT !.p = parity_even(v.x), !.s = Top(w, v.x), !.z = Flag(v.x = 0)]
      BY DEF Result
    <3>3. Result(w, v.x, e).f.c = e.c
      BY <3>2
    <3>4. QED
      BY <3>1, <3>3
  <2>5. QED
    BY <2>1, <2>4 DEF Result
<1>3. QED
  BY <1>1, <1>2

\* What a rotate returns of the pair it ends with.
LEMMA Turned ==
    ASSUME NEW g \in Flags, NEW v, NEW k \in Nat, NEW o, k = 0 => v.c = g.c
    PROVE  Rotate(g, v, k, o).val = v.x /\ Rotate(g, v, k, o).f.c = v.c
BY DEF Rotate, Flags
-----------------------------------------------------------------------------
(* The instructions on the input.                                          *)

\* The pair they start from, and the count.
Start == [x |-> x, c |-> f.c]

\* What every shift and rotate of the input begins with.
LEMMA StartPair ==
    ASSUME InputTypeOK
    PROVE  /\ Start \in Pairs(W) /\ Start.x = x /\ Start.c = c
           /\ W \in Nat /\ W > 0 /\ f \in Flags /\ f.c = c /\ count \in Nat
           /\ x \in 0 .. Pow2[W] - 1
<1>1. /\ x \in 0 .. Pow2[W] - 1 /\ y \in 0 .. Pow2[W] - 1 /\ W \in Nat /\ W > 0
      /\ f \in Flags /\ f.c = c /\ c \in 0 .. 1
  BY Inputs
<1>2. Start \in Pairs(W) /\ Start.x = x /\ Start.c = c
  BY <1>1 DEF Start, Pairs
<1>3. count \in Nat
  <2>1. y \in Int /\ 2 * W + 2 \in Nat \ {0}
    <3>1. Pow2[W] \in Nat
      BY <1>1, Powers
    <3>2. QED
      BY <1>1, <3>1
  <2>2. y % (2 * W + 2) \in 0 .. (2 * W + 2) - 1
    <3> DEFINE n == 2 * W + 2
    <3>1. n \in Nat \ {0}
      BY <2>1
    <3> HIDE DEF n
    <3>2. y % n \in 0 .. n - 1
      BY <2>1, <3>1, Divided
    <3>3. QED
      BY <3>2 DEF n
  <2>3. QED
    BY <1>1, <2>2 DEF count
<1>4. QED
  BY <1>1, <1>2, <1>3

\* SHL, SHR and SAR of the input, value and carry.
LEMMA ShiftsAreExact ==
    ASSUME InputTypeOK
    PROVE  ShiftsScale
<1> DEFINE l == shl(W, f, x, count)
           r == shr(W, f, x, count)
           s == sar(W, f, x, count)
           M == Pow2[W]
           n == Pow2[count]
           k == count - 1
<1>1. /\ Start \in Pairs(W) /\ Start.x = x /\ W \in Nat /\ W > 0 /\ f \in Flags /\ count \in Nat
  BY StartPair
<1>2. /\ l = Shift(W, f, ShiftsLeft(W, Start, count), count, LeftOverflow(W, ShiftsLeft(W, Start, count)))
      /\ r = Shift(W, f, ShiftsRight(W, Start, count), count, Top(W, x))
      /\ s = Shift(W, f, ShiftsSigned(W, x, Start, count), count, 0)
  BY DEF shl, shr, sar, ShiftsLeft, ShiftsRight, ShiftsSigned, Start
<1>3. /\ l.val = ShiftsLeft(W, Start, count).x /\ (count > 0 => l.f.c = ShiftsLeft(W, Start, count).c)
      /\ r.val = ShiftsRight(W, Start, count).x /\ (count > 0 => r.f.c = ShiftsRight(W, Start, count).c)
      /\ s.val = ShiftsSigned(W, x, Start, count).x
      /\ (count > 0 => s.f.c = ShiftsSigned(W, x, Start, count).c)
  BY <1>1, <1>2, Shifted
<1>4. ShiftsLeft(W, Start, count).x = (x * n) % M
  BY <1>1, ShiftLeftScales
<1>5. ShiftsRight(W, Start, count).x = x \div n
  BY <1>1, ShiftRightScales
<1>6. Signed(W, ShiftsSigned(W, x, Start, count).x) = Signed(W, x) \div n
  BY <1>1, ShiftSignedScales
<1>7. ASSUME count > 0
      PROVE  /\ l.f.c = IF count <= W THEN Bit(x, W - count) ELSE 0
             /\ r.f.c = Bit(x, count - 1)
             /\ s.f.c = IF count <= W THEN Bit(x, count - 1) ELSE Top(W, x)
  <2>1. k \in Nat /\ k + 1 = count
    BY <1>1, <1>7
  <2>2. ShiftsLeft(W, Start, k + 1).c = IF k + 1 <= W THEN Bit(x, W - (k + 1)) ELSE 0
    BY <1>1, <2>1, ShiftLeftCarry
  <2>3. ShiftsRight(W, Start, k + 1).c = Bit(x, k)
    <3>1. \A i \in Nat : ShiftsRight(W, Start, i + 1).c = Bit(Start.x, i)
      BY <1>1, ShiftRightScales
    <3>2. QED
      BY <1>1, <2>1, <3>1
  <2>4. ShiftsSigned(W, x, Start, k + 1).c = IF k + 1 <= W THEN Bit(x, k) ELSE Top(W, x)
    BY <1>1, <2>1, ShiftSignedCarry
  <2> HIDE DEF l, r, s
  <2>5. QED
    BY <1>3, <1>7, <2>1, <2>2, <2>3, <2>4
<1>8. QED
  BY <1>3, <1>4, <1>5, <1>6, <1>7 DEF ShiftsScale
-----------------------------------------------------------------------------
(* Rotates by any count.                                                   *)

\* A pair is a number of w + 1 bits.
Number(w, v) == v.c * Pow2[w] + v.x

\* Operand and carry are the low bits and the top bit of one number.
LEMMA Numbers ==
    ASSUME NEW w \in Nat, w > 0, NEW v \in Pairs(w)
    PROVE  /\ Pow2[w] \in Nat \ {0} /\ Pow2[w + 1] = 2 * Pow2[w]
           /\ v.x \in 0 .. Pow2[w] - 1 /\ v.c \in 0 .. 1 /\ v.x \in Int /\ v.c \in Int
           /\ v = [x |-> v.x, c |-> v.c]
           /\ Number(w, v) \in 0 .. Pow2[w + 1] - 1
           /\ Number(w, v) \div Pow2[w] = v.c /\ Number(w, v) % Pow2[w] = v.x
<1> DEFINE M == Pow2[w]
<1>1. M \in Nat \ {0} /\ Pow2[w + 1] = 2 * M
  BY Powers
<1>2. v.x \in 0 .. M - 1 /\ v.c \in 0 .. 1 /\ v = [x |-> v.x, c |-> v.c]
  BY DEF Pairs
<1> HIDE DEF M
<1>3. v.x \in Int /\ v.c \in Int
  BY <1>1, <1>2
<1>4. (v.c * M + v.x) \div M = v.c /\ (v.c * M + v.x) % M = v.x
  BY <1>1, <1>2, <1>3, Division
<1>5. v.c * M + v.x \in 0 .. 2 * M - 1
  <2>1. v.c * M = IF v.c = 1 THEN M ELSE 0
    BY <1>1, <1>2
  <2>2. QED
    BY <1>1, <1>2, <2>1
<1>6. QED
  BY <1>1, <1>2, <1>3, <1>4, <1>5 DEF Number, M

\* A rotate to the right through carry takes back one to the left.
LEMMA TurnUndone ==
    ASSUME NEW w \in Nat, w > 0, NEW v \in Pairs(w), NEW u, u = Left(w, v, v.c)
    PROVE  Right(w, u, u.c) = v
<1> DEFINE r == Right(w, u, u.c)
<1>1. v.c \in 0 .. 1 /\ v.x \in Int
  BY Numbers
<1>2. u \in Pairs(w) /\ u.c * Pow2[w] + u.x = 2 * v.x + v.c
  BY <1>1, LeftStep
<1>3. u.c \in 0 .. 1
  BY <1>2, Numbers
<1>4. r \in Pairs(w) /\ 2 * r.x + r.c = u.c * Pow2[w] + u.x
  <2> HIDE DEF r
  <2>1. r = Right(w, u, u.c)
    BY DEF r
  <2>2. QED
    BY <1>2, <1>3, <2>1, RightStep
<1> HIDE DEF r
<1>5. r.x \in Int /\ r.c \in 0 .. 1 /\ r = [x |-> r.x, c |-> r.c]
  BY <1>4, Numbers
<1>6. 2 * r.x + r.c = 2 * v.x + v.c
  BY <1>2, <1>4
<1>7. r.x = v.x /\ r.c = v.c
  <2> DEFINE p == r.x
             q == v.x
             b == r.c
             d == v.c
  <2>1. p \in Int /\ q \in Int /\ b \in 0 .. 1 /\ d \in 0 .. 1 /\ 2 * p + b = 2 * q + d
    BY <1>1, <1>5, <1>6
  <2> HIDE DEF p, q, b, d
  <2>2. p = q /\ b = d
    BY <2>1
  <2>3. QED
    BY <2>2 DEF p, q, b, d
<1>8. v = [x |-> v.x, c |-> v.c]
  BY Numbers
<1>9. r = v
  BY <1>5, <1>7, <1>8
<1>10. QED
  BY <1>9 DEF r

\* So does any number of them.
LEMMA TurnsUndone ==
    ASSUME NEW w \in Nat, w > 0, NEW v \in Pairs(w), NEW n \in Nat
    PROVE  TurnsRight(w, TurnsLeft(w, v, n), n) = v
<1> DEFINE left(k) == TurnsLeft(w, v, k)
           back(k) == TurnsRight(w, left(n), k)
           T == {k \in Nat : k <= n => back(k) = left(n - k)}
<1>1. /\ left(0) = v
      /\ \A k \in Nat : left(k) \in Pairs(w) /\ left(k + 1) = Left(w, left(k), left(k).c)
  BY TurnLeftSteps
<1>2. /\ back(0) = left(n)
      /\ \A k \in Nat : back(k) \in Pairs(w) /\ back(k + 1) = Right(w, back(k), back(k).c)
  <2> DEFINE z == left(n)
  <2>1. z \in Pairs(w)
    BY <1>1
  <2> HIDE DEF z
  <2>2. /\ TurnsRight(w, z, 0) = z
        /\ \A k \in Nat : /\ TurnsRight(w, z, k) \in Pairs(w)
                          /\ TurnsRight(w, z, k + 1) = Right(w, TurnsRight(w, z, k), TurnsRight(w, z, k).c)
    BY <2>1, TurnRightSteps
  <2>3. QED
    BY <2>2 DEF z
<1> HIDE DEF left, back
<1>3. 0 \in T
  BY <1>2
<1>4. ASSUME NEW k \in T PROVE k + 1 \in T
  <2>1. k \in Nat /\ k + 1 \in Nat /\ (k <= n => back(k) = left(n - k))
    BY <1>4
  <2>2. ASSUME k + 1 <= n PROVE back(k + 1) = left(n - (k + 1))
    <3> DEFINE i == n - (k + 1)
    <3>1. i \in Nat /\ n - k = i + 1 /\ k <= n
      BY <2>1, <2>2
    <3> HIDE DEF i
    <3>2. back(k) = left(i + 1)
      BY <2>1, <3>1
    <3>3. left(i + 1) = Left(w, left(i), left(i).c) /\ left(i) \in Pairs(w)
      BY <1>1, <3>1
    <3>4. Right(w, left(i + 1), left(i + 1).c) = left(i)
      BY <3>3, TurnUndone
    <3>5. back(k + 1) = left(i)
      BY <1>2, <2>1, <3>2, <3>4
    <3>6. QED
      BY <3>5 DEF i
  <2>3. QED
    BY <2>1, <2>2
<1>5. Nat \subseteq T
  <2> HIDE DEF T
  <2>1. QED
    BY <1>3, <1>4, CountUp
<1>6. back(n) = left(n - n) /\ n - n = 0
  BY <1>5
<1>7. QED
  BY <1>1, <1>6 DEF left, back

\* The rotates that leave the carry out: only the operand counts.
LEMMA RoundUndone ==
    ASSUME NEW w \in Nat, w > 0, NEW v \in Pairs(w), NEW u \in Pairs(w),
           u.x = Left(w, v, Top(w, v.x)).x
    PROVE  Right(w, u, u.x % 2).x = v.x
<1> DEFINE r == Right(w, u, u.x % 2)
           l == Left(w, v, Top(w, v.x))
           t == Top(w, v.x)
<1>1. v.x \in Int /\ u.x \in Int /\ t \in 0 .. 1
  <2>1. v.x \in Int /\ u.x \in Int /\ w - 1 \in Nat
    BY Numbers
  <2>2. QED
    BY <2>1, BitValue DEF Top
<1>2. l.c = t /\ l.c * Pow2[w] + l.x = 2 * v.x + t /\ l.x % 2 = t
  <2>1. l = Left(w, v, t)
    OBVIOUS
  <2> HIDE DEF l
  <2>2. /\ l.c = Top(w, v.x) /\ l.c * Pow2[w] + l.x = 2 * v.x + t /\ l.x % 2 = t
    BY <1>1, <2>1, LeftStep
  <2>3. QED
    BY <2>2
<1>3. u.x = l.x /\ u.x % 2 = t
  BY <1>2
<1>4. r \in Pairs(w) /\ 2 * r.x + r.c = t * Pow2[w] + u.x
  <2>1. r = Right(w, u, t)
    BY <1>3
  <2> HIDE DEF r, t
  <2>2. QED
    BY <1>1, <2>1, RightStep
<1> HIDE DEF r, l, t
<1>5. r.x \in Int /\ r.c \in 0 .. 1
  BY <1>4, Numbers
<1>6. 2 * r.x + r.c = 2 * v.x + t
  BY <1>2, <1>3, <1>4
<1>7. r.x = v.x
  BY <1>1, <1>5, <1>6
<1>8. QED
  BY <1>7 DEF r

\* As many rotates to the right undo rotates to the left.
LEMMA RoundsUndone ==
    ASSUME NEW w \in Nat, w > 0, NEW v \in Pairs(w), NEW n \in Nat,
           NEW z \in Pairs(w), z.x = RoundsLeft(w, v, n).x
    PROVE  RoundsRight(w, z, n).x = v.x
<1> DEFINE left(k) == RoundsLeft(w, v, k)
           back(k) == RoundsRight(w, z, k)
           T == {k \in Nat : k <= n => back(k).x = left(n - k).x}
<1>1. /\ left(0) = v
      /\ \A k \in Nat : left(k) \in Pairs(w) /\ left(k + 1) = Left(w, left(k), Top(w, left(k).x))
  BY RoundLeftSteps
<1>2. /\ back(0) = z
      /\ \A k \in Nat : back(k) \in Pairs(w) /\ back(k + 1) = Right(w, back(k), back(k).x % 2)
  BY RoundRightSteps
<1>3. 0 \in T
  BY <1>2
<1> HIDE DEF left, back
<1>4. ASSUME NEW k \in T PROVE k + 1 \in T
  <2>1. k \in Nat /\ k + 1 \in Nat /\ (k <= n => back(k).x = left(n - k).x)
    BY <1>4
  <2>2. ASSUME k + 1 <= n PROVE back(k + 1).x = left(n - (k + 1)).x
    <3> DEFINE i == n - (k + 1)
    <3>1. i \in Nat /\ n - k = i + 1 /\ k <= n
      BY <2>1, <2>2
    <3> HIDE DEF i
    <3>2. back(k).x = left(i + 1).x
      BY <2>1, <3>1
    <3>3. left(i + 1) = Left(w, left(i), Top(w, left(i).x)) /\ left(i) \in Pairs(w)
      BY <1>1, <3>1
    <3>4. back(k) \in Pairs(w) /\ back(k + 1) = Right(w, back(k), back(k).x % 2)
      BY <1>2, <2>1
    <3>5. back(k).x = Left(w, left(i), Top(w, left(i).x)).x
      BY <3>2, <3>3
    <3>6. Right(w, back(k), back(k).x % 2).x = left(i).x
      BY <3>3, <3>4, <3>5, RoundUndone
    <3>7. QED
      BY <3>4, <3>6 DEF i
  <2>3. QED
    BY <2>1, <2>2
<1>5. Nat \subseteq T
  <2> HIDE DEF T
  <2>1. QED
    BY <1>3, <1>4, CountUp
<1>6. back(n).x = left(n - n).x /\ n - n = 0
  BY <1>5
<1>7. QED
  BY <1>1, <1>6 DEF left, back

\* RCL rotates the number of w + 1 bits, and ROL that of w bits.
LEMMA TurnsRotate ==
    ASSUME NEW w \in Nat, w > 0, NEW v \in Pairs(w)
    PROVE  Rotated([k \in Nat |-> Number(w, TurnsLeft(w, v, k))], w + 1)
<1> DEFINE at(k) == TurnsLeft(w, v, k)
           g == [k \in Nat |-> Number(w, at(k))]
<1>1. \A k \in Nat : at(k) \in Pairs(w) /\ at(k + 1) = Left(w, at(k), at(k).c)
  BY TurnLeftSteps
<1> HIDE DEF at
<1>2. ASSUME NEW k \in Nat
      PROVE  /\ Number(w, at(k)) \in 0 .. Pow2[w + 1] - 1
             /\ Number(w, at(k + 1)) = 2 * (Number(w, at(k)) % Pow2[w]) + (Number(w, at(k)) \div Pow2[w])
  <2> DEFINE p == at(k)
             u == at(k + 1)
  <2>1. p \in Pairs(w) /\ u = Left(w, p, p.c)
    BY <1>1
  <2> HIDE DEF p, u
  <2>2. /\ p.c \in 0 .. 1 /\ Number(w, p) \in 0 .. Pow2[w + 1] - 1
        /\ Number(w, p) \div Pow2[w] = p.c /\ Number(w, p) % Pow2[w] = p.x
    BY <2>1, Numbers
  <2>3. Number(w, u) = 2 * p.x + p.c
    BY <2>1, <2>2, LeftStep DEF Number
  <2>4. QED
    BY <2>2, <2>3 DEF p, u
<1>3. (w + 1) - 1 = w
  OBVIOUS
<1>4. g \in [Nat -> 0 .. Pow2[w + 1] - 1]
  BY <1>2
<1>5. \A k \in Nat : g[k + 1] = 2 * (g[k] % Pow2[(w + 1) - 1]) + (g[k] \div Pow2[(w + 1) - 1])
  <2>1. \A k \in Nat : g[k] = Number(w, at(k)) /\ g[k + 1] = Number(w, at(k + 1))
    OBVIOUS
  <2> HIDE DEF g
  <2>2. QED
    BY <1>2, <1>3, <2>1
<1>6. Rotated(g, w + 1)
  <2> HIDE DEF g
  <2>1. QED
    BY <1>4, <1>5 DEF Rotated
<1>7. QED
  BY <1>6 DEF at

\* ROL rotates the number of w bits.
LEMMA RoundsRotate ==
    ASSUME NEW w \in Nat, w > 0, NEW v \in Pairs(w)
    PROVE  Rotated([k \in Nat |-> RoundsLeft(w, v, k).x], w)
<1> DEFINE at(k) == RoundsLeft(w, v, k)
           g == [k \in Nat |-> at(k).x]
           H == Pow2[w - 1]
<1>1. \A k \in Nat : at(k) \in Pairs(w) /\ at(k + 1) = Left(w, at(k), Top(w, at(k).x))
  BY RoundLeftSteps
<1> HIDE DEF at
<1>2. ASSUME NEW k \in Nat
      PROVE  at(k).x \in 0 .. Pow2[w] - 1 /\ at(k + 1).x = 2 * (at(k).x % H) + (at(k).x \div H)
  <2> DEFINE p == at(k)
             u == at(k + 1)
             t == Top(w, p.x)
  <2>1. p \in Pairs(w) /\ u = Left(w, p, t)
    BY <1>1
  <2> HIDE DEF p, u
  <2>2. p.x \in 0 .. Pow2[w] - 1 /\ p.x \in Int
    BY <2>1, Numbers
  <2>3. t \in 0 .. 1
    BY <2>2, BitValue DEF Top
  <2>4. u.c = p.x \div H /\ u.c = t /\ u.x = 2 * (p.x % H) + t
    <3> HIDE DEF t
    <3>1. u.c = p.x \div H /\ u.c = Top(w, p.x) /\ u.x = 2 * (p.x % H) + t
      BY <2>1, <2>3, LeftStep
    <3>2. QED
      BY <3>1 DEF t
  <2>5. u.x = 2 * (p.x % H) + (p.x \div H)
    BY <2>4
  <2>6. QED
    BY <2>2, <2>5 DEF p, u
<1>3. g \in [Nat -> 0 .. Pow2[w] - 1]
  BY <1>2
<1>4. \A k \in Nat : g[k + 1] = 2 * (g[k] % H) + (g[k] \div H)
  <2>1. \A k \in Nat : g[k] = at(k).x /\ g[k + 1] = at(k + 1).x
    OBVIOUS
  <2> HIDE DEF g, H
  <2>2. QED
    BY <1>2, <2>1
<1>5. Rotated(g, w)
  <2> HIDE DEF g
  <2>1. QED
    BY <1>3, <1>4 DEF Rotated
<1>6. QED
  BY <1>5 DEF at

\* The four rotates of the input.
LEMMA RotatesAreExact ==
    ASSUME InputTypeOK
    PROVE  RotatesUndo
<1> DEFINE l == rcl(W, f, x, count)
           r == rcr(W, l.f, l.val, count)
           o == rol(W, f, x, count)
           k == count % W
           u == TurnsLeft(W, Start, count)
           z == RoundsLeft(W, Start, count)
           zz == [x |-> z.x, c |-> f.c]
           d == Pow2[W - k]
           e == Pow2[k]
           M == Pow2[W]
<1>1. /\ Start \in Pairs(W) /\ Start.x = x /\ Start.c = c
      /\ W \in Nat /\ W > 0 /\ f \in Flags /\ f.c = c /\ count \in Nat
      /\ x \in 0 .. M - 1
  BY StartPair
<1>2. u \in Pairs(W) /\ TurnsLeft(W, Start, 0) = Start
  BY <1>1, TurnLeftSteps
<1>3. l.val = u.x /\ l.f.c = u.c /\ l.f \in Flags
  <2>1. l = Rotate(f, u, count, LeftOverflow(W, u))
    BY DEF rcl, TurnsLeft, Start
  <2>2. count = 0 => u.c = f.c
    BY <1>1, <1>2
  <2>3. l.f \in Flags
    <3>1. LeftOverflow(W, u) \in 0 .. 1
      BY DEF LeftOverflow, Flag
    <3>2. u.c \in 0 .. 1
      BY <1>1, <1>2, Numbers
    <3> HIDE DEF l, u
    <3>3. QED
      BY <1>1, <2>1, <3>1, <3>2 DEF Rotate, Flags
  <2> HIDE DEF l, u
  <2>4. QED
    BY <1>1, <2>1, <2>2, <2>3, Turned
<1>4. r.val = x /\ r.f.c = c
  <2> DEFINE back == TurnsRight(W, u, count)
  <2>1. u = [x |-> l.val, c |-> l.f.c]
    <3> HIDE DEF u
    <3>1. u = [x |-> u.x, c |-> u.c]
      BY <1>1, <1>2, Numbers
    <3>2. QED
      BY <1>3, <3>1
  <2>2. r = Rotate(l.f, back, count, RightOverflow(W, back))
    <3> HIDE DEF u, l
    <3>1. QED
      BY <2>1 DEF rcr, TurnsRight
  <2>3. back = Start
    BY <1>1, TurnsUndone
  <2>4. count = 0 => back.c = l.f.c
    <3>1. count = 0 => l.f.c = c
      BY <1>1, <1>2, <1>3
    <3> HIDE DEF back, l
    <3>2. QED
      BY <1>1, <2>3, <3>1
  <2> HIDE DEF back, l, r
  <2>5. r.val = back.x /\ r.f.c = back.c
    BY <1>1, <1>3, <2>2, <2>4, Turned
  <2>6. QED
    BY <1>1, <2>3, <2>5
<1>5. o.val = z.x /\ z \in Pairs(W)
  <2>1. o = Rotate(f, z, count, LeftOverflow(W, z))
    BY DEF rol, RoundsLeft, Start
  <2>2. z \in Pairs(W)
    BY <1>1, RoundLeftSteps
  <2> HIDE DEF o, z
  <2>3. QED
    BY <2>1, <2>2 DEF Rotate
<1>6. ror(W, f, o.val, count).val = x
  <2>1. ror(W, f, o.val, count).val = RoundsRight(W, zz, count).x
    <3> HIDE DEF o, z
    <3>1. QED
      BY <1>5 DEF ror, RoundsRight, Rotate
  <2>2. zz \in Pairs(W) /\ zz.x = z.x
    <3> HIDE DEF z
    <3>1. z.x \in 0 .. M - 1 /\ f.c \in 0 .. 1
      BY <1>1, <1>5, Numbers DEF Flags
    <3>2. QED
      BY <3>1 DEF Pairs
  <2> HIDE DEF zz
  <2>3. RoundsRight(W, zz, count).x = Start.x
    BY <1>1, <2>2, RoundsUndone
  <2>4. QED
    BY <1>1, <2>1, <2>3
<1>7. l.val = rcl(W, f, x, count + W + 1).val
  <2> DEFINE g == [i \in Nat |-> Number(W, TurnsLeft(W, Start, i))]
             n == count + W + 1
             b == TurnsLeft(W, Start, n)
  <2>1. n \in Nat /\ n = count + (W + 1) /\ n = (W + 1) + count /\ W + 1 \in Nat \ {0}
    BY <1>1
  <2>2. g[count] = Number(W, u) /\ g[n] = Number(W, b)
    BY <1>1, <2>1
  <2>3. b \in Pairs(W)
    BY <1>1, <2>1, TurnLeftSteps
  <2>4. rcl(W, f, x, n).val = b.x
    BY DEF rcl, TurnsLeft, Start, Rotate
  <2>5. Rotated(g, W + 1)
    BY <1>1, TurnsRotate
  <2> HIDE DEF g, b, u
  <2>6. Period(g, W + 1)
    <3> DEFINE j == W + 1
    <3>1. j \in Nat \ {0} /\ 0 \in Nat /\ Rotated(g, j)
      BY <2>1, <2>5
    <3> HIDE DEF j
    <3>2. Period(g, j)
      BY <3>1, RotationPeriod
    <3>3. QED
      BY <3>2 DEF j
  <2>7. g[n] = g[count]
    <3>1. g[(W + 1) + count] = g[count]
      BY <1>1, <2>6 DEF Period
    <3>2. QED
      BY <2>1, <3>1
  <2>8. Number(W, b) % M = b.x /\ Number(W, u) % M = u.x
    BY <1>1, <1>2, <2>3, Numbers
  <2>9. b.x = u.x
    BY <2>2, <2>7, <2>8
  <2>10. QED
    BY <1>3, <2>4, <2>9
<1>8. o.val = ((x * e) % M) + (x \div d)
  <2> DEFINE g == [i \in Nat |-> RoundsLeft(W, Start, i).x]
  <2>1. g[count] = z.x /\ g[0] = x
    <3>1. RoundsLeft(W, Start, 0) = Start
      BY <1>1, RoundLeftSteps
    <3>2. QED
      BY <1>1, <3>1
  <2>2. Rotated(g, W) /\ W \in Nat \ {0}
    BY <1>1, RoundsRotate
  <2> HIDE DEF g
  <2>3. k \in 0 .. W - 1 /\ g[count] = (g[0] % d) * e + (g[0] \div d)
    BY <1>1, <2>2, RotationRemainder
  <2>4. M = d * e /\ d \in Nat \ {0} /\ e \in Nat \ {0}
    <3> HIDE DEF k
    <3>1. W - k \in Nat /\ k \in Nat /\ W = (W - k) + k
      BY <1>1, <2>3
    <3>2. d \in Nat \ {0} /\ e \in Nat \ {0}
      BY <3>1, Powers
    <3>3. Pow2[(W - k) + k] = d * e
      BY <3>1, PowerOfSum
    <3>4. QED
      BY <3>1, <3>2, <3>3
  <2>5. x \in Int
    BY <1>1, <2>4
  <2> HIDE DEF d, e, M
  <2>6. (x * e) % (d * e) = (x % d) * e
    BY <2>4, <2>5, Cancelled
  <2>7. QED
    BY <1>5, <2>1, <2>3, <2>4, <2>6
<1> HIDE DEF l, r, o
<1>9. QED
  BY <1>4, <1>6, <1>7, <1>8 DEF RotatesUndo, l, r, o

\* For every even width from four bits on, every operand and every count up
\* to past twice the width, the shifts multiply and divide by powers of two
\* with the last bit that left in carry, and the rotates are rotations that
\* undo each other (i8088_shl_8, i8088_shr_8, i8088_sar_8, i8088_rcl_8,
\* i8088_rcr_8, i8088_rol_8, i8088_ror_8 and their word forms).
THEOREM ScalesAndRotations == InputSpec => []ShiftsAndRotates
<1>1. InputTypeOK => ShiftsAndRotates
  BY ShiftsAreExact, RotatesAreExact DEF ShiftsAndRotates
<1>2. QED
  BY <1>1, InputsStay, PTL
-----------------------------------------------------------------------------
(* The processor's state.                                                  *)

Byte == {v \in Nat : v < 256}
Offset == {v \in Nat : v < 65536}
Megabyte == {v \in Nat : v < 1048576}
Memory == UNION {[D -> Byte] : D \in SUBSET Nat}

CpuFlags ==
    [a : 0 .. 1, c : 0 .. 1, o : 0 .. 1, p : 0 .. 1, s : 0 .. 1, z : 0 .. 1,
     t : 0 .. 1, i : 0 .. 1, d : 0 .. 1, x : {0, UnusedSet}]

Processor ==
    [ax : Offset, cx : Offset, dx : Offset, bx : Offset, sp : Offset, bp : Offset,
     si : Offset, di : Offset, cs : Offset, ds : Offset, es : Offset, ss : Offset,
     ip : Offset, f : CpuFlags, seg : {"none", "es", "cs", "ss", "ds"},
     rep : {"none", "ez", "nenz"}, halt : BOOLEAN, panic : BOOLEAN,
     m : Memory, rom : SUBSET Nat, io : Memory]

\* Every address lies in the megabyte, and neighbours in a segment differ.
LEMMA Addresses ==
    ASSUME NEW seg \in Offset, NEW off \in Int
    PROVE  /\ Linear(seg, off) \in Megabyte
           /\ Linear(seg, off + 1) # Linear(seg, off)
           /\ Linear(seg, off) \in Nat
<1>1. Word(off) \in Offset /\ Word(off + 1) \in Offset
      /\ (Word(off + 1) = Word(off) + 1 \/ Word(off + 1) = Word(off) - 65535)
  BY SMT DEF Word, Offset
<1>2. Linear(seg, off) \in Megabyte
  BY <1>1, SMT DEF Linear, Offset, Megabyte
<1>3. Linear(seg, off + 1) # Linear(seg, off)
  BY <1>1, SMT DEF Linear, Offset, Megabyte
<1>4. Megabyte \subseteq Nat
  BY SMT DEF Megabyte
<1> QED
  BY <1>2, <1>3, <1>4

\* A memory maps some addresses to bytes (mem_read, mem_write).
LEMMA MemoryValues ==
    ASSUME NEW m \in Memory
    PROVE  /\ DOMAIN m \subseteq Nat /\ m = [adr \in DOMAIN m |-> m[adr]]
           /\ \A adr \in DOMAIN m : m[adr] \in Byte
<1>1. PICK D \in SUBSET Nat : m \in [D -> Byte]
  BY DEF Memory
<1> QED
  BY <1>1

\* Reading yields a byte.
LEMMA Reads ==
    ASSUME NEW s \in Processor
    PROVE  \A adr : mem_read(s, adr) \in Byte
<1>1. s.m \in Memory
  BY DEF Processor
<1>2. 0 \in Byte
  BY DEF Byte
<1> QED
  BY <1>1, <1>2, MemoryValues DEF mem_read

\* What writing a byte does.
LEMMA Writes ==
    ASSUME NEW s \in Processor, s.rom = {}, NEW addr \in Nat, NEW v \in Byte,
           NEW t, t = mem_write(s, addr, v)
    PROVE  /\ t \in Processor /\ t = [s EXCEPT !.m = t.m]
           /\ DOMAIN t.m = DOMAIN s.m \cup {addr}
           /\ \A adr : mem_read(t, adr) = IF adr = addr THEN v ELSE mem_read(s, adr)
<1> DEFINE m == [adr \in {addr} \cup DOMAIN s.m |-> IF adr = addr THEN v ELSE s.m[adr]]
<1>1. s.m \in Memory
  BY DEF Processor
<1>2. m \in Memory
  <2>1. /\ DOMAIN s.m \subseteq Nat /\ \A adr \in DOMAIN s.m : s.m[adr] \in Byte
    BY <1>1, MemoryValues
  <2>2. m \in [{addr} \cup DOMAIN s.m -> Byte]
    BY <2>1
  <2>3. {addr} \cup DOMAIN s.m \in SUBSET Nat
    BY <2>1
  <2> HIDE DEF m
  <2> QED
    BY <2>2, <2>3 DEF Memory
<1>3. t = [s EXCEPT !.m = m]
  BY DEF mem_write
<1>4. DOMAIN m = DOMAIN s.m \cup {addr}
  OBVIOUS
<1>5. \A adr \in DOMAIN m : m[adr] = IF adr = addr THEN v ELSE s.m[adr]
  OBVIOUS
<1> HIDE DEF m
<1>6. t \in Processor /\ t.m = m
  BY <1>2, <1>3 DEF Processor
<1>7. \A adr : mem_read(t, adr) = IF adr = addr THEN v ELSE mem_read(s, adr)
  BY <1>4, <1>5, <1>6 DEF mem_read
<1> QED
  BY <1>3, <1>4, <1>6, <1>7

\* The memory of s and t is the same outside a set of addresses.
SameOutside(s, t, A) == \A adr : adr \notin A => mem_read(t, adr) = mem_read(s, adr)

\* The two addresses of a word.
Pair(seg, off) == {Linear(seg, off), Linear(seg, off + 1)}

\* A word is its two bytes.
LEMMA Bytes16 ==
    ASSUME NEW v \in Offset
    PROVE  Lo(v) \in Byte /\ Hi(v) \in Byte /\ Lo(v) + 256 * Hi(v) = v
BY SMT DEF Lo, Hi, Byte, Offset

\* Reading two bytes yields a word.
LEMMA Reads16 ==
    ASSUME NEW s \in Processor
    PROVE  \A seg, off : Read16(s, seg, off) \in Offset
<1>1. ASSUME NEW u \in Byte, NEW v \in Byte PROVE u + 256 * v \in Offset
  BY SMT DEF Byte, Offset
<1> QED
  BY <1>1, Reads DEF Read16, mem_read_by_segment

\* What writing a word does.
LEMMA Writes16 ==
    ASSUME NEW s \in Processor, s.rom = {}, NEW seg \in Offset, NEW off \in Int,
           NEW v \in Offset, NEW t, t = Write16(s, seg, off, v)
    PROVE  /\ t \in Processor /\ t = [s EXCEPT !.m = t.m]
           /\ DOMAIN t.m = DOMAIN s.m \cup Pair(seg, off)
           /\ \A adr : adr \notin Pair(seg, off) => mem_read(t, adr) = mem_read(s, adr)
           /\ Read16(t, seg, off) = v
<1> DEFINE b == Linear(seg, off)
           d == Linear(seg, off + 1)
           u == mem_write(s, b, Lo(v))
<1>1. b \in Nat /\ d \in Nat /\ d # b
  <2>1. off + 1 \in Int
    OBVIOUS
  <2> QED
    BY <2>1, Addresses
<1>2. Lo(v) \in Byte /\ Hi(v) \in Byte /\ Lo(v) + 256 * Hi(v) = v
  BY Bytes16
<1>3. t = mem_write(u, d, Hi(v))
  BY DEF Write16, mem_write_by_segment
<1> HIDE DEF b, d
<1>4. /\ u \in Processor /\ u = [s EXCEPT !.m = u.m]
      /\ DOMAIN u.m = DOMAIN s.m \cup {b}
      /\ \A adr : mem_read(u, adr) = IF adr = b THEN Lo(v) ELSE mem_read(s, adr)
  BY <1>1, <1>2, Writes
<1> HIDE DEF u
<1>5. u.rom = {}
  BY <1>4 DEF Processor
<1>6. /\ t \in Processor /\ t = [u EXCEPT !.m = t.m]
      /\ DOMAIN t.m = DOMAIN u.m \cup {d}
      /\ \A adr : mem_read(t, adr) = IF adr = d THEN Hi(v) ELSE mem_read(u, adr)
  BY <1>1, <1>2, <1>3, <1>4, <1>5, Writes
<1>7. t = [s EXCEPT !.m = t.m]
  BY <1>4, <1>6 DEF Processor
<1>8. mem_read(t, b) = Lo(v) /\ mem_read(t, d) = Hi(v)
  BY <1>1, <1>4, <1>6
<1>9. Read16(t, seg, off) = v
  BY <1>2, <1>8 DEF Read16, mem_read_by_segment, b, d
<1>10. Pair(seg, off) = {b, d}
  BY DEF Pair, b, d
<1> QED
  BY <1>4, <1>6, <1>7, <1>9, <1>10

-----------------------------------------------------------------------------
(* The stack.                                                              *)

\* Offsets are taken modulo the size of a segment.
LEMMA Offsets ==
    ASSUME NEW seg \in Offset, NEW off \in Int, NEW k \in Int
    PROVE  /\ Word(off) \in Offset /\ Word(Word(off) + k) = Word(off + k)
           /\ Linear(seg, Word(off) + k) = Linear(seg, off + k)
           /\ Linear(seg, Word(off)) = Linear(seg, off)
<1>1. Word(off) \in Offset /\ Word(Word(off) + k) = Word(off + k) /\ Word(Word(off)) = Word(off)
  BY SMT DEF Word, Offset
<1> QED
  BY <1>1 DEF Linear

\* Bytes of a segment that are less than the segment apart are different.
LEMMA Apart ==
    ASSUME NEW seg \in Offset, NEW off \in Int, NEW k \in Int, off < k, k < off + 65536
    PROVE  Linear(seg, off) # Linear(seg, k)
<1>1. Word(off) # Word(k)
  BY SMT DEF Word
<1>2. Word(off) \in Offset /\ Word(k) \in Offset
  BY SMT DEF Word, Offset
<1> QED
  BY <1>1, <1>2, SMT DEF Linear, Offset

\* PUSH writes the two bytes below the top of the stack.
LEMMA Pushes ==
    ASSUME NEW s \in Processor, s.rom = {}, NEW v \in Offset, NEW t, t = push(s, v)
    PROVE  /\ t \in Processor /\ t = [s EXCEPT !.sp = Word(s.sp - 2), !.m = t.m]
           /\ DOMAIN t.m = DOMAIN s.m \cup BelowStack(s, 2)
           /\ SameOutside(s, t, BelowStack(s, 2))
           /\ Read16(t, s.ss, s.sp - 2) = v
<1> DEFINE sp == Word(s.sp - 2)
           u == [s EXCEPT !.sp = sp]
<1>1. s.sp \in Int /\ s.ss \in Offset
  BY DEF Processor, Offset
<1>2. sp \in Offset /\ sp \in Int
  BY <1>1, Offsets DEF Offset
<1>3. t = Write16(u, s.ss, sp, v)
  BY DEF push
<1> HIDE DEF sp
<1>4. u \in Processor /\ u.rom = {} /\ u.m = s.m
  BY <1>2 DEF Processor
<1>5. u = [s EXCEPT !.sp = sp] /\ \A adr : mem_read(u, adr) = mem_read(s, adr)
  BY <1>4 DEF mem_read
<1> HIDE DEF u
<1>6. /\ t \in Processor /\ t = [u EXCEPT !.m = t.m]
      /\ DOMAIN t.m = DOMAIN u.m \cup Pair(s.ss, sp)
      /\ \A adr : adr \notin Pair(s.ss, sp) => mem_read(t, adr) = mem_read(u, adr)
      /\ Read16(t, s.ss, sp) = v
  <2> DEFINE seg == s.ss
  <2>1. seg \in Offset /\ t = Write16(u, seg, sp, v)
    BY <1>1, <1>3
  <2> HIDE DEF seg
  <2>2. /\ t \in Processor /\ t = [u EXCEPT !.m = t.m]
        /\ DOMAIN t.m = DOMAIN u.m \cup Pair(seg, sp)
        /\ \A adr : adr \notin Pair(seg, sp) => mem_read(t, adr) = mem_read(u, adr)
        /\ Read16(t, seg, sp) = v
    BY <1>2, <1>4, <2>1, Writes16
  <2> QED
    BY <2>2 DEF seg
<1>7. /\ Linear(s.ss, sp) = Linear(s.ss, s.sp - 2)
      /\ Linear(s.ss, sp + 1) = Linear(s.ss, s.sp - 2 + 1)
      /\ s.sp - 2 + 1 = s.sp - 1
  <2> DEFINE off == s.sp - 2
  <2>1. off \in Int /\ 1 \in Int /\ off + 1 = s.sp - 1
    BY <1>1
  <2>2. Linear(s.ss, Word(off)) = Linear(s.ss, off) /\ Linear(s.ss, Word(off) + 1) = Linear(s.ss, off + 1)
    <3> HIDE DEF off
    <3> QED
      BY <1>1, <2>1, Offsets
  <2> QED
    BY <2>1, <2>2 DEF sp
<1>8. Pair(s.ss, sp) = BelowStack(s, 2)
  BY <1>7 DEF Pair, BelowStack
<1>9. Read16(t, s.ss, s.sp - 2) = v
  BY <1>6, <1>7 DEF Read16, mem_read_by_segment
<1>10. t = [s EXCEPT !.sp = sp, !.m = t.m]
  BY <1>5, <1>6 DEF Processor
<1>11. SameOutside(s, t, BelowStack(s, 2))
  BY <1>5, <1>6, <1>8 DEF SameOutside
<1> QED
  BY <1>4, <1>6, <1>8, <1>9, <1>10, <1>11 DEF sp

\* The powers of two up to a word.
LEMMA SmallPowers ==
    /\ Pow2[0] = 1 /\ Pow2[1] = 2 /\ Pow2[2] = 4 /\ Pow2[3] = 8 /\ Pow2[4] = 16
    /\ Pow2[5] = 32 /\ Pow2[6] = 64 /\ Pow2[7] = 128 /\ Pow2[8] = 256 /\ Pow2[9] = 512
    /\ Pow2[10] = 1024 /\ Pow2[11] = 2048
<1>1. \A n \in Nat : Pow2[n + 1] = 2 * Pow2[n]
  BY Powers
<1>2. Pow2[0] = 1 /\ Pow2[0 + 1] = 2 * Pow2[0] /\ Pow2[1 + 1] = 2 * Pow2[1]
      /\ Pow2[2 + 1] = 2 * Pow2[2] /\ Pow2[3 + 1] = 2 * Pow2[3]
      /\ Pow2[4 + 1] = 2 * Pow2[4] /\ Pow2[5 + 1] = 2 * Pow2[5]
      /\ Pow2[6 + 1] = 2 * Pow2[6] /\ Pow2[7 + 1] = 2 * Pow2[7]
      /\ Pow2[8 + 1] = 2 * Pow2[8] /\ Pow2[9 + 1] = 2 * Pow2[9]
      /\ Pow2[10 + 1] = 2 * Pow2[10]
  BY <1>1, Powers
<1> QED
  BY <1>2, SMT

\* A word has the flags that it was made of.
LEMMA FlagsKept ==
    ASSUME NEW g \in CpuFlags
    PROVE  /\ FlagsWord(g) \in Offset /\ FlagsOf(FlagsWord(g)) = [g EXCEPT !.x = UnusedSet]
<1> DEFINE v == FlagsWord(g)
<1>1. /\ g.c \in 0 .. 1 /\ g.p \in 0 .. 1 /\ g.a \in 0 .. 1 /\ g.z \in 0 .. 1
      /\ g.s \in 0 .. 1 /\ g.t \in 0 .. 1 /\ g.i \in 0 .. 1 /\ g.d \in 0 .. 1
      /\ g.o \in 0 .. 1 /\ (g.x = 0 \/ g.x = 61442)
  BY DEF CpuFlags, UnusedSet
<1>2. v \in Offset
  <2> DEFINE cc == g.c  pp == g.p  aa == g.a  zz == g.z  ss == g.s
             tt == g.t  ii == g.i  dd == g.d  oo == g.o  xx == g.x
  <2>1. /\ cc \in 0 .. 1 /\ pp \in 0 .. 1 /\ aa \in 0 .. 1 /\ zz \in 0 .. 1
        /\ ss \in 0 .. 1 /\ tt \in 0 .. 1 /\ ii \in 0 .. 1 /\ dd \in 0 .. 1
        /\ oo \in 0 .. 1 /\ (xx = 0 \/ xx = 61442)
        /\ v = cc + 4 * pp + 16 * aa + 64 * zz + 128 * ss
                 + 256 * tt + 512 * ii + 1024 * dd + 2048 * oo + xx
    BY <1>1 DEF FlagsWord
  <2> HIDE DEF cc, pp, aa, zz, ss, tt, ii, dd, oo, xx, v
  <2> QED
    BY <2>1, SMTT(60) DEF Offset
<1>3. /\ v % 2 = g.c /\ (v \div 4) % 2 = g.p /\ (v \div 16) % 2 = g.a
  <2>1. v % 2 = g.c
    BY <1>1, SMTT(60) DEF FlagsWord
  <2>2. (v \div 4) % 2 = g.p
    BY <1>1, SMTT(60) DEF FlagsWord
  <2>3. (v \div 16) % 2 = g.a
    BY <1>1, SMTT(60) DEF FlagsWord
  <2> QED
    BY <2>1, <2>2, <2>3
<1>4. /\ (v \div 64) % 2 = g.z /\ (v \div 128) % 2 = g.s /\ (v \div 256) % 2 = g.t
  <2>1. (v \div 64) % 2 = g.z
    BY <1>1, SMTT(60) DEF FlagsWord
  <2>2. (v \div 128) % 2 = g.s
    BY <1>1, SMTT(60) DEF FlagsWord
  <2>3. (v \div 256) % 2 = g.t
    BY <1>1, SMTT(60) DEF FlagsWord
  <2> QED
    BY <2>1, <2>2, <2>3
<1>5. /\ (v \div 512) % 2 = g.i /\ (v \div 1024) % 2 = g.d /\ (v \div 2048) % 2 = g.o
  <2>1. (v \div 512) % 2 = g.i
    BY <1>1, SMTT(60) DEF FlagsWord
  <2>2. (v \div 1024) % 2 = g.d
    BY <1>1, SMTT(60) DEF FlagsWord
  <2>3. (v \div 2048) % 2 = g.o
    BY <1>1, SMTT(60) DEF FlagsWord
  <2> QED
    BY <2>1, <2>2, <2>3
<1> HIDE DEF v
<1>6. v \div 1 = v
  BY <1>2 DEF Offset
<1>7. /\ Bit(v, 0) = g.c /\ Bit(v, 2) = g.p /\ Bit(v, 4) = g.a /\ Bit(v, 6) = g.z
      /\ Bit(v, 7) = g.s /\ Bit(v, 8) = g.t /\ Bit(v, 9) = g.i /\ Bit(v, 10) = g.d
      /\ Bit(v, 11) = g.o
  BY <1>3, <1>4, <1>5, <1>6, SmallPowers, SMT DEF Bit
<1>8. FlagsOf(v) = [g EXCEPT !.x = UnusedSet]
  BY <1>7 DEF FlagsOf, CpuFlags
<1> QED
  BY <1>2, <1>8 DEF v

\* The flags that any word has.
LEMMA FlagsRead ==
    ASSUME NEW v \in Int
    PROVE  FlagsOf(v) \in CpuFlags /\ FlagsOf(v).x = UnusedSet
<1>1. \A k \in 0 .. 11 : Bit(v, k) \in 0 .. 1
  <2> TAKE k \in 0 .. 11
  <2>1. Pow2[k] \in Nat /\ Pow2[k] > 0
    BY Powers
  <2> QED
    BY <2>1 DEF Bit
<1> QED
  BY <1>1 DEF FlagsOf, CpuFlags

-----------------------------------------------------------------------------
(* Results are words with flags.                                           *)

Control(g) == <<g.t, g.i, g.d, g.x>>

\* What an instruction leaves in the flags and its result.
ArithmeticResult(w, g, r) ==
    /\ r.val \in 0 .. Pow2[w] - 1
    /\ r.f \in CpuFlags /\ Control(r.f) = Control(g)

\* Every result is a word with flags, and the control flags stay.
LEMMA ResultTyped ==
    ASSUME NEW w \in Nat, w > 0, NEW r \in 0 .. Pow2[w] - 1, NEW g \in CpuFlags
    PROVE  /\ Result(w, r, g).val = r
           /\ Result(w, r, g).f \in CpuFlags
           /\ Control(Result(w, r, g).f) = Control(g)
<1>1. Pow2[w] \in Nat /\ r \in Int /\ w - 1 \in Nat
  BY Powers
<1>2. parity_even(r) \in 0 .. 1 /\ Top(w, r) \in 0 .. 1 /\ Flag(r = 0) \in 0 .. 1
  BY <1>1, ParityValue, BitValue DEF Top, Flag
<1> QED
  BY <1>2 DEF Result, CpuFlags, Control

\* The sums and differences that the programs need (i8088_adc_16 and the like).
LEMMA AddsTyped ==
    ASSUME NEW w \in Nat, w > 0, NEW g \in CpuFlags, NEW u \in Int, NEW v \in Int,
           NEW r, r \in {adc(w, g, u, v), sbb(w, g, u, v), inc(w, g, u)}
    PROVE  ArithmeticResult(w, g, r)
<1>1. Pow2[w] \in Nat \ {0} /\ g.c \in 0 .. 1 /\ 4 \in Nat
  BY Powers DEF CpuFlags
<1>2. \A z \in Int : z % Pow2[w] \in 0 .. Pow2[w] - 1
  BY <1>1
<1>3. \A b \in BOOLEAN : Flag(b) \in 0 .. 1
  BY DEF Flag
<1>4. ASSUME NEW k1 \in 0 .. 1, NEW k2 \in 0 .. 1, NEW k3 \in 0 .. 1
      PROVE  /\ [g EXCEPT !.a = k1, !.c = k2, !.o = k3] \in CpuFlags
             /\ Control([g EXCEPT !.a = k1, !.c = k2, !.o = k3]) = Control(g)
             /\ [g EXCEPT !.a = k1, !.o = k3] \in CpuFlags
             /\ Control([g EXCEPT !.a = k1, !.o = k3]) = Control(g)
  BY <1>4 DEF CpuFlags, Control
<1>5. CASE r = adc(w, g, u, v)
  <2> DEFINE sum == u + v + g.c
             q == sum % Pow2[w]
             a1 == Bit((u % 16) + (v % 16) + g.c, 4)
             c1 == Bit(sum, w)
             o1 == Overflow(w, u, v, q)
             h == [g EXCEPT !.a = a1, !.c = c1, !.o = o1]
  <2>1. r = Result(w, q, h)
    BY <1>5 DEF adc
  <2>2. sum \in Int /\ (u % 16) + (v % 16) + g.c \in Int
    BY <1>1
  <2>3. a1 \in 0 .. 1 /\ c1 \in 0 .. 1
    <3> HIDE DEF sum
    <3> QED
      BY <1>1, <2>2, BitValue
  <2>4. o1 \in 0 .. 1
    BY <1>3 DEF Overflow
  <2>5. q \in 0 .. Pow2[w] - 1
    BY <1>2, <2>2
  <2> HIDE DEF q, a1, c1, o1
  <2>6. h \in CpuFlags /\ Control(h) = Control(g)
    BY <1>4, <2>3, <2>4
  <2> HIDE DEF h
  <2> QED
    BY <2>1, <2>5, <2>6, ResultTyped DEF ArithmeticResult
<1>6. CASE r = sbb(w, g, u, v)
  <2> DEFINE diff == u - v - g.c
             q == diff % Pow2[w]
             a1 == Bit((u % 16) - (v % 16) - g.c, 4)
             c1 == Bit(diff, w)
             o1 == Overflow(w, u, Pow2[w] - 1 - v, q)
             h == [g EXCEPT !.a = a1, !.c = c1, !.o = o1]
  <2>1. r = Result(w, q, h)
    BY <1>6 DEF sbb
  <2>2. diff \in Int /\ (u % 16) - (v % 16) - g.c \in Int
    BY <1>1
  <2>3. a1 \in 0 .. 1 /\ c1 \in 0 .. 1
    <3> HIDE DEF diff
    <3> QED
      BY <1>1, <2>2, BitValue
  <2>4. o1 \in 0 .. 1
    BY <1>3 DEF Overflow
  <2>5. q \in 0 .. Pow2[w] - 1
    BY <1>2, <2>2
  <2> HIDE DEF q, a1, c1, o1
  <2>6. h \in CpuFlags /\ Control(h) = Control(g)
    BY <1>4, <2>3, <2>4
  <2> HIDE DEF h
  <2> QED
    BY <2>1, <2>5, <2>6, ResultTyped DEF ArithmeticResult
<1>7. CASE r = inc(w, g, u)
  <2> DEFINE q == (u + 1) % Pow2[w]
             a1 == Flag(q % 16 = 0)
             o1 == Flag(u = Pow2[w - 1] - 1)
             h == [g EXCEPT !.a = a1, !.o = o1]
  <2>1. r = Result(w, q, h)
    BY <1>7 DEF inc
  <2>2. q \in 0 .. Pow2[w] - 1
    <3>1. u + 1 \in Int
      OBVIOUS
    <3> QED
      BY <1>2, <3>1
  <2>3. a1 \in 0 .. 1 /\ o1 \in 0 .. 1 /\ 0 \in 0 .. 1
    BY DEF Flag
  <2> HIDE DEF q, a1, o1
  <2>4. h \in CpuFlags /\ Control(h) = Control(g)
    BY <1>4, <2>3
  <2> HIDE DEF h
  <2> QED
    BY <2>1, <2>2, <2>4, ResultTyped DEF ArithmeticResult
<1> QED
  BY <1>5, <1>6, <1>7

-----------------------------------------------------------------------------
(* Fetching an instruction.                                                *)

\* Without a further override the prefixes are one round of them.
LEMMA NoMorePrefixes ==
    ASSUME NEW s, ~Overrides(PrefixPair(s))
    PROVE  Prefixes(s) = PrefixPair(s)
<1> DEFINE p == PrefixPair(s)
           e(g) == [k \in Nat |->
                       IF k = 0 THEN p
                       ELSE LET u == g[k - 1] IN IF Overrides(u) THEN PrefixPair(u) ELSE u]
           at == CHOOSE g : g = e(g)
<1>1. Prefixes(s) = at[CHOOSE k \in Rounds : ~Overrides(at[k])]
  BY DEF Prefixes
<1>2. ~Overrides(p)
  OBVIOUS
<1> HIDE DEF p
<1>3. [k \in Nat |-> p] = e([k \in Nat |-> p])
  BY <1>2
<1>4. at = e(at)
  BY <1>3
<1> HIDE DEF at
<1>5. at[0] = p /\ \A k \in Nat : at[k] = p => at[k + 1] = p
  <2>1. at[0] = p
    BY <1>4
  <2>2. ASSUME NEW k \in Nat, at[k] = p PROVE at[k + 1] = p
    <3>1. k + 1 \in Nat /\ k + 1 # 0 /\ (k + 1) - 1 = k
      OBVIOUS
    <3> QED
      BY <1>2, <1>4, <2>2, <3>1
  <2> QED
    BY <2>1, <2>2
<1>6. \A k \in Nat : at[k] = p
  <2> DEFINE T == {k \in Nat : at[k] = p}
  <2>1. 0 \in T /\ \A k \in Nat : k \in T => k + 1 \in T
    BY <1>5
  <2> HIDE DEF T
  <2>2. Nat \subseteq T
    BY <2>1, CountUp
  <2> QED
    BY <2>2 DEF T
<1>7. 0 \in Rounds /\ Rounds \subseteq Nat
  BY SMT DEF Rounds
<1>8. (CHOOSE k \in Rounds : ~Overrides(at[k])) \in Nat
  BY <1>2, <1>5, <1>7
<1> QED
  BY <1>1, <1>6, <1>8 DEF p

\* Bytes and words are numbers.
LEMMA OffsetsAreNumbers == Offset \subseteq Nat /\ Byte \subseteq Offset /\ Byte \subseteq Nat
BY SMT DEF Offset, Byte

\* Bytes and words, one by one.
LEMMA AreNumbers == /\ \A v \in Byte : v \in Int /\ v \in Nat
                    /\ \A v \in Offset : v \in Int /\ v \in Nat
BY SMT DEF Offset, Byte

\* Every number has a lower word.
LEMMA WordTyped == \A v \in Int : Word(v) \in Offset /\ Word(v) \in Int
BY SMT DEF Word, Offset

\* The registers hold words.
LEMMA Registers16 ==
    ASSUME NEW s \in Processor
    PROVE  /\ s.ax \in Offset /\ s.cx \in Offset /\ s.dx \in Offset /\ s.bx \in Offset
           /\ s.sp \in Offset /\ s.bp \in Offset /\ s.si \in Offset /\ s.di \in Offset
           /\ s.cs \in Offset /\ s.ds \in Offset /\ s.es \in Offset /\ s.ss \in Offset
           /\ s.ip \in Offset /\ s.ip \in Int /\ s.sp \in Int /\ s.f \in CpuFlags
<1>1. /\ s.ax \in Offset /\ s.cx \in Offset /\ s.dx \in Offset /\ s.bx \in Offset
      /\ s.sp \in Offset /\ s.bp \in Offset /\ s.si \in Offset /\ s.di \in Offset
      /\ s.cs \in Offset /\ s.ds \in Offset /\ s.es \in Offset /\ s.ss \in Offset
      /\ s.ip \in Offset /\ s.f \in CpuFlags
  BY DEF Processor
<1> DEFINE ip == s.ip
           sp == s.sp
<1>2. ip \in Int /\ sp \in Int
  <2>1. ip \in Offset /\ sp \in Offset
    BY <1>1
  <2> HIDE DEF ip, sp
  <2> QED
    BY <2>1, OffsetsAreNumbers
<1> QED
  BY <1>1, <1>2

\* The processor past the opcode of an instruction without prefixes.
Started(s) == [s EXCEPT !.seg = "none", !.rep = "none", !.ip = Word(s.ip + 1)]

\* The prefixes are forgotten at the start of i8088_execute.
LEMMA Unprefixed ==
    ASSUME NEW s \in Processor, NEW t, t = [s EXCEPT !.seg = "none", !.rep = "none"]
    PROVE  /\ t \in Processor /\ t.cs = s.cs /\ t.ip = s.ip /\ t.m = s.m
           /\ \A ip \in Offset : /\ [s EXCEPT !.seg = "none", !.rep = "none", !.ip = ip] \in Processor
                                /\ [t EXCEPT !.ip = ip] = [s EXCEPT !.seg = "none", !.rep = "none", !.ip = ip]
<1>1. t \in Processor
  BY DEF Processor
<1>2. t.cs = s.cs /\ t.ip = s.ip
  BY DEF Processor
<1>3. t.m = s.m
  BY DEF Processor
<1>4. ASSUME NEW ip \in Offset
      PROVE  [s EXCEPT !.seg = "none", !.rep = "none", !.ip = ip] \in Processor
  BY DEF Processor
<1> QED
  BY <1>1, <1>2, <1>3, <1>4

\* Segment overrides, LOCK and the repeat prefixes.
PrefixBytes == {38, 46, 54, 62, 240, 242, 243}

\* An instruction without prefixes is fetched from CS:IP.
LEMMA Fetched ==
    ASSUME NEW s \in Processor, ~s.halt, NEW op, op = mem_read_by_segment(s, s.cs, s.ip),
           op \notin PrefixBytes
    PROVE  /\ i8088_execute(s) = Opcode(Started(s), op)
           /\ Started(s) \in Processor
<1> DEFINE t == [s EXCEPT !.seg = "none", !.rep = "none"]
<1>1. /\ t \in Processor /\ t.cs = s.cs /\ t.ip = s.ip /\ t.m = s.m
  <2>1. t = [s EXCEPT !.seg = "none", !.rep = "none"]
    OBVIOUS
  <2> HIDE DEF t
  <2> QED
    BY <2>1, Unprefixed
<1>2. s.ip \in Int /\ Word(s.ip + 1) \in Offset
  <2>1. s.ip \in Int /\ s.ip + 1 \in Int
    BY Registers16
  <2> QED
    BY <2>1, WordTyped
<1>3. Skip(t, 1) = Started(s) /\ Started(s) \in Processor
  <2>1. Skip(t, 1) = [t EXCEPT !.ip = Word(s.ip + 1)]
    BY <1>1 DEF Skip
  <2> DEFINE ip == Word(s.ip + 1)
  <2>2. [t EXCEPT !.ip = ip] = [s EXCEPT !.seg = "none", !.rep = "none", !.ip = ip]
    OBVIOUS
  <2>3. [s EXCEPT !.seg = "none", !.rep = "none", !.ip = ip] \in Processor
    <3> HIDE DEF ip, t
    <3> QED
      BY <1>2, Unprefixed DEF t, ip
  <2> QED
    BY <2>1, <2>2, <2>3 DEF Started
<1>4. fetch(t, 0) = op
  <2> HIDE DEF t
  <2>1. s.ip + 0 = s.ip
    BY <1>2
  <2>2. \A adr : mem_read(t, adr) = mem_read(s, adr)
    BY <1>1 DEF mem_read
  <2> QED
    BY <1>1, <2>1, <2>2 DEF fetch, mem_read_by_segment
<1>5. i8088_execute(s) = Opcode(Skip(Prefixes(t), 1), fetch(Prefixes(t), 0))
  BY DEF i8088_execute
<1> HIDE DEF t
<1>6. op \notin DOMAIN SegmentPrefix
  BY DEF SegmentPrefix, PrefixBytes
<1>7. PrefixPair(t) = t
  BY <1>4, <1>6 DEF PrefixPair, PrefixBytes
<1>8. ~Overrides(t)
  BY <1>4, <1>6 DEF Overrides
<1>9. Prefixes(t) = t
  BY <1>7, <1>8, NoMorePrefixes
<1> QED
  BY <1>3, <1>4, <1>5, <1>9

\* Prefixes that start over once.
LEMMA TwoRounds ==
    ASSUME NEW s, Overrides(PrefixPair(s)), ~Overrides(PrefixPair(PrefixPair(s)))
    PROVE  Prefixes(s) = PrefixPair(PrefixPair(s))
<1> DEFINE p == PrefixPair(s)
           q == PrefixPair(p)
           e(g) == [k \in Nat |->
                       IF k = 0 THEN p
                       ELSE LET u == g[k - 1] IN IF Overrides(u) THEN PrefixPair(u) ELSE u]
           at == CHOOSE g : g = e(g)
<1>1. Prefixes(s) = at[CHOOSE k \in Rounds : ~Overrides(at[k])]
  BY DEF Prefixes
<1>2. Overrides(p) /\ ~Overrides(q) /\ PrefixPair(p) = q
  OBVIOUS
<1> HIDE DEF p, q
<1> DEFINE h == [k \in Nat |-> IF k = 0 THEN p ELSE q]
<1>3. h = e(h)
  <2>1. ASSUME NEW k \in Nat, k # 0
        PROVE  q = LET u == h[k - 1] IN IF Overrides(u) THEN PrefixPair(u) ELSE u
    <3>1. k - 1 \in Nat
      BY <2>1
    <3>2. CASE k - 1 = 0
      BY <1>2, <3>1, <3>2
    <3>3. CASE k - 1 # 0
      BY <1>2, <3>1, <3>3
    <3> QED
      BY <3>2, <3>3
  <2>2. ASSUME NEW k \in Nat PROVE h[k] = e(h)[k]
    BY <2>1, <2>2
  <2>3. h = [k \in Nat |-> h[k]] /\ e(h) = [k \in Nat |-> e(h)[k]]
    OBVIOUS
  <2> HIDE DEF h, e
  <2> QED
    BY <2>2, <2>3
<1>4. at = e(at)
  BY <1>3
<1> HIDE DEF at
<1>5. /\ at[0] = p
      /\ \A k \in Nat : at[k + 1] = IF Overrides(at[k]) THEN PrefixPair(at[k]) ELSE at[k]
  <2>1. at[0] = p
    BY <1>4
  <2>2. ASSUME NEW k \in Nat
        PROVE  at[k + 1] = IF Overrides(at[k]) THEN PrefixPair(at[k]) ELSE at[k]
    <3>1. k + 1 \in Nat /\ k + 1 # 0 /\ (k + 1) - 1 = k
      OBVIOUS
    <3> QED
      BY <1>4, <3>1
  <2> QED
    BY <2>1, <2>2
<1>6. \A k \in Nat : k = 0 \/ at[k] = q
  <2> DEFINE T == {k \in Nat : k = 0 \/ at[k] = q}
  <2>1. 0 \in T
    OBVIOUS
  <2>2. ASSUME NEW k \in Nat, k \in T PROVE k + 1 \in T
    <3>1. k + 1 \in Nat
      OBVIOUS
    <3>2. CASE k = 0
      BY <1>2, <1>5, <3>1, <3>2
    <3>3. CASE at[k] = q
      BY <1>2, <1>5, <3>1, <3>3
    <3> QED
      BY <2>2, <3>2, <3>3
  <2> HIDE DEF T
  <2>3. Nat \subseteq T
    BY <2>1, <2>2, CountUp
  <2> QED
    BY <2>3 DEF T
<1>7. 1 \in Rounds /\ Rounds \subseteq Nat
  BY SMT DEF Rounds
<1>8. at[1] = q
  BY <1>6
<1> DEFINE k == CHOOSE k \in Rounds : ~Overrides(at[k])
<1>9. k \in Rounds /\ ~Overrides(at[k])
  BY <1>2, <1>7, <1>8
<1> HIDE DEF k
<1>10. k # 0
  BY <1>2, <1>5, <1>9
<1> QED
  BY <1>1, <1>6, <1>7, <1>9, <1>10 DEF k, p, q

-----------------------------------------------------------------------------
(* Below the top of the stack.                                             *)

\* The stack of u is that of s after j bytes have been pushed.
Lower(s, u, j) == u.ss = s.ss /\ u.sp = Word(s.sp - j)

\* Where the bytes around the top of the stack are when it has moved.
LEMMA Shadow ==
    ASSUME NEW s \in Processor, NEW u, NEW j \in Int, Lower(s, u, j)
    PROVE  \A i \in Int : /\ Linear(u.ss, u.sp - i) = Linear(s.ss, s.sp - (j + i))
                          /\ Linear(u.ss, u.sp + i) = Linear(s.ss, s.sp + (i - j))
<1> TAKE i \in Int
<1> DEFINE off == s.sp - j
           seg == s.ss
<1>1. off \in Int /\ -i \in Int /\ off + (-i) = s.sp - (j + i) /\ off + i = s.sp + (i - j)
      /\ seg \in Offset
  BY Registers16
<1>2. Word(off) \in Int
  <2> HIDE DEF off
  <2> QED
    BY <1>1, WordTyped
<1>3. Word(off) - i = Word(off) + (-i)
  BY <1>2
<1>4. Linear(seg, Word(off) + (-i)) = Linear(seg, off + (-i))
      /\ Linear(seg, Word(off) + i) = Linear(seg, off + i)
  <2> HIDE DEF off, seg
  <2> QED
    BY <1>1, Offsets
<1> QED
  BY <1>1, <1>3, <1>4 DEF Lower

\* Different bytes below the top of the stack.
LEMMA BelowApart ==
    ASSUME NEW s \in Processor, NEW j \in Int, NEW k \in Int, j < k, k < j + 100
    PROVE  Linear(s.ss, s.sp - j) # Linear(s.ss, s.sp - k)
<1>1. s.sp - j \in Int /\ s.sp - k \in Int /\ s.sp - k < s.sp - j /\ s.ss \in Offset
  BY Registers16
<1>2. s.sp - j < (s.sp - k) + 65536
  BY Registers16, SMT
<1> DEFINE seg == s.ss
           low == s.sp - k
           high == s.sp - j
<1> HIDE DEF seg, low, high
<1>3. Linear(seg, low) # Linear(seg, high)
  BY <1>1, <1>2, Apart DEF seg, low, high
<1> QED
  BY <1>3 DEF seg, low, high

\* The bytes that one word and three words take on the stack.
LEMMA BelowTwo ==
    ASSUME NEW s, NEW sp, sp = s.sp
    PROVE  /\ BelowStack(s, 2) = {Linear(s.ss, sp - 1), Linear(s.ss, sp - 2)}
           /\ BelowStack(s, 6) = {Linear(s.ss, sp - 1), Linear(s.ss, sp - 2),
                Linear(s.ss, sp - 3), Linear(s.ss, sp - 4), Linear(s.ss, sp - 5),
                Linear(s.ss, sp - 6)}
<1>1. 1 .. 2 = {1, 2} /\ 1 .. 6 = {1, 2, 3, 4, 5, 6}
  OBVIOUS
<1> QED
  BY <1>1 DEF BelowStack

\* A further word is pushed onto u, j bytes below the top of the stack of s.
PushedBelow(s, u, j, v, t) ==
    /\ t \in Processor /\ t = [u EXCEPT !.sp = Word(s.sp - (j + 2)), !.m = t.m]
    /\ DOMAIN t.m = DOMAIN u.m \cup {Linear(s.ss, s.sp - (j + 1)),
                                     Linear(s.ss, s.sp - (j + 2))}
    /\ \A k \in Int : (k <= j \/ k > j + 2) /\ k < j + 90 /\ j < k + 90 =>
          mem_read(t, Linear(s.ss, s.sp - k)) = mem_read(u, Linear(s.ss, s.sp - k))
    /\ SameOutside(u, t, {Linear(s.ss, s.sp - (j + 1)), Linear(s.ss, s.sp - (j + 2))})
    /\ Read16(t, s.ss, s.sp - (j + 2)) = v

\* Where a further push writes, and that it leaves the rest of the stack.
LEMMA PushesBelow ==
    ASSUME NEW s \in Processor, NEW u \in Processor, u.rom = {},
           NEW j \in Int, Lower(s, u, j), NEW v \in Offset, NEW t, t = push(u, v)
    PROVE  PushedBelow(s, u, j, v, t)
<1>1. /\ t \in Processor /\ t = [u EXCEPT !.sp = Word(u.sp - 2), !.m = t.m]
      /\ DOMAIN t.m = DOMAIN u.m \cup BelowStack(u, 2)
      /\ SameOutside(u, t, BelowStack(u, 2))
      /\ Read16(t, u.ss, u.sp - 2) = v
  BY Pushes
<1>2. \A i \in Int : Linear(u.ss, u.sp - i) = Linear(s.ss, s.sp - (j + i))
  BY Shadow
<1>3. BelowStack(u, 2) = {Linear(s.ss, s.sp - (j + 1)), Linear(s.ss, s.sp - (j + 2))}
  BY <1>2, BelowTwo
<1>4. Word(u.sp - 2) = Word(s.sp - (j + 2))
  <2> DEFINE off == s.sp - j
  <2>1. off \in Int /\ -2 \in Int /\ off + (-2) = s.sp - (j + 2)
    BY Registers16
  <2>2. Word(Word(off) + (-2)) = Word(off + (-2))
    <3> HIDE DEF off
    <3>1. 0 \in Offset
      BY SMT DEF Offset
    <3> QED
      BY <2>1, <3>1, Offsets
  <2>3. Word(off) \in Int
    <3> HIDE DEF off
    <3> QED
      BY <2>1, WordTyped
  <2>4. Word(off) - 2 = Word(off) + (-2)
    BY <2>3
  <2> QED
    BY <2>1, <2>2, <2>4 DEF Lower
<1>5. Read16(t, s.ss, s.sp - (j + 2)) = v
  <2>1. Read16(t, u.ss, u.sp - 2) = mem_read(t, Linear(u.ss, u.sp - 2))
                                     + 256 * mem_read(t, Linear(u.ss, u.sp - 1))
    <3>1. u.sp - 2 + 1 = u.sp - 1
      BY Registers16
    <3> QED
      BY <3>1 DEF Read16, mem_read_by_segment
  <2>2. Linear(u.ss, u.sp - 2) = Linear(s.ss, s.sp - (j + 2))
        /\ Linear(u.ss, u.sp - 1) = Linear(s.ss, s.sp - (j + 1))
    BY <1>2
  <2>3. Read16(t, s.ss, s.sp - (j + 2)) = mem_read(t, Linear(s.ss, s.sp - (j + 2)))
                                     + 256 * mem_read(t, Linear(s.ss, s.sp - (j + 1)))
    <3>1. s.sp - (j + 2) + 1 = s.sp - (j + 1)
      BY Registers16
    <3> QED
      BY <3>1 DEF Read16, mem_read_by_segment
  <2> QED
    BY <1>1, <2>1, <2>2, <2>3
<1>6. ASSUME NEW k \in Int, k <= j \/ k > j + 2, k < j + 90, j < k + 90
      PROVE  mem_read(t, Linear(s.ss, s.sp - k)) = mem_read(u, Linear(s.ss, s.sp - k))
  <2>1. CASE k <= j
    <3>1. k < j + 1 /\ j + 1 < k + 100 /\ k < j + 2 /\ j + 2 < k + 100
          /\ j + 1 \in Int /\ j + 2 \in Int
      BY <1>6, <2>1
    <3>2. Linear(s.ss, s.sp - k) \notin BelowStack(u, 2)
      BY <1>3, <3>1, BelowApart
    <3> QED
      BY <1>1, <3>2 DEF SameOutside
  <2>2. CASE k > j + 2
    <3>1. j + 1 < k /\ k < (j + 1) + 100 /\ j + 2 < k /\ k < (j + 2) + 100
          /\ j + 1 \in Int /\ j + 2 \in Int
      BY <1>6, <2>2
    <3>2. Linear(s.ss, s.sp - k) \notin BelowStack(u, 2)
      BY <1>3, <3>1, BelowApart
    <3> QED
      BY <1>1, <3>2 DEF SameOutside
  <2> QED
    BY <1>6, <2>1, <2>2
<1> QED
  BY <1>1, <1>3, <1>4, <1>5, <1>6 DEF PushedBelow

-----------------------------------------------------------------------------
(* Interrupts.                                                             *)

\* Changing the instruction pointer, CS and flags leaves a processor.
LEMMA Diverted ==
    ASSUME NEW u, u \in Processor,
           NEW ip, NEW cs, NEW g, ip \in Offset, cs \in Offset, g \in CpuFlags
    PROVE  [u EXCEPT !.ip = ip, !.cs = cs, !.f = g] \in Processor
BY ZenonT(60) DEF Processor

\* Nor does it matter to change the stack pointer as well.
LEMMA Resumed ==
    ASSUME NEW u, u \in Processor,
           NEW sp, NEW ip, NEW cs, NEW g,
           sp \in Offset, ip \in Offset, cs \in Offset, g \in CpuFlags
    PROVE  [u EXCEPT !.sp = sp, !.ip = ip, !.cs = cs, !.f = g] \in Processor
BY ZenonT(60) DEF Processor

\* What i8088_interrupt does before it takes the vector: flags, CS and IP are
\* pushed in this order.
Framed(s, t) ==
    /\ Read16(t, s.ss, s.sp - 2) = FlagsWord(s.f)
    /\ Read16(t, s.ss, s.sp - 4) = s.cs
    /\ Read16(t, s.ss, s.sp - 6) = s.ip

\* Three pushes make the frame of an interrupt.
LEMMA FramePushed ==
    ASSUME NEW s \in Processor, s.rom = {}, NEW t,
           t = push(push(push(s, FlagsWord(s.f)), s.cs), s.ip)
    PROVE  /\ t \in Processor /\ t = [s EXCEPT !.sp = Word(s.sp - 6), !.m = t.m]
           /\ DOMAIN t.m = DOMAIN s.m \cup BelowStack(s, 6)
           /\ SameOutside(s, t, BelowStack(s, 6))
           /\ Framed(s, t)
<1> DEFINE u == push(s, FlagsWord(s.f))
           v == push(u, s.cs)
           A(i) == Linear(s.ss, s.sp - i)
<1>1. FlagsWord(s.f) \in Offset /\ s.cs \in Offset /\ s.ip \in Offset
  BY Registers16, FlagsKept
<1>2. t = push(v, s.ip) /\ u = push(s, FlagsWord(s.f)) /\ v = push(u, s.cs)
  OBVIOUS
<1> HIDE DEF u, v
<1>3. /\ u \in Processor /\ u = [s EXCEPT !.sp = Word(s.sp - 2), !.m = u.m]
      /\ DOMAIN u.m = DOMAIN s.m \cup BelowStack(s, 2)
      /\ SameOutside(s, u, BelowStack(s, 2))
      /\ Read16(u, s.ss, s.sp - 2) = FlagsWord(s.f)
  <2> DEFINE w == FlagsWord(s.f)
  <2>1. w \in Offset /\ u = push(s, w)
    BY <1>1, <1>2
  <2> HIDE DEF w
  <2>2. /\ u \in Processor /\ u = [s EXCEPT !.sp = Word(s.sp - 2), !.m = u.m]
        /\ DOMAIN u.m = DOMAIN s.m \cup BelowStack(s, 2)
        /\ SameOutside(s, u, BelowStack(s, 2))
        /\ Read16(u, s.ss, s.sp - 2) = w
    BY <2>1, Pushes
  <2> QED
    BY <2>2 DEF w
<1>4. u.rom = {} /\ Lower(s, u, 2)
  BY <1>3 DEF Processor, Lower
<1>5. /\ v \in Processor /\ v = [u EXCEPT !.sp = Word(s.sp - (2 + 2)), !.m = v.m]
      /\ DOMAIN v.m = DOMAIN u.m \cup {A(2 + 1), A(2 + 2)}
      /\ \A k \in Int : (k <= 2 \/ k > 2 + 2) /\ k < 2 + 90 /\ 2 < k + 90 =>
            mem_read(v, A(k)) = mem_read(u, A(k))
      /\ SameOutside(u, v, {A(2 + 1), A(2 + 2)})
      /\ Read16(v, s.ss, s.sp - (2 + 2)) = s.cs
  <2>1. 2 \in Int
    OBVIOUS
  <2>2. PushedBelow(s, u, 2, s.cs, v)
    BY <1>1, <1>2, <1>3, <1>4, <2>1, PushesBelow
  <2> QED
    BY <2>2 DEF PushedBelow
<1>6. v = [s EXCEPT !.sp = Word(s.sp - 4), !.m = v.m] /\ v.rom = {} /\ Lower(s, v, 4)
  <2>1. v = [u EXCEPT !.sp = Word(s.sp - 4), !.m = v.m]
    <3>1. 2 + 2 = 4
      OBVIOUS
    <3> QED
      BY <1>5, <3>1
  <2>2. v = [s EXCEPT !.sp = Word(s.sp - 4), !.m = v.m]
    BY <1>3, <2>1 DEF Processor
  <2> QED
    BY <1>4, <2>2 DEF Processor, Lower
<1>7. /\ t \in Processor /\ t = [v EXCEPT !.sp = Word(s.sp - (4 + 2)), !.m = t.m]
      /\ DOMAIN t.m = DOMAIN v.m \cup {A(4 + 1), A(4 + 2)}
      /\ \A k \in Int : (k <= 4 \/ k > 4 + 2) /\ k < 4 + 90 /\ 4 < k + 90 =>
            mem_read(t, A(k)) = mem_read(v, A(k))
      /\ SameOutside(v, t, {A(4 + 1), A(4 + 2)})
      /\ Read16(t, s.ss, s.sp - (4 + 2)) = s.ip
  <2>1. 4 \in Int
    OBVIOUS
  <2>2. PushedBelow(s, v, 4, s.ip, t)
    BY <1>1, <1>2, <1>5, <1>6, <2>1, PushesBelow
  <2> QED
    BY <2>2 DEF PushedBelow
<1>8. t = [s EXCEPT !.sp = Word(s.sp - 6), !.m = t.m]
  <2>1. t = [v EXCEPT !.sp = Word(s.sp - 6), !.m = t.m]
    <3>1. 4 + 2 = 6
      OBVIOUS
    <3> QED
      BY <1>7, <3>1
  <2> QED
    BY <1>6, <2>1 DEF Processor
<1>9. BelowStack(s, 2) = {A(1), A(2)} /\ BelowStack(s, 6) = {A(1), A(2), A(3), A(4), A(5), A(6)}
  BY BelowTwo
<1>10. DOMAIN t.m = DOMAIN s.m \cup BelowStack(s, 6)
  <2>1. DOMAIN v.m = DOMAIN u.m \cup {A(3), A(4)} /\ DOMAIN t.m = DOMAIN v.m \cup {A(5), A(6)}
    BY <1>5, <1>7
  <2> HIDE DEF A
  <2> QED
    BY <1>3, <1>9, <2>1
<1>11. SameOutside(s, t, BelowStack(s, 6))
  <2>1. SameOutside(u, v, {A(3), A(4)}) /\ SameOutside(v, t, {A(5), A(6)})
    BY <1>5, <1>7
  <2> HIDE DEF A
  <2> QED
    BY <1>3, <1>9, <2>1 DEF SameOutside
<1>12. Framed(s, t)
  <2>1. /\ mem_read(t, A(3)) = mem_read(v, A(3)) /\ mem_read(t, A(4)) = mem_read(v, A(4))
        /\ mem_read(t, A(2)) = mem_read(v, A(2)) /\ mem_read(t, A(1)) = mem_read(v, A(1))
    BY <1>7
  <2>2. mem_read(v, A(2)) = mem_read(u, A(2)) /\ mem_read(v, A(1)) = mem_read(u, A(1))
    BY <1>5
  <2>3. \A q : /\ Read16(q, s.ss, s.sp - 2) = mem_read(q, A(2)) + 256 * mem_read(q, A(1))
               /\ Read16(q, s.ss, s.sp - 4) = mem_read(q, A(4)) + 256 * mem_read(q, A(3))
    <3>1. s.sp - 2 + 1 = s.sp - 1 /\ s.sp - 4 + 1 = s.sp - 3
      BY Registers16
    <3> QED
      BY <3>1 DEF Read16, mem_read_by_segment
  <2>4. Read16(v, s.ss, s.sp - 4) = s.cs /\ Read16(t, s.ss, s.sp - 6) = s.ip
    BY <1>5, <1>7
  <2> HIDE DEF A
  <2> QED
    BY <1>3, <2>1, <2>2, <2>3, <2>4 DEF Framed
<1> QED
  BY <1>7, <1>8, <1>10, <1>11, <1>12

\* An interrupt pushes the frame and goes where the vector points.
Entered(s, n, t) ==
    /\ t \in Processor
    /\ t = [s EXCEPT !.sp = Word(s.sp - 6), !.m = t.m, !.f.t = 0,
                     !.ip = Read16(t, 0, n * 4), !.cs = Read16(t, 0, n * 4 + 2)]
    /\ DOMAIN t.m = DOMAIN s.m \cup BelowStack(s, 6)
    /\ SameOutside(s, t, BelowStack(s, 6))
    /\ Framed(s, t)

\* What i8088_interrupt does to any processor.
LEMMA Interrupted ==
    ASSUME NEW s \in Processor, s.rom = {}, NEW n \in Nat, NEW t, t = i8088_interrupt(s, n)
    PROVE  Entered(s, n, t)
<1> DEFINE u == push(push(push(s, FlagsWord(s.f)), s.cs), s.ip)
           ip == Read16(u, 0, n * 4)
           cs == Read16(u, 0, n * 4 + 2)
<1>1. t = [u EXCEPT !.ip = ip, !.cs = cs, !.f.t = 0]
  BY DEF i8088_interrupt
<1>2. u = push(push(push(s, FlagsWord(s.f)), s.cs), s.ip)
  OBVIOUS
<1> HIDE DEF u
<1>3. /\ u \in Processor /\ u = [s EXCEPT !.sp = Word(s.sp - 6), !.m = u.m]
      /\ DOMAIN u.m = DOMAIN s.m \cup BelowStack(s, 6)
      /\ SameOutside(s, u, BelowStack(s, 6))
      /\ Framed(s, u)
  BY <1>2, FramePushed
<1>4. ip \in Offset /\ cs \in Offset
  BY <1>3, Reads16
<1>5. ip = Read16(u, 0, n * 4) /\ cs = Read16(u, 0, n * 4 + 2)
  OBVIOUS
<1> HIDE DEF ip, cs
<1>6. u.f \in CpuFlags /\ u.f = s.f
  BY <1>3 DEF Processor
<1>7. [u.f EXCEPT !.t = 0] \in CpuFlags
  BY <1>6 DEF CpuFlags
<1>8. t = [u EXCEPT !.ip = ip, !.cs = cs, !.f = [u.f EXCEPT !.t = 0]]
  BY <1>1
<1>9. t \in Processor
  <2> DEFINE g == [u.f EXCEPT !.t = 0]
  <2> HIDE DEF g
  <2>1. t = [u EXCEPT !.ip = ip, !.cs = cs, !.f = g] /\ g \in CpuFlags
    BY <1>7, <1>8 DEF g
  <2>2. u \in Processor
    BY <1>3
  <2>3. [u EXCEPT !.ip = ip, !.cs = cs, !.f = g] \in Processor
    BY <1>4, <2>1, <2>2, Diverted
  <2> QED
    BY <2>1, <2>3
<1>10. t.m = u.m
  BY <1>3, <1>8 DEF Processor
<1>11. \A adr : mem_read(t, adr) = mem_read(u, adr)
  BY <1>10 DEF mem_read
<1>12. \A seg, off : Read16(t, seg, off) = Read16(u, seg, off)
  BY <1>11 DEF Read16, mem_read_by_segment
<1>13. SameOutside(s, t, BelowStack(s, 6)) /\ Framed(s, t)
  BY <1>3, <1>11, <1>12 DEF SameOutside, Framed
<1>14. t = [s EXCEPT !.sp = Word(s.sp - 6), !.m = t.m, !.f.t = 0, !.ip = ip, !.cs = cs]
  BY <1>3, <1>6, <1>8, <1>10, ZenonT(60) DEF Processor
<1>15. ip = Read16(t, 0, n * 4) /\ cs = Read16(t, 0, n * 4 + 2)
  BY <1>5, <1>12
<1> QED
  BY <1>3, <1>9, <1>10, <1>13, <1>14, <1>15 DEF Entered

\* IRET takes the frame from the stack, wherever it came from.
LEMMA FrameTaken ==
    ASSUME NEW s \in Processor, NEW t \in Processor, Lower(s, t, 6), Framed(s, t)
    PROVE  /\ iret(t) = [t EXCEPT !.sp = s.sp, !.ip = s.ip, !.cs = s.cs,
                                  !.f = [s.f EXCEPT !.x = UnusedSet]]
           /\ iret(t) \in Processor
<1> DEFINE g == [s.f EXCEPT !.x = UnusedSet]
<1>1. \A i \in Int : Linear(t.ss, t.sp + i) = Linear(s.ss, s.sp + (i - 6))
  <2>1. 6 \in Int
    OBVIOUS
  <2> QED
    BY <2>1, Shadow
<1>2. t.sp \in Int /\ s.sp \in Int
  BY Registers16
<1>3. /\ OnStack(t, 0) = mem_read(t, Linear(s.ss, s.sp - 6)) + 256 * mem_read(t, Linear(s.ss, s.sp - 5))
      /\ OnStack(t, 2) = mem_read(t, Linear(s.ss, s.sp - 4)) + 256 * mem_read(t, Linear(s.ss, s.sp - 3))
      /\ OnStack(t, 4) = mem_read(t, Linear(s.ss, s.sp - 2)) + 256 * mem_read(t, Linear(s.ss, s.sp - 1))
  <2>1. /\ s.sp + (0 - 6) = s.sp - 6 /\ s.sp + (1 - 6) = s.sp - 5
        /\ s.sp + (2 - 6) = s.sp - 4 /\ s.sp + (3 - 6) = s.sp - 3
        /\ s.sp + (4 - 6) = s.sp - 2 /\ s.sp + (5 - 6) = s.sp - 1
        /\ t.sp + 2 + 1 = t.sp + 3 /\ t.sp + 4 + 1 = t.sp + 5 /\ t.sp + 0 + 1 = t.sp + 1
    BY <1>2
  <2>2. /\ Linear(t.ss, t.sp + 0) = Linear(s.ss, s.sp - 6)
        /\ Linear(t.ss, t.sp + 1) = Linear(s.ss, s.sp - 5)
        /\ Linear(t.ss, t.sp + 2) = Linear(s.ss, s.sp - 4)
        /\ Linear(t.ss, t.sp + 3) = Linear(s.ss, s.sp - 3)
        /\ Linear(t.ss, t.sp + 4) = Linear(s.ss, s.sp - 2)
        /\ Linear(t.ss, t.sp + 5) = Linear(s.ss, s.sp - 1)
    <3>1. 0 \in Int /\ 1 \in Int /\ 2 \in Int /\ 3 \in Int /\ 4 \in Int /\ 5 \in Int
      OBVIOUS
    <3> QED
      BY <1>1, <2>1, <3>1
  <2> QED
    BY <2>1, <2>2 DEF OnStack, Read16, mem_read_by_segment
<1>4. OnStack(t, 0) = s.ip /\ OnStack(t, 2) = s.cs /\ OnStack(t, 4) = FlagsWord(s.f)
  <2>1. s.sp - 6 + 1 = s.sp - 5 /\ s.sp - 4 + 1 = s.sp - 3 /\ s.sp - 2 + 1 = s.sp - 1
    BY <1>2
  <2> QED
    BY <1>3, <2>1 DEF Framed, Read16, mem_read_by_segment
<1>5. Word(t.sp + 6) = s.sp
  <2> DEFINE sp == s.sp
  <2>1. sp \in Offset /\ t.sp = Word(sp - 6)
    BY Registers16 DEF Lower
  <2> HIDE DEF sp
  <2>2. Word(Word(sp - 6) + 6) = sp
    BY <2>1, SMT DEF Word, Offset
  <2> QED
    BY <2>1, <2>2 DEF sp
<1>6. FlagsOf(FlagsWord(s.f)) = g /\ g \in CpuFlags
  <2>1. s.f \in CpuFlags
    BY Registers16
  <2>2. UnusedSet \in {0, UnusedSet}
    OBVIOUS
  <2> QED
    BY <2>1, <2>2, FlagsKept DEF CpuFlags
<1> HIDE DEF g
<1>7. iret(t) = [t EXCEPT !.sp = s.sp, !.ip = s.ip, !.cs = s.cs, !.f = g]
  BY <1>4, <1>5, <1>6 DEF iret, Drop
<1>8. s.sp \in Offset /\ s.ip \in Offset /\ s.cs \in Offset
  BY Registers16
<1>9. iret(t) \in Processor
  <2> DEFINE sp == s.sp
             ip == s.ip
             cs == s.cs
  <2>1. sp \in Offset /\ ip \in Offset /\ cs \in Offset
        /\ iret(t) = [t EXCEPT !.sp = sp, !.ip = ip, !.cs = cs, !.f = g]
    BY <1>7, <1>8
  <2> HIDE DEF sp, ip, cs
  <2>2. [t EXCEPT !.sp = sp, !.ip = ip, !.cs = cs, !.f = g] \in Processor
    BY <1>1, <1>6, <2>1, Resumed
  <2> QED
    BY <2>1, <2>2
<1> QED
  BY <1>7, <1>9 DEF g

\* An interrupt routine returns: for every state of the processor and whatever
\* the routine does (i8088_interrupt, 0xCF), IRET goes back to the interrupted
\* instruction with the stack pointer and the flags of before, provided the
\* routine leaves the stack pointer as it found it and the six bytes of its
\* frame alone. Only the unused flag bits are as IRET leaves them.
THEOREM InterruptReturns ==
    ASSUME NEW s \in Processor, s.rom = {}, NEW n \in Nat, NEW h, h = i8088_interrupt(s, n),
           NEW t \in Processor, t.ss = h.ss, t.sp = h.sp,
           \A adr \in BelowStack(s, 6) : mem_read(t, adr) = mem_read(h, adr)
    PROVE  iret(t) = [t EXCEPT !.sp = s.sp, !.ip = s.ip, !.cs = s.cs,
                               !.f = [s.f EXCEPT !.x = UnusedSet]]
<1> DEFINE A(i) == Linear(s.ss, s.sp - i)
<1>1. /\ h \in Processor
      /\ h = [s EXCEPT !.sp = Word(s.sp - 6), !.m = h.m, !.f.t = 0,
                       !.ip = Read16(h, 0, n * 4), !.cs = Read16(h, 0, n * 4 + 2)]
      /\ Framed(s, h)
  <2>1. Entered(s, n, h)
    BY Interrupted
  <2> QED
    BY <2>1 DEF Entered
<1>2. h.ss = s.ss /\ h.sp = Word(s.sp - 6)
  BY <1>1 DEF Processor
<1>3. Lower(s, t, 6)
  BY <1>2 DEF Lower
<1>4. Framed(s, t)
  <2>1. BelowStack(s, 6) = {A(1), A(2), A(3), A(4), A(5), A(6)}
    BY BelowTwo
  <2>2. \A q : /\ Read16(q, s.ss, s.sp - 2) = mem_read(q, A(2)) + 256 * mem_read(q, A(1))
               /\ Read16(q, s.ss, s.sp - 4) = mem_read(q, A(4)) + 256 * mem_read(q, A(3))
               /\ Read16(q, s.ss, s.sp - 6) = mem_read(q, A(6)) + 256 * mem_read(q, A(5))
    <3>1. s.sp - 2 + 1 = s.sp - 1 /\ s.sp - 4 + 1 = s.sp - 3 /\ s.sp - 6 + 1 = s.sp - 5
      BY Registers16
    <3> QED
      BY <3>1 DEF Read16, mem_read_by_segment
  <2> HIDE DEF A
  <2> QED
    BY <1>1, <2>1, <2>2 DEF Framed
<1> QED
  BY <1>3, <1>4, FrameTaken

\* What a push and the matching pop do to the word at the top of the stack.
LEMMA Popped ==
    ASSUME NEW s \in Processor, NEW t \in Processor, Lower(s, t, 2)
    PROVE  /\ Drop(t, 2) = [t EXCEPT !.sp = s.sp] /\ Drop(t, 2) \in Processor
           /\ OnStack(t, 0) = Read16(t, s.ss, s.sp - 2) /\ OnStack(t, 0) \in Offset
<1>1. t.sp \in Int /\ s.sp \in Int /\ s.sp \in Offset
  BY Registers16
<1>2. Word(t.sp + 2) = s.sp
  <2> DEFINE sp == s.sp
  <2>1. sp \in Offset /\ t.sp = Word(sp - 2)
    BY Registers16 DEF Lower
  <2> HIDE DEF sp
  <2>2. Word(Word(sp - 2) + 2) = sp
    BY <2>1, SMT DEF Word, Offset
  <2> QED
    BY <2>1, <2>2 DEF sp
<1>3. Drop(t, 2) = [t EXCEPT !.sp = s.sp]
  BY <1>2 DEF Drop
<1>4. Drop(t, 2) \in Processor
  <2> DEFINE sp == s.sp
  <2>1. sp \in Offset /\ Drop(t, 2) = [t EXCEPT !.sp = sp]
    BY <1>1, <1>3
  <2> HIDE DEF sp
  <2> QED
    BY <2>1 DEF Processor
<1>5. /\ Linear(t.ss, t.sp + 0) = Linear(s.ss, s.sp - 2)
      /\ Linear(t.ss, t.sp + 1) = Linear(s.ss, s.sp - 1)
  <2>1. \A i \in Int : Linear(t.ss, t.sp + i) = Linear(s.ss, s.sp + (i - 2))
    <3>1. 2 \in Int
      OBVIOUS
    <3> QED
      BY <3>1, Shadow
  <2>2. s.sp + (0 - 2) = s.sp - 2 /\ s.sp + (1 - 2) = s.sp - 1 /\ 0 \in Int /\ 1 \in Int
    BY <1>1
  <2> QED
    BY <2>1, <2>2
<1>6. OnStack(t, 0) = Read16(t, s.ss, s.sp - 2)
  <2>1. t.sp + 0 + 1 = t.sp + 1 /\ s.sp - 2 + 1 = s.sp - 1
    BY <1>1
  <2> QED
    BY <1>5, <2>1 DEF OnStack, Read16, mem_read_by_segment
<1>7. OnStack(t, 0) \in Offset
  BY Reads16 DEF OnStack
<1> QED
  BY <1>3, <1>4, <1>6, <1>7

-----------------------------------------------------------------------------
(* The instructions of the programs, from any state past the opcode.       *)

\* 0x50.
LEMMA PushAx == ASSUME NEW t PROVE Opcode(t, 80) = push(t, t.ax)
<1>1. Opcode(t, 80) = push_reg(t, 0)
  BY SMT DEF Opcode
<1>2. push_reg(t, 0) = push(t, t["ax"])
  BY DEF push_reg, modrm_get_reg_16, REG16
<1> QED
  BY <1>1, <1>2

\* 0x9C.
LEMMA PushFlags == ASSUME NEW t PROVE Opcode(t, 156) = push(t, FlagsWord(t.f))
BY SMT DEF Opcode

\* 0x58.
LEMMA PopAx == ASSUME NEW t PROVE Opcode(t, 88) = [Drop(t, 2) EXCEPT !.ax = OnStack(t, 0)]
<1>1. Opcode(t, 88) = pop_reg(t, 0)
  BY SMT DEF Opcode
<1>2. pop_reg(t, 0) = [Drop(t, 2) EXCEPT !["ax"] = OnStack(t, 0)]
  BY DEF pop_reg, modrm_set_reg_16, REG16
<1> QED
  BY <1>1, <1>2

\* 0x5A.
LEMMA PopDx == ASSUME NEW t PROVE Opcode(t, 90) = [Drop(t, 2) EXCEPT !.dx = OnStack(t, 0)]
<1>1. Opcode(t, 90) = pop_reg(t, 2)
  BY SMT DEF Opcode
<1>2. pop_reg(t, 2) = [Drop(t, 2) EXCEPT !["dx"] = OnStack(t, 0)]
  BY DEF pop_reg, modrm_set_reg_16, REG16
<1> QED
  BY <1>1, <1>2

\* 0x9D.
LEMMA PopFlags ==
    ASSUME NEW t PROVE Opcode(t, 157) = [Drop(t, 2) EXCEPT !.f = FlagsOf(OnStack(t, 0))]
BY SMT DEF Opcode

\* 0xCF.
LEMMA ReturnOpcode == ASSUME NEW t PROVE Opcode(t, 207) = iret(t)
BY SMT DEF Opcode

\* 0xFA.
LEMMA ClearInterrupts == ASSUME NEW t PROVE Opcode(t, 250) = [t EXCEPT !.f.i = 0]
<1>1. Opcode(t, 250) = FlagOp(t, 250)
  BY SMT DEF Opcode
<1>2. FlagOp(t, 250) = [t EXCEPT !.f.i = 0]
  BY SMT DEF FlagOp
<1> QED
  BY <1>1, <1>2

\* 0xFB.
LEMMA SetInterrupts == ASSUME NEW t PROVE Opcode(t, 251) = [t EXCEPT !.f.i = 1]
<1>1. Opcode(t, 251) = FlagOp(t, 251)
  BY SMT DEF Opcode
<1>2. FlagOp(t, 251) = [t EXCEPT !.f.i = 1]
  BY SMT DEF FlagOp
<1> QED
  BY <1>1, <1>2

\* 0xB9.
LEMMA MoveCx ==
    ASSUME NEW t PROVE Opcode(t, 185) = [Skip(t, 2) EXCEPT !.cx = fetch_16(t, 0)]
<1>1. Opcode(t, 185) = MOV_reg16_imm(t, 1)
  BY SMT DEF Opcode
<1>2. MOV_reg16_imm(t, 1) = [Skip(t, 2) EXCEPT !["cx"] = fetch_16(t, 0)]
  BY DEF MOV_reg16_imm, modrm_set_reg_16, REG16
<1> QED
  BY <1>1, <1>2

\* The powers of two for bytes and words.
LEMMA WordPowers == Pow2[8] = 256 /\ Pow2[16] = 65536
<1>1. \A n \in Nat : Pow2[n + 1] = 2 * Pow2[n]
  BY Powers
<1>2. /\ Pow2[11 + 1] = 2 * Pow2[11] /\ Pow2[12 + 1] = 2 * Pow2[12]
      /\ Pow2[13 + 1] = 2 * Pow2[13] /\ Pow2[14 + 1] = 2 * Pow2[14]
      /\ Pow2[15 + 1] = 2 * Pow2[15]
  BY <1>1
<1> QED
  BY <1>2, SmallPowers, SMT

\* What fits in eight bits is a byte.
LEMMA ByteResults == 8 \in Nat /\ 8 > 0 /\ \A v \in 0 .. Pow2[8] - 1 : v \in Byte
<1>1. Pow2[8] = 256
  BY WordPowers, SMT
<1> QED
  BY <1>1, SMT DEF Byte

\* What fits in 16 bits is a word.
LEMMA OffsetResults == 16 \in Nat /\ 16 > 0 /\ \A v \in 0 .. Pow2[16] - 1 : v \in Offset
<1>1. Pow2[16] = 65536
  BY WordPowers, SMT
<1> DEFINE P == Pow2[16]
<1> HIDE DEF P
<1>2. P = 65536
  BY <1>1 DEF P
<1>3. P \in Int
  BY <1>2, SMT
<1>4. \A v \in 0 .. P - 1 : v \in Nat /\ v < P
  BY <1>3
<1>5. \A v \in Nat : v < P => v \in Offset
  BY <1>2, SMT DEF Offset
<1>6. \A v \in 0 .. P - 1 : v \in Offset
  BY <1>4, <1>5
<1> QED
  BY <1>6 DEF P

\* 0x14, ADC AL with an immediate byte.
LEMMA AddCarryAl ==
    ASSUME NEW t \in Processor, NEW r, r = Opcode(t, 20)
    PROVE  /\ r \in Processor
           /\ r = [t EXCEPT !.ip = Word(t.ip + 1), !.f = r.f, !.ax = r.ax]
           /\ Control(r.f) = Control(t.f)
<1> DEFINE q == adc(8, t.f, Lo(t.ax), fetch(t, 0))
           ax == t.ax - Lo(t.ax) + q.val
           g == q.f
           ip == Word(t.ip + 1)
<1>1. r = ADC(t, 4)
  <2>1. Opcode(t, 20) = BinaryOpcode(t, 20)
    BY SMT DEF Opcode
  <2>2. BinaryOpcode(t, 20) = ADC(t, 4)
    BY SMT DEF BinaryOpcode
  <2> QED
    BY <2>1, <2>2
<1>2. ADC(t, 4) = [Skip(t, 1) EXCEPT !.f = g, !.ax = Skip(t, 1).ax - Lo(Skip(t, 1).ax) + q.val]
  <2>1. Width(4) = 8 /\ 8 \div 8 = 1
    BY SMT DEF Width
  <2>2. AluOp(2, 8, t.f, Lo(t.ax), fetch(t, 0)) = q
    BY DEF AluOp
  <2>3. Reg(8, t, 0) = Lo(t["ax"]) /\ Imm(8, t, 0) = fetch(t, 0)
    BY DEF Reg, modrm_get_reg_8, REG16, Imm
  <2>4. \A z, v : SetReg(8, z, 0, v) = [z EXCEPT !.ax = z.ax - Lo(z.ax) + v]
    BY DEF SetReg, modrm_set_reg_8, REG16
  <2>5. ADC(t, 4) = SetReg(8, [Skip(t, 1) EXCEPT !.f = q.f], 0, q.val)
    <3>1. ~(4 < 2) /\ 4 \notin 2 .. 3 /\ ~(4 < 4)
      OBVIOUS
    <3> QED
      BY <2>1, <2>2, <2>3, <3>1 DEF ADC, Binary
  <2>6. [Skip(t, 1) EXCEPT !.f = q.f].ax = Skip(t, 1).ax
    BY DEF Skip, Processor
  <2> QED
    BY <2>4, <2>5, <2>6
<1>3. t.ax \in Offset /\ t.f \in CpuFlags /\ t.ip \in Int
  BY Registers16
<1>4. fetch(t, 0) \in Byte /\ fetch(t, 0) \in Int
  <2>1. fetch(t, 0) \in Byte
    BY Reads DEF fetch, mem_read_by_segment
  <2> QED
    BY <2>1, AreNumbers
<1>5. Lo(t.ax) \in Int
  <2>1. Lo(t.ax) \in Byte
    BY <1>3, Bytes16
  <2> QED
    BY <2>1, AreNumbers
<1>6. q.val \in Byte /\ g \in CpuFlags /\ Control(g) = Control(t.f)
  <2>1. q \in {adc(8, t.f, Lo(t.ax), fetch(t, 0)), sbb(8, t.f, Lo(t.ax), fetch(t, 0)),
               inc(8, t.f, Lo(t.ax))}
    OBVIOUS
  <2> HIDE DEF q
  <2> DEFINE w == 8
             g0 == t.f
             u == Lo(t.ax)
             v == fetch(t, 0)
  <2>2. ArithmeticResult(w, g0, q)
    <3>1. w \in Nat /\ w > 0 /\ g0 \in CpuFlags /\ u \in Int /\ v \in Int
          /\ q \in {adc(w, g0, u, v), sbb(w, g0, u, v), inc(w, g0, u)}
      BY <1>3, <1>4, <1>5, <2>1, ByteResults
    <3> HIDE DEF w, g0, u, v
    <3> QED
      BY <3>1, AddsTyped
  <2> QED
    BY <2>2, ByteResults DEF ArithmeticResult
<1>7. ax \in Offset
  <2> DEFINE v == q.val
             w == t.ax
  <2>1. v \in Byte /\ w \in Offset
    BY <1>3, <1>6
  <2> HIDE DEF v, w
  <2>2. w - Lo(w) + v \in Offset
    BY <2>1, SMT DEF Lo, Offset, Byte
  <2> QED
    BY <2>2 DEF v, w
<1>8. ip \in Offset
  <2>1. t.ip + 1 \in Int
    BY <1>3
  <2> QED
    BY <2>1, WordTyped
<1>9. r = [t EXCEPT !.ip = ip, !.f = g, !.ax = ax]
  <2>1. Skip(t, 1) = [t EXCEPT !.ip = ip] /\ Skip(t, 1).ax = t.ax
    BY DEF Skip, Processor
  <2> QED
    BY <1>1, <1>2, <2>1
<1> HIDE DEF ax, g, ip
<1>10. r \in Processor
  BY <1>6, <1>7, <1>8, <1>9, ZenonT(60) DEF Processor
<1>11. r.f = g /\ r.ax = ax
  BY <1>9 DEF Processor
<1> QED
  BY <1>6, <1>9, <1>10, <1>11 DEF ip

\* 0x40.
LEMMA IncrementAx ==
    ASSUME NEW t \in Processor, NEW r, r = Opcode(t, 64)
    PROVE  /\ r \in Processor /\ r = [t EXCEPT !.f = r.f, !.ax = r.ax]
<1> DEFINE q == inc(16, t.f, t.ax)
           ax == q.val
           g == q.f
<1>1. r = INC(t, 0)
  BY SMT DEF Opcode
<1>2. INC(t, 0) = [t EXCEPT !.f = g, !.ax = ax]
  <2>1. \A z, v : modrm_set_reg_16(z, 0, v) = [z EXCEPT !["ax"] = v]
    BY DEF modrm_set_reg_16, REG16
  <2>2. modrm_get_reg_16(t, 0) = t["ax"]
    BY DEF modrm_get_reg_16, REG16
  <2> QED
    BY <2>1, <2>2 DEF INC
<1>3. t.f \in CpuFlags /\ t.ax \in Int
  BY Registers16, AreNumbers
<1>4. ax \in Offset /\ g \in CpuFlags
  <2>1. q \in {adc(16, t.f, t.ax, 0), sbb(16, t.f, t.ax, 0), inc(16, t.f, t.ax)}
    OBVIOUS
  <2> HIDE DEF q
  <2> DEFINE w == 16
             g0 == t.f
             u == t.ax
  <2>2. ArithmeticResult(w, g0, q)
    <3>1. w \in Nat /\ w > 0 /\ g0 \in CpuFlags /\ u \in Int /\ 0 \in Int
          /\ q \in {adc(w, g0, u, 0), sbb(w, g0, u, 0), inc(w, g0, u)}
      BY <1>3, <2>1, OffsetResults
    <3> HIDE DEF w, g0, u
    <3> QED
      BY <3>1, AddsTyped
  <2> QED
    BY <2>2, OffsetResults DEF ArithmeticResult
<1>5. r = [t EXCEPT !.f = g, !.ax = ax]
  BY <1>1, <1>2
<1> HIDE DEF ax, g
<1>6. r \in Processor
  BY <1>4, <1>5 DEF Processor
<1>7. r.f = g /\ r.ax = ax
  BY <1>5 DEF Processor
<1> QED
  BY <1>5, <1>6, <1>7

\* This ModRM byte names BX twice.
BothBx == 219

\* 0x1B, SBB BX,BX.
LEMMA SubtractBorrowBx ==
    ASSUME NEW t \in Processor, fetch(t, 0) = BothBx, NEW r, r = Opcode(t, 27)
    PROVE  /\ r \in Processor
           /\ r = [t EXCEPT !.ip = Word(t.ip + 1), !.f = r.f, !.bx = r.bx]
           /\ Control(r.f) = Control(t.f)
<1> DEFINE q == sbb(16, t.f, t.bx, t.bx)
           bx == q.val
           g == q.f
           ip == Word(t.ip + 1)
<1>1. r = SBB(t, 3)
  <2>1. Opcode(t, 27) = BinaryOpcode(t, 27)
    BY SMT DEF Opcode
  <2>2. BinaryOpcode(t, 27) = SBB(t, 3)
    BY SMT DEF BinaryOpcode
  <2> QED
    BY <2>1, <2>2
<1>2. SBB(t, 3) = [Skip(t, 1) EXCEPT !.f = g, !.bx = bx]
  <2> DEFINE d == Modrm(t)
  <2>1. d.mod = 3 /\ d.reg = 3 /\ d.rm = 3 /\ d.size = 1
    <3>1. fetch(t, 0) \div 64 = 3 /\ fetch(t, 0) % 8 = 3 /\ (fetch(t, 0) \div 8) % 8 = 3
      BY SMT DEF BothBx
    <3>2. d.mod = fetch(t, 0) \div 64 /\ d.rm = fetch(t, 0) % 8 /\ d.reg = (fetch(t, 0) \div 8) % 8
      BY DEF Modrm
    <3>3. d.size = 1
      BY <3>1 DEF Modrm
    <3> QED
      BY <3>1, <3>2, <3>3
  <2> HIDE DEF d
  <2>2. Width(3) = 16
    BY SMT DEF Width
  <2>3. AluOp(3, 16, t.f, t.bx, t.bx) = q
    BY DEF AluOp
  <2>4. Reg(16, t, 3) = t["bx"]
    BY DEF Reg, modrm_get_reg_16, REG16
  <2>5. Rm(16, t, d) = t["bx"]
    BY <2>1 DEF Rm, modrm_get_rm_16, modrm_get_reg_16, REG16
  <2> DEFINE z == [Skip(t, 1) EXCEPT !.f = q.f]
  <2>6. SetReg(16, z, 3, q.val) = [z EXCEPT !["bx"] = q.val]
    BY DEF SetReg, modrm_set_reg_16, REG16
  <2>7. SBB(t, 3) = SetReg(16, [Skip(t, 1) EXCEPT !.f = q.f], 3, q.val)
    <3>1. ~(3 < 2) /\ 3 \in 2 .. 3 /\ 3 < 4
      OBVIOUS
    <3> QED
      BY <2>1, <2>2, <2>3, <2>4, <2>5, <3>1 DEF SBB, Binary, d
  <2> QED
    BY <2>6, <2>7
<1>3. t.bx \in Offset /\ t.bx \in Int /\ t.f \in CpuFlags /\ t.ip \in Int
  BY Registers16, AreNumbers
<1>6. bx \in Offset /\ g \in CpuFlags /\ Control(g) = Control(t.f)
  <2>1. q \in {adc(16, t.f, t.bx, t.bx), sbb(16, t.f, t.bx, t.bx), inc(16, t.f, t.bx)}
    OBVIOUS
  <2> HIDE DEF q
  <2> DEFINE w == 16
             g0 == t.f
             u == t.bx
  <2>2. ArithmeticResult(w, g0, q)
    <3>1. w \in Nat /\ w > 0 /\ g0 \in CpuFlags /\ u \in Int
          /\ q \in {adc(w, g0, u, u), sbb(w, g0, u, u), inc(w, g0, u)}
      BY <1>3, <2>1, OffsetResults
    <3> HIDE DEF w, g0, u
    <3> QED
      BY <3>1, AddsTyped
  <2> QED
    BY <2>2, OffsetResults DEF ArithmeticResult
<1>8. ip \in Offset
  <2>1. t.ip + 1 \in Int
    BY <1>3
  <2> QED
    BY <2>1, WordTyped
<1>9. r = [t EXCEPT !.ip = ip, !.f = g, !.bx = bx]
  <2>1. Skip(t, 1) = [t EXCEPT !.ip = ip]
    BY DEF Skip
  <2> QED
    BY <1>1, <1>2, <2>1
<1> HIDE DEF bx, g, ip
<1>10. r \in Processor
  BY <1>6, <1>8, <1>9, ZenonT(60) DEF Processor
<1>11. r.f = g /\ r.bx = bx
  BY <1>9 DEF Processor
<1> QED
  BY <1>6, <1>9, <1>10, <1>11 DEF ip

\* One byte of a string.
MovedOnce(t, u) ==
    /\ u \in Processor
    /\ u = [t EXCEPT !.si = u.si, !.di = Word(t.di + 1), !.cx = Word(t.cx - 1), !.m = u.m]
    /\ DOMAIN u.m = DOMAIN t.m \cup {Linear(t.es, t.di)}
    /\ SameOutside(t, u, {Linear(t.es, t.di)})

Once(t) == [StringStep(t, 164) EXCEPT !.cx = Word(@ - 1)]

\* One element of MOVSB (0xA4), upwards.
LEMMA MovesByte ==
    ASSUME NEW t \in Processor, t.rom = {}, t.f.d = 0
    PROVE  MovedOnce(t, Once(t))
<1> DEFINE adr == Linear(t.es, t.di)
           v == eaddr_read_8(t, "ds", t.si)
           one == mem_write(t, adr, v)
           si == Word(t.si + 1)
           di == Word(t.di + 1)
           cx == Word(t.cx - 1)
           u == Once(t)
<1>1. StringStep(t, 164) = movs(t, 8)
  <2>1. Width(164) = 8
    BY SMT DEF Width
  <2>2. StringStep(t, 164) = movs(t, Width(164))
    BY SMT DEF StringStep
  <2> QED
    BY <2>1, <2>2
<1>2. movs(t, 8) = MoveSi(MoveDi(one, 8), 8)
  BY DEF movs, mem_write_by_segment
<1>3. adr \in Nat /\ v \in Byte
  <2>1. t.es \in Offset /\ t.di \in Int
    BY Registers16, AreNumbers
  <2>2. adr \in Nat
    BY <2>1, Addresses
  <2>3. v \in Byte
    BY Reads DEF eaddr_read_8, mem_read_by_segment
  <2> QED
    BY <2>2, <2>3
<1>4. si \in Offset /\ di \in Offset /\ cx \in Offset
  <2>1. t.si + 1 \in Int /\ t.di + 1 \in Int /\ t.cx - 1 \in Int
    BY Registers16, AreNumbers
  <2> QED
    BY <2>1, WordTyped
<1> HIDE DEF adr, v
<1>5. /\ one \in Processor /\ one = [t EXCEPT !.m = one.m]
      /\ DOMAIN one.m = DOMAIN t.m \cup {adr}
      /\ \A z : mem_read(one, z) = IF z = adr THEN v ELSE mem_read(t, z)
  BY <1>3, Writes
<1> HIDE DEF one
<1>6. one.si = t.si /\ one.di = t.di /\ one.cx = t.cx /\ one.f = t.f
  BY <1>5 DEF Processor
<1>7. \A z : z.f.d = 0 => Forward(z, 8) = 1
  BY SMT DEF Forward
<1>8. MoveDi(one, 8) = [one EXCEPT !.di = di]
  BY <1>6, <1>7 DEF MoveDi
<1>9. MoveSi([one EXCEPT !.di = di], 8) = [one EXCEPT !.di = di, !.si = si]
  <2>1. [one EXCEPT !.di = di].f.d = 0 /\ [one EXCEPT !.di = di].si = t.si
    BY <1>5, <1>6 DEF Processor
  <2> HIDE DEF si
  <2> QED
    BY <1>7, <2>1 DEF MoveSi, si
<1>10. [one EXCEPT !.di = di, !.si = si].cx = t.cx
  BY <1>5, <1>6 DEF Processor
<1>11. u = [one EXCEPT !.di = di, !.si = si, !.cx = cx]
  <2> DEFINE z == [one EXCEPT !.di = di, !.si = si]
  <2>1. StringStep(t, 164) = z
    BY <1>1, <1>2, <1>8, <1>9
  <2>2. z.cx = t.cx
    BY <1>10
  <2> HIDE DEF z
  <2>3. u = [z EXCEPT !.cx = Word(z.cx - 1)]
    BY <2>1 DEF Once
  <2> QED
    BY <2>2, <2>3 DEF z
<1> HIDE DEF u, si, di, cx
<1>12. u \in Processor
  BY <1>4, <1>5, <1>11 DEF Processor
<1>13. u.m = one.m /\ u.si = si
  BY <1>5, <1>11 DEF Processor
<1>14. u = [t EXCEPT !.si = u.si, !.di = di, !.cx = cx, !.m = u.m]
  BY <1>5, <1>11, <1>13 DEF Processor
<1>15. SameOutside(t, u, {adr})
  BY <1>5, <1>13 DEF SameOutside, mem_read
<1>16. MovedOnce(t, u)
  BY <1>5, <1>12, <1>13, <1>14, <1>15 DEF MovedOnce, adr, di, cx
<1> QED
  BY <1>16 DEF u

-----------------------------------------------------------------------------
(* Repeated moves.                                                         *)

\* Three rounds of a repeated MOVSB are three moves.
LEMMA RepeatsThree ==
    ASSUME NEW t, t.cx = 3
    PROVE  Repeat(t, 164) = Once(Once(Once(t)))
<1> DEFINE Step(u) == [StringStep(u, 164) EXCEPT !.cx = Word(@ - 1)]
           Goes(u) == Compares(164) => u.f.z = IF u.rep = "ez" THEN 1 ELSE 0
           e(g) == [k \in 0 .. t.cx |->
                       IF k = 0 THEN [s |-> t, on |-> TRUE]
                       ELSE LET u == g[k - 1]
                                z == Step(u.s)
                            IN IF u.on THEN [s |-> z, on |-> Goes(z)] ELSE u]
           at == CHOOSE g : g = e(g)
           R(u) == [s |-> u, on |-> TRUE]
           h == [k \in 0 .. t.cx |->
                    IF k = 0 THEN R(t)
                    ELSE IF k = 1 THEN R(Once(t))
                    ELSE IF k = 2 THEN R(Once(Once(t)))
                    ELSE R(Once(Once(Once(t))))]
<1>1. Repeat(t, 164) = at[t.cx].s
  BY DEF Repeat
<1>2. \A u : Step(u) = Once(u)
  BY DEF Once
<1>3. \A u : Goes(u)
  <2>1. ~Compares(164)
    BY SMT DEF Compares
  <2> QED
    BY <2>1
<1> HIDE DEF Step, Goes
<1>4. ASSUME NEW k \in 0 .. t.cx, NEW g, NEW q, k # 0, g[k - 1] = R(q)
      PROVE  e(g)[k] = [s |-> Once(q), on |-> TRUE]
  <2>1. e(g)[k] = LET u == g[k - 1]
                      z == Step(u.s)
                  IN IF u.on THEN [s |-> z, on |-> Goes(z)] ELSE u
    BY <1>4
  <2>2. R(q).s = q /\ R(q).on = TRUE
    OBVIOUS
  <2>3. e(g)[k] = [s |-> Step(q), on |-> Goes(Step(q))]
    BY <1>4, <2>1, <2>2
  <2>4. Goes(Step(q)) = TRUE
    BY <1>3
  <2> QED
    BY <1>2, <2>3, <2>4
<1>5. \A k : k \in 0 .. t.cx <=> k = 0 \/ k = 1 \/ k = 2 \/ k = 3
  OBVIOUS
<1>6. h = e(h)
  <2>1. ASSUME NEW k \in 0 .. t.cx PROVE h[k] = e(h)[k]
    <3>1. h[0] = R(t) /\ h[1] = R(Once(t)) /\ h[2] = R(Once(Once(t)))
          /\ h[3] = R(Once(Once(Once(t))))
      BY <1>5
    <3>2. e(h)[0] = R(t)
      BY <1>5
    <3> HIDE DEF h, e
    <3>3. e(h)[1] = R(Once(t)) /\ e(h)[2] = R(Once(Once(t))) /\ e(h)[3] = R(Once(Once(Once(t))))
      <4>1. 1 - 1 = 0 /\ 2 - 1 = 1 /\ 3 - 1 = 2
        OBVIOUS
      <4> QED
        BY <1>4, <1>5, <3>1, <4>1
    <3> QED
      BY <1>5, <3>1, <3>2, <3>3
  <2>2. h = [k \in 0 .. t.cx |-> h[k]] /\ e(h) = [k \in 0 .. t.cx |-> e(h)[k]]
    OBVIOUS
  <2> HIDE DEF h, e
  <2> QED
    BY <2>1, <2>2
<1>7. at = e(at)
  BY <1>6
<1> HIDE DEF at
<1>8. at[0] = R(t)
  BY <1>5, <1>7
<1> HIDE DEF e
<1>9. at[1] = R(Once(t)) /\ at[2] = R(Once(Once(t))) /\ at[3] = R(Once(Once(Once(t))))
  <2>1. 1 - 1 = 0 /\ 2 - 1 = 1 /\ 3 - 1 = 2
    OBVIOUS
  <2> QED
    BY <1>4, <1>5, <1>7, <1>8, <2>1
<1> QED
  BY <1>1, <1>9

\* What REP MOVSB does with three bytes, upwards.
MovedThree(t, u) ==
    /\ u \in Processor
    /\ u = [t EXCEPT !.si = u.si, !.di = u.di, !.cx = u.cx, !.m = u.m]
    /\ \E A : /\ A = {Linear(t.es, t.di), Linear(t.es, t.di + 1), Linear(t.es, t.di + 2)}
              /\ DOMAIN u.m = DOMAIN t.m \cup A
              /\ SameOutside(t, u, A)

\* The registers that a move changes.
LEMMA MoveFields ==
    ASSUME NEW q, q \in Processor, NEW si, NEW di, NEW cx, NEW m
    PROVE  /\ [q EXCEPT !.si = si, !.di = di, !.cx = cx, !.m = m].di = di
           /\ [q EXCEPT !.si = si, !.di = di, !.cx = cx, !.m = m].cx = cx
BY ZenonT(60) DEF Processor

\* MOVSB with a repeat prefix and three in CX.
LEMMA MovesThree ==
    ASSUME NEW t \in Processor, t.rom = {}, t.f.d = 0, t.cx = 3, t.rep # "none",
           NEW u, u = Opcode(t, 164)
    PROVE  MovedThree(t, u)
<1> DEFINE p == Once(t)
           q == Once(p)
<1>1. u = Once(q)
  <2>1. Opcode(t, 164) = String(t, 164)
    BY SMT DEF Opcode
  <2>2. String(t, 164) = Repeat(t, 164)
    BY DEF String
  <2> QED
    BY <2>1, <2>2, RepeatsThree
<1>2. MovedOnce(t, p)
  BY MovesByte
<1> HIDE DEF p
<1>3. p \in Processor /\ p.rom = {} /\ p.f.d = 0 /\ p.es = t.es /\ p.di = Word(t.di + 1)
  BY <1>2 DEF MovedOnce, Processor
<1>4. MovedOnce(p, q)
  BY <1>3, MovesByte
<1> HIDE DEF q
<1>5. q \in Processor /\ q.rom = {} /\ q.f.d = 0 /\ q.es = t.es /\ q.di = Word(p.di + 1)
  BY <1>3, <1>4 DEF MovedOnce, Processor
<1>6. MovedOnce(q, u)
  BY <1>1, <1>5, MovesByte
<1>7. t.di \in Int /\ t.es \in Offset
  BY Registers16, AreNumbers
<1>8. Linear(p.es, p.di) = Linear(t.es, t.di + 1) /\ Linear(q.es, q.di) = Linear(t.es, t.di + 2)
  <2> DEFINE di == t.di
             es == t.es
  <2>1. di \in Int /\ es \in Offset /\ 1 \in Int /\ di + 1 \in Int /\ (di + 1) + 1 = di + 2
    BY <1>7
  <2> HIDE DEF di, es
  <2>2. /\ Linear(es, Word(di + 1)) = Linear(es, di + 1)
        /\ Word(Word(di + 1) + 1) = Word((di + 1) + 1)
    BY <2>1, Offsets
  <2>3. Linear(es, Word(di + 2)) = Linear(es, di + 2)
    <3>1. di + 2 \in Int
      BY <2>1
    <3> QED
      BY <2>1, <3>1, Offsets
  <2> QED
    BY <1>3, <1>5, <2>1, <2>2, <2>3 DEF di, es
<1> DEFINE A == {Linear(t.es, t.di), Linear(t.es, t.di + 1), Linear(t.es, t.di + 2)}
<1>9. /\ DOMAIN p.m = DOMAIN t.m \cup {Linear(t.es, t.di)}
      /\ SameOutside(t, p, {Linear(t.es, t.di)})
      /\ DOMAIN q.m = DOMAIN p.m \cup {Linear(t.es, t.di + 1)}
      /\ SameOutside(p, q, {Linear(t.es, t.di + 1)})
      /\ DOMAIN u.m = DOMAIN q.m \cup {Linear(t.es, t.di + 2)}
      /\ SameOutside(q, u, {Linear(t.es, t.di + 2)})
  BY <1>2, <1>4, <1>6, <1>8 DEF MovedOnce
<1>10. DOMAIN u.m = DOMAIN t.m \cup A
  BY <1>9
<1>11. SameOutside(t, u, A)
  BY <1>9 DEF SameOutside
<1>12. u \in Processor /\ u = [t EXCEPT !.si = u.si, !.di = u.di, !.cx = u.cx, !.m = u.m]
  <2>1. p = [t EXCEPT !.si = p.si, !.di = p.di, !.cx = p.cx, !.m = p.m]
    BY <1>2 DEF MovedOnce, Processor
  <2>2. q = [p EXCEPT !.si = q.si, !.di = q.di, !.cx = q.cx, !.m = q.m]
    BY <1>4 DEF MovedOnce, Processor
  <2>3. u = [q EXCEPT !.si = u.si, !.di = u.di, !.cx = u.cx, !.m = u.m] /\ u \in Processor
    <3>1. u \in Processor
      BY <1>6 DEF MovedOnce
    <3>2. u = [q EXCEPT !.si = u.si, !.di = Word(q.di + 1), !.cx = Word(q.cx - 1), !.m = u.m]
      BY <1>6 DEF MovedOnce
    <3>3. u.di = Word(q.di + 1) /\ u.cx = Word(q.cx - 1)
      <4> DEFINE si == u.si
                 di == Word(q.di + 1)
                 cx == Word(q.cx - 1)
                 m == u.m
      <4> HIDE DEF si, di, cx, m
      <4>1. u = [q EXCEPT !.si = si, !.di = di, !.cx = cx, !.m = m]
        BY <3>2 DEF si, di, cx, m
      <4>2. q \in Processor
        BY <1>5
      <4>3. u.di = di /\ u.cx = cx
        <5>1. /\ [q EXCEPT !.si = si, !.di = di, !.cx = cx, !.m = m].di = di
              /\ [q EXCEPT !.si = si, !.di = di, !.cx = cx, !.m = m].cx = cx
          BY <4>2, MoveFields
        <5> QED
          BY <4>1, <5>1
      <4> QED
        BY <4>3 DEF di, cx
    <3> QED
      BY <3>1, <3>2, <3>3, ZenonT(60)
  <2>4. q = [t EXCEPT !.si = q.si, !.di = q.di, !.cx = q.cx, !.m = q.m]
    BY <2>1, <2>2 DEF Processor
  <2> DEFINE v == u
  <2>5. v = [q EXCEPT !.si = v.si, !.di = v.di, !.cx = v.cx, !.m = v.m]
    BY <2>3
  <2> HIDE DEF v
  <2>6. v = [t EXCEPT !.si = v.si, !.di = v.di, !.cx = v.cx, !.m = v.m]
    BY <2>4, <2>5 DEF Processor
  <2> QED
    BY <2>3, <2>6 DEF v
<1> HIDE DEF A
<1> QED
  BY <1>10, <1>11, <1>12 DEF MovedThree, A

\* The processor past the opcode of REP ES: MOVSB, and the bytes of that.
BehindPrefixes(s) == [s EXCEPT !.seg = "es", !.rep = "ez", !.ip = Word(s.ip + 3)]
AtRepeatedMove(s) ==
    /\ mem_read_by_segment(s, s.cs, s.ip) = 243
    /\ mem_read_by_segment(s, s.cs, s.ip + 1) = 38
    /\ mem_read_by_segment(s, s.cs, s.ip + 2) = 164

\* MOVSB behind a repeat prefix and a segment override is fetched.
LEMMA FetchedBehindPrefixes ==
    ASSUME NEW s \in Processor, ~s.halt, AtRepeatedMove(s)
    PROVE  /\ i8088_execute(s) = Opcode(BehindPrefixes(s), 164)
           /\ BehindPrefixes(s) \in Processor
<1> DEFINE t == [s EXCEPT !.seg = "none", !.rep = "none"]
           p == [s EXCEPT !.seg = "none", !.rep = "ez", !.ip = Word(s.ip + 1)]
           q == [s EXCEPT !.seg = "es", !.rep = "ez", !.ip = Word(s.ip + 2)]
           b == BehindPrefixes(s)
<1>1. t = [s EXCEPT !.seg = "none", !.rep = "none"]
  OBVIOUS
<1>2. s.ip \in Int /\ s.cs \in Offset
  BY Registers16
<1>3. /\ Word(s.ip + 1) \in Offset /\ Word(s.ip + 2) \in Offset /\ Word(s.ip + 3) \in Offset
      /\ Word(Word(s.ip + 1) + 1) = Word(s.ip + 2) /\ Word(Word(s.ip + 2) + 1) = Word(s.ip + 3)
      /\ Linear(s.cs, Word(s.ip + 1) + 0) = Linear(s.cs, s.ip + 1)
      /\ Linear(s.cs, Word(s.ip + 2) + 0) = Linear(s.cs, s.ip + 2)
  <2> DEFINE ip == s.ip
             cs == s.cs
  <2>1. /\ ip \in Int /\ cs \in Offset /\ ip + 1 \in Int /\ ip + 2 \in Int /\ ip + 3 \in Int
        /\ (ip + 1) + 1 = ip + 2 /\ (ip + 2) + 1 = ip + 3 /\ 1 \in Int /\ 0 \in Int
        /\ (ip + 1) + 0 = ip + 1 /\ (ip + 2) + 0 = ip + 2
    BY <1>2
  <2> HIDE DEF ip, cs
  <2>2. /\ Word(ip + 1) \in Offset /\ Word(ip + 2) \in Offset /\ Word(ip + 3) \in Offset
    BY <2>1, WordTyped
  <2>3. Word(Word(ip + 1) + 1) = Word((ip + 1) + 1) /\ Word(Word(ip + 2) + 1) = Word((ip + 2) + 1)
    BY <2>1, Offsets
  <2>4. /\ Linear(cs, Word(ip + 1) + 0) = Linear(cs, (ip + 1) + 0)
        /\ Linear(cs, Word(ip + 2) + 0) = Linear(cs, (ip + 2) + 0)
    BY <2>1, Offsets
  <2> QED
    BY <2>1, <2>2, <2>3, <2>4 DEF ip, cs
<1>4. t \in Processor /\ t.cs = s.cs /\ t.ip = s.ip /\ t.m = s.m
  <2> HIDE DEF t
  <2> QED
    BY <1>1, Unprefixed
<1>5. p \in Processor /\ q \in Processor /\ b \in Processor
  <2>1. "none" \in {"none", "es", "cs", "ss", "ds"} /\ "es" \in {"none", "es", "cs", "ss", "ds"}
        /\ "ez" \in {"none", "ez", "nenz"}
    OBVIOUS
  <2> DEFINE ip1 == Word(s.ip + 1)
             ip2 == Word(s.ip + 2)
             ip3 == Word(s.ip + 3)
  <2>2. ip1 \in Offset /\ ip2 \in Offset /\ ip3 \in Offset
    BY <1>3
  <2>3. /\ p = [s EXCEPT !.seg = "none", !.rep = "ez", !.ip = ip1]
        /\ q = [s EXCEPT !.seg = "es", !.rep = "ez", !.ip = ip2]
        /\ b = [s EXCEPT !.seg = "es", !.rep = "ez", !.ip = ip3]
    BY DEF BehindPrefixes
  <2> HIDE DEF ip1, ip2, ip3, p, q, b
  <2>4. p \in Processor
    BY <2>2, <2>3 DEF Processor
  <2>5. q \in Processor
    BY <2>2, <2>3 DEF Processor
  <2>6. b \in Processor
    BY <2>2, <2>3 DEF Processor
  <2> QED
    BY <2>4, <2>5, <2>6
<1>6. /\ p.m = s.m /\ p.cs = s.cs /\ p.ip = Word(s.ip + 1)
      /\ q.m = s.m /\ q.cs = s.cs /\ q.ip = Word(s.ip + 2)
  <2>1. p.m = s.m /\ p.cs = s.cs /\ p.ip = Word(s.ip + 1)
    BY DEF Processor
  <2>2. q.m = s.m /\ q.cs = s.cs /\ q.ip = Word(s.ip + 2)
    BY DEF Processor
  <2> QED
    BY <2>1, <2>2
<1>7. Skip(t, 1) = [t EXCEPT !.ip = Word(s.ip + 1)]
  BY <1>4 DEF Skip
<1>8. [Skip(t, 1) EXCEPT !.rep = "ez"] = p
  BY <1>7 DEF Processor
<1>9. Skip(p, 1) = [p EXCEPT !.ip = Word(s.ip + 2)]
  BY <1>3, <1>6 DEF Skip
<1>10. [Skip(p, 1) EXCEPT !.seg = "es"] = q
  BY <1>9 DEF Processor
<1>11. Skip(q, 1) = b
  <2>1. Skip(q, 1) = [q EXCEPT !.ip = Word(s.ip + 3)]
    BY <1>3, <1>6 DEF Skip
  <2> QED
    BY <2>1 DEF BehindPrefixes
<1>12. i8088_execute(s) = Opcode(Skip(Prefixes(t), 1), fetch(Prefixes(t), 0))
  BY DEF i8088_execute
<1> HIDE DEF t, p, q, b
<1>13. fetch(t, 0) = 243 /\ fetch(p, 0) = 38 /\ fetch(q, 0) = 164
  <2>1. \A adr : /\ mem_read(t, adr) = mem_read(s, adr) /\ mem_read(p, adr) = mem_read(s, adr)
                 /\ mem_read(q, adr) = mem_read(s, adr)
    BY <1>4, <1>6 DEF mem_read
  <2>2. s.ip + 0 = s.ip
    BY <1>2
  <2>3. fetch(t, 0) = mem_read(s, Linear(s.cs, s.ip))
    BY <1>4, <2>1, <2>2 DEF fetch, mem_read_by_segment
  <2>4. fetch(p, 0) = mem_read(s, Linear(s.cs, s.ip + 1))
    BY <1>3, <1>6, <2>1 DEF fetch, mem_read_by_segment
  <2>5. fetch(q, 0) = mem_read(s, Linear(s.cs, s.ip + 2))
    BY <1>3, <1>6, <2>1 DEF fetch, mem_read_by_segment
  <2> QED
    BY <2>3, <2>4, <2>5, SMT DEF AtRepeatedMove, mem_read_by_segment
<1>14. PrefixPair(t) = p
  <2>1. 243 \notin DOMAIN SegmentPrefix /\ 243 # 240 /\ 243 \in {242, 243} /\ 243 # 242
    BY SMT DEF SegmentPrefix
  <2> QED
    BY <1>8, <1>13, <2>1, SMT DEF PrefixPair
<1>15. Overrides(p) /\ SegmentPrefix[38] = "es"
  BY <1>13, SMT DEF Overrides, SegmentPrefix
<1>16. PrefixPair(p) = q
  <2>1. 38 \in DOMAIN SegmentPrefix /\ 164 \notin {242, 243}
    BY SMT DEF SegmentPrefix
  <2> QED
    BY <1>10, <1>13, <1>15, <2>1, SMT DEF PrefixPair
<1>17. ~Overrides(q)
  BY <1>13, SMT DEF Overrides, SegmentPrefix
<1>18. Prefixes(t) = q
  BY <1>14, <1>15, <1>16, <1>17, TwoRounds
<1> QED
  BY <1>5, <1>11, <1>12, <1>13, <1>18 DEF b

-----------------------------------------------------------------------------
(* The interrupted program.                                                *)

MainBytes == << 80, 20, 127, 156, 185, 3, 0, 250, 243, 38, 164, 251, 27, 219, 157, 90 >>
HandlerBytes == << 80, 64, 88, 207 >>
Entry == 100
BlockAt == 65500

\* The four segments do not overlap.
LEMMA SegmentsApart ==
    /\ Code \in Offset /\ Other \in Offset /\ Stack \in Offset /\ Data \in Offset /\ 0 \in Offset
    /\ \A p, q \in Int : /\ Linear(Stack, p) # Linear(Code, q)
                         /\ Linear(Stack, p) # Linear(Other, q)
                         /\ Linear(Stack, p) # Linear(0, q)
                         /\ Linear(Other, p) # Linear(Code, q)
                         /\ Linear(Other, p) # Linear(0, q)
                         /\ Linear(Code, p) # Linear(0, q)
<1>1. Code \in Offset /\ Other \in Offset /\ Stack \in Offset /\ Data \in Offset /\ 0 \in Offset
  BY SMT DEF Code, Other, Stack, Data, Offset
<1>2. ASSUME NEW p \in Int
      PROVE  /\ 262144 <= Linear(Stack, p) /\ Linear(Stack, p) < 327680
             /\ 196608 <= Linear(Other, p) /\ Linear(Other, p) < 262144
             /\ 65536 <= Linear(Code, p) /\ Linear(Code, p) < 131072
             /\ 0 <= Linear(0, p) /\ Linear(0, p) < 65536
             /\ Linear(Stack, p) \in Int /\ Linear(Other, p) \in Int
             /\ Linear(Code, p) \in Int /\ Linear(0, p) \in Int
  <2>1. Word(p) \in Int /\ 0 <= Word(p) /\ Word(p) < 65536
    BY SMT DEF Word
  <2> QED
    BY <2>1, SMT DEF Linear, Code, Other, Stack
<1>3. ASSUME NEW p \in Int, NEW q \in Int
      PROVE  /\ Linear(Stack, p) # Linear(Code, q)
             /\ Linear(Stack, p) # Linear(Other, q)
             /\ Linear(Stack, p) # Linear(0, q)
             /\ Linear(Other, p) # Linear(Code, q)
             /\ Linear(Other, p) # Linear(0, q)
             /\ Linear(Code, p) # Linear(0, q)
  <2> DEFINE sp == Linear(Stack, p)
             sq == Linear(Stack, q)
             op == Linear(Other, p)
             oq == Linear(Other, q)
             cp == Linear(Code, p)
             cq == Linear(Code, q)
             zp == Linear(0, p)
             zq == Linear(0, q)
  <2>1. /\ 262144 <= sp /\ 196608 <= op /\ op < 262144 /\ oq < 262144
        /\ 65536 <= cp /\ cq < 131072 /\ zq < 65536
        /\ sp \in Int /\ op \in Int /\ oq \in Int /\ cp \in Int /\ cq \in Int /\ zq \in Int
    BY <1>2, SMT
  <2> HIDE DEF sp, sq, op, oq, cp, cq, zp, zq
  <2>2. sp # cq /\ sp # oq /\ sp # zq /\ op # cq /\ op # zq /\ cp # zq
    BY <2>1, SMT
  <2> QED
    BY <2>2 DEF sp, sq, op, oq, cp, cq, zp, zq
<1> QED
  BY <1>1, <1>3

\* The program at u, the handler and the vector of interrupt k are in memory.
Loaded(u, k, s) ==
    /\ \A i \in 0 .. 15 : mem_read(s, Linear(Code, u + i)) = MainBytes[i + 1]
    /\ \A i \in 0 .. 3 : mem_read(s, Linear(Other, Entry + i)) = HandlerBytes[i + 1]
    /\ Read16(s, 0, (k + 8) * 4) = Entry /\ Read16(s, 0, (k + 8) * 4 + 2) = Other

\* What the program and the handler write: the stack and a block.
OnStackOf(v) == {Linear(Stack, v - i) : i \in 1 .. 4}
Block == {Linear(Other, BlockAt), Linear(Other, BlockAt + 1), Linear(Other, BlockAt + 2)}

\* The block that the program copies is not where the handler is.
LEMMA BlockBehindHandler ==
    \A i \in 0 .. 3 : Linear(Other, Entry + i) \notin Block
<1>1. \A i \in 0 .. 3 : /\ Word(Entry + i) < 104 /\ Word(Entry + i) \in Nat
  BY SMT DEF Word, Entry
<1>2. /\ Word(BlockAt) = 65500 /\ Word(BlockAt + 1) = 65501 /\ Word(BlockAt + 2) = 65502
  BY SMT DEF Word, BlockAt
<1> QED
  BY <1>1, <1>2, SMT DEF Block, Linear, Other

\* Writes to the stack and to the block leave the code and the vector alone.
LEMMA LoadedStays ==
    ASSUME NEW u \in Int, NEW k \in Nat, NEW s, NEW t, Loaded(u, k, s), NEW A,
           SameOutside(s, t, A), \A adr \in A : adr \in Block \/ \E p \in Int : adr = Linear(Stack, p)
    PROVE  Loaded(u, k, t)
<1>1. ASSUME NEW q \in Int PROVE Linear(Code, q) \notin A /\ Linear(0, q) \notin A
  <2>1. Entry \in Int /\ BlockAt \in Int /\ BlockAt + 1 \in Int /\ BlockAt + 2 \in Int
    BY SMT DEF Entry, BlockAt
  <2>2. \A p \in Int : Linear(Stack, p) # Linear(Code, q) /\ Linear(Stack, p) # Linear(0, q)
    BY SegmentsApart
  <2>3. \A adr \in Block : adr # Linear(Code, q) /\ adr # Linear(0, q)
    BY <2>1, SegmentsApart DEF Block
  <2> QED
    BY <2>2, <2>3
<1>2. \A i \in 0 .. 15 : mem_read(t, Linear(Code, u + i)) = MainBytes[i + 1]
  <2> TAKE i \in 0 .. 15
  <2>1. u + i \in Int
    OBVIOUS
  <2>2. Linear(Code, u + i) \notin A
    BY <1>1, <2>1
  <2> QED
    BY <2>2 DEF Loaded, SameOutside
<1>3. \A i \in 0 .. 3 : mem_read(t, Linear(Other, Entry + i)) = HandlerBytes[i + 1]
  <2> TAKE i \in 0 .. 3
  <2>1. Entry + i \in Int
    BY SMT DEF Entry
  <2>2. \A p \in Int : Linear(Stack, p) # Linear(Other, Entry + i)
    BY <2>1, SegmentsApart
  <2>3. Linear(Other, Entry + i) \notin Block
    BY BlockBehindHandler
  <2>4. Linear(Other, Entry + i) \notin A
    BY <2>2, <2>3
  <2> QED
    BY <2>4 DEF Loaded, SameOutside
<1>4. \A q \in Int : mem_read(t, Linear(0, q)) = mem_read(s, Linear(0, q))
  BY <1>1 DEF SameOutside
<1>5. \A q \in Int : Read16(t, 0, q) = Read16(s, 0, q)
  <2> TAKE q \in Int
  <2>1. q + 1 \in Int
    OBVIOUS
  <2> QED
    BY <1>4, <2>1 DEF Read16, mem_read_by_segment
<1>6. (k + 8) * 4 \in Int /\ (k + 8) * 4 + 2 \in Int
  OBVIOUS
<1> QED
  BY <1>2, <1>3, <1>5, <1>6 DEF Loaded

\* Reading from the program.
LEMMA CodeRead ==
    ASSUME NEW u \in Int, NEW k, NEW s, Loaded(u, k, s), NEW t, t.cs = Code, t.m = s.m,
           NEW j \in Int, t.ip = Word(u + j)
    PROVE  \A i \in Int : j + i \in 0 .. 15 => fetch(t, i) = MainBytes[j + i + 1]
<1> TAKE i \in Int
<1> HAVE j + i \in 0 .. 15
<1>1. Linear(Code, Word(u + j) + i) = Linear(Code, u + (j + i))
  <2> DEFINE off == u + j
  <2>1. off \in Int /\ off + i = u + (j + i) /\ Code \in Offset
    BY SegmentsApart
  <2> HIDE DEF off
  <2>2. Linear(Code, Word(off) + i) = Linear(Code, off + i)
    BY <2>1, Offsets
  <2> QED
    BY <2>1, <2>2 DEF off
<1>2. \A adr : mem_read(t, adr) = mem_read(s, adr)
  BY DEF mem_read
<1>3. mem_read(s, Linear(Code, u + (j + i))) = MainBytes[j + i + 1]
  BY DEF Loaded
<1> QED
  BY <1>1, <1>2, <1>3 DEF fetch, mem_read_by_segment

\* Reading from the handler.
LEMMA HandlerRead ==
    ASSUME NEW u, NEW k, NEW s, Loaded(u, k, s), s.cs = Other,
           NEW j \in 0 .. 3, s.ip = Entry + j
    PROVE  mem_read_by_segment(s, s.cs, s.ip) = HandlerBytes[j + 1]
BY DEF Loaded, mem_read_by_segment

\* The processor runs the program at u, off bytes into it, with d bytes on its
\* stack, whose top was v.
Reached(u, v, k, s, off, d) ==
    /\ s \in Processor /\ s.f.x = UnusedSet /\ s.halt = FALSE /\ s.rom = {}
    /\ s.cs = Code /\ s.ss = Stack /\ s.es = Other
    /\ s.ip = Word(u + off) /\ s.sp = Word(v - d)
    /\ Loaded(u, k, s) /\ Linear(Stack, v - 6) \notin DOMAIN s.m

\* What an instruction leaves alone.
Follows(s, r) ==
    /\ r \in Processor /\ r.f.x = UnusedSet /\ r.halt = FALSE /\ r.rom = {}
    /\ r.cs = s.cs /\ r.ss = s.ss /\ r.es = s.es

\* An instruction that writes to the stack or the block leads on.
LEMMA ReachedNext ==
    ASSUME NEW u \in Int, NEW v \in Int, NEW k \in Nat, NEW s, NEW off, NEW d,
           Reached(u, v, k, s, off, d),
           NEW r, Follows(s, r), NEW o, r.ip = Word(u + o), NEW e, r.sp = Word(v - e),
           NEW A, SameOutside(s, r, A), DOMAIN r.m = DOMAIN s.m \cup A,
           A \subseteq OnStackOf(v) \cup Block
    PROVE  Reached(u, v, k, r, o, e)
<1>1. v - 6 \in Int /\ \A i \in 1 .. 4 : v - i \in Int
  OBVIOUS
<1>2. \A adr \in A : adr \in Block \/ \E p \in Int : adr = Linear(Stack, p)
  BY <1>1 DEF OnStackOf
<1>3. Loaded(u, k, s)
  BY DEF Reached
<1>4. Loaded(u, k, r)
  BY <1>2, <1>3, LoadedStays
<1>5. Linear(Stack, v - 6) \notin Block
  <2>1. BlockAt \in Int /\ BlockAt + 1 \in Int /\ BlockAt + 2 \in Int
    BY SMT DEF BlockAt
  <2> QED
    BY <1>1, <2>1, SegmentsApart DEF Block
<1>6. Linear(Stack, v - 6) \notin OnStackOf(v)
  <2> SUFFICES ASSUME NEW i \in 1 .. 4 PROVE Linear(Stack, v - 6) # Linear(Stack, v - i)
    BY DEF OnStackOf
  <2> DEFINE low == v - 6
             high == v - i
             seg == Stack
  <2>1. low \in Int /\ high \in Int /\ low < high /\ high < low + 65536 /\ seg \in Offset
    BY SegmentsApart
  <2> HIDE DEF low, high, seg
  <2>2. Linear(seg, low) # Linear(seg, high)
    BY <2>1, Apart
  <2> QED
    BY <2>2 DEF low, high, seg
<1>7. Linear(Stack, v - 6) \notin DOMAIN r.m
  BY <1>5, <1>6 DEF Reached
<1> QED
  BY <1>4, <1>7 DEF Reached, Follows

\* An instruction that writes no memory.
LEMMA ReachedQuietly ==
    ASSUME NEW u \in Int, NEW v \in Int, NEW k \in Nat, NEW s, NEW off, NEW d,
           Reached(u, v, k, s, off, d),
           NEW r, Follows(s, r), NEW o, r.ip = Word(u + o), NEW e, r.sp = Word(v - e),
           r.m = s.m
    PROVE  Reached(u, v, k, r, o, e)
<1>1. SameOutside(s, r, {})
  BY DEF SameOutside, mem_read
<1>2. DOMAIN r.m = DOMAIN s.m \cup {}
  OBVIOUS
<1>3. {} \subseteq OnStackOf(v) \cup Block
  OBVIOUS
<1> QED
  BY <1>1, <1>2, <1>3, ReachedNext

\* Steps of the instruction pointer add up.
LEMMA NextOffset ==
    ASSUME NEW u \in Int, NEW off \in Int, NEW n \in Int
    PROVE  Word(Word(u + off) + n) = Word(u + (off + n))
<1> DEFINE o == u + off
<1>1. o \in Int /\ o + n = u + (off + n) /\ 0 \in Offset
  BY SegmentsApart
<1> HIDE DEF o
<1>2. Word(Word(o) + n) = Word(o + n)
  BY <1>1, Offsets
<1> QED
  BY <1>1, <1>2 DEF o

\* The instruction op at off begins: t is past its opcode.
Begins(u, v, k, s, off, d, op, t) ==
    /\ i8088_execute(s) = Opcode(t, op)
    /\ Reached(u, v, k, t, off, d) /\ t \in Processor
    /\ t = [s EXCEPT !.seg = "none", !.rep = "none", !.ip = t.ip]

\* The next instruction of the program is fetched.
LEMMA Starts ==
    ASSUME NEW u \in Int, NEW v \in Int, NEW k \in Nat, NEW s, NEW off \in 0 .. 15, NEW d,
           Reached(u, v, k, s, off, d), NEW op, op = MainBytes[off + 1], op \notin PrefixBytes,
           NEW o, o = off + 1
    PROVE  Begins(u, v, k, s, o, d, op, Started(s))
<1> DEFINE t == Started(s)
<1>1. s \in Processor /\ s.cs = Code /\ s.ip = Word(u + off) /\ Loaded(u, k, s) /\ ~s.halt
      /\ s.sp = Word(v - d) /\ s.rom = {} /\ s.f.x = UnusedSet /\ s.halt = FALSE
  BY DEF Reached
<1>2. fetch(s, 0) = MainBytes[off + 1]
  <2>1. s.m = s.m /\ 0 \in Int /\ off + 0 \in 0 .. 15 /\ off \in Int /\ off + 0 + 1 = off + 1
    OBVIOUS
  <2> QED
    BY <1>1, <2>1, CodeRead
<1>3. mem_read_by_segment(s, s.cs, s.ip) = MainBytes[off + 1]
  <2>1. s.ip + 0 = s.ip
    BY <1>1, Registers16
  <2> QED
    BY <1>2, <2>1 DEF fetch
<1>4. i8088_execute(s) = Opcode(t, op) /\ t \in Processor
  <2>1. op = mem_read_by_segment(s, s.cs, s.ip)
    BY <1>3
  <2> QED
    BY <1>1, <2>1, Fetched
<1>5. t = [s EXCEPT !.seg = "none", !.rep = "none", !.ip = Word(s.ip + 1)]
  BY DEF Started
<1> HIDE DEF t
<1>6. t.ip = Word(s.ip + 1) /\ t.sp = s.sp /\ t.m = s.m
  BY <1>1, <1>5 DEF Processor
<1>7. Follows(s, t)
  <2>1. t.f = s.f /\ t.halt = s.halt /\ t.rom = s.rom
    BY <1>1, <1>5 DEF Processor
  <2>2. t.cs = s.cs /\ t.ss = s.ss /\ t.es = s.es
    BY <1>1, <1>5 DEF Processor
  <2> QED
    BY <1>1, <1>4, <2>1, <2>2 DEF Follows
<1>8. t.ip = Word(u + o)
  <2>1. off \in Int /\ 1 \in Int
    OBVIOUS
  <2> QED
    BY <1>1, <1>6, <2>1, NextOffset
<1>9. Reached(u, v, k, t, o, d)
  BY <1>1, <1>6, <1>7, <1>8, ReachedQuietly
<1> QED
  BY <1>4, <1>5, <1>6, <1>9 DEF Begins, t

\* A push, and a pop apart from the register that it loads.
PushedOn(u, v, k, t, off, d, r) ==
    /\ Reached(u, v, k, r, off, d + 2) /\ r = [t EXCEPT !.sp = r.sp, !.m = r.m]
PoppedOff(u, v, k, t, off, d, r) ==
    /\ Reached(u, v, k, r, off, d - 2) /\ r \in Processor
    /\ r.m = t.m /\ r.f = t.f /\ OnStack(t, 0) \in Offset

\* A push leads on, two bytes deeper.
LEMMA PushReached ==
    ASSUME NEW u \in Int, NEW v \in Int, NEW k \in Nat, NEW t, NEW off, NEW d \in {0, 2},
           Reached(u, v, k, t, off, d), NEW w \in Offset, NEW r, r = push(t, w)
    PROVE  PushedOn(u, v, k, t, off, d, r)
<1>1. t \in Processor /\ t.rom = {} /\ t.ss = Stack /\ t.sp = Word(v - d) /\ t.ip = Word(u + off)
      /\ t.f.x = UnusedSet /\ t.halt = FALSE
  BY DEF Reached
<1>2. /\ r \in Processor /\ r = [t EXCEPT !.sp = Word(t.sp - 2), !.m = r.m]
      /\ DOMAIN r.m = DOMAIN t.m \cup BelowStack(t, 2)
      /\ SameOutside(t, r, BelowStack(t, 2))
  BY <1>1, Pushes
<1>3. r.sp = Word(t.sp - 2) /\ r.ip = t.ip
  BY <1>1, <1>2 DEF Processor
<1>4. /\ Linear(Stack, t.sp - 1) = Linear(Stack, v - (d + 1))
      /\ Linear(Stack, t.sp - 2) = Linear(Stack, v - (d + 2))
      /\ Word(t.sp - 2) = Word(v - (d + 2))
  <2> DEFINE off0 == v - d
             seg == Stack
             one == -1
             two == -2
  <2>1. off0 \in Int /\ off0 + one = v - (d + 1) /\ off0 + two = v - (d + 2) /\ seg \in Offset
        /\ one \in Int /\ two \in Int
    BY SegmentsApart
  <2>2. Word(off0) \in Int
    <3> HIDE DEF off0
    <3> QED
      BY <2>1, WordTyped
  <2>3. Word(off0) - 1 = Word(off0) + one /\ Word(off0) - 2 = Word(off0) + two
    BY <2>2
  <2> HIDE DEF off0, seg, one, two
  <2>4. /\ Linear(seg, Word(off0) + one) = Linear(seg, off0 + one)
        /\ Linear(seg, Word(off0) + two) = Linear(seg, off0 + two)
        /\ Word(Word(off0) + two) = Word(off0 + two)
    <3>1. Linear(seg, Word(off0) + one) = Linear(seg, off0 + one)
      BY <2>1, Offsets
    <3>2. Linear(seg, Word(off0) + two) = Linear(seg, off0 + two)
      BY <2>1, Offsets
    <3>3. Word(Word(off0) + two) = Word(off0 + two)
      BY <2>1, Offsets
    <3> QED
      BY <3>1, <3>2, <3>3
  <2> QED
    BY <1>1, <2>1, <2>3, <2>4 DEF off0, seg
<1>5. BelowStack(t, 2) \subseteq OnStackOf(v) \cup Block
  <2>1. BelowStack(t, 2) = {Linear(Stack, v - (d + 1)), Linear(Stack, v - (d + 2))}
    BY <1>1, <1>4, BelowTwo
  <2>2. d + 1 \in 1 .. 4 /\ d + 2 \in 1 .. 4
    OBVIOUS
  <2> QED
    BY <2>1, <2>2 DEF OnStackOf
<1>6. Follows(t, r)
  <2>1. r.f = t.f /\ r.halt = t.halt /\ r.rom = t.rom
    BY <1>1, <1>2 DEF Processor
  <2>2. r.cs = t.cs /\ r.ss = t.ss /\ r.es = t.es
    BY <1>1, <1>2 DEF Processor
  <2> QED
    BY <1>1, <1>2, <2>1, <2>2 DEF Follows
<1>7. r.ip = Word(u + off) /\ r.sp = Word(v - (d + 2))
  BY <1>1, <1>3, <1>4
<1> DEFINE A == BelowStack(t, 2)
<1>8. SameOutside(t, r, A) /\ DOMAIN r.m = DOMAIN t.m \cup A /\ A \subseteq OnStackOf(v) \cup Block
  BY <1>2, <1>5
<1> HIDE DEF A
<1>9. Reached(u, v, k, r, off, d + 2)
  BY <1>6, <1>7, <1>8, ReachedNext
<1> QED
  BY <1>2, <1>3, <1>9 DEF PushedOn

\* A pop leads on, two bytes higher.
LEMMA PopReached ==
    ASSUME NEW u \in Int, NEW v \in Int, NEW k \in Nat, NEW t, NEW off, NEW d \in {2, 4},
           Reached(u, v, k, t, off, d), NEW r, r = Drop(t, 2)
    PROVE  PoppedOff(u, v, k, t, off, d, r)
<1>1. t \in Processor /\ t.rom = {} /\ t.ss = Stack /\ t.sp = Word(v - d) /\ t.ip = Word(u + off)
      /\ t.f.x = UnusedSet /\ t.halt = FALSE
  BY DEF Reached
<1>2. Word(t.sp + 2) = Word(v - (d - 2))
  <2> DEFINE off0 == v - d
  <2>1. off0 \in Int /\ off0 + 2 = v - (d - 2) /\ 0 \in Offset /\ 2 \in Int
    BY SegmentsApart
  <2> HIDE DEF off0
  <2>2. Word(Word(off0) + 2) = Word(off0 + 2)
    BY <2>1, Offsets
  <2> QED
    BY <1>1, <2>1, <2>2 DEF off0
<1>3. Word(t.sp + 2) \in Offset
  <2>1. t.sp + 2 \in Int
    BY <1>1, Registers16
  <2> QED
    BY <2>1, WordTyped
<1> DEFINE sp == Word(t.sp + 2)
<1>4. r = [t EXCEPT !.sp = sp] /\ sp \in Offset
  BY <1>3 DEF Drop
<1> HIDE DEF sp
<1>5. r \in Processor
  BY <1>1, <1>4 DEF Processor
<1>6. r.m = t.m /\ r.sp = sp /\ r.ip = t.ip
  BY <1>1, <1>4 DEF Processor
<1>7. Follows(t, r)
  <2>1. r.f = t.f /\ r.halt = t.halt /\ r.rom = t.rom
    BY <1>1, <1>4 DEF Processor
  <2>2. r.cs = t.cs /\ r.ss = t.ss /\ r.es = t.es
    BY <1>1, <1>4 DEF Processor
  <2> QED
    BY <1>1, <1>5, <2>1, <2>2 DEF Follows
<1>8. r.ip = Word(u + off) /\ r.sp = Word(v - (d - 2))
  BY <1>1, <1>2, <1>6 DEF sp
<1>9. Reached(u, v, k, r, off, d - 2)
  BY <1>6, <1>7, <1>8, ReachedQuietly
<1>11. r.f = t.f
  BY <1>1, <1>4 DEF Processor
<1>10. OnStack(t, 0) \in Offset
  BY <1>1, Reads16 DEF OnStack
<1> QED
  BY <1>5, <1>6, <1>9, <1>10, <1>11 DEF PoppedOff

\* Where each instruction of the program is and how much is on the stack then.
MainAt == << 0, 1, 3, 4, 7, 8, 11, 12, 14, 15, 16 >>
MainDepth == << 0, 2, 2, 4, 4, 4, 4, 4, 4, 2, 0 >>

\* The program has executed n instructions.
Main(u, v, k, n, s) ==
    /\ Reached(u, v, k, s, MainAt[n + 1], MainDepth[n + 1])
    /\ n <= 5 => s.di = BlockAt /\ s.f.d = 0
    /\ n \in {4, 5} => s.cx = 3

\* CLI and STI change one flag.
LEMMA FlagsChanged ==
    ASSUME NEW t \in Processor, NEW b \in {0, 1}, NEW r, r = [t EXCEPT !.f.i = b]
    PROVE  /\ r \in Processor /\ r = [t EXCEPT !.f = r.f]
           /\ r.f.x = t.f.x /\ r.f.d = t.f.d
<1> DEFINE g == [t.f EXCEPT !.i = b]
<1>1. t.f \in CpuFlags
  BY Registers16
<1>2. g \in CpuFlags /\ g.x = t.f.x /\ g.d = t.f.d
  BY <1>1 DEF CpuFlags
<1>3. r = [t EXCEPT !.f = g]
  OBVIOUS
<1> HIDE DEF g
<1>4. r \in Processor
  BY <1>2, <1>3 DEF Processor
<1>5. r.f = g
  BY <1>3 DEF Processor
<1> QED
  BY <1>2, <1>3, <1>4, <1>5

\* An instruction that changes registers and flags only.
WentOn(u, v, k, t, d, r, o) == Reached(u, v, k, r, o, d) /\ r.di = t.di

\* An instruction on registers leads on.
LEMMA RegistersOnly ==
    ASSUME NEW u \in Int, NEW v \in Int, NEW k \in Nat, NEW t, NEW off, NEW d,
           Reached(u, v, k, t, off, d), NEW r \in Processor,
           r = [t EXCEPT !.ip = r.ip, !.f = r.f, !.ax = r.ax, !.bx = r.bx, !.cx = r.cx,
                         !.dx = r.dx],
           r.f.x = UnusedSet, NEW o, r.ip = Word(u + o)
    PROVE  WentOn(u, v, k, t, d, r, o)
<1>1. t \in Processor /\ t.rom = {} /\ t.f.x = UnusedSet /\ t.halt = FALSE /\ t.sp = Word(v - d)
  BY DEF Reached
<1>2. r.halt = t.halt /\ r.rom = t.rom /\ r.di = t.di
  BY <1>1 DEF Processor
<1>3. r.cs = t.cs /\ r.ss = t.ss /\ r.es = t.es
  BY <1>1 DEF Processor
<1>4. r.sp = t.sp /\ r.m = t.m
  BY <1>1 DEF Processor
<1>5. Follows(t, r)
  BY <1>1, <1>2, <1>3 DEF Follows
<1> QED
  BY <1>1, <1>2, <1>4, <1>5, ReachedQuietly DEF WentOn

\* PUSH AX of the program.
LEMMA Step0 ==
    ASSUME NEW u \in Int, NEW v \in Int, NEW k \in Nat, NEW s, Main(u, v, k, 0, s),
           NEW r, r = i8088_execute(s)
    PROVE  Main(u, v, k, 1, r)
<1> DEFINE t == Started(s)
<1>1. Reached(u, v, k, s, 0, 0) /\ s.di = BlockAt /\ s.f.d = 0 /\ s \in Processor
  BY DEF Main, MainAt, MainDepth, Reached
<1>2. 80 = MainBytes[0 + 1] /\ 80 \notin PrefixBytes
  BY SMT DEF MainBytes, PrefixBytes
<1>3. /\ r = Opcode(t, 80) /\ Reached(u, v, k, t, 1, 0) /\ t \in Processor
      /\ t = [s EXCEPT !.seg = "none", !.rep = "none", !.ip = t.ip]
  <2> DEFINE op == 80
  <2>1. 0 \in 0 .. 15 /\ 0 + 1 = 1 /\ op = MainBytes[0 + 1] /\ op \notin PrefixBytes
    BY <1>2
  <2> HIDE DEF t, op
  <2>2. Begins(u, v, k, s, 1, 0, op, Started(s))
    BY <1>1, <2>1, Starts
  <2> QED
    BY <2>2 DEF Begins, t, op
<1> HIDE DEF t
<1>4. t.di = s.di /\ t.f = s.f /\ t.cx = s.cx
  BY <1>1, <1>3 DEF Processor
<1>5. r = push(t, t.ax) /\ t.ax \in Offset
  <2>1. t.f \in CpuFlags /\ t.ax \in Offset
    BY <1>3, Registers16
  <2> QED
    BY <1>3, <2>1, PushAx, FlagsKept
<1>6. Reached(u, v, k, r, 1, 0 + 2) /\ r = [t EXCEPT !.sp = r.sp, !.m = r.m]
  <2> DEFINE w == t.ax
  <2>1. r = push(t, w) /\ w \in Offset /\ 0 \in {0, 2}
    BY <1>5
  <2> HIDE DEF w
  <2>2. PushedOn(u, v, k, t, 1, 0, r)
    BY <1>3, <2>1, PushReached
  <2> QED
    BY <2>2 DEF PushedOn
<1>7. r.di = t.di /\ r.f = t.f
  BY <1>3, <1>6 DEF Processor
<1> QED
  BY <1>1, <1>4, <1>6, <1>7 DEF Main, MainAt, MainDepth

\* ADC AL of the program.
LEMMA Step1 ==
    ASSUME NEW u \in Int, NEW v \in Int, NEW k \in Nat, NEW s, Main(u, v, k, 1, s),
           NEW r, r = i8088_execute(s)
    PROVE  Main(u, v, k, 2, r)
<1> DEFINE t == Started(s)
<1>1. Reached(u, v, k, s, 1, 2) /\ s.di = BlockAt /\ s.f.d = 0 /\ s \in Processor
  BY DEF Main, MainAt, MainDepth, Reached
<1>2. 20 = MainBytes[1 + 1] /\ 20 \notin PrefixBytes
  BY SMT DEF MainBytes, PrefixBytes
<1>3. /\ r = Opcode(t, 20) /\ Reached(u, v, k, t, 2, 2) /\ t \in Processor
      /\ t = [s EXCEPT !.seg = "none", !.rep = "none", !.ip = t.ip]
  <2> DEFINE op == 20
  <2>1. 1 \in 0 .. 15 /\ 1 + 1 = 2 /\ op = MainBytes[1 + 1] /\ op \notin PrefixBytes
    BY <1>2
  <2> HIDE DEF t, op
  <2>2. Begins(u, v, k, s, 2, 2, op, Started(s))
    BY <1>1, <2>1, Starts
  <2> QED
    BY <2>2 DEF Begins, t, op
<1> HIDE DEF t
<1>4. t.di = s.di /\ t.f = s.f /\ t.cx = s.cx
  BY <1>1, <1>3 DEF Processor
<1>5. /\ r \in Processor
      /\ r = [t EXCEPT !.ip = Word(t.ip + 1), !.f = r.f, !.ax = r.ax]
      /\ Control(r.f) = Control(t.f)
  BY <1>3, AddCarryAl
<1>6. r.ip = Word(t.ip + 1) /\ r.f.x = t.f.x /\ r.f.d = t.f.d
  BY <1>3, <1>5 DEF Processor, Control
<1>7. r.ip = Word(u + 3) /\ t.f.x = UnusedSet
  <2>1. t.ip = Word(u + 2) /\ t.f.x = UnusedSet /\ 2 + 1 = 3 /\ 2 \in Int /\ 1 \in Int
    BY <1>3 DEF Reached
  <2>2. Word(Word(u + 2) + 1) = Word(u + (2 + 1))
    BY <2>1, NextOffset
  <2> QED
    BY <1>6, <2>1, <2>2
<1>8. r = [t EXCEPT !.ip = r.ip, !.f = r.f, !.ax = r.ax, !.bx = r.bx, !.cx = r.cx, !.dx = r.dx]
  BY <1>3, <1>5, <1>6 DEF Processor
<1>9. Reached(u, v, k, r, 3, 2) /\ r.di = t.di
  <2>1. r.f.x = UnusedSet
    BY <1>6, <1>7
  <2>2. WentOn(u, v, k, t, 2, r, 3)
    BY <1>3, <1>5, <1>7, <1>8, <2>1, RegistersOnly
  <2> QED
    BY <2>2 DEF WentOn
<1> QED
  BY <1>1, <1>4, <1>6, <1>9 DEF Main, MainAt, MainDepth

\* PUSHF of the program.
LEMMA Step2 ==
    ASSUME NEW u \in Int, NEW v \in Int, NEW k \in Nat, NEW s, Main(u, v, k, 2, s),
           NEW r, r = i8088_execute(s)
    PROVE  Main(u, v, k, 3, r)
<1> DEFINE t == Started(s)
<1>1. Reached(u, v, k, s, 3, 2) /\ s.di = BlockAt /\ s.f.d = 0 /\ s \in Processor
  BY DEF Main, MainAt, MainDepth, Reached
<1>2. 156 = MainBytes[3 + 1] /\ 156 \notin PrefixBytes
  BY SMT DEF MainBytes, PrefixBytes
<1>3. /\ r = Opcode(t, 156) /\ Reached(u, v, k, t, 4, 2) /\ t \in Processor
      /\ t = [s EXCEPT !.seg = "none", !.rep = "none", !.ip = t.ip]
  <2> DEFINE op == 156
  <2>1. 3 \in 0 .. 15 /\ 3 + 1 = 4 /\ op = MainBytes[3 + 1] /\ op \notin PrefixBytes
    BY <1>2
  <2> HIDE DEF t, op
  <2>2. Begins(u, v, k, s, 4, 2, op, Started(s))
    BY <1>1, <2>1, Starts
  <2> QED
    BY <2>2 DEF Begins, t, op
<1> HIDE DEF t
<1>4. t.di = s.di /\ t.f = s.f /\ t.cx = s.cx
  BY <1>1, <1>3 DEF Processor
<1>5. r = push(t, FlagsWord(t.f)) /\ FlagsWord(t.f) \in Offset
  <2>1. t.f \in CpuFlags /\ t.ax \in Offset
    BY <1>3, Registers16
  <2> QED
    BY <1>3, <2>1, PushFlags, FlagsKept
<1>6. Reached(u, v, k, r, 4, 2 + 2) /\ r = [t EXCEPT !.sp = r.sp, !.m = r.m]
  <2> DEFINE w == FlagsWord(t.f)
  <2>1. r = push(t, w) /\ w \in Offset /\ 2 \in {0, 2}
    BY <1>5
  <2> HIDE DEF w
  <2>2. PushedOn(u, v, k, t, 4, 2, r)
    BY <1>3, <2>1, PushReached
  <2> QED
    BY <2>2 DEF PushedOn
<1>7. r.di = t.di /\ r.f = t.f
  BY <1>3, <1>6 DEF Processor
<1> QED
  BY <1>1, <1>4, <1>6, <1>7 DEF Main, MainAt, MainDepth

\* MOV CX of the program.
LEMMA Step3 ==
    ASSUME NEW u \in Int, NEW v \in Int, NEW k \in Nat, NEW s, Main(u, v, k, 3, s),
           NEW r, r = i8088_execute(s)
    PROVE  Main(u, v, k, 4, r)
<1> DEFINE t == Started(s)
<1>1. Reached(u, v, k, s, 4, 4) /\ s \in Processor /\ s.di = BlockAt /\ s.f.d = 0
  BY DEF Main, MainAt, MainDepth, Reached
<1>2. 185 = MainBytes[4 + 1] /\ 185 \notin PrefixBytes
  BY SMT DEF MainBytes, PrefixBytes
<1>3. /\ r = Opcode(t, 185) /\ Reached(u, v, k, t, 5, 4) /\ t \in Processor
      /\ t = [s EXCEPT !.seg = "none", !.rep = "none", !.ip = t.ip]
  <2> DEFINE op == 185
  <2>1. 4 \in 0 .. 15 /\ 4 + 1 = 5 /\ op = MainBytes[4 + 1] /\ op \notin PrefixBytes
    BY <1>2
  <2> HIDE DEF t, op
  <2>2. Begins(u, v, k, s, 5, 4, op, Started(s))
    BY <1>1, <2>1, Starts
  <2> QED
    BY <2>2 DEF Begins, t, op
<1> HIDE DEF t
<1>4. t.di = s.di /\ t.f = s.f /\ t.cx = s.cx
  BY <1>1, <1>3 DEF Processor
<1>5. fetch_16(t, 0) = 3
  <2>1. fetch(t, 0) = MainBytes[5 + 0 + 1] /\ fetch(t, 0 + 1) = MainBytes[5 + 1 + 1]
    <3>1. Loaded(u, k, t) /\ t.cs = Code /\ t.m = t.m /\ t.ip = Word(u + 5)
      BY <1>3 DEF Reached
    <3>2. 5 \in Int /\ 0 \in Int /\ 1 \in Int /\ 5 + 0 \in 0 .. 15 /\ 5 + 1 \in 0 .. 15 /\ 0 + 1 = 1
      OBVIOUS
    <3>3. \A i \in Int : 5 + i \in 0 .. 15 => fetch(t, i) = MainBytes[5 + i + 1]
      BY <3>1, <3>2, CodeRead
    <3> QED
      BY <3>2, <3>3
  <2>2. MainBytes[5 + 0 + 1] = 3 /\ MainBytes[5 + 1 + 1] = 0
    BY SMT DEF MainBytes
  <2> QED
    BY <2>1, <2>2 DEF fetch_16
<1>6. Word(t.ip + 2) = Word(u + 7)
  <2>1. t.ip = Word(u + 5) /\ 5 + 2 = 7 /\ 5 \in Int /\ 2 \in Int
    BY <1>3 DEF Reached
  <2>2. Word(Word(u + 5) + 2) = Word(u + (5 + 2))
    BY <2>1, NextOffset
  <2> QED
    BY <2>1, <2>2
<1>7. r = [t EXCEPT !.ip = Word(t.ip + 2), !.cx = 3]
  BY <1>3, <1>5, MoveCx DEF Skip
<1>8. 3 \in Offset /\ Word(t.ip + 2) \in Offset
  <2>1. t.ip + 2 \in Int
    BY <1>3, Registers16
  <2>2. 3 \in Offset
    BY SMT DEF Offset
  <2> QED
    BY <2>1, <2>2, WordTyped
<1>9. r \in Processor /\ r.ip = Word(u + 7) /\ r.cx = 3 /\ r.f = t.f
  <2> DEFINE ip == Word(t.ip + 2)
             cx == 3
  <2>1. r = [t EXCEPT !.ip = ip, !.cx = cx] /\ ip \in Offset /\ cx \in Offset /\ ip = Word(u + 7)
    BY <1>6, <1>7, <1>8
  <2> HIDE DEF ip, cx
  <2>4. t \in Processor
    BY <1>3
  <2>2. r \in Processor
    BY <2>1, <2>4, ZenonT(60) DEF Processor
  <2>3. r.ip = ip /\ r.cx = cx /\ r.f = t.f
    BY <1>3, <2>1 DEF Processor
  <2> QED
    BY <2>1, <2>2, <2>3 DEF cx
<1>10. r = [t EXCEPT !.ip = r.ip, !.f = r.f, !.ax = r.ax, !.bx = r.bx, !.cx = r.cx, !.dx = r.dx]
  BY <1>3, <1>7 DEF Processor
<1>11. r.f.x = UnusedSet
  BY <1>3, <1>9 DEF Reached
<1>12. Reached(u, v, k, r, 7, 4) /\ r.di = t.di
  <2>1. WentOn(u, v, k, t, 4, r, 7)
    BY <1>3, <1>9, <1>10, <1>11, RegistersOnly
  <2> QED
    BY <2>1 DEF WentOn
<1> QED
  BY <1>1, <1>4, <1>9, <1>12 DEF Main, MainAt, MainDepth

\* CLI of the program.
LEMMA Step4 ==
    ASSUME NEW u \in Int, NEW v \in Int, NEW k \in Nat, NEW s, Main(u, v, k, 4, s),
           NEW r, r = i8088_execute(s)
    PROVE  Main(u, v, k, 5, r)
<1> DEFINE t == Started(s)
<1>1. Reached(u, v, k, s, 7, 4) /\ s \in Processor /\ s.di = BlockAt /\ s.f.d = 0 /\ s.cx = 3
  BY DEF Main, MainAt, MainDepth, Reached
<1>2. 250 = MainBytes[7 + 1] /\ 250 \notin PrefixBytes
  BY SMT DEF MainBytes, PrefixBytes
<1>3. /\ r = Opcode(t, 250) /\ Reached(u, v, k, t, 8, 4) /\ t \in Processor
      /\ t = [s EXCEPT !.seg = "none", !.rep = "none", !.ip = t.ip]
  <2> DEFINE op == 250
  <2>1. 7 \in 0 .. 15 /\ 7 + 1 = 8 /\ op = MainBytes[7 + 1] /\ op \notin PrefixBytes
    BY <1>2
  <2> HIDE DEF t, op
  <2>2. Begins(u, v, k, s, 8, 4, op, Started(s))
    BY <1>1, <2>1, Starts
  <2> QED
    BY <2>2 DEF Begins, t, op
<1> HIDE DEF t
<1>4. t.di = s.di /\ t.f = s.f /\ t.cx = s.cx
  BY <1>1, <1>3 DEF Processor
<1>5. r = [t EXCEPT !.f.i = 0]
  BY <1>3, ClearInterrupts
<1>6. r \in Processor /\ r = [t EXCEPT !.f = r.f] /\ r.f.x = t.f.x /\ r.f.d = t.f.d
  BY <1>3, <1>5, FlagsChanged
<1>7. r.ip = t.ip /\ r.cx = t.cx
  BY <1>3, <1>6 DEF Processor
<1>8. r = [t EXCEPT !.ip = r.ip, !.f = r.f, !.ax = r.ax, !.bx = r.bx, !.cx = r.cx, !.dx = r.dx]
  BY <1>3, <1>6 DEF Processor
<1>9. r.f.x = UnusedSet /\ r.ip = Word(u + 8)
  BY <1>3, <1>6, <1>7 DEF Reached
<1>10. Reached(u, v, k, r, 8, 4) /\ r.di = t.di
  <2>1. WentOn(u, v, k, t, 4, r, 8)
    BY <1>3, <1>6, <1>8, <1>9, RegistersOnly
  <2> QED
    BY <2>1 DEF WentOn
<1> QED
  BY <1>1, <1>4, <1>6, <1>7, <1>10 DEF Main, MainAt, MainDepth

\* STI of the program.
LEMMA Step6 ==
    ASSUME NEW u \in Int, NEW v \in Int, NEW k \in Nat, NEW s, Main(u, v, k, 6, s),
           NEW r, r = i8088_execute(s)
    PROVE  Main(u, v, k, 7, r)
<1> DEFINE t == Started(s)
<1>1. Reached(u, v, k, s, 11, 4) /\ s \in Processor
  BY DEF Main, MainAt, MainDepth, Reached
<1>2. 251 = MainBytes[11 + 1] /\ 251 \notin PrefixBytes
  BY SMT DEF MainBytes, PrefixBytes
<1>3. /\ r = Opcode(t, 251) /\ Reached(u, v, k, t, 12, 4) /\ t \in Processor
      /\ t = [s EXCEPT !.seg = "none", !.rep = "none", !.ip = t.ip]
  <2> DEFINE op == 251
  <2>1. 11 \in 0 .. 15 /\ 11 + 1 = 12 /\ op = MainBytes[11 + 1] /\ op \notin PrefixBytes
    BY <1>2
  <2> HIDE DEF t, op
  <2>2. Begins(u, v, k, s, 12, 4, op, Started(s))
    BY <1>1, <2>1, Starts
  <2> QED
    BY <2>2 DEF Begins, t, op
<1> HIDE DEF t
<1>4. t.di = s.di /\ t.f = s.f /\ t.cx = s.cx
  BY <1>1, <1>3 DEF Processor
<1>5. r = [t EXCEPT !.f.i = 1]
  BY <1>3, SetInterrupts
<1>6. r \in Processor /\ r = [t EXCEPT !.f = r.f] /\ r.f.x = t.f.x /\ r.f.d = t.f.d
  BY <1>3, <1>5, FlagsChanged
<1>7. r.ip = t.ip /\ r.cx = t.cx
  BY <1>3, <1>6 DEF Processor
<1>8. r = [t EXCEPT !.ip = r.ip, !.f = r.f, !.ax = r.ax, !.bx = r.bx, !.cx = r.cx, !.dx = r.dx]
  BY <1>3, <1>6 DEF Processor
<1>9. r.f.x = UnusedSet /\ r.ip = Word(u + 12)
  BY <1>3, <1>6, <1>7 DEF Reached
<1>10. Reached(u, v, k, r, 12, 4) /\ r.di = t.di
  <2>1. WentOn(u, v, k, t, 4, r, 12)
    BY <1>3, <1>6, <1>8, <1>9, RegistersOnly
  <2> QED
    BY <2>1 DEF WentOn
<1> QED
  BY <1>1, <1>4, <1>6, <1>7, <1>10 DEF Main, MainAt, MainDepth

\* SBB BX,BX of the program.
LEMMA Step7 ==
    ASSUME NEW u \in Int, NEW v \in Int, NEW k \in Nat, NEW s, Main(u, v, k, 7, s),
           NEW r, r = i8088_execute(s)
    PROVE  Main(u, v, k, 8, r)
<1> DEFINE t == Started(s)
<1>1. Reached(u, v, k, s, 12, 4) /\ s \in Processor
  BY DEF Main, MainAt, MainDepth, Reached
<1>2. 27 = MainBytes[12 + 1] /\ 27 \notin PrefixBytes
  BY SMT DEF MainBytes, PrefixBytes
<1>3. /\ r = Opcode(t, 27) /\ Reached(u, v, k, t, 13, 4) /\ t \in Processor
      /\ t = [s EXCEPT !.seg = "none", !.rep = "none", !.ip = t.ip]
  <2> DEFINE op == 27
  <2>1. 12 \in 0 .. 15 /\ 12 + 1 = 13 /\ op = MainBytes[12 + 1] /\ op \notin PrefixBytes
    BY <1>2
  <2> HIDE DEF t, op
  <2>2. Begins(u, v, k, s, 13, 4, op, Started(s))
    BY <1>1, <2>1, Starts
  <2> QED
    BY <2>2 DEF Begins, t, op
<1> HIDE DEF t
<1>4. t.di = s.di /\ t.f = s.f /\ t.cx = s.cx
  BY <1>1, <1>3 DEF Processor
<1>5. fetch(t, 0) = BothBx
  <2>1. Loaded(u, k, t) /\ t.cs = Code /\ t.m = t.m /\ t.ip = Word(u + 13)
    BY <1>3 DEF Reached
  <2>2. 13 \in Int /\ 0 \in Int /\ 13 + 0 \in 0 .. 15
    OBVIOUS
  <2>3. \A i \in Int : 13 + i \in 0 .. 15 => fetch(t, i) = MainBytes[13 + i + 1]
    BY <2>1, <2>2, CodeRead
  <2>4. fetch(t, 0) = MainBytes[13 + 0 + 1]
    BY <2>2, <2>3
  <2>5. MainBytes[13 + 0 + 1] = BothBx
    BY SMT DEF MainBytes, BothBx
  <2> QED
    BY <2>4, <2>5
<1>6. /\ r \in Processor
      /\ r = [t EXCEPT !.ip = Word(t.ip + 1), !.f = r.f, !.bx = r.bx]
      /\ Control(r.f) = Control(t.f)
  BY <1>3, <1>5, SubtractBorrowBx
<1>7. Word(t.ip + 1) = Word(u + 14)
  <2>1. t.ip = Word(u + 13) /\ 13 + 1 = 14 /\ 13 \in Int /\ 1 \in Int
    BY <1>3 DEF Reached
  <2>2. Word(Word(u + 13) + 1) = Word(u + (13 + 1))
    BY <2>1, NextOffset
  <2> QED
    BY <2>1, <2>2
<1>8. r.ip = Word(u + 14) /\ r.f.x = t.f.x
  BY <1>3, <1>6, <1>7 DEF Processor, Control
<1>9. r = [t EXCEPT !.ip = r.ip, !.f = r.f, !.ax = r.ax, !.bx = r.bx, !.cx = r.cx, !.dx = r.dx]
  BY <1>3, <1>6, <1>7, <1>8 DEF Processor
<1>10. r.f.x = UnusedSet
  BY <1>3, <1>8 DEF Reached
<1>11. Reached(u, v, k, r, 14, 4)
  <2>1. WentOn(u, v, k, t, 4, r, 14)
    BY <1>3, <1>6, <1>8, <1>9, <1>10, RegistersOnly
  <2> QED
    BY <2>1 DEF WentOn
<1> QED
  BY <1>11 DEF Main, MainAt, MainDepth

\* POPF of the program.
LEMMA Step8 ==
    ASSUME NEW u \in Int, NEW v \in Int, NEW k \in Nat, NEW s, Main(u, v, k, 8, s),
           NEW r, r = i8088_execute(s)
    PROVE  Main(u, v, k, 9, r)
<1> DEFINE t == Started(s)
<1>1. Reached(u, v, k, s, 14, 4) /\ s \in Processor
  BY DEF Main, MainAt, MainDepth, Reached
<1>2. 157 = MainBytes[14 + 1] /\ 157 \notin PrefixBytes
  BY SMT DEF MainBytes, PrefixBytes
<1>3. /\ r = Opcode(t, 157) /\ Reached(u, v, k, t, 15, 4) /\ t \in Processor
      /\ t = [s EXCEPT !.seg = "none", !.rep = "none", !.ip = t.ip]
  <2> DEFINE op == 157
  <2>1. 14 \in 0 .. 15 /\ 14 + 1 = 15 /\ op = MainBytes[14 + 1] /\ op \notin PrefixBytes
    BY <1>2
  <2> HIDE DEF t, op
  <2>2. Begins(u, v, k, s, 15, 4, op, Started(s))
    BY <1>1, <2>1, Starts
  <2> QED
    BY <2>2 DEF Begins, t, op
<1> HIDE DEF t
<1>4. t.di = s.di /\ t.f = s.f /\ t.cx = s.cx
  BY <1>1, <1>3 DEF Processor
<1>5. /\ Reached(u, v, k, Drop(t, 2), 15, 2) /\ Drop(t, 2) \in Processor
      /\ OnStack(t, 0) \in Offset
  <2> DEFINE q == Drop(t, 2)
  <2>1. q = Drop(t, 2) /\ 4 \in {2, 4} /\ 4 - 2 = 2
    OBVIOUS
  <2> HIDE DEF q
  <2>2. PoppedOff(u, v, k, t, 15, 4, q)
    BY <1>3, <2>1, PopReached
  <2> QED
    BY <2>1, <2>2 DEF PoppedOff
<1> DEFINE q == Drop(t, 2)
           w == OnStack(t, 0)
<1>6. /\ q \in Processor /\ w \in Offset /\ Reached(u, v, k, q, 15, 2)
      /\ r = [q EXCEPT !.f = FlagsOf(w)]
  BY <1>3, <1>5, PopFlags
<1> HIDE DEF q, w
<1>7. FlagsOf(w) \in CpuFlags /\ FlagsOf(w).x = UnusedSet
  BY <1>6, AreNumbers, FlagsRead
<1> DEFINE g == FlagsOf(w)
<1>8. g \in CpuFlags /\ g.x = UnusedSet /\ r = [q EXCEPT !.f = g]
  BY <1>6, <1>7
<1> HIDE DEF g
<1>9. r \in Processor
  BY <1>6, <1>8 DEF Processor
<1>10. r.f = g /\ r.ip = q.ip
  BY <1>6, <1>8 DEF Processor
<1>11. r = [q EXCEPT !.ip = r.ip, !.f = r.f, !.ax = r.ax, !.bx = r.bx, !.cx = r.cx, !.dx = r.dx]
  BY <1>6, <1>8 DEF Processor
<1>12. r.f.x = UnusedSet /\ r.ip = Word(u + 15)
  BY <1>6, <1>8, <1>10 DEF Reached
<1>13. Reached(u, v, k, r, 15, 2)
  <2>1. WentOn(u, v, k, q, 2, r, 15)
    BY <1>6, <1>9, <1>11, <1>12, RegistersOnly
  <2> QED
    BY <2>1 DEF WentOn
<1> QED
  BY <1>13 DEF Main, MainAt, MainDepth

\* POP DX of the program.
LEMMA Step9 ==
    ASSUME NEW u \in Int, NEW v \in Int, NEW k \in Nat, NEW s, Main(u, v, k, 9, s),
           NEW r, r = i8088_execute(s)
    PROVE  Main(u, v, k, 10, r)
<1> DEFINE t == Started(s)
<1>1. Reached(u, v, k, s, 15, 2) /\ s \in Processor
  BY DEF Main, MainAt, MainDepth, Reached
<1>2. 90 = MainBytes[15 + 1] /\ 90 \notin PrefixBytes
  BY SMT DEF MainBytes, PrefixBytes
<1>3. /\ r = Opcode(t, 90) /\ Reached(u, v, k, t, 16, 2) /\ t \in Processor
      /\ t = [s EXCEPT !.seg = "none", !.rep = "none", !.ip = t.ip]
  <2> DEFINE op == 90
  <2>1. 15 \in 0 .. 15 /\ 15 + 1 = 16 /\ op = MainBytes[15 + 1] /\ op \notin PrefixBytes
    BY <1>2
  <2> HIDE DEF t, op
  <2>2. Begins(u, v, k, s, 16, 2, op, Started(s))
    BY <1>1, <2>1, Starts
  <2> QED
    BY <2>2 DEF Begins, t, op
<1> HIDE DEF t
<1>4. t.di = s.di /\ t.f = s.f /\ t.cx = s.cx
  BY <1>1, <1>3 DEF Processor
<1>5. /\ Reached(u, v, k, Drop(t, 2), 16, 0) /\ Drop(t, 2) \in Processor
      /\ OnStack(t, 0) \in Offset
  <2> DEFINE q == Drop(t, 2)
  <2>1. q = Drop(t, 2) /\ 2 \in {2, 4} /\ 2 - 2 = 0
    OBVIOUS
  <2> HIDE DEF q
  <2>2. PoppedOff(u, v, k, t, 16, 2, q)
    BY <1>3, <2>1, PopReached
  <2> QED
    BY <2>1, <2>2 DEF PoppedOff
<1> DEFINE q == Drop(t, 2)
           w == OnStack(t, 0)
<1>6. /\ q \in Processor /\ w \in Offset /\ Reached(u, v, k, q, 16, 0)
      /\ r = [q EXCEPT !.dx = w]
  BY <1>3, <1>5, PopDx
<1> HIDE DEF q, w
<1>9. r \in Processor
  BY <1>6 DEF Processor
<1>10. r.f = q.f /\ r.ip = q.ip
  BY <1>6 DEF Processor
<1>11. r = [q EXCEPT !.ip = r.ip, !.f = r.f, !.ax = r.ax, !.bx = r.bx, !.cx = r.cx, !.dx = r.dx]
  BY <1>6 DEF Processor
<1>12. r.f.x = UnusedSet /\ r.ip = Word(u + 16)
  BY <1>6, <1>10 DEF Reached
<1>13. Reached(u, v, k, r, 16, 0)
  <2>1. WentOn(u, v, k, q, 0, r, 16)
    BY <1>6, <1>9, <1>11, <1>12, RegistersOnly
  <2> QED
    BY <2>1 DEF WentOn
<1> QED
  BY <1>13 DEF Main, MainAt, MainDepth

\* REP ES: MOVSB of the program.
LEMMA Step5 ==
    ASSUME NEW u \in Int, NEW v \in Int, NEW k \in Nat, NEW s, Main(u, v, k, 5, s),
           NEW r, r = i8088_execute(s)
    PROVE  Main(u, v, k, 6, r)
<1> DEFINE b == BehindPrefixes(s)
<1>1. /\ Reached(u, v, k, s, 8, 4) /\ s \in Processor /\ s.di = BlockAt /\ s.f.d = 0
      /\ s.cx = 3 /\ ~s.halt /\ s.rom = {} /\ s.es = Other
  BY DEF Main, MainAt, MainDepth, Reached
<1>2. AtRepeatedMove(s)
  <2>1. Loaded(u, k, s) /\ s.cs = Code /\ s.m = s.m /\ s.ip = Word(u + 8) /\ s.ip \in Int
    BY <1>1, Registers16 DEF Reached
  <2>2. 8 \in Int /\ 0 \in Int /\ 1 \in Int /\ 2 \in Int
        /\ 8 + 0 \in 0 .. 15 /\ 8 + 1 \in 0 .. 15 /\ 8 + 2 \in 0 .. 15
    OBVIOUS
  <2>3. \A i \in Int : 8 + i \in 0 .. 15 => fetch(s, i) = MainBytes[8 + i + 1]
    BY <2>1, <2>2, CodeRead
  <2>4. /\ fetch(s, 0) = MainBytes[8 + 0 + 1] /\ fetch(s, 1) = MainBytes[8 + 1 + 1]
        /\ fetch(s, 2) = MainBytes[8 + 2 + 1]
    BY <2>2, <2>3
  <2>5. /\ MainBytes[8 + 0 + 1] = 243 /\ MainBytes[8 + 1 + 1] = 38 /\ MainBytes[8 + 2 + 1] = 164
    BY SMT DEF MainBytes
  <2>6. s.ip + 0 = s.ip
    BY <2>1
  <2> QED
    BY <2>4, <2>5, <2>6 DEF AtRepeatedMove, fetch
<1>3. r = Opcode(b, 164) /\ b \in Processor
  BY <1>1, <1>2, FetchedBehindPrefixes
<1>4. b = [s EXCEPT !.seg = "es", !.rep = "ez", !.ip = Word(s.ip + 3)]
  BY DEF BehindPrefixes
<1>5. b.rom = {} /\ b.f.d = 0 /\ b.cx = 3 /\ b.rep # "none"
  BY <1>1, <1>4 DEF Processor
<1>6. b.es = Other /\ b.di = BlockAt /\ b.m = s.m /\ b.ip = Word(s.ip + 3)
  BY <1>1, <1>4 DEF Processor
<1> HIDE DEF b
<1>7. MovedThree(b, r)
  BY <1>3, <1>5, MovesThree
<1>8. /\ r \in Processor
      /\ r = [b EXCEPT !.si = r.si, !.di = r.di, !.cx = r.cx, !.m = r.m]
      /\ DOMAIN r.m = DOMAIN b.m \cup Block /\ SameOutside(b, r, Block)
  BY <1>6, <1>7 DEF MovedThree, Block
<1>9. r = [s EXCEPT !.seg = "es", !.rep = "ez", !.ip = Word(s.ip + 3), !.si = r.si,
                    !.di = r.di, !.cx = r.cx, !.m = r.m]
  BY <1>1, <1>4, <1>8 DEF Processor
<1>10. Follows(s, r)
  <2>1. r.f = s.f /\ r.halt = s.halt /\ r.rom = s.rom
    BY <1>1, <1>9 DEF Processor
  <2>2. r.cs = s.cs /\ r.ss = s.ss /\ r.es = s.es
    BY <1>1, <1>9 DEF Processor
  <2> QED
    BY <1>1, <1>8, <2>1, <2>2 DEF Follows, Reached
<1>11. r.ip = Word(s.ip + 3) /\ r.sp = s.sp
  BY <1>1, <1>9 DEF Processor
<1>12. r.ip = Word(u + 11) /\ r.sp = Word(v - 4)
  <2>1. s.ip = Word(u + 8) /\ s.sp = Word(v - 4) /\ 8 \in Int /\ 3 \in Int /\ 8 + 3 = 11
    BY <1>1 DEF Reached
  <2>2. Word(Word(u + 8) + 3) = Word(u + (8 + 3))
    BY <2>1, NextOffset
  <2> QED
    BY <1>11, <2>1, <2>2
<1>13. SameOutside(s, r, Block) /\ DOMAIN r.m = DOMAIN s.m \cup Block
       /\ Block \subseteq OnStackOf(v) \cup Block
  BY <1>6, <1>8 DEF SameOutside, mem_read
<1>14. Reached(u, v, k, r, 11, 4)
  BY <1>1, <1>10, <1>12, <1>13, ReachedNext
<1> QED
  BY <1>14 DEF Main, MainAt, MainDepth

\* Every step of the program leads to the next one.
LEMMA MainRuns ==
    ASSUME NEW u \in Int, NEW v \in Int, NEW k \in Nat, NEW n \in 0 .. 9, NEW s,
           Main(u, v, k, n, s), NEW r, r = i8088_execute(s)
    PROVE  Main(u, v, k, n + 1, r)
<1>1. CASE n = 0
  BY <1>1, Step0
<1>2. CASE n = 1
  BY <1>2, Step1
<1>3. CASE n = 2
  BY <1>3, Step2
<1>4. CASE n = 3
  BY <1>4, Step3
<1>5. CASE n = 4
  BY <1>5, Step4
<1>6. CASE n = 5
  BY <1>6, Step5
<1>7. CASE n = 6
  BY <1>7, Step6
<1>8. CASE n = 7
  BY <1>8, Step7
<1>9. CASE n = 8
  BY <1>9, Step8
<1>10. CASE n = 9
  BY <1>10, Step9
<1> QED
  BY <1>1, <1>2, <1>3, <1>4, <1>5, <1>6, <1>7, <1>8, <1>9, <1>10

-----------------------------------------------------------------------------
(* The handler.                                                            *)

\* The bytes that are on the handler's stack when it has executed p instructions.
HandlerDepth == << 6, 8, 8, 6 >>

\* The registers that the handler never changes.
Kept(s, t) ==
    /\ t.cx = s.cx /\ t.dx = s.dx /\ t.bx = s.bx /\ t.bp = s.bp /\ t.si = s.si /\ t.di = s.di
    /\ t.ds = s.ds /\ t.es = s.es /\ t.ss = s.ss /\ t.panic = s.panic /\ t.io = s.io

\* The processor was interrupted in state s and has executed p instructions of
\* the handler since then.
Handling(s, p, t) ==
    /\ t \in Processor /\ t.halt = FALSE /\ t.rom = {}
    /\ t.cs = Other /\ t.ip = Entry + p /\ Lower(s, t, HandlerDepth[p + 1])
    /\ Kept(s, t)
    /\ p # 2 => t.ax = s.ax
    /\ p \in {1, 2} => Read16(t, s.ss, s.sp - 8) = s.ax
    /\ Framed(s, t) /\ SameOutside(s, t, BelowStack(s, 8))
    /\ ~(DOMAIN t.m \subseteq DOMAIN s.m)

\* The handler has returned.
Returned(s, t) ==
    /\ t \in Processor /\ t.halt = FALSE /\ t.rom = {} /\ Kept(s, t)
    /\ t.ax = s.ax /\ t.cs = s.cs /\ t.ip = s.ip /\ t.sp = s.sp /\ t.f = s.f
    /\ SameOutside(s, t, BelowStack(s, 8)) /\ t.m # s.m

\* Where the instructions of the handler are.
LEMMA EntryOffsets ==
    ASSUME NEW p \in 0 .. 3
    PROVE  /\ Entry + p \in Offset /\ Word(Entry + p + 1) = Entry + (p + 1)
           /\ Entry + p \in Int
BY SMT DEF Entry, Offset, Word

\* The processor about to execute instruction p of the handler.
Handles(s, p, op, r, t) ==
    /\ r = Opcode(t, op) /\ t \in Processor /\ t.halt = FALSE /\ t.rom = {}
    /\ t.cs = Other /\ t.ip = Entry + (p + 1) /\ Lower(s, t, HandlerDepth[p + 1])
    /\ Kept(s, t)
    /\ p # 2 => t.ax = s.ax
    /\ p \in {1, 2} => Read16(t, s.ss, s.sp - 8) = s.ax
    /\ Framed(s, t) /\ SameOutside(s, t, BelowStack(s, 8))
    /\ ~(DOMAIN t.m \subseteq DOMAIN s.m)

\* Memory as it is read.
LEMMA SameReads ==
    ASSUME NEW q, NEW t, t.m = q.m
    PROVE  /\ \A adr : mem_read(t, adr) = mem_read(q, adr)
           /\ \A seg, off : Read16(t, seg, off) = Read16(q, seg, off)
           /\ \A s : Framed(s, q) => Framed(s, t)
           /\ \A s, A : SameOutside(s, q, A) => SameOutside(s, t, A)
<1>1. \A adr : mem_read(t, adr) = mem_read(q, adr)
  BY DEF mem_read
<1>2. \A seg, off : Read16(t, seg, off) = Read16(q, seg, off)
  BY <1>1 DEF Read16, mem_read_by_segment
<1> QED
  BY <1>1, <1>2 DEF Framed, SameOutside

\* The next instruction of the handler is fetched.
LEMMA HandlerStarts ==
    ASSUME NEW u \in Int, NEW k \in Nat, NEW s \in Processor, s.ss = Stack, Loaded(u, k, s),
           NEW p \in 0 .. 3, NEW q, Handling(s, p, q),
           NEW op, op = HandlerBytes[p + 1], op \notin PrefixBytes,
           NEW r, r = i8088_execute(q)
    PROVE  Handles(s, p, op, r, Started(q))
<1> DEFINE t == Started(q)
<1>1. /\ q \in Processor /\ ~q.halt /\ q.cs = Other /\ q.ip = Entry + p
      /\ SameOutside(s, q, BelowStack(s, 8)) /\ q.halt = FALSE /\ q.rom = {}
  BY DEF Handling
<1>2. Loaded(u, k, q)
  <2>1. \A adr \in BelowStack(s, 8) : \E z \in Int : adr = Linear(Stack, z)
    <3>1. s.sp \in Int
      BY Registers16
    <3> QED
      BY <3>1 DEF BelowStack
  <2> DEFINE A == BelowStack(s, 8)
  <2>2. SameOutside(s, q, A) /\ \A adr \in A : adr \in Block \/ \E z \in Int : adr = Linear(Stack, z)
    BY <1>1, <2>1
  <2> HIDE DEF A
  <2> QED
    BY <2>2, LoadedStays
<1>3. op = mem_read_by_segment(q, q.cs, q.ip)
  BY <1>1, <1>2, HandlerRead
<1>4. r = Opcode(t, op) /\ t \in Processor
  BY <1>1, <1>3, Fetched
<1>5. t = [q EXCEPT !.seg = "none", !.rep = "none", !.ip = Word(q.ip + 1)]
  BY DEF Started
<1> HIDE DEF t
<1>6. t.ip = Word(q.ip + 1) /\ t.sp = q.sp /\ t.m = q.m /\ t.ss = q.ss
  BY <1>1, <1>5 DEF Processor
<1>7. t.ip = Entry + (p + 1)
  BY <1>1, <1>6, EntryOffsets
<1>8. t.halt = q.halt /\ t.rom = q.rom /\ t.cs = q.cs /\ t.ax = q.ax
  BY <1>1, <1>5 DEF Processor
<1>9. Kept(s, t)
  <2>1. t.cx = q.cx /\ t.dx = q.dx /\ t.bx = q.bx /\ t.bp = q.bp
    BY <1>1, <1>5 DEF Processor
  <2>2. t.si = q.si /\ t.di = q.di /\ t.ds = q.ds /\ t.es = q.es
    BY <1>1, <1>5 DEF Processor
  <2>3. t.ss = q.ss /\ t.panic = q.panic /\ t.io = q.io
    BY <1>1, <1>5 DEF Processor
  <2>4. Kept(s, q)
    BY DEF Handling
  <2> QED
    BY <2>1, <2>2, <2>3, <2>4 DEF Kept
<1>10. /\ Lower(s, t, HandlerDepth[p + 1])
       /\ p # 2 => t.ax = s.ax
       /\ p \in {1, 2} => Read16(t, s.ss, s.sp - 8) = s.ax
       /\ Framed(s, t) /\ SameOutside(s, t, BelowStack(s, 8))
       /\ ~(DOMAIN t.m \subseteq DOMAIN s.m)
  <2>1. Lower(s, t, HandlerDepth[p + 1])
    BY <1>6 DEF Handling, Lower
  <2>2. (p # 2 => t.ax = s.ax) /\ ~(DOMAIN t.m \subseteq DOMAIN s.m)
    BY <1>6, <1>8 DEF Handling
  <2>3. p \in {1, 2} => Read16(t, s.ss, s.sp - 8) = s.ax
    BY <1>6, SameReads DEF Handling
  <2>4. Framed(s, t) /\ SameOutside(s, t, BelowStack(s, 8))
    BY <1>6, SameReads DEF Handling
  <2> QED
    BY <2>1, <2>2, <2>3, <2>4
<1> QED
  BY <1>1, <1>4, <1>7, <1>8, <1>9, <1>10 DEF Handles, t

\* PUSH AX in the handler.
LEMMA Handler0 ==
    ASSUME NEW s \in Processor, NEW t, NEW r, Handles(s, 0, 80, r, t)
    PROVE  Handling(s, 1, r)
<1> DEFINE A(i) == Linear(s.ss, s.sp - i)
<1>1. /\ r = Opcode(t, 80) /\ t \in Processor /\ t.halt = FALSE /\ t.rom = {} /\ t.cs = Other
      /\ t.ip = Entry + 1 /\ Lower(s, t, 6) /\ t.ax = s.ax /\ Framed(s, t)
      /\ SameOutside(s, t, BelowStack(s, 8)) /\ ~(DOMAIN t.m \subseteq DOMAIN s.m)
  <2>1. 0 + 1 = 1 /\ 0 # 2 /\ HandlerDepth[0 + 1] = 6
    BY DEF HandlerDepth
  <2> QED
    BY <2>1 DEF Handles
<1>2. PushedBelow(s, t, 6, t.ax, r)
  <2> DEFINE six == 6
             ax == t.ax
  <2>1. six \in Int /\ ax \in Offset /\ Lower(s, t, six) /\ r = push(t, ax)
    BY <1>1, PushAx, Registers16
  <2> HIDE DEF six, ax
  <2>2. PushedBelow(s, t, six, ax, r)
    BY <1>1, <2>1, PushesBelow
  <2> QED
    BY <2>2 DEF six, ax
<1>3. /\ r \in Processor /\ r = [t EXCEPT !.sp = Word(s.sp - (6 + 2)), !.m = r.m]
      /\ DOMAIN r.m = DOMAIN t.m \cup {A(6 + 1), A(6 + 2)}
      /\ \A j \in Int : (j <= 6 \/ j > 6 + 2) /\ j < 6 + 90 /\ 6 < j + 90 =>
            mem_read(r, A(j)) = mem_read(t, A(j))
      /\ SameOutside(t, r, {A(6 + 1), A(6 + 2)})
      /\ Read16(r, s.ss, s.sp - (6 + 2)) = t.ax
  BY <1>2 DEF PushedBelow
<1>13. r \in Processor /\ t \in Processor /\ r = [t EXCEPT !.sp = Word(s.sp - 8), !.m = r.m]
  <2>1. 6 + 2 = 8
    OBVIOUS
  <2> QED
    BY <1>1, <1>3, <2>1
<1>4. r.sp = Word(s.sp - 8) /\ r.ss = t.ss /\ r.ax = t.ax
  BY <1>13 DEF Processor
<1>5. r.halt = t.halt /\ r.rom = t.rom /\ r.cs = t.cs /\ r.ip = t.ip
  BY <1>13 DEF Processor
<1>6. Kept(s, r)
  <2>1. r.cx = t.cx /\ r.dx = t.dx /\ r.bx = t.bx /\ r.bp = t.bp
    BY <1>13 DEF Processor
  <2>2. r.si = t.si /\ r.di = t.di /\ r.ds = t.ds /\ r.es = t.es
    BY <1>13 DEF Processor
  <2>3. r.ss = t.ss /\ r.panic = t.panic /\ r.io = t.io
    BY <1>13 DEF Processor
  <2>4. Kept(s, t)
    BY DEF Handles
  <2> QED
    BY <2>1, <2>2, <2>3, <2>4 DEF Kept
<1>7. Framed(s, r)
  <2>1. /\ mem_read(r, A(1)) = mem_read(t, A(1)) /\ mem_read(r, A(2)) = mem_read(t, A(2))
        /\ mem_read(r, A(3)) = mem_read(t, A(3)) /\ mem_read(r, A(4)) = mem_read(t, A(4))
        /\ mem_read(r, A(5)) = mem_read(t, A(5)) /\ mem_read(r, A(6)) = mem_read(t, A(6))
    BY <1>3
  <2>2. \A q : /\ Read16(q, s.ss, s.sp - 2) = mem_read(q, A(2)) + 256 * mem_read(q, A(1))
               /\ Read16(q, s.ss, s.sp - 4) = mem_read(q, A(4)) + 256 * mem_read(q, A(3))
               /\ Read16(q, s.ss, s.sp - 6) = mem_read(q, A(6)) + 256 * mem_read(q, A(5))
    <3>1. s.sp - 2 + 1 = s.sp - 1 /\ s.sp - 4 + 1 = s.sp - 3 /\ s.sp - 6 + 1 = s.sp - 5
      BY Registers16
    <3> QED
      BY <3>1 DEF Read16, mem_read_by_segment
  <2> HIDE DEF A
  <2> QED
    BY <1>1, <2>1, <2>2 DEF Framed
<1>8. SameOutside(s, r, BelowStack(s, 8))
  <2>1. A(6 + 1) \in BelowStack(s, 8) /\ A(6 + 2) \in BelowStack(s, 8)
    BY DEF BelowStack
  <2> HIDE DEF A
  <2> QED
    BY <1>1, <1>3, <2>1 DEF SameOutside
<1>9. ~(DOMAIN r.m \subseteq DOMAIN s.m)
  BY <1>1, <1>3
<1>10. Read16(r, s.ss, s.sp - 8) = s.ax
  BY <1>1, <1>3
<1>11. Lower(s, r, 8)
  BY <1>1, <1>4 DEF Lower
<1>12. HandlerDepth[1 + 1] = 8
  BY DEF HandlerDepth
<1> QED
  BY <1>1, <1>3, <1>4, <1>5, <1>6, <1>7, <1>8, <1>9, <1>10, <1>11, <1>12 DEF Handling

\* INC AX in the handler.
LEMMA Handler1 ==
    ASSUME NEW s \in Processor, NEW t, NEW r, Handles(s, 1, 64, r, t)
    PROVE  Handling(s, 2, r)
<1>1. /\ r = Opcode(t, 64) /\ t \in Processor /\ t.halt = FALSE /\ t.rom = {} /\ t.cs = Other
      /\ t.ip = Entry + 2 /\ Lower(s, t, 8) /\ Framed(s, t)
      /\ SameOutside(s, t, BelowStack(s, 8)) /\ ~(DOMAIN t.m \subseteq DOMAIN s.m)
      /\ Read16(t, s.ss, s.sp - 8) = s.ax
  <2>1. 1 + 1 = 2 /\ 1 \in {1, 2} /\ HandlerDepth[1 + 1] = 8
    BY DEF HandlerDepth
  <2> QED
    BY <2>1 DEF Handles
<1>2. r \in Processor /\ r = [t EXCEPT !.f = r.f, !.ax = r.ax]
  BY <1>1, IncrementAx
<1>9. r \in Processor /\ t \in Processor /\ r = [t EXCEPT !.f = r.f, !.ax = r.ax]
  BY <1>1, <1>2
<1>3. r.sp = t.sp /\ r.ss = t.ss /\ r.m = t.m
  BY <1>1, <1>2, ZenonT(60) DEF Processor
<1>4. r.halt = t.halt /\ r.rom = t.rom /\ r.cs = t.cs /\ r.ip = t.ip
  BY <1>1, <1>2, ZenonT(60) DEF Processor
<1>5. Kept(s, r)
  <2>1. r.cx = t.cx /\ r.dx = t.dx /\ r.bx = t.bx /\ r.bp = t.bp
    BY <1>9 DEF Processor
  <2>2. r.si = t.si /\ r.di = t.di /\ r.ds = t.ds /\ r.es = t.es
    BY <1>9 DEF Processor
  <2>3. r.ss = t.ss /\ r.panic = t.panic /\ r.io = t.io
    BY <1>9 DEF Processor
  <2>4. Kept(s, t)
    BY DEF Handles
  <2> QED
    BY <2>1, <2>2, <2>3, <2>4 DEF Kept
<1>6. /\ Framed(s, r) /\ SameOutside(s, r, BelowStack(s, 8))
      /\ Read16(r, s.ss, s.sp - 8) = s.ax
  BY <1>1, <1>3, SameReads
<1>7. Lower(s, r, 8) /\ ~(DOMAIN r.m \subseteq DOMAIN s.m)
  BY <1>1, <1>3 DEF Lower
<1>8. HandlerDepth[2 + 1] = 8
  BY DEF HandlerDepth
<1> QED
  BY <1>1, <1>2, <1>3, <1>4, <1>5, <1>6, <1>7, <1>8 DEF Handling

\* POP AX in the handler.
LEMMA Handler2 ==
    ASSUME NEW s \in Processor, NEW t, NEW r, Handles(s, 2, 88, r, t)
    PROVE  Handling(s, 3, r)
<1>1. /\ r = Opcode(t, 88) /\ t \in Processor /\ t.halt = FALSE /\ t.rom = {} /\ t.cs = Other
      /\ t.ip = Entry + 3 /\ Lower(s, t, 8) /\ Framed(s, t)
      /\ SameOutside(s, t, BelowStack(s, 8)) /\ ~(DOMAIN t.m \subseteq DOMAIN s.m)
      /\ Read16(t, s.ss, s.sp - 8) = s.ax
  <2>1. 2 + 1 = 3 /\ 2 \in {1, 2} /\ HandlerDepth[2 + 1] = 8
    BY DEF HandlerDepth
  <2> QED
    BY <2>1 DEF Handles
<1>2. OnStack(t, 0) = s.ax
  <2>1. s.sp \in Int /\ t.sp \in Int /\ 8 \in Int /\ 0 \in Int /\ 1 \in Int
    BY <1>1, Registers16
  <2>2. \A i \in Int : Linear(t.ss, t.sp + i) = Linear(s.ss, s.sp + (i - 8))
    BY <1>1, <2>1, Shadow
  <2>3. s.sp + (0 - 8) = s.sp - 8 /\ s.sp + (1 - 8) = s.sp - 8 + 1 /\ t.sp + 0 + 1 = t.sp + 1
    BY <2>1
  <2>4. /\ Linear(t.ss, t.sp + 0) = Linear(s.ss, s.sp - 8)
        /\ Linear(t.ss, t.sp + 0 + 1) = Linear(s.ss, s.sp - 8 + 1)
    BY <2>1, <2>2, <2>3
  <2>5. OnStack(t, 0) = Read16(t, s.ss, s.sp - 8)
    BY <2>4 DEF OnStack, Read16, mem_read_by_segment
  <2> QED
    BY <1>1, <2>5
<1>3. Word(t.sp + 2) = Word(s.sp - 6) /\ Word(s.sp - 6) \in Offset
  <2> DEFINE off == s.sp - 8
             seg == s.ss
  <2>1. off \in Int /\ off + 2 = s.sp - 6 /\ 2 \in Int /\ seg \in Offset
    BY Registers16
  <2> HIDE DEF off, seg
  <2>2. Word(Word(off) + 2) = Word(off + 2) /\ off + 2 \in Int
    BY <2>1, Offsets
  <2>3. Word(off + 2) \in Offset
    BY <2>2, WordTyped
  <2>4. t.sp = Word(off)
    BY <1>1 DEF Lower, off
  <2> QED
    BY <2>1, <2>2, <2>3, <2>4
<1> DEFINE sp == Word(s.sp - 6)
           ax == s.ax
<1>4. r = [[t EXCEPT !.sp = sp] EXCEPT !.ax = ax]
  BY <1>1, <1>2, <1>3, PopAx DEF Drop
<1>5. sp \in Offset /\ ax \in Offset
  BY <1>3, Registers16
<1>6. sp = Word(s.sp - 6) /\ ax = s.ax
  OBVIOUS
<1> HIDE DEF sp, ax
<1>7. r = [t EXCEPT !.sp = sp, !.ax = ax] /\ t \in Processor
  BY <1>1, <1>4 DEF Processor
<1>8. r \in Processor
  BY <1>5, <1>7 DEF Processor
<1>9. r.sp = sp /\ r.ss = t.ss /\ r.m = t.m /\ r.ax = ax
  BY <1>7 DEF Processor
<1>10. r.halt = t.halt /\ r.rom = t.rom /\ r.cs = t.cs /\ r.ip = t.ip
  BY <1>7 DEF Processor
<1>11. Kept(s, r)
  <2>1. r.cx = t.cx /\ r.dx = t.dx /\ r.bx = t.bx /\ r.bp = t.bp
    BY <1>7 DEF Processor
  <2>2. r.si = t.si /\ r.di = t.di /\ r.ds = t.ds /\ r.es = t.es
    BY <1>7 DEF Processor
  <2>3. r.ss = t.ss /\ r.panic = t.panic /\ r.io = t.io
    BY <1>7 DEF Processor
  <2>4. Kept(s, t)
    BY DEF Handles
  <2> QED
    BY <2>1, <2>2, <2>3, <2>4 DEF Kept
<1>12. Framed(s, r) /\ SameOutside(s, r, BelowStack(s, 8))
  BY <1>1, <1>9, SameReads
<1>13. Lower(s, r, 6) /\ ~(DOMAIN r.m \subseteq DOMAIN s.m)
  BY <1>1, <1>6, <1>9 DEF Lower
<1>14. HandlerDepth[3 + 1] = 6 /\ 3 \notin {1, 2}
  BY DEF HandlerDepth
<1> QED
  BY <1>1, <1>6, <1>8, <1>9, <1>10, <1>11, <1>12, <1>13, <1>14 DEF Handling

\* IRET in the handler.
LEMMA Handler3 ==
    ASSUME NEW s \in Processor, s.f.x = UnusedSet, NEW t, NEW r, Handles(s, 3, 207, r, t)
    PROVE  Returned(s, r)
<1>1. /\ r = Opcode(t, 207) /\ t \in Processor /\ t.halt = FALSE /\ t.rom = {}
      /\ Lower(s, t, 6) /\ Framed(s, t) /\ t.ax = s.ax
      /\ SameOutside(s, t, BelowStack(s, 8)) /\ ~(DOMAIN t.m \subseteq DOMAIN s.m)
  <2>1. 3 # 2 /\ HandlerDepth[3 + 1] = 6
    BY DEF HandlerDepth
  <2> QED
    BY <2>1 DEF Handles
<1>2. /\ r = [t EXCEPT !.sp = s.sp, !.ip = s.ip, !.cs = s.cs,
                       !.f = [s.f EXCEPT !.x = UnusedSet]]
      /\ r \in Processor
  <2>1. t \in Processor /\ Lower(s, t, 6) /\ Framed(s, t)
    BY <1>1
  <2>2. /\ iret(t) = [t EXCEPT !.sp = s.sp, !.ip = s.ip, !.cs = s.cs,
                              !.f = [s.f EXCEPT !.x = UnusedSet]]
        /\ iret(t) \in Processor
    BY <2>1, FrameTaken
  <2>3. Opcode(t, 207) = iret(t)
    BY ReturnOpcode
  <2>4. r = iret(t)
    BY <1>1, <2>3
  <2> QED
    BY <2>2, <2>4
<1>3. [s.f EXCEPT !.x = UnusedSet] = s.f
  <2>1. s.f \in CpuFlags
    BY Registers16
  <2> HIDE DEF UnusedSet
  <2> QED
    BY <2>1 DEF CpuFlags
<1>4. r = [t EXCEPT !.sp = s.sp, !.ip = s.ip, !.cs = s.cs, !.f = s.f] /\ t \in Processor
  BY <1>1, <1>2, <1>3
<1>5. r.sp = s.sp /\ r.ip = s.ip /\ r.cs = s.cs /\ r.f = s.f
  BY <1>4 DEF Processor
<1>6. r.halt = t.halt /\ r.rom = t.rom /\ r.ax = t.ax /\ r.m = t.m
  BY <1>4 DEF Processor
<1>7. Kept(s, r)
  <2>1. r.cx = t.cx /\ r.dx = t.dx /\ r.bx = t.bx /\ r.bp = t.bp
    BY <1>4 DEF Processor
  <2>2. r.si = t.si /\ r.di = t.di /\ r.ds = t.ds /\ r.es = t.es
    BY <1>4 DEF Processor
  <2>3. r.ss = t.ss /\ r.panic = t.panic /\ r.io = t.io
    BY <1>4 DEF Processor
  <2>4. Kept(s, t)
    BY DEF Handles
  <2> QED
    BY <2>1, <2>2, <2>3, <2>4 DEF Kept
<1>8. SameOutside(s, r, BelowStack(s, 8))
  BY <1>1, <1>6, SameReads
<1>9. r.m # s.m
  BY <1>1, <1>6
<1> QED
  BY <1>1, <1>2, <1>5, <1>6, <1>7, <1>8, <1>9 DEF Returned

\* Every step of the handler leads to the next one, and the last one back.
LEMMA HandlerRuns ==
    ASSUME NEW u \in Int, NEW k \in Nat, NEW s \in Processor, s.ss = Stack, Loaded(u, k, s),
           s.f.x = UnusedSet, NEW p \in 0 .. 3, NEW q, Handling(s, p, q),
           NEW r, r = i8088_execute(q)
    PROVE  IF p = 3 THEN Returned(s, r) ELSE Handling(s, p + 1, r)
<1>1. /\ 80 = HandlerBytes[0 + 1] /\ 64 = HandlerBytes[1 + 1]
      /\ 88 = HandlerBytes[2 + 1] /\ 207 = HandlerBytes[3 + 1]
  BY DEF HandlerBytes
<1>2. 80 \notin PrefixBytes /\ 64 \notin PrefixBytes /\ 88 \notin PrefixBytes /\ 207 \notin PrefixBytes
  BY SMT DEF PrefixBytes
<1> DEFINE b0 == 80
           b1 == 64
           b2 == 88
           b3 == 207
<1>3. /\ b0 = HandlerBytes[0 + 1] /\ b1 = HandlerBytes[1 + 1]
      /\ b2 = HandlerBytes[2 + 1] /\ b3 = HandlerBytes[3 + 1]
      /\ b0 \notin PrefixBytes /\ b1 \notin PrefixBytes /\ b2 \notin PrefixBytes
      /\ b3 \notin PrefixBytes
  BY <1>1, <1>2
<1> HIDE DEF b0, b1, b2, b3
<1>4. CASE p = 0
  <2>1. 0 \in 0 .. 3 /\ Handling(s, 0, q)
    BY <1>4
  <2>2. Handles(s, 0, b0, r, Started(q))
    BY <1>3, <2>1, HandlerStarts
  <2>3. Handling(s, 1, r)
    BY <2>2, Handler0 DEF b0
  <2> QED
    BY <1>4, <2>3
<1>5. CASE p = 1
  <2>1. 1 \in 0 .. 3 /\ Handling(s, 1, q)
    BY <1>5
  <2>2. Handles(s, 1, b1, r, Started(q))
    BY <1>3, <2>1, HandlerStarts
  <2>3. Handling(s, 2, r)
    BY <2>2, Handler1 DEF b1
  <2> QED
    BY <1>5, <2>3
<1>6. CASE p = 2
  <2>1. 2 \in 0 .. 3 /\ Handling(s, 2, q)
    BY <1>6
  <2>2. Handles(s, 2, b2, r, Started(q))
    BY <1>3, <2>1, HandlerStarts
  <2>3. Handling(s, 3, r)
    BY <2>2, Handler2 DEF b2
  <2> QED
    BY <1>6, <2>3
<1>7. CASE p = 3
  <2>1. 3 \in 0 .. 3 /\ Handling(s, 3, q)
    BY <1>7
  <2>2. Handles(s, 3, b3, r, Started(q))
    BY <1>3, <2>1, HandlerStarts
  <2>3. Returned(s, r)
    BY <2>2, Handler3 DEF b3
  <2> QED
    BY <1>7, <2>3
<1> QED
  BY <1>4, <1>5, <1>6, <1>7

\* The vector leads to the handler.
LEMMA HandlerEntered ==
    ASSUME NEW u \in Int, NEW v \in Int, NEW k \in Nat, NEW s, NEW off, NEW d \in {0, 2, 4},
           Reached(u, v, k, s, off, d), NEW t, t = i8088_irq(s, k), s.f.i # 0
    PROVE  Handling(s, 0, t)
<1> DEFINE h == i8088_interrupt(s, k + 8)
           n == k + 8
<1>1. s \in Processor /\ s.rom = {} /\ s.halt = FALSE /\ s.ss = Stack /\ s.sp = Word(v - d)
      /\ Loaded(u, k, s) /\ Linear(Stack, v - 6) \notin DOMAIN s.m
  BY DEF Reached
<1>2. [s EXCEPT !.halt = FALSE] = s
  BY <1>1 DEF Processor
<1>3. t = [h EXCEPT !.f.i = 0]
  BY <1>2 DEF i8088_irq
<1>4. Entered(s, n, h)
  <2>1. n \in Nat /\ h = i8088_interrupt(s, n)
    OBVIOUS
  <2> HIDE DEF n, h
  <2> QED
    BY <1>1, <2>1, Interrupted
<1> HIDE DEF h
<1> DEFINE ip == Read16(h, 0, n * 4)
           cs == Read16(h, 0, n * 4 + 2)
<1>5. /\ h \in Processor
      /\ h = [s EXCEPT !.sp = Word(s.sp - 6), !.m = h.m, !.f.t = 0, !.ip = ip, !.cs = cs]
      /\ DOMAIN h.m = DOMAIN s.m \cup BelowStack(s, 6)
      /\ SameOutside(s, h, BelowStack(s, 6))
      /\ Framed(s, h)
  BY <1>4 DEF Entered
<1>6. Loaded(u, k, h)
  <2> DEFINE A == BelowStack(s, 6)
  <2>1. \A adr \in BelowStack(s, 6) : \E z \in Int : adr = Linear(Stack, z)
    <3>1. s.sp \in Int
      BY <1>1, Registers16
    <3> QED
      BY <1>1, <3>1 DEF BelowStack
  <2>2. SameOutside(s, h, A) /\ \A adr \in A : adr \in Block \/ \E z \in Int : adr = Linear(Stack, z)
    BY <1>5, <2>1
  <2> HIDE DEF A
  <2> QED
    BY <1>1, <2>2, LoadedStays
<1>7. ip = Entry /\ cs = Other
  BY <1>6 DEF Loaded
<1> HIDE DEF ip, cs
<1>8. h.ip = Entry /\ h.cs = Other /\ h.sp = Word(s.sp - 6) /\ h.ss = s.ss
  BY <1>1, <1>5, <1>7 DEF Processor
<1>9. h.halt = s.halt /\ h.rom = s.rom /\ h.ax = s.ax
  BY <1>1, <1>5 DEF Processor
<1>10. t \in Processor /\ t = [h EXCEPT !.f = t.f]
  <2>1. 0 \in {0, 1}
    OBVIOUS
  <2> QED
    BY <1>3, <1>5, <2>1, FlagsChanged
<1>11. t.ip = h.ip /\ t.cs = h.cs /\ t.sp = h.sp /\ t.ss = h.ss
  BY <1>5, <1>10 DEF Processor
<1>12. t.halt = h.halt /\ t.rom = h.rom /\ t.ax = h.ax /\ t.m = h.m
  BY <1>5, <1>10 DEF Processor
<1>13. Kept(s, t)
  <2>1. /\ h.cx = s.cx /\ h.dx = s.dx /\ h.bx = s.bx /\ h.bp = s.bp
    BY <1>1, <1>5 DEF Processor
  <2>2. /\ h.si = s.si /\ h.di = s.di /\ h.ds = s.ds /\ h.es = s.es
    BY <1>1, <1>5 DEF Processor
  <2>3. /\ h.panic = s.panic /\ h.io = s.io
    BY <1>1, <1>5 DEF Processor
  <2>4. /\ t.cx = h.cx /\ t.dx = h.dx /\ t.bx = h.bx /\ t.bp = h.bp
    BY <1>5, <1>10 DEF Processor
  <2>5. /\ t.si = h.si /\ t.di = h.di /\ t.ds = h.ds /\ t.es = h.es
    BY <1>5, <1>10 DEF Processor
  <2>6. /\ t.panic = h.panic /\ t.io = h.io
    BY <1>5, <1>10 DEF Processor
  <2> QED
    BY <1>8, <1>11, <2>1, <2>2, <2>3, <2>4, <2>5, <2>6 DEF Kept
<1>14. Framed(s, t) /\ SameOutside(s, t, BelowStack(s, 8))
  <2>1. Framed(s, t) /\ SameOutside(s, t, BelowStack(s, 6))
    BY <1>5, <1>12, SameReads
  <2>2. BelowStack(s, 6) \subseteq BelowStack(s, 8)
    BY DEF BelowStack
  <2> QED
    BY <2>1, <2>2 DEF SameOutside
<1>15. ~(DOMAIN t.m \subseteq DOMAIN s.m)
  <2>1. Linear(Stack, v - 6) \in BelowStack(s, 6)
    <3> DEFINE o == v - d
               j == 6 - d
               seg == Stack
    <3>1. o \in Int /\ j \in 1 .. 6 /\ -j \in Int /\ o + (-j) = v - 6 /\ seg \in Offset
      BY SegmentsApart
    <3>2. Word(o) \in Int
      <4> HIDE DEF o
      <4> QED
        BY <3>1, WordTyped
    <3>3. Word(o) - j = Word(o) + (-j)
      <4> HIDE DEF o, j
      <4> QED
        BY <3>1, <3>2
    <3> HIDE DEF o, seg
    <3>4. Linear(seg, Word(o) + (-j)) = Linear(seg, o + (-j))
      <4> DEFINE i == -j
      <4>1. i \in Int
        BY <3>1
      <4> HIDE DEF j, i
      <4>2. Linear(seg, Word(o) + i) = Linear(seg, o + i)
        BY <3>1, <4>1, Offsets
      <4> QED
        BY <4>2 DEF i
    <3>5. Linear(seg, s.sp - j) = Linear(seg, v - 6)
      BY <1>1, <3>1, <3>3, <3>4 DEF o
    <3> HIDE DEF j
    <3> QED
      BY <1>1, <3>1, <3>5 DEF BelowStack, seg
  <2> QED
    BY <1>1, <1>5, <1>12, <2>1
<1>16. Entry + 0 = Entry /\ HandlerDepth[0 + 1] = 6 /\ 0 \notin {1, 2}
  BY EntryOffsets DEF HandlerDepth, Entry
<1>17. Lower(s, t, 6)
  BY <1>8, <1>11 DEF Lower
<1> QED
  BY <1>1, <1>8, <1>9, <1>10, <1>11, <1>12, <1>13, <1>14, <1>15, <1>16, <1>17 DEF Handling

\* What the handler leaves is what the property asks for.
LEMMA ReturnedSame ==
    ASSUME NEW s \in Processor, s.halt = FALSE, s.rom = {}, NEW t, Returned(s, t)
    PROVE  /\ Registers(t) = Registers(s)
           /\ SameMemory(t, s, BelowStack(s, 8))
<1>1. DOMAIN t = DOMAIN s
  BY DEF Returned, Processor
<1>2. \A r \in DOMAIN s \ {"m", "seg", "rep"} : t[r] = s[r]
  <2>1. DOMAIN s = {"ax", "cx", "dx", "bx", "sp", "bp", "si", "di", "cs", "ds", "es", "ss",
                    "ip", "f", "seg", "rep", "halt", "panic", "m", "rom", "io"}
    BY DEF Processor
  <2>2. t.ax = s.ax /\ t.cs = s.cs /\ t.ip = s.ip /\ t.sp = s.sp /\ t.f = s.f
        /\ t.halt = s.halt /\ t.rom = s.rom
    BY DEF Returned
  <2>3. /\ t.cx = s.cx /\ t.dx = s.dx /\ t.bx = s.bx /\ t.bp = s.bp /\ t.si = s.si /\ t.di = s.di
        /\ t.ds = s.ds /\ t.es = s.es /\ t.ss = s.ss /\ t.panic = s.panic /\ t.io = s.io
    BY DEF Returned, Kept
  <2> TAKE r \in DOMAIN s \ {"m", "seg", "rep"}
  <2> QED
    BY <2>1, <2>2, <2>3
<1>3. Registers(t) = Registers(s)
  BY <1>1, <1>2 DEF Registers
<1>4. SameMemory(t, s, BelowStack(s, 8))
  BY DEF Returned, SameOutside, SameMemory
<1> QED
  BY <1>3, <1>4

-----------------------------------------------------------------------------
(* The program in memory.                                                  *)

\* A segment that does not run over the end of the megabyte.
Inside == {seg \in Offset : seg < 61440}

\* Which byte of a placed string is at an address.
LEMMA PlaceOf ==
    ASSUME NEW seg \in Inside, NEW off \in Int, NEW i \in Nat, i < 65536
    PROVE  (Linear(seg, off + i) - seg * 16 - off) % 65536 = i
<1>1. seg \in Nat /\ seg < 61440
  BY SMT DEF Inside, Offset
<1>2. PICK w \in Int, e \in Int : w = Word(off + i) /\ off + i = 65536 * e + w /\ 0 <= w /\ w < 65536
  <2> DEFINE q == off + i
  <2>1. q \in Int
    OBVIOUS
  <2> HIDE DEF q
  <2>2. /\ q = 65536 * (q \div 65536) + (q % 65536) /\ q \div 65536 \in Int
        /\ q % 65536 \in Int /\ 0 <= q % 65536 /\ q % 65536 < 65536
    BY <2>1, SMT
  <2> QED
    BY <2>2 DEF Word, q
<1>3. Linear(seg, off + i) = seg * 16 + w
  <2>1. Linear(seg, off + i) = (seg * 16 + w) % 1048576
    BY <1>2 DEF Linear
  <2>2. (seg * 16 + w) % 1048576 = seg * 16 + w
    <3>1. seg * 16 + w \in Int /\ 0 <= seg * 16 + w /\ seg * 16 + w < 1048576
      BY <1>1, <1>2, SMT
    <3> DEFINE z == seg * 16 + w
    <3>2. z \in Int /\ 0 <= z /\ z < 1048576
      BY <3>1, SMT
    <3> HIDE DEF z
    <3>3. z % 1048576 = z
      BY <3>2, SMT
    <3> QED
      BY <3>3 DEF z
  <2> QED
    BY <2>1, <2>2
<1>4. Linear(seg, off + i) - seg * 16 - off = i - 65536 * e
  BY <1>1, <1>2, <1>3, SMT
<1>5. (i - 65536 * e) % 65536 = i
  BY <1>2, SMT
<1> QED
  BY <1>4, <1>5

\* The bytes b at seg:off are the memory m.
Holds(seg, off, n, b, m) ==
    /\ m \in Memory
    /\ \A adr \in DOMAIN m : \E q \in Int : adr = Linear(seg, q)
    /\ \A i \in 0 .. n - 1 : /\ Linear(seg, off + i) \in DOMAIN m
                             /\ m[Linear(seg, off + i)] = b[i + 1]

\* Bytes that are placed at an address are found there.
LEMMA BytesRead ==
    ASSUME NEW seg \in Inside, NEW off \in Int, NEW n \in 1 .. 16, NEW b, DOMAIN b = 1 .. n,
           \A j \in 1 .. n : b[j] \in Byte, NEW m, m = Bytes(seg, off, b)
    PROVE  Holds(seg, off, n, b, m)
<1> DEFINE D == {Linear(seg, off + j - 1) : j \in DOMAIN b}
           V(adr) == b[((adr - seg * 16 - off) % 65536) + 1]
<1>1. m = [adr \in D |-> V(adr)]
  BY DEF Bytes
<1>2. ASSUME NEW i \in 0 .. n - 1
      PROVE  Linear(seg, off + i) \in D /\ V(Linear(seg, off + i)) = b[i + 1]
  <2>1. i + 1 \in DOMAIN b /\ off + (i + 1) - 1 = off + i
    OBVIOUS
  <2>2. (Linear(seg, off + i) - seg * 16 - off) % 65536 = i
    <3>1. i \in Nat /\ i < 65536
      BY SMT
    <3> QED
      BY <3>1, PlaceOf
  <2> QED
    BY <2>1, <2>2
<1>3. \A adr \in D : \E i \in 0 .. n - 1 : adr = Linear(seg, off + i)
  <2> TAKE adr \in D
  <2>1. PICK j \in 1 .. n : adr = Linear(seg, off + j - 1)
    OBVIOUS
  <2>2. j - 1 \in 0 .. n - 1 /\ off + j - 1 = off + (j - 1)
    OBVIOUS
  <2> QED
    BY <2>1, <2>2
<1>4. \A adr \in D : V(adr) \in Byte
  <2> TAKE adr \in D
  <2>1. PICK i \in 0 .. n - 1 : adr = Linear(seg, off + i)
    BY <1>3
  <2> HIDE DEF V, D
  <2>2. V(adr) = b[i + 1] /\ i + 1 \in 1 .. n
    BY <1>2, <2>1
  <2> QED
    BY <2>2
<1>5. D \in SUBSET Nat
  <2> SUFFICES ASSUME NEW adr \in D PROVE adr \in Nat
    OBVIOUS
  <2>1. PICK i \in 0 .. n - 1 : adr = Linear(seg, off + i)
    BY <1>3
  <2>2. off + i \in Int /\ seg \in Offset
    BY DEF Inside
  <2> QED
    BY <2>1, <2>2, Addresses
<1> HIDE DEF D, V
<1>6. m \in Memory
  <2>1. m \in [D -> Byte]
    BY <1>1, <1>4
  <2> QED
    BY <1>5, <2>1 DEF Memory
<1>7. \A adr \in DOMAIN m : \E q \in Int : adr = Linear(seg, q)
  <2> TAKE adr \in DOMAIN m
  <2>1. PICK i \in 0 .. n - 1 : adr = Linear(seg, off + i)
    BY <1>1, <1>3
  <2>2. off + i \in Int
    OBVIOUS
  <2> QED
    BY <2>1, <2>2
<1>8. \A i \in 0 .. n - 1 : Linear(seg, off + i) \in DOMAIN m /\ m[Linear(seg, off + i)] = b[i + 1]
  BY <1>1, <1>2
<1> QED
  BY <1>6, <1>7, <1>8 DEF Holds

\* What placing bytes in memory does.
Placed(s, seg, off, n, b, t) ==
    /\ t \in Processor /\ t = [s EXCEPT !.m = t.m]
    /\ \A i \in 0 .. n - 1 : mem_read(t, Linear(seg, off + i)) = b[i + 1]
    /\ \A adr : (\A q \in Int : adr # Linear(seg, q)) =>
          mem_read(t, adr) = mem_read(s, adr) /\ (adr \in DOMAIN t.m => adr \in DOMAIN s.m)

\* Placing bytes changes nothing in the other segments.
LEMMA BytesPlaced ==
    ASSUME NEW s \in Processor, NEW seg \in Inside, NEW off \in Int, NEW n \in 1 .. 16, NEW b,
           DOMAIN b = 1 .. n, \A j \in 1 .. n : b[j] \in Byte, NEW t, t = With(s, seg, off, b)
    PROVE  Placed(s, seg, off, n, b, t)
<1> DEFINE new == Bytes(seg, off, b)
           m == [adr \in DOMAIN new \cup DOMAIN s.m |->
                    IF adr \in DOMAIN new THEN new[adr] ELSE s.m[adr]]
<1>1. /\ new \in Memory
      /\ \A adr \in DOMAIN new : \E q \in Int : adr = Linear(seg, q)
      /\ \A i \in 0 .. n - 1 : Linear(seg, off + i) \in DOMAIN new /\ new[Linear(seg, off + i)] = b[i + 1]
  <2>1. new = Bytes(seg, off, b)
    OBVIOUS
  <2> HIDE DEF new
  <2>2. Holds(seg, off, n, b, new)
    BY <2>1, BytesRead
  <2> QED
    BY <2>2 DEF Holds
<1>2. t = [s EXCEPT !.m = m]
  BY DEF With
<1> HIDE DEF new
<1>3. m \in Memory
  <2>1. /\ DOMAIN s.m \subseteq Nat /\ \A adr \in DOMAIN s.m : s.m[adr] \in Byte
    <3>1. s.m \in Memory
      BY DEF Processor
    <3> QED
      BY <3>1, MemoryValues
  <2>2. /\ DOMAIN new \subseteq Nat /\ \A adr \in DOMAIN new : new[adr] \in Byte
    BY <1>1, MemoryValues
  <2>3. m \in [DOMAIN new \cup DOMAIN s.m -> Byte]
    BY <2>1, <2>2
  <2>4. DOMAIN new \cup DOMAIN s.m \in SUBSET Nat
    BY <2>1, <2>2
  <2> HIDE DEF m
  <2> QED
    BY <2>3, <2>4 DEF Memory
<1>4. /\ DOMAIN m = DOMAIN new \cup DOMAIN s.m
      /\ \A adr \in DOMAIN m : m[adr] = IF adr \in DOMAIN new THEN new[adr] ELSE s.m[adr]
  OBVIOUS
<1> HIDE DEF m
<1>5. t \in Processor /\ t.m = m
  BY <1>2, <1>3 DEF Processor
<1>6. \A i \in 0 .. n - 1 : mem_read(t, Linear(seg, off + i)) = b[i + 1]
  BY <1>1, <1>4, <1>5 DEF mem_read
<1>7. ASSUME NEW adr, \A q \in Int : adr # Linear(seg, q)
      PROVE  mem_read(t, adr) = mem_read(s, adr) /\ (adr \in DOMAIN t.m => adr \in DOMAIN s.m)
  <2>1. adr \notin DOMAIN new
    BY <1>1, <1>7
  <2> QED
    BY <1>4, <1>5, <2>1 DEF mem_read
<1> QED
  BY <1>2, <1>5, <1>6, <1>7 DEF Placed

\* Program and handler are bytes.
LEMMA FewBytes ==
    /\ DOMAIN MainBytes = 1 .. 16 /\ \A j \in 1 .. 16 : MainBytes[j] \in Byte
    /\ DOMAIN HandlerBytes = 1 .. 4 /\ \A j \in 1 .. 4 : HandlerBytes[j] \in Byte
<1>1. DOMAIN MainBytes = 1 .. 16 /\ DOMAIN HandlerBytes = 1 .. 4
  BY SMT DEF MainBytes, HandlerBytes
<1>2. \A j \in 1 .. 16 : MainBytes[j] \in Byte
  BY SMT DEF MainBytes, Byte
<1>3. \A j \in 1 .. 4 : HandlerBytes[j] \in Byte
  BY SMT DEF HandlerBytes, Byte
<1> QED
  BY <1>1, <1>2, <1>3

\* Other flags than direction and the unused bits have changed.
SameOthers(g, t) == t \in CpuFlags /\ t.x = g.x /\ t.d = g.d

\* The carries and the interrupt flag do not matter to the others.
LEMMA FlagsPut ==
    ASSUME NEW g \in CpuFlags, NEW kc \in 0 .. 1, NEW ka \in 0 .. 1, NEW ki \in 0 .. 1,
           NEW t, t = [g EXCEPT !.c = kc, !.a = ka, !.i = ki]
    PROVE  SameOthers(g, t)
BY DEF CpuFlags, SameOthers

\* Nor does the trap flag.
LEMMA TraceFlagPut ==
    ASSUME NEW g \in CpuFlags, NEW k \in 0 .. 1, NEW t, t = [g EXCEPT !.t = k]
    PROVE  SameOthers(g, t)
BY DEF CpuFlags, SameOthers

\* The processor that Cpu describes.
Fresh(s, ip, m, g) ==
    /\ s \in Processor /\ s.m = m /\ s.f = g /\ s.halt = FALSE /\ s.rom = {} /\ s.ip = ip
    /\ s.cs = Code /\ s.ss = Stack /\ s.es = Other /\ s.di = BlockAt

\* Cpu describes a processor.
LEMMA CpuFresh ==
    ASSUME NEW ip \in Offset, NEW program, NEW m \in Memory, m = Bytes(Code, ip, program),
           NEW g \in CpuFlags, g = [FlagsOf(0) EXCEPT !.c = c, !.a = a, !.i = 1]
    PROVE  Fresh(Cpu(ip, program), ip, m, g)
<1> DEFINE n1 == 4386
           n2 == 13124
           n3 == 21862
           n4 == 30600
           n5 == 3
           n6 == 65530
           n7 == 30000
           e == <<>>
           s == Cpu(ip, program)
<1>1. /\ n1 \in Offset /\ n2 \in Offset /\ n3 \in Offset /\ n4 \in Offset /\ n5 \in Offset
      /\ n6 \in Offset /\ n7 \in Offset /\ BlockAt \in Offset
  BY SMT DEF Offset, BlockAt
<1>2. Code \in Offset /\ Other \in Offset /\ Stack \in Offset /\ Data \in Offset
  BY SegmentsApart
<1>3. e \in Memory
  <2>1. <<>> \in [{} -> Byte]
    OBVIOUS
  <2> QED
    BY <2>1 DEF Memory
<1>4. s = [ax |-> n1, cx |-> n2, dx |-> n3, bx |-> n4, sp |-> n7, bp |-> n5,
           si |-> n6, di |-> BlockAt, cs |-> Code, ds |-> Data, es |-> Other, ss |-> Stack,
           ip |-> ip, f |-> g, seg |-> "none", rep |-> "none", halt |-> FALSE, panic |-> FALSE,
           m |-> m, rom |-> {}, io |-> e]
  BY DEF Cpu, BlockAt
<1> HIDE DEF n1, n2, n3, n4, n5, n6, n7, e, s
<1>5. s \in Processor
  BY <1>1, <1>2, <1>3, <1>4 DEF Processor
<1>6. s.m = m /\ s.f = g /\ s.halt = FALSE /\ s.rom = {}
  BY <1>4
<1>7. s.ip = ip /\ s.cs = Code /\ s.ss = Stack /\ s.es = Other /\ s.di = BlockAt
  BY <1>4
<1> QED
  BY <1>5, <1>6, <1>7 DEF Fresh, s

\* The processor before it runs the program, with code but nothing else in memory.
Bare(s, ip, sp, m) ==
    /\ s \in Processor /\ s.m = m
    /\ s.f.x = UnusedSet /\ s.f.d = 0 /\ s.halt = FALSE /\ s.rom = {}
    /\ s.cs = Code /\ s.ss = Stack /\ s.es = Other /\ s.ip = ip /\ s.sp = sp /\ s.di = BlockAt

\* The processor with its stack pointer and trap flag.
LEMMA CpuBare ==
    ASSUME NEW ip \in Offset, NEW sp \in Offset, c \in 0 .. 1, a \in 0 .. 1, NEW program,
           NEW m \in Memory, m = Bytes(Code, ip, program),
           NEW s, s = [Cpu(ip, program) EXCEPT !.sp = sp, !.f.t = a]
    PROVE  Bare(s, ip, sp, m)
<1> DEFINE g0 == FlagsOf(0)
           g == [FlagsOf(0) EXCEPT !.c = c, !.a = a, !.i = 1]
           h == [g EXCEPT !.t = a]
           q == Cpu(ip, program)
<1>1. g0 \in CpuFlags /\ g0.x = UnusedSet
  <2>1. 0 \in Int
    OBVIOUS
  <2> QED
    BY <2>1, FlagsRead
<1>2. g0.d = 0
  <2>1. Bit(0, 10) = 0
    BY SmallPowers, SMT DEF Bit
  <2> QED
    BY <2>1 DEF FlagsOf
<1>3. g \in CpuFlags /\ g.x = g0.x /\ g.d = g0.d
  <2> DEFINE kc == c
             ka == a
             ki == 1
  <2>1. kc \in 0 .. 1 /\ ka \in 0 .. 1 /\ ki \in 0 .. 1
        /\ g = [g0 EXCEPT !.c = kc, !.a = ka, !.i = ki]
    OBVIOUS
  <2> HIDE DEF kc, ka, ki, g, g0
  <2>2. SameOthers(g0, g)
    BY <1>1, <2>1, FlagsPut
  <2> QED
    BY <2>2 DEF SameOthers
<1>4. h \in CpuFlags /\ h.x = g.x /\ h.d = g.d
  <2> DEFINE k == a
  <2>1. k \in 0 .. 1 /\ h = [g EXCEPT !.t = k]
    OBVIOUS
  <2> HIDE DEF k, g, h
  <2>2. SameOthers(g, h)
    BY <1>3, <2>1, TraceFlagPut
  <2> QED
    BY <2>2 DEF SameOthers
<1>5. Fresh(q, ip, m, g)
  <2>1. g = [FlagsOf(0) EXCEPT !.c = c, !.a = a, !.i = 1]
    OBVIOUS
  <2> HIDE DEF g
  <2> QED
    BY <1>3, <2>1, CpuFresh
<1>6. s = [q EXCEPT !.sp = sp, !.f.t = a]
  OBVIOUS
<1>7. g = [FlagsOf(0) EXCEPT !.c = c, !.a = a, !.i = 1] /\ h = [g EXCEPT !.t = a]
  OBVIOUS
<1> HIDE DEF q, g, h, g0
<1>8. q \in Processor /\ q.f = g
  BY <1>5 DEF Fresh
<1>9. s = [q EXCEPT !.sp = sp, !.f = h]
  BY <1>6, <1>7, <1>8 DEF Processor
<1>10. s \in Processor
  BY <1>4, <1>8, <1>9, ZenonT(60) DEF Processor
<1>11. s.sp = sp /\ s.f = h /\ s.m = q.m /\ s.di = q.di
  BY <1>8, <1>9 DEF Processor
<1>12. s.halt = q.halt /\ s.rom = q.rom /\ s.ip = q.ip
  BY <1>8, <1>9 DEF Processor
<1>13. s.cs = q.cs /\ s.ss = q.ss /\ s.es = q.es
  BY <1>8, <1>9 DEF Processor
<1>14. s.f.x = UnusedSet /\ s.f.d = 0
  BY <1>1, <1>2, <1>3, <1>4, <1>11
<1> QED
  BY <1>5, <1>10, <1>11, <1>12, <1>13, <1>14 DEF Fresh, Bare

VectorBytes == << Lo(100), Hi(100), Lo(Other), Hi(Other) >>

\* The vector of the interrupt leads to the handler.
LEMMA VectorRead ==
    /\ DOMAIN VectorBytes = 1 .. 4 /\ \A j \in 1 .. 4 : VectorBytes[j] \in Byte
    /\ VectorBytes[0 + 1] + 256 * VectorBytes[1 + 1] = Entry
    /\ VectorBytes[2 + 1] + 256 * VectorBytes[3 + 1] = Other
<1>1. DOMAIN VectorBytes = 1 .. 4
  BY SMT DEF VectorBytes
<1>2. 100 \in Offset /\ Other \in Offset
  BY SMT DEF Offset, Other
<1>3. /\ Lo(100) \in Byte /\ Hi(100) \in Byte /\ Lo(Other) \in Byte /\ Hi(Other) \in Byte
      /\ Lo(100) + 256 * Hi(100) = 100 /\ Lo(Other) + 256 * Hi(Other) = Other
  BY <1>2, Bytes16
<1>4. VectorBytes[1] = Lo(100) /\ VectorBytes[2] = Hi(100)
      /\ VectorBytes[3] = Lo(Other) /\ VectorBytes[4] = Hi(Other)
  BY DEF VectorBytes
<1>5. \A j \in 1 .. 4 : VectorBytes[j] \in Byte
  <2> HIDE DEF VectorBytes
  <2> QED
    BY <1>3, <1>4, SMT
<1> QED
  BY <1>1, <1>3, <1>4, <1>5 DEF Entry

\* The program, as it is begun.
LEMMA ProgramBegun ==
    ASSUME NEW u \in Offset, NEW v \in Offset, NEW k \in Nat, NEW n \in Int, n = (k + 8) * 4,
           NEW m, m = Bytes(Code, u, MainBytes), NEW s0, Bare(s0, u, v, m),
           NEW s1, s1 = With(s0, Other, Entry, HandlerBytes),
           NEW s2, s2 = With(s1, 0, n, VectorBytes)
    PROVE  Main(u, v, k, 0, s2)
<1>1. Code \in Inside /\ Other \in Inside /\ 0 \in Inside /\ Entry \in Int /\ u \in Int /\ v \in Int
      /\ 16 \in 1 .. 16 /\ 4 \in 1 .. 16
  BY SMT DEF Inside, Offset, Code, Other, Entry
<1> DEFINE zero == 0
           four == 4
           sixteen == 16
<1>2. /\ zero \in Inside /\ four \in 1 .. 16 /\ sixteen \in 1 .. 16
      /\ DOMAIN MainBytes = 1 .. sixteen /\ \A j \in 1 .. sixteen : MainBytes[j] \in Byte
      /\ DOMAIN HandlerBytes = 1 .. four /\ \A j \in 1 .. four : HandlerBytes[j] \in Byte
      /\ DOMAIN VectorBytes = 1 .. four /\ \A j \in 1 .. four : VectorBytes[j] \in Byte
      /\ s2 = With(s1, zero, n, VectorBytes)
  BY <1>1, FewBytes, VectorRead
<1>3. zero = 0 /\ four = 4 /\ sixteen = 16
  OBVIOUS
<1> HIDE DEF zero, four, sixteen
<1>4. Holds(Code, u, sixteen, MainBytes, m)
  BY <1>1, <1>2, BytesRead
<1>5. s0 \in Processor
  BY DEF Bare
<1>6. Placed(s0, Other, Entry, four, HandlerBytes, s1)
  BY <1>1, <1>2, <1>5, BytesPlaced
<1>7. s1 \in Processor
  BY <1>6 DEF Placed
<1>8. Placed(s1, zero, n, four, VectorBytes, s2)
  BY <1>1, <1>2, <1>7, BytesPlaced
<1>9. /\ s2 \in Processor /\ s2 = [s1 EXCEPT !.m = s2.m]
      /\ \A i \in 0 .. four - 1 : mem_read(s2, Linear(zero, n + i)) = VectorBytes[i + 1]
      /\ \A adr : (\A q \in Int : adr # Linear(zero, q)) =>
            mem_read(s2, adr) = mem_read(s1, adr) /\ (adr \in DOMAIN s2.m => adr \in DOMAIN s1.m)
  BY <1>8 DEF Placed
<1>10. /\ s1 \in Processor /\ s1 = [s0 EXCEPT !.m = s1.m]
       /\ \A i \in 0 .. four - 1 : mem_read(s1, Linear(Other, Entry + i)) = HandlerBytes[i + 1]
       /\ \A adr : (\A q \in Int : adr # Linear(Other, q)) =>
             mem_read(s1, adr) = mem_read(s0, adr) /\ (adr \in DOMAIN s1.m => adr \in DOMAIN s0.m)
  BY <1>6 DEF Placed
<1>11. \A i \in 0 .. 15 : mem_read(s2, Linear(Code, u + i)) = MainBytes[i + 1]
  <2> TAKE i \in 0 .. 15
  <2>1. u + i \in Int /\ i \in 0 .. sixteen - 1
    BY <1>1, <1>3
  <2>2. \A q \in Int : Linear(Code, u + i) # Linear(zero, q) /\ Linear(Code, u + i) # Linear(Other, q)
    BY <1>3, <2>1, SegmentsApart
  <2>3. mem_read(s0, Linear(Code, u + i)) = MainBytes[i + 1]
    <3>1. s0.m = m
      BY DEF Bare
    <3>2. Linear(Code, u + i) \in DOMAIN m /\ m[Linear(Code, u + i)] = MainBytes[i + 1]
      BY <1>4, <2>1 DEF Holds
    <3> QED
      BY <3>1, <3>2 DEF mem_read
  <2>4. mem_read(s2, Linear(Code, u + i)) = mem_read(s1, Linear(Code, u + i))
    BY <1>9, <2>2
  <2>5. mem_read(s1, Linear(Code, u + i)) = mem_read(s0, Linear(Code, u + i))
    BY <1>10, <2>2
  <2> QED
    BY <2>3, <2>4, <2>5
<1>12. \A i \in 0 .. 3 : mem_read(s2, Linear(Other, Entry + i)) = HandlerBytes[i + 1]
  <2> TAKE i \in 0 .. 3
  <2>1. Entry + i \in Int /\ i \in 0 .. four - 1
    BY <1>1, <1>3
  <2>2. \A q \in Int : Linear(Other, Entry + i) # Linear(zero, q)
    BY <1>3, <2>1, SegmentsApart
  <2>3. mem_read(s1, Linear(Other, Entry + i)) = HandlerBytes[i + 1]
    BY <1>10, <2>1
  <2>4. mem_read(s2, Linear(Other, Entry + i)) = mem_read(s1, Linear(Other, Entry + i))
    BY <1>9, <2>2
  <2> QED
    BY <2>3, <2>4
<1>13. Read16(s2, 0, (k + 8) * 4) = Entry /\ Read16(s2, 0, (k + 8) * 4 + 2) = Other
  <2>1. /\ 0 \in 0 .. four - 1 /\ 1 \in 0 .. four - 1 /\ 2 \in 0 .. four - 1 /\ 3 \in 0 .. four - 1
        /\ n + 0 = n /\ n + 2 + 1 = n + 3
    BY <1>3
  <2>2. /\ mem_read(s2, Linear(zero, n + 0)) = VectorBytes[0 + 1]
        /\ mem_read(s2, Linear(zero, n + 1)) = VectorBytes[1 + 1]
        /\ mem_read(s2, Linear(zero, n + 2)) = VectorBytes[2 + 1]
        /\ mem_read(s2, Linear(zero, n + 3)) = VectorBytes[3 + 1]
    BY <1>9, <2>1
  <2>3. Read16(s2, zero, n) = Entry
    BY <2>1, <2>2, VectorRead DEF Read16, mem_read_by_segment
  <2>4. Read16(s2, zero, n + 2) = Other
    BY <2>1, <2>2, VectorRead DEF Read16, mem_read_by_segment
  <2> QED
    BY <1>3, <2>3, <2>4
<1>14. Loaded(u, k, s2)
  BY <1>11, <1>12, <1>13 DEF Loaded
<1>15. Linear(Stack, v - 6) \notin DOMAIN s2.m
  <2>1. v - 6 \in Int
    BY <1>1
  <2>2. \A q \in Int : /\ Linear(Stack, v - 6) # Linear(zero, q)
                       /\ Linear(Stack, v - 6) # Linear(Other, q)
                       /\ Linear(Stack, v - 6) # Linear(Code, q)
    BY <1>3, <2>1, SegmentsApart
  <2>3. s0.m = m
    BY DEF Bare
  <2>4. Linear(Stack, v - 6) \notin DOMAIN s0.m
    BY <1>4, <2>2, <2>3 DEF Holds
  <2>5. Linear(Stack, v - 6) \notin DOMAIN s1.m
    BY <1>10, <2>2, <2>4
  <2> QED
    BY <1>9, <2>2, <2>5
<1>16. /\ s2.f = s0.f /\ s2.halt = s0.halt /\ s2.rom = s0.rom /\ s2.di = s0.di
  <2>1. s1.f = s0.f /\ s1.halt = s0.halt /\ s1.rom = s0.rom /\ s1.di = s0.di
    BY <1>5, <1>10 DEF Processor
  <2>2. s2.f = s1.f /\ s2.halt = s1.halt /\ s2.rom = s1.rom /\ s2.di = s1.di
    BY <1>7, <1>9 DEF Processor
  <2> QED
    BY <2>1, <2>2
<1>17. /\ s2.cs = s0.cs /\ s2.ss = s0.ss /\ s2.es = s0.es /\ s2.ip = s0.ip /\ s2.sp = s0.sp
  <2>1. s1.cs = s0.cs /\ s1.ss = s0.ss /\ s1.es = s0.es
    BY <1>5, <1>10 DEF Processor
  <2>2. s2.cs = s1.cs /\ s2.ss = s1.ss /\ s2.es = s1.es
    BY <1>7, <1>9 DEF Processor
  <2>3. s1.ip = s0.ip /\ s1.sp = s0.sp /\ s2.ip = s1.ip /\ s2.sp = s1.sp
    BY <1>5, <1>7, <1>9, <1>10 DEF Processor
  <2> QED
    BY <2>1, <2>2, <2>3
<1>18. s2.ip = Word(u + 0) /\ s2.sp = Word(v - 0)
  <2>1. s2.ip = u /\ s2.sp = v
    BY <1>17 DEF Bare
  <2>2. Word(u) = u /\ Word(v) = v
    BY SMT DEF Word, Offset
  <2>3. u + 0 = u /\ v - 0 = v
    BY <1>1
  <2> QED
    BY <2>1, <2>2, <2>3
<1>19. s2.f.x = UnusedSet /\ s2.f.d = 0 /\ s2.halt = FALSE /\ s2.rom = {} /\ s2.di = BlockAt
  BY <1>16 DEF Bare
<1>20. s2.cs = Code /\ s2.ss = Stack /\ s2.es = Other
  BY <1>17 DEF Bare
<1>21. Reached(u, v, k, s2, 0, 0)
  BY <1>9, <1>14, <1>15, <1>18, <1>19, <1>20 DEF Reached
<1>22. MainAt[0 + 1] = 0 /\ MainDepth[0 + 1] = 0 /\ 0 \notin {4, 5}
  BY DEF MainAt, MainDepth
<1> QED
  BY <1>19, <1>21, <1>22 DEF Main

-----------------------------------------------------------------------------
(* The interrupted program as an invariant.                                *)

\* The interrupt has not come, the handler is at work, and it has returned or
\* was not entered.
MainRunning ==
    /\ interrupted = NoCpu /\ executed \in 0 .. MainLength
    /\ Main(NearX, NearY, y % 8, executed, cpu)
MainInterrupted == \E n \in 0 .. 10 : Main(NearX, NearY, y % 8, n, interrupted)
HandlerRunning ==
    /\ MainInterrupted /\ interrupted.f.i # 0
    /\ \E p \in 0 .. 3 : Handling(interrupted, p, cpu)
HandlerLeft ==
    /\ MainInterrupted
    /\ IF interrupted.f.i = 0 THEN cpu = interrupted ELSE Returned(interrupted, cpu)

InterruptInv ==
    /\ InputTypeOK
    /\ job # "interrupt" => interrupted = NoCpu
    /\ job = "interrupt" => MainRunning \/ HandlerRunning \/ HandlerLeft

\* The places of the program and the interrupt that an input stands for.
LEMMA InputPlaces ==
    ASSUME InputTypeOK
    PROVE  /\ NearX \in Offset /\ NearY \in Offset /\ NearX \in Int /\ NearY \in Int
           /\ y % 8 \in Nat /\ y \in Nat /\ c \in 0 .. 1 /\ a \in 0 .. 1
<1>1. Pow2[W] \in Nat
  BY AluAssumption, Powers
<1>2. x \in Nat /\ y \in Nat
  BY <1>1, AluAssumption DEF InputTypeOK
<1>3. x - 32 \in Int /\ y - 8 \in Int /\ y % 8 \in Nat
  BY <1>2
<1> QED
  BY <1>2, <1>3, WordTyped DEF InputTypeOK, NearX, NearY

\* A processor that runs the program is none that stands still.
LEMMA MainIsOn ==
    ASSUME NEW u, NEW v, NEW k, NEW n \in 0 .. 10, NEW s, Main(u, v, k, n, s)
    PROVE  /\ s \in Processor /\ s # NoCpu /\ s.cs = Code /\ s.ss = Stack
           /\ s.halt = FALSE /\ s.rom = {} /\ s.f.x = UnusedSet /\ Loaded(u, k, s)
           /\ Reached(u, v, k, s, MainAt[n + 1], MainDepth[n + 1])
           /\ MainDepth[n + 1] \in {0, 2, 4}
<1>1. Reached(u, v, k, s, MainAt[n + 1], MainDepth[n + 1])
  BY DEF Main
<1>2. s.halt = FALSE
  BY <1>1 DEF Reached
<1>3. NoCpu.halt = TRUE
  BY DEF NoCpu
<1>4. MainDepth[n + 1] \in {0, 2, 4}
  BY SMT DEF MainDepth
<1> QED
  BY <1>1, <1>2, <1>3, <1>4 DEF Reached

\* Program and handler are in different segments.
LEMMA CodeIsNotOther == Code # Other
BY SMT DEF Code, Other

\* The job that is interrupted.
LEMMA InterruptJob ==
    /\ Prepared("interrupt") = InterruptedProgram /\ Steps("interrupt") = MainLength
<1>1. "interrupt" \notin StringJobs
  BY DEF StringJobs, StringOpcode
<1>2. "interrupt" \notin OperandJobs
  BY DEF OperandJobs, OperandOpcode
<1>3. Prepared("interrupt") = InterruptedProgram
  BY <1>1, <1>2 DEF Prepared
<1>4. Steps("interrupt") = MainLength
  BY <1>1, <1>2 DEF Steps
<1> QED
  BY <1>3, <1>4

\* The job begins at the first instruction of the program.
LEMMA ProgramPrepared ==
    ASSUME InputTypeOK
    PROVE  Main(NearX, NearY, y % 8, 0, InterruptedProgram)
<1> DEFINE u == NearX
           v == NearY
           k == y % 8
           n == 4 * ((y % 8) + 8)
           m == Bytes(Code, u, MainBytes)
           s0 == [Cpu(u, MainBytes) EXCEPT !.sp = v, !.f.t = a]
           s1 == With(s0, Other, Entry, HandlerBytes)
           s2 == With(s1, 0, n, VectorBytes)
<1>1. u \in Offset /\ v \in Offset /\ k \in Nat /\ u \in Int /\ c \in 0 .. 1 /\ a \in 0 .. 1
  BY InputPlaces
<1>2. n \in Int /\ n = (k + 8) * 4
  BY <1>1
<1>3. InterruptedProgram = s2
  BY DEF InterruptedProgram, MainBytes, HandlerBytes, VectorBytes, Entry
<1>4. /\ m = Bytes(Code, u, MainBytes) /\ s0 = [Cpu(u, MainBytes) EXCEPT !.sp = v, !.f.t = a]
      /\ s1 = With(s0, Other, Entry, HandlerBytes) /\ s2 = With(s1, 0, n, VectorBytes)
  OBVIOUS
<1> HIDE DEF u, v, k, n, m, s0, s1, s2
<1>5. m \in Memory
  <2>1. Code \in Inside /\ 16 \in 1 .. 16
    BY SMT DEF Inside, Offset, Code
  <2> DEFINE sixteen == 16
  <2>2. sixteen \in 1 .. 16 /\ DOMAIN MainBytes = 1 .. sixteen /\ \A j \in 1 .. sixteen : MainBytes[j] \in Byte
    BY <2>1, FewBytes
  <2> HIDE DEF sixteen
  <2>3. Holds(Code, u, sixteen, MainBytes, m)
    BY <1>1, <1>4, <2>1, <2>2, BytesRead
  <2> QED
    BY <2>3 DEF Holds
<1>6. Bare(s0, u, v, m)
  BY <1>1, <1>4, <1>5, CpuBare
<1>7. Main(u, v, k, 0, s2)
  BY <1>1, <1>2, <1>4, <1>6, ProgramBegun
<1> QED
  BY <1>3, <1>7 DEF u, v, k

\* Nothing runs at first.
LEMMA InterruptBegins == Init => InterruptInv
BY AluAssumption DEF Init, InputInit, InterruptInv, InputTypeOK

\* Every step keeps the invariant.
LEMMA InterruptStep ==
    ASSUME InterruptInv, [Next]_vars PROVE InterruptInv'
<1>1. InputTypeOK' /\ (job = "interrupt" => UNCHANGED input)
  <2>1. [NextInput]_input /\ (job = "interrupt" => UNCHANGED input)
    BY DEF Next, Another, Begin, Execute, Interrupt, End, vars, input
  <2> QED
    BY <2>1, InputStep DEF InterruptInv
<1>2. UNCHANGED input => NearX' = NearX /\ NearY' = NearY /\ (y % 8)' = y % 8
  BY DEF input, NearX, NearY
<1>3. NearX \in Int /\ NearY \in Int /\ y % 8 \in Nat
  BY InputPlaces DEF InterruptInv
<1>4. CASE UNCHANGED vars
  <2>1. UNCHANGED <<input, job, start, cpu, executed, interrupted>>
    BY <1>4 DEF vars, input
  <2> QED
    BY <1>1, <1>2, <2>1 DEF InterruptInv, MainRunning, MainInterrupted, HandlerRunning, HandlerLeft
<1>5. CASE Another
  BY <1>1, <1>5 DEF Another, InterruptInv
<1>6. CASE Begin
  <2>1. job = "none" /\ interrupted = NoCpu /\ interrupted' = NoCpu /\ executed' = 0
        /\ UNCHANGED input
    BY <1>6 DEF Begin, InterruptInv
  <2>2. ASSUME job' = "interrupt" PROVE MainRunning'
    <3>1. cpu' = Prepared("interrupt")
      BY <1>6, <2>2 DEF Begin
    <3>2. Prepared("interrupt") = InterruptedProgram
      BY InterruptJob
    <3>3. Main(NearX, NearY, y % 8, 0, InterruptedProgram)
      BY ProgramPrepared DEF InterruptInv
    <3>4. executed' \in 0 .. MainLength
      BY <2>1 DEF MainLength
    <3> QED
      BY <1>2, <2>1, <3>1, <3>2, <3>3, <3>4 DEF MainRunning
  <2> QED
    BY <1>1, <2>1, <2>2 DEF InterruptInv
<1>7. CASE Execute
  <2>1. /\ ~Done /\ UNCHANGED <<input, job, start, interrupted>>
        /\ cpu' = i8088_execute(cpu) /\ executed' = executed + 1
    BY <1>7 DEF Execute
  <2>2. ASSUME job = "interrupt" PROVE MainRunning' \/ HandlerRunning' \/ HandlerLeft'
    <3>1. NearX' = NearX /\ NearY' = NearY /\ (y % 8)' = y % 8
      BY <1>2, <2>1
    <3>2. CASE MainRunning
      <4>1. executed # MainLength
        BY <2>1, <2>2, <3>2, InterruptJob DEF MainRunning, Done
      <4>2. executed \in 0 .. 9 /\ executed + 1 \in 0 .. MainLength
        BY <3>2, <4>1 DEF MainRunning, MainLength
      <4>3. Main(NearX, NearY, y % 8, executed + 1, cpu')
        <5> DEFINE u == NearX
                   v == NearY
                   k == y % 8
                   n == executed
                   s == cpu
                   r == i8088_execute(cpu)
        <5>1. u \in Int /\ v \in Int /\ k \in Nat /\ n \in 0 .. 9 /\ Main(u, v, k, n, s)
              /\ r = i8088_execute(s)
          BY <1>3, <3>2, <4>2 DEF MainRunning
        <5> HIDE DEF u, v, k, n, s, r
        <5>2. Main(u, v, k, n + 1, r)
          BY <5>1, MainRuns
        <5> QED
          BY <2>1, <5>2 DEF u, v, k, n, r
      <4> QED
        BY <2>1, <3>1, <3>2, <4>2, <4>3 DEF MainRunning
    <3>3. CASE HandlerRunning
      <4>1. PICK n \in 0 .. 10 : Main(NearX, NearY, y % 8, n, interrupted)
        BY <3>3 DEF HandlerRunning, MainInterrupted
      <4>2. PICK p \in 0 .. 3 : Handling(interrupted, p, cpu)
        BY <3>3 DEF HandlerRunning
      <4>3. IF p = 3 THEN Returned(interrupted, cpu') ELSE Handling(interrupted, p + 1, cpu')
        <5> DEFINE u == NearX
                   v == NearY
                   k == y % 8
                   s == interrupted
                   q == cpu
                   r == i8088_execute(cpu)
        <5>1. /\ u \in Int /\ k \in Nat /\ Main(u, v, k, n, s) /\ Handling(s, p, q)
              /\ r = i8088_execute(q)
          BY <1>3, <4>1, <4>2
        <5> HIDE DEF u, v, k, s, q, r
        <5>2. s \in Processor /\ s.ss = Stack /\ Loaded(u, k, s) /\ s.f.x = UnusedSet
          BY <5>1, MainIsOn, ZenonT(60)
        <5>3. IF p = 3 THEN Returned(s, r) ELSE Handling(s, p + 1, r)
          BY <5>1, <5>2, HandlerRuns
        <5> QED
          BY <2>1, <5>3 DEF s, r
      <4>4. MainInterrupted'
        BY <2>1, <3>1, <4>1 DEF MainInterrupted
      <4>5. interrupted'.f.i # 0
        BY <2>1, <3>3 DEF HandlerRunning
      <4>6. CASE p = 3
        BY <2>1, <4>3, <4>4, <4>5, <4>6 DEF HandlerLeft
      <4>7. CASE p # 3
        <5>1. p + 1 \in 0 .. 3
          BY <4>7
        <5> QED
          BY <2>1, <4>3, <4>4, <4>5, <4>7, <5>1 DEF HandlerRunning
      <4> QED
        BY <4>6, <4>7
    <3>4. CASE HandlerLeft
      <4>1. PICK n \in 0 .. 10 : Main(NearX, NearY, y % 8, n, interrupted)
        BY <3>4 DEF HandlerLeft, MainInterrupted
      <4>2. interrupted # NoCpu /\ interrupted.cs = Code
        BY <4>1, MainIsOn, ZenonT(60)
      <4>3. cpu.cs = interrupted.cs
        BY <3>4 DEF HandlerLeft, Returned
      <4>4. Done
        BY <4>2, <4>3, CodeIsNotOther DEF Done, Back
      <4> QED
        BY <2>1, <4>4
    <3> QED
      BY <2>2, <3>2, <3>3, <3>4 DEF InterruptInv
  <2> QED
    BY <1>1, <2>1, <2>2 DEF InterruptInv
<1>8. CASE Interrupt
  <2>1. /\ job = "interrupt" /\ interrupted = NoCpu /\ UNCHANGED <<input, job, start, executed>>
        /\ cpu' = i8088_irq(cpu, y % 8) /\ interrupted' = cpu
    BY <1>8 DEF Interrupt
  <2>2. NearX' = NearX /\ NearY' = NearY /\ (y % 8)' = y % 8
    BY <1>2, <2>1
  <2>3. MainRunning
    <3>1. ASSUME MainInterrupted PROVE FALSE
      <4>1. PICK n \in 0 .. 10 : Main(NearX, NearY, y % 8, n, interrupted)
        BY <3>1 DEF MainInterrupted
      <4> QED
        BY <2>1, <4>1, MainIsOn
    <3> QED
      BY <2>1, <3>1 DEF InterruptInv, HandlerRunning, HandlerLeft
  <2>4. executed \in 0 .. 10 /\ Main(NearX, NearY, y % 8, executed, cpu)
    BY <2>3 DEF MainRunning, MainLength
  <2>5. MainInterrupted'
    BY <2>1, <2>2, <2>4 DEF MainInterrupted
  <2>6. CASE cpu.f.i = 0
    <3>1. cpu \in Processor /\ cpu.halt = FALSE
      BY <2>4, MainIsOn, ZenonT(60)
    <3>2. [cpu EXCEPT !.halt = FALSE] = cpu
      BY <3>1 DEF Processor
    <3>3. cpu' = cpu
      BY <2>1, <2>6, <3>2 DEF i8088_irq
    <3> QED
      BY <1>1, <2>1, <2>5, <2>6, <3>3 DEF HandlerLeft, InterruptInv
  <2>7. CASE cpu.f.i # 0
    <3>1. Handling(cpu, 0, cpu')
      <4> DEFINE u == NearX
                 v == NearY
                 k == y % 8
                 n == executed
                 s == cpu
                 r == i8088_irq(cpu, y % 8)
      <4>1. /\ u \in Int /\ v \in Int /\ k \in Nat /\ n \in 0 .. 10 /\ Main(u, v, k, n, s)
            /\ r = i8088_irq(s, k) /\ s.f.i # 0
        BY <1>3, <2>4, <2>7
      <4> HIDE DEF u, v, k, s, n, r
      <4> DEFINE off == MainAt[n + 1]
                 d == MainDepth[n + 1]
      <4>2. Reached(u, v, k, s, off, d) /\ d \in {0, 2, 4}
        BY <4>1, MainIsOn
      <4> HIDE DEF off, d
      <4>3. Handling(s, 0, r)
        BY <4>1, <4>2, HandlerEntered
      <4> QED
        BY <2>1, <4>3 DEF s, r
    <3>2. 0 \in 0 .. 3
      OBVIOUS
    <3>3. HandlerRunning'
      BY <2>1, <2>5, <2>7, <3>1, <3>2 DEF HandlerRunning
    <3> QED
      BY <1>1, <2>1, <3>3 DEF InterruptInv
  <2> QED
    BY <2>6, <2>7
<1>9. CASE End
  BY <1>1, <1>9 DEF End, InterruptInv
<1> QED
  BY <1>4, <1>5, <1>6, <1>7, <1>8, <1>9 DEF Next

\* An interrupt between two instructions is not seen by the program, for every input of every
\* width, and so for every place of code and stack, every vector, and every value of carry,
\* auxiliary carry and trap flag: it is taken exactly when interrupts are on, and when the
\* handler has returned, registers, flags and memory are what they were (i8088_irq,
\* i8088_interrupt and 0xCF in i8088_execute).
THEOREM InterruptsUnseen == Spec => []InterruptTransparent
<1>1. InterruptInv => InterruptTransparent
  <2> SUFFICES ASSUME InterruptInv, job = "interrupt", Back
               PROVE  /\ (cpu.m = interrupted.m) = (interrupted.f.i = 0)
                      /\ Registers(cpu) = Registers(interrupted)
                      /\ SameMemory(cpu, interrupted, BelowStack(interrupted, 8))
    BY DEF InterruptTransparent
  <2>1. HandlerLeft
    <3>1. ~MainRunning
      BY DEF MainRunning, Back
    <3>2. ~HandlerRunning
      BY DEF HandlerRunning, Handling, Back
    <3> QED
      BY <3>1, <3>2 DEF InterruptInv
  <2>2. PICK n \in 0 .. 10 : Main(NearX, NearY, y % 8, n, interrupted)
    BY <2>1 DEF HandlerLeft, MainInterrupted
  <2>3. interrupted \in Processor /\ interrupted.halt = FALSE /\ interrupted.rom = {}
    BY <2>2, MainIsOn, ZenonT(60)
  <2>4. CASE interrupted.f.i = 0
    <3>1. cpu = interrupted
      BY <2>1, <2>4 DEF HandlerLeft
    <3> QED
      BY <2>4, <3>1 DEF SameMemory
  <2>5. CASE interrupted.f.i # 0
    <3>1. Returned(interrupted, cpu)
      BY <2>1, <2>5 DEF HandlerLeft
    <3>2. cpu.m # interrupted.m
      BY <3>1 DEF Returned
    <3> QED
      BY <2>3, <2>5, <3>1, <3>2, ReturnedSame
  <2> QED
    BY <2>4, <2>5
<1> QED
  BY <1>1, InterruptBegins, InterruptStep, PTL DEF Spec

-----------------------------------------------------------------------------
(* The arithmetic between the jobs.                                        *)

\* The processor that takes jobs implements the walk through the inputs: a step
\* goes to another input or leaves the input alone.
LEMMA EveryInput == Spec => InputSpec
<1>1. Init => InputInit
  BY DEF Init
<1>2. [Next]_vars => [NextInput]_input
  BY DEF Next, Another, Begin, Execute, Interrupt, End, vars, input
<1> QED
  BY <1>1, <1>2, PTL DEF Spec, InputSpec

\* So what is proved of the arithmetic holds of every input from which the
\* processor takes a job.
THEOREM ArithmeticExact ==
    Spec => [](ConditionsDecide /\ HalvesChain /\ MultiplyAndDivide /\ ShiftsAndRotates)
BY EveryInput, JumpsDecide, LongNumbers, ProductsAndQuotients, ScalesAndRotations, PTL

-----------------------------------------------------------------------------
(* Decimal adjustment.                                                     *)

\* A byte's sum: the result, the carry out of the low digit and the carry.
Summed(r, sum, low) ==
    /\ r.f \in Flags /\ r.val = sum % 256
    /\ r.f.a = (low \div 16) % 2 /\ r.f.c = (sum \div 256) % 2

\* What the flags of a byte's sum or difference hold.
LEMMA ByteFlags ==
    ASSUME NEW g \in Flags, NEW sum \in Int, NEW low \in Int, NEW o \in 0 .. 1, NEW e,
           e = sum % 256, NEW r,
           r = Result(8, e, [g EXCEPT !.a = Bit(low, 4), !.c = Bit(sum, 8), !.o = o])
    PROVE  Summed(r, sum, low)
<1> DEFINE ka == Bit(low, 4)
           kc == Bit(sum, 8)
           h == [g EXCEPT !.a = ka, !.c = kc, !.o = o]
           kp == parity_even(e)
           ks == Top(8, e)
           kz == Flag(e = 0)
<1>1. 4 \in Nat /\ 8 \in Nat /\ 8 - 1 \in Nat /\ e \in Int
  BY SMT
<1>2. ka \in 0 .. 1 /\ kc \in 0 .. 1 /\ kp \in 0 .. 1 /\ ks \in 0 .. 1 /\ kz \in 0 .. 1
  BY <1>1, BitValue, ParityValue DEF Top, Flag
<1>3. ka = (low \div 16) % 2 /\ kc = (sum \div 256) % 2
  BY SmallPowers DEF Bit
<1>4. r = [val |-> e, f |-> [h EXCEPT !.p = kp, !.s = ks, !.z = kz]]
  BY DEF Result
<1>5. h = [g EXCEPT !.a = ka, !.c = kc, !.o = o]
  OBVIOUS
<1> HIDE DEF ka, kc, kp, ks, kz, h
<1>6. h \in Flags /\ h.a = ka /\ h.c = kc
  BY <1>2, <1>5 DEF Flags
<1>7. r.f \in Flags /\ r.f.a = h.a /\ r.f.c = h.c
  <2> DEFINE k == [h EXCEPT !.p = kp, !.s = ks, !.z = kz]
  <2>1. k \in Flags
    BY <1>2, <1>6 DEF Flags
  <2>2. k.a = h.a /\ k.c = h.c
    BY <1>6 DEF Flags
  <2> HIDE DEF k
  <2>3. r.f = k
    BY <1>4 DEF k
  <2> QED
    BY <2>1, <2>2, <2>3
<1> QED
  BY <1>3, <1>4, <1>6, <1>7 DEF Summed

\* The sum of two bytes and a carry.
LEMMA ByteSum ==
    ASSUME NEW g \in Flags, NEW p \in Int, NEW q \in Int, NEW r, r = adc(8, g, p, q)
    PROVE  Summed(r, p + q + g.c, (p % 16) + (q % 16) + g.c)
<1> DEFINE sum == p + q + g.c
           low == (p % 16) + (q % 16) + g.c
           e == sum % 256
           o == Overflow(8, p, q, e)
<1>1. g.c \in Int
  BY DEF Flags
<1>2. sum \in Int /\ low \in Int /\ o \in 0 .. 1
  BY <1>1, SMT DEF Overflow, Flag
<1>3. r = Result(8, e, [g EXCEPT !.a = Bit(low, 4), !.c = Bit(sum, 8), !.o = o])
  BY SmallPowers DEF adc
<1>4. e = sum % 256
  OBVIOUS
<1>5. Summed(r, sum, low)
  <2> HIDE DEF sum, low, e, o
  <2> QED
    BY <1>2, <1>3, <1>4, ByteFlags
<1> QED
  BY <1>5

\* The difference of two bytes and a borrow.
LEMMA ByteDifference ==
    ASSUME NEW g \in Flags, NEW p \in Int, NEW q \in Int, NEW r, r = sbb(8, g, p, q)
    PROVE  Summed(r, p - q - g.c, (p % 16) - (q % 16) - g.c)
<1> DEFINE sum == p - q - g.c
           low == (p % 16) - (q % 16) - g.c
           e == sum % 256
           o == Overflow(8, p, Pow2[8] - 1 - q, e)
<1>1. g.c \in Int
  BY DEF Flags
<1>2. sum \in Int /\ low \in Int /\ o \in 0 .. 1
  BY <1>1, SMT DEF Overflow, Flag
<1>3. r = Result(8, e, [g EXCEPT !.a = Bit(low, 4), !.c = Bit(sum, 8), !.o = o])
  BY SmallPowers DEF sbb
<1>4. e = sum % 256
  OBVIOUS
<1>5. Summed(r, sum, low)
  <2> HIDE DEF sum, low, e, o
  <2> QED
    BY <1>2, <1>3, <1>4, ByteFlags
<1> QED
  BY <1>5

-----------------------------------------------------------------------------
\* Which digits are adjusted, and by how much.
LowDigit(al, g) == al % 16 > 9 \/ g.a = 1
HighDigit(al, g) == al > (IF g.a = 1 THEN 159 ELSE 153) \/ g.c = 1
Adjustment(al, g) == (IF LowDigit(al, g) THEN 6 ELSE 0) + (IF HighDigit(al, g) THEN 96 ELSE 0)

\* A result has the carry that it is given.
LEMMA CarryKept ==
    ASSUME NEW w, NEW e, NEW h, "c" \in DOMAIN h
    PROVE  Result(w, e, h).val = e /\ Result(w, e, h).f.c = h.c
BY DEF Result

\* What DAA and DAS leave, before the sum they are used on is known.
LEMMA DecimalAdjusts ==
    ASSUME NEW g \in Flags, NEW al \in Int, NEW sign \in {1, -1},
           NEW r, r = DecimalAdjust(al, g, sign)
    PROVE  /\ r.val = (al + sign * Adjustment(al, g)) % 256
           /\ (r.f.c = 1) = HighDigit(al, g)
<1> DEFINE low == LowDigit(al, g)
           high == HighDigit(al, g)
           e == (al + sign * Adjustment(al, g)) % 256
           k == [g EXCEPT !.a = IF low THEN 1 ELSE @, !.c = IF high THEN 1 ELSE @]
           up == Flag(al < 128 /\ e >= 128)
           down == Flag(al >= 128 /\ e < 128)
<1>1. r = IF sign = 1 THEN Result(8, e, [k EXCEPT !.o = up]) ELSE Result(8, e, [k EXCEPT !.o = down])
  BY DEF DecimalAdjust, LowDigit, HighDigit, Adjustment
<1>2. k.c = (IF high THEN 1 ELSE g.c) /\ "c" \in DOMAIN k /\ "o" \in DOMAIN k
  BY DEF Flags
<1> HIDE DEF low, high, e, k, up, down
<1>3. PICK o : r = Result(8, e, [k EXCEPT !.o = o])
  BY <1>1
<1>4. "c" \in DOMAIN [k EXCEPT !.o = o] /\ [k EXCEPT !.o = o].c = k.c
  BY <1>2
<1>5. r.val = e /\ r.f.c = k.c
  BY <1>3, <1>4, CarryKept
<1>6. r.f.c = 1 <=> high
  BY <1>2, <1>5 DEF high, HighDigit
<1>7. high \in BOOLEAN
  BY DEF high, HighDigit
<1> QED
  BY <1>5, <1>6, <1>7 DEF e, high

\* What AAA and AAS leave.
LEMMA AsciiAdjusts ==
    ASSUME NEW g \in Flags, NEW al \in Int, NEW ah \in Int, NEW sign \in {1, -1},
           NEW r, r = AsciiAdjust(al, ah, g, sign)
    PROVE  /\ r.val = (IF LowDigit(al, g) THEN (al + sign * 6) % 256 ELSE al) % 16
           /\ r.ah = IF LowDigit(al, g) THEN (ah + sign) % 256 ELSE ah
           /\ r.f.c = Flag(LowDigit(al, g))
<1> DEFINE low == LowDigit(al, g)
           e == IF low THEN (al + sign * 6) % 256 ELSE al
           o == IF sign = 1 THEN Flag(al < 128 /\ e >= 128) ELSE Flag(al >= 128 /\ e < 128)
           k == Flag(low)
           h == [g EXCEPT !.a = k, !.c = k, !.o = o]
<1>1. r = [val |-> e % 16, ah |-> IF low THEN (ah + sign) % 256 ELSE ah, f |-> Result(8, e, h).f]
  BY DEF AsciiAdjust, LowDigit
<1>2. h.c = k /\ "c" \in DOMAIN h
  BY DEF Flags
<1>3. Result(8, e, h).f.c = h.c
  <2> HIDE DEF e, h
  <2> QED
    BY <1>2, CarryKept
<1> QED
  BY <1>1, <1>2, <1>3

-----------------------------------------------------------------------------
(* Packed decimal numbers.                                                 *)

\* The digits of a number below one hundred, packed in a byte.
LEMMA Digits ==
    ASSUME NEW v \in Nat, v <= 99
    PROVE  \E h \in Nat, l \in Nat : /\ h <= 9 /\ l <= 9 /\ v = 10 * h + l
                                     /\ Bcd(v) = 16 * h + l /\ Bcd(v) % 16 = l
<1> DEFINE h == v \div 10
           l == v % 10
<1>1. h \in Nat /\ l \in Nat /\ h <= 9 /\ l <= 9 /\ v = 10 * h + l
  BY SMT
<1>2. Bcd(v) = h * 16 + l
  BY DEF Bcd
<1> HIDE DEF h, l
<1>3. Bcd(v) = 16 * h + l /\ (16 * h + l) % 16 = l
  BY <1>1, <1>2, SMT
<1> QED
  BY <1>1, <1>3

\* A number of two digits t and d, cut to two digits.
LEMMA Packed ==
    ASSUME NEW t \in Int, NEW d \in Nat, d <= 9, NEW v, v = 10 * t + d
    PROVE  Bcd(v % 100) = 16 * (t % 10) + d
<1>1. v % 100 = 10 * (t % 10) + d
  BY SMT
<1>2. t % 10 \in Nat /\ t % 10 <= 9
  BY SMT
<1> DEFINE h == t % 10
<1> HIDE DEF h
<1>3. (10 * h + d) \div 10 = h /\ (10 * h + d) % 10 = d
  BY <1>2, SMT DEF h
<1> QED
  BY <1>1, <1>2, <1>3, SMT DEF Bcd, h

\* H tens and L ones, added as bytes and adjusted.
LEMMA SumAdjusted ==
    ASSUME NEW H \in Nat, H <= 18, NEW L \in Nat, L <= 19,
           NEW g \in Flags, NEW al, al = (16 * H + L) % 256,
           g.a = (L \div 16) % 2, g.c = ((16 * H + L) \div 256) % 2
    PROVE  /\ (al + 1 * Adjustment(al, g)) % 256 = Bcd((10 * H + L) % 100)
           /\ HighDigit(al, g) <=> 10 * H + L > 99
<1>1. CASE L <= 9
  <2>1. Bcd((10 * H + L) % 100) = 16 * (H % 10) + L
    BY <1>1, Packed
  <2>2. g.a = 0 /\ al % 16 = L
    BY <1>1, SMT
  <2>3. ~LowDigit(al, g)
    BY <1>1, <2>2, SMT DEF LowDigit
  <2>4. HighDigit(al, g) <=> H >= 10
    BY <1>1, <2>2, SMT DEF HighDigit
  <2>5. Adjustment(al, g) = IF H >= 10 THEN 96 ELSE 0
    BY <2>3, <2>4, SMT DEF Adjustment
  <2>6. (al + 1 * (IF H >= 10 THEN 96 ELSE 0)) % 256 = 16 * (H % 10) + L
    BY <1>1, SMT
  <2> QED
    BY <1>1, <2>1, <2>4, <2>5, <2>6, SMT
<1>2. CASE L >= 10
  <2> DEFINE d == L - 10
             t == H + 1
  <2>1. Bcd((10 * H + L) % 100) = 16 * (t % 10) + d
    <3> DEFINE v == 10 * H + L
    <3>1. d \in Nat /\ d <= 9 /\ t \in Int /\ v = 10 * t + d
      BY <1>2
    <3> HIDE DEF d, t, v
    <3>2. Bcd(v % 100) = 16 * (t % 10) + d
      BY <3>1, Packed
    <3> QED
      BY <3>2 DEF v
  <2>2. IF L >= 16 THEN g.a = 1 ELSE g.a = 0 /\ al % 16 = L
    BY <1>2, SMT
  <2>3. LowDigit(al, g)
    BY <1>2, <2>2, SMT DEF LowDigit
  <2>4. HighDigit(al, g) <=> H >= 9
    BY <1>2, <2>2, SMT DEF HighDigit
  <2>5. Adjustment(al, g) = IF H >= 9 THEN 102 ELSE 6
    BY <2>3, <2>4, SMT DEF Adjustment
  <2>6. (al + 1 * (IF H >= 9 THEN 102 ELSE 6)) % 256 = 16 * (t % 10) + d
    BY <1>2, SMT
  <2> QED
    BY <1>2, <2>1, <2>4, <2>5, <2>6, SMT
<1> QED
  BY <1>1, <1>2

\* Likewise for a difference; the ones may be borrowed for.
LEMMA DifferenceAdjusted ==
    ASSUME NEW H \in Int, -9 <= H, H <= 9, NEW L \in Int, -10 <= L, L <= 9,
           NEW g \in Flags, NEW al, al = (16 * H + L) % 256,
           g.a = (L \div 16) % 2, g.c = ((16 * H + L) \div 256) % 2
    PROVE  /\ (al + (-1) * Adjustment(al, g)) % 256 = Bcd((10 * H + L) % 100)
           /\ HighDigit(al, g) <=> 10 * H + L < 0
<1>1. CASE L >= 0
  <2>1. Bcd((10 * H + L) % 100) = 16 * (H % 10) + L
    BY <1>1, Packed
  <2>2. g.a = 0 /\ al % 16 = L
    BY <1>1, SMT
  <2>3. ~LowDigit(al, g)
    BY <1>1, <2>2, SMT DEF LowDigit
  <2>4. HighDigit(al, g) <=> H < 0
    BY <1>1, <2>2, SMT DEF HighDigit
  <2>5. Adjustment(al, g) = IF H < 0 THEN 96 ELSE 0
    BY <2>3, <2>4, SMT DEF Adjustment
  <2>6. (al + (-1) * (IF H < 0 THEN 96 ELSE 0)) % 256 = 16 * (H % 10) + L
    BY <1>1, SMT
  <2> QED
    BY <1>1, <2>1, <2>4, <2>5, <2>6, SMT
<1>2. CASE L < 0
  <2> DEFINE d == L + 10
             t == H - 1
  <2>1. Bcd((10 * H + L) % 100) = 16 * (t % 10) + d
    <3> DEFINE v == 10 * H + L
    <3>1. d \in Nat /\ d <= 9 /\ t \in Int /\ v = 10 * t + d
      BY <1>2
    <3> HIDE DEF d, t, v
    <3>2. Bcd(v % 100) = 16 * (t % 10) + d
      BY <3>1, Packed
    <3> QED
      BY <3>2 DEF v
  <2>2. g.a = 1
    BY <1>2, SMT
  <2>3. LowDigit(al, g)
    BY <2>2 DEF LowDigit
  <2>4. HighDigit(al, g) <=> H < 1
    BY <1>2, <2>2, SMT DEF HighDigit
  <2>5. Adjustment(al, g) = IF H < 1 THEN 102 ELSE 6
    BY <2>3, <2>4, SMT DEF Adjustment
  <2>6. (al + (-1) * (IF H < 1 THEN 102 ELSE 6)) % 256 = 16 * (t % 10) + d
    BY <1>2, SMT
  <2> QED
    BY <1>2, <2>1, <2>4, <2>5, <2>6, SMT
<1> QED
  BY <1>1, <1>2

\* ADC and DAA on packed numbers.
LEMMA PackedSum ==
    ASSUME NEW g \in Flags, NEW u \in Nat, u <= 99, NEW v \in Nat, v <= 99,
           NEW plus, plus = adc(8, g, Bcd(u), Bcd(v)),
           NEW sum, sum = daa(plus.val, plus.f)
    PROVE  /\ sum.val = Bcd((u + v + g.c) % 100)
           /\ (sum.f.c = 1) = (u + v + g.c > 99)
<1>1. PICK h \in Nat, l \in Nat : /\ h <= 9 /\ l <= 9 /\ u = 10 * h + l
                                  /\ Bcd(u) = 16 * h + l /\ Bcd(u) % 16 = l
  BY Digits
<1>2. PICK i \in Nat, m \in Nat : /\ i <= 9 /\ m <= 9 /\ v = 10 * i + m
                                  /\ Bcd(v) = 16 * i + m /\ Bcd(v) % 16 = m
  BY Digits
<1> DEFINE p == Bcd(u)
           q == Bcd(v)
           k == g.c
           H == h + i
           L == l + m + k
           al == plus.val
           b == plus.f
<1>3. k \in Nat /\ k <= 1
  BY DEF Flags
<1>4. /\ H \in Nat /\ H <= 18 /\ L \in Nat /\ L <= 19 /\ p \in Int /\ q \in Int
      /\ p + q + k = 16 * H + L /\ (p % 16) + (q % 16) + k = L /\ u + v + k = 10 * H + L
  BY <1>1, <1>2, <1>3
<1>5. Summed(plus, p + q + k, (p % 16) + (q % 16) + k)
  <2>1. p \in Int /\ q \in Int /\ plus = adc(8, g, p, q) /\ k = g.c
    BY <1>4
  <2> HIDE DEF p, q, k
  <2> QED
    BY <2>1, ByteSum
<1> HIDE DEF p, q, k, H, L
<1>6. b \in Flags /\ al = (16 * H + L) % 256 /\ b.a = (L \div 16) % 2
      /\ b.c = ((16 * H + L) \div 256) % 2
  BY <1>4, <1>5 DEF Summed
<1>7. sum = DecimalAdjust(al, b, 1) /\ al \in Int /\ 1 \in {1, -1}
  BY <1>4, <1>6, SMT DEF daa
<1> HIDE DEF al, b
<1>8. sum.val = (al + 1 * Adjustment(al, b)) % 256 /\ (sum.f.c = 1) = HighDigit(al, b)
  BY <1>6, <1>7, DecimalAdjusts
<1>9. /\ (al + 1 * Adjustment(al, b)) % 256 = Bcd((10 * H + L) % 100)
      /\ HighDigit(al, b) <=> 10 * H + L > 99
  BY <1>4, <1>6, SumAdjusted
<1>10. sum.f.c = 1 <=> 10 * H + L > 99
  BY <1>8, <1>9
<1> QED
  BY <1>4, <1>8, <1>9, <1>10 DEF k

\* SBB and DAS on packed numbers.
LEMMA PackedDifference ==
    ASSUME NEW g \in Flags, NEW u \in Nat, u <= 99, NEW v \in Nat, v <= 99,
           NEW minus, minus = sbb(8, g, Bcd(u), Bcd(v)),
           NEW diff, diff = das(minus.val, minus.f)
    PROVE  /\ diff.val = Bcd((u - v - g.c) % 100)
           /\ (diff.f.c = 1) = (u < v + g.c)
<1>1. PICK h \in Nat, l \in Nat : /\ h <= 9 /\ l <= 9 /\ u = 10 * h + l
                                  /\ Bcd(u) = 16 * h + l /\ Bcd(u) % 16 = l
  BY Digits
<1>2. PICK i \in Nat, m \in Nat : /\ i <= 9 /\ m <= 9 /\ v = 10 * i + m
                                  /\ Bcd(v) = 16 * i + m /\ Bcd(v) % 16 = m
  BY Digits
<1> DEFINE p == Bcd(u)
           q == Bcd(v)
           k == g.c
           H == h - i
           L == l - m - k
           al == minus.val
           b == minus.f
<1>3. k \in Nat /\ k <= 1
  BY DEF Flags
<1>4. /\ H \in Int /\ -9 <= H /\ H <= 9 /\ L \in Int /\ -10 <= L /\ L <= 9 /\ p \in Int /\ q \in Int
      /\ p - q - k = 16 * H + L /\ (p % 16) - (q % 16) - k = L /\ u - v - k = 10 * H + L
  BY <1>1, <1>2, <1>3
<1>5. Summed(minus, p - q - k, (p % 16) - (q % 16) - k)
  <2>1. p \in Int /\ q \in Int /\ minus = sbb(8, g, p, q) /\ k = g.c
    BY <1>4
  <2> HIDE DEF p, q, k
  <2> QED
    BY <2>1, ByteDifference
<1> HIDE DEF p, q, k, H, L
<1>6. b \in Flags /\ al = (16 * H + L) % 256 /\ b.a = (L \div 16) % 2
      /\ b.c = ((16 * H + L) \div 256) % 2
  BY <1>4, <1>5 DEF Summed
<1>7. diff = DecimalAdjust(al, b, -1) /\ al \in Int /\ -1 \in {1, -1}
  BY <1>4, <1>6, SMT DEF das
<1> HIDE DEF al, b
<1>8. diff.val = (al + (-1) * Adjustment(al, b)) % 256 /\ (diff.f.c = 1) = HighDigit(al, b)
  BY <1>6, <1>7, DecimalAdjusts
<1>9. /\ (al + (-1) * Adjustment(al, b)) % 256 = Bcd((10 * H + L) % 100)
      /\ HighDigit(al, b) <=> 10 * H + L < 0
  BY <1>4, <1>6, DifferenceAdjusted
<1>10. diff.f.c = 1 <=> 10 * H + L < 0
  BY <1>8, <1>9
<1>11. 10 * H + L < 0 <=> u < v + k
  BY <1>3, <1>4
<1> QED
  BY <1>4, <1>8, <1>9, <1>10, <1>11 DEF k

\* ADD and AAA on digits.
LEMMA DigitSum ==
    ASSUME NEW g \in Flags, g.c = 0, NEW u \in Nat, u <= 9, NEW v \in Nat, v <= 9,
           NEW plus, plus = adc(8, g, u, v),
           NEW sum, sum = aaa(plus.val, 0, plus.f)
    PROVE  sum.ah * 10 + sum.val = u + v /\ sum.f.c = sum.ah
<1> DEFINE al == plus.val
           b == plus.f
<1>1. Summed(plus, u + v + g.c, (u % 16) + (v % 16) + g.c)
  BY ByteSum
<1>2. u + v + g.c = u + v /\ (u % 16) + (v % 16) + g.c = u + v
  BY SMT
<1>3. b \in Flags /\ al = (u + v) % 256 /\ b.a = ((u + v) \div 16) % 2
  BY <1>1, <1>2 DEF Summed
<1>4. sum = AsciiAdjust(al, 0, b, 1) /\ al \in Int /\ 1 \in {1, -1} /\ 0 \in Int
  BY <1>3, SMT DEF aaa
<1> HIDE DEF al, b
<1>5. /\ sum.val = (IF LowDigit(al, b) THEN (al + 1 * 6) % 256 ELSE al) % 16
      /\ sum.ah = (IF LowDigit(al, b) THEN (0 + 1) % 256 ELSE 0)
      /\ sum.f.c = Flag(LowDigit(al, b))
  BY <1>3, <1>4, AsciiAdjusts
<1>6. LowDigit(al, b) <=> u + v > 9
  BY <1>3, SMT DEF LowDigit
<1>7. al = u + v
  BY <1>3, SMT
<1>8. CASE u + v > 9
  <2>1. sum.val = ((u + v + 6) % 256) % 16 /\ sum.ah = 1 /\ sum.f.c = 1
    BY <1>5, <1>6, <1>7, <1>8, SMT DEF Flag
  <2> QED
    BY <1>8, <2>1, SMT
<1>9. CASE u + v <= 9
  <2>1. sum.val = (u + v) % 16 /\ sum.ah = 0 /\ sum.f.c = 0
    BY <1>5, <1>6, <1>7, <1>9, SMT DEF Flag
  <2> QED
    BY <1>9, <2>1, SMT
<1> QED
  BY <1>8, <1>9

\* SUB and AAS on digits.
LEMMA DigitDifference ==
    ASSUME NEW g \in Flags, g.c = 0, NEW u \in Nat, u <= 9, NEW v \in Nat, v <= 9,
           NEW minus, minus = sbb(8, g, u, v),
           NEW diff, diff = aas(minus.val, 1, minus.f)
    PROVE  diff.ah * 10 + diff.val = 10 + u - v /\ diff.f.c = 1 - diff.ah
<1> DEFINE al == minus.val
           b == minus.f
<1>1. Summed(minus, u - v - g.c, (u % 16) - (v % 16) - g.c)
  BY ByteDifference
<1>2. u - v - g.c = u - v /\ (u % 16) - (v % 16) - g.c = u - v
  BY SMT
<1>3. b \in Flags /\ al = (u - v) % 256 /\ b.a = ((u - v) \div 16) % 2
  BY <1>1, <1>2 DEF Summed
<1>4. diff = AsciiAdjust(al, 1, b, -1) /\ al \in Int /\ -1 \in {1, -1} /\ 1 \in Int
  BY <1>3, SMT DEF aas
<1> HIDE DEF al, b
<1>5. /\ diff.val = (IF LowDigit(al, b) THEN (al + (-1) * 6) % 256 ELSE al) % 16
      /\ diff.ah = (IF LowDigit(al, b) THEN (1 + (-1)) % 256 ELSE 1)
      /\ diff.f.c = Flag(LowDigit(al, b))
  BY <1>3, <1>4, AsciiAdjusts
<1>6. LowDigit(al, b) <=> u < v
  BY <1>3, SMT DEF LowDigit
<1>7. al = IF u < v THEN u - v + 256 ELSE u - v
  BY <1>3, SMT
<1>8. CASE u < v
  <2>1. diff.val = ((u - v + 250) % 256) % 16 /\ diff.ah = 0 /\ diff.f.c = 1
    BY <1>5, <1>6, <1>7, <1>8, SMT DEF Flag
  <2> QED
    BY <1>8, <2>1, SMT
<1>9. CASE u >= v
  <2>1. diff.val = (u - v) % 16 /\ diff.ah = 1 /\ diff.f.c = 0
    BY <1>5, <1>6, <1>7, <1>9, SMT DEF Flag
  <2> QED
    BY <1>9, <2>1, SMT
<1> QED
  BY <1>8, <1>9

\* What DecimalArithmetic says of an input holds of every input.
LEMMA DecimalsAdd ==
    ASSUME InputTypeOK PROVE PackedDecimals /\ UnpackedDigits
<1>1. f \in Flags /\ f.c = c /\ [f EXCEPT !.c = 0] \in Flags /\ [f EXCEPT !.c = 0].c = 0
  BY Inputs
<1>2. x \in Nat /\ y \in Nat
  <2>1. Pow2[W] \in Nat
    BY AluAssumption, Powers
  <2> QED
    BY <2>1, Inputs
<1>3. PackedDecimals
  <2> SUFFICES ASSUME NEW u \in Decimals(x), NEW v \in Decimals(y)
      PROVE  LET plus == adc(8, f, Bcd(u), Bcd(v))
                 sum == daa(plus.val, plus.f)
                 minus == sbb(8, f, Bcd(u), Bcd(v))
                 diff == das(minus.val, minus.f)
             IN /\ sum.val = Bcd((u + v + c) % 100)
                /\ (sum.f.c = 1) = (u + v + c > 99)
                /\ diff.val = Bcd((u - v - c) % 100)
                /\ (diff.f.c = 1) = (u < v + c)
    BY DEF PackedDecimals
  <2>1. u \in Nat /\ u <= 99 /\ v \in Nat /\ v <= 99
    BY SMT DEF Decimals
  <2> DEFINE g == f
             plus == adc(8, g, Bcd(u), Bcd(v))
             sum == daa(plus.val, plus.f)
             minus == sbb(8, g, Bcd(u), Bcd(v))
             diff == das(minus.val, minus.f)
  <2>2. /\ plus = adc(8, g, Bcd(u), Bcd(v)) /\ sum = daa(plus.val, plus.f)
        /\ minus = sbb(8, g, Bcd(u), Bcd(v)) /\ diff = das(minus.val, minus.f)
        /\ g \in Flags /\ g.c = c
    BY <1>1
  <2> HIDE DEF g, plus, sum, minus, diff
  <2>3. sum.val = Bcd((u + v + g.c) % 100) /\ (sum.f.c = 1) = (u + v + g.c > 99)
    BY <2>1, <2>2, PackedSum
  <2>4. diff.val = Bcd((u - v - g.c) % 100) /\ (diff.f.c = 1) = (u < v + g.c)
    BY <2>1, <2>2, PackedDifference
  <2>5. /\ sum.val = Bcd((u + v + c) % 100) /\ (sum.f.c = 1) = (u + v + c > 99)
        /\ diff.val = Bcd((u - v - c) % 100) /\ (diff.f.c = 1) = (u < v + c)
    BY <2>2, <2>3, <2>4
  <2> QED
    BY <2>5 DEF g, plus, sum, minus, diff
<1>4. UnpackedDigits
  <2> SUFFICES ASSUME x <= 9, y <= 9
      PROVE  LET plus == add(8, f, x, y)
                 sum == aaa(plus.val, 0, plus.f)
                 minus == sub(8, f, x, y)
                 diff == aas(minus.val, 1, minus.f)
             IN /\ sum.ah * 10 + sum.val = x + y
                /\ diff.ah * 10 + diff.val = 10 + x - y
                /\ sum.f.c = sum.ah /\ diff.f.c = 1 - diff.ah
    BY DEF UnpackedDigits
  <2> DEFINE g == [f EXCEPT !.c = 0]
             u == x
             v == y
             plus == adc(8, g, u, v)
             sum == aaa(plus.val, 0, plus.f)
             minus == sbb(8, g, u, v)
             diff == aas(minus.val, 1, minus.f)
  <2>1. /\ plus = adc(8, g, u, v) /\ sum = aaa(plus.val, 0, plus.f)
        /\ minus = sbb(8, g, u, v) /\ diff = aas(minus.val, 1, minus.f)
        /\ g \in Flags /\ g.c = 0 /\ u \in Nat /\ v \in Nat /\ u <= 9 /\ v <= 9
    BY <1>1, <1>2
  <2> HIDE DEF g, u, v, plus, sum, minus, diff
  <2>2. sum.ah * 10 + sum.val = u + v /\ sum.f.c = sum.ah
    BY <2>1, DigitSum
  <2>3. diff.ah * 10 + diff.val = 10 + u - v /\ diff.f.c = 1 - diff.ah
    <3>1. /\ minus = sbb(8, g, u, v) /\ diff = aas(minus.val, 1, minus.f)
          /\ g \in Flags /\ g.c = 0 /\ u \in Nat /\ v \in Nat /\ u <= 9 /\ v <= 9
      BY <2>1
    <3> QED
      BY <3>1, DigitDifference
  <2>4. sum.ah * 10 + sum.val = x + y /\ diff.ah * 10 + diff.val = 10 + x - y
    BY <2>2, <2>3 DEF u, v
  <2>5. /\ sum = aaa(add(8, f, x, y).val, 0, add(8, f, x, y).f)
        /\ diff = aas(sub(8, f, x, y).val, 1, sub(8, f, x, y).f)
    BY DEF g, u, v, plus, sum, minus, diff, add, sub
  <2> QED
    BY <2>2, <2>3, <2>4, <2>5
<1> QED
  BY <1>3, <1>4

-----------------------------------------------------------------------------
(* The product of two digits, taken apart and put together.                *)

DigitsBytes == << 212, 10, 213, 10 >>
DigitsMemory == Bytes(Code, Entry, DigitsBytes)

\* The program is where it was put.
LEMMA DigitsPlaced ==
    /\ DigitsMemory \in Memory
    /\ \A i \in 0 .. 3 : /\ Linear(Code, Entry + i) \in DOMAIN DigitsMemory
                         /\ DigitsMemory[Linear(Code, Entry + i)] = DigitsBytes[i + 1]
<1> DEFINE four == 4
           off == Entry
           m == DigitsMemory
<1>1. four \in 1 .. 16 /\ DOMAIN DigitsBytes = 1 .. four
      /\ \A j \in 1 .. four : DigitsBytes[j] \in Byte
  BY SMT DEF DigitsBytes, Byte
<1>2. Code \in Inside /\ off \in Int
  BY SMT DEF Inside, Offset, Code, Entry
<1>3. m = Bytes(Code, off, DigitsBytes) /\ four - 1 = 3
  BY DEF DigitsMemory
<1> HIDE DEF four, off, m
<1>4. Holds(Code, off, four, DigitsBytes, m)
  BY <1>1, <1>2, <1>3, BytesRead
<1> QED
  BY <1>3, <1>4 DEF Holds, off, m

\* What has become of the product p after n instructions.
Taken(p, n) == IF n = 1 THEN 256 * (p \div 10) + (p % 10) ELSE p

\* The processor after n instructions.
DigitsRun(p, n, s) ==
    /\ s \in Processor /\ s.halt = FALSE /\ s.cs = Code /\ s.m = DigitsMemory
    /\ s.ip = Entry + 2 * n /\ s.ax = Taken(p, n)

\* Before either instruction: it has been fetched, and behind it is the base.
DigitsBegin(p, n, s, t) ==
    /\ i8088_execute(s) = Opcode(t, DigitsBytes[2 * n + 1])
    /\ t \in Processor /\ t.halt = FALSE /\ t.cs = Code /\ t.m = DigitsMemory
    /\ Skip(t, 1) = [t EXCEPT !.ip = Entry + 2 * (n + 1)]
    /\ Entry + 2 * (n + 1) \in Offset
    /\ t.ax = Taken(p, n) /\ fetch(t, 0) = 10

\* Both instructions begin like that.
LEMMA DigitsFetched ==
    ASSUME NEW p, NEW n \in 0 .. 1, NEW s, DigitsRun(p, n, s)
    PROVE  DigitsBegin(p, n, s, Started(s))
<1> DEFINE t == Started(s)
           i == 2 * n
           op == DigitsBytes[i + 1]
<1>1. s \in Processor /\ s.halt = FALSE /\ s.cs = Code /\ s.m = DigitsMemory /\ s.ip = Entry + i
      /\ s.ax = Taken(p, n)
  BY DEF DigitsRun
<1>2. i \in 0 .. 3 /\ i + 1 \in 0 .. 3 /\ i \in Int /\ i + 2 = 2 * (n + 1)
  BY SMT
<1>3. op \notin PrefixBytes /\ DigitsBytes[(i + 1) + 1] = 10
  <2>1. n = 0 \/ n = 1
    OBVIOUS
  <2> QED
    BY <2>1, SMT DEF DigitsBytes, PrefixBytes
<1>4. \A q, k : q.m = DigitsMemory /\ k \in 0 .. 3
                  => mem_read(q, Linear(Code, Entry + k)) = DigitsBytes[k + 1]
  BY DigitsPlaced DEF mem_read
<1>5. /\ Word(Entry + i + 1) = Entry + (i + 1) /\ Word(Entry + (i + 1) + 1) = Entry + (i + 2)
      /\ Entry + (i + 2) \in Offset /\ Entry + (i + 1) + 0 = Entry + (i + 1)
  BY <1>2, SMT DEF Entry, Word, Offset
<1>6. op = mem_read_by_segment(s, s.cs, s.ip)
  BY <1>1, <1>2, <1>4 DEF mem_read_by_segment
<1>7. i8088_execute(s) = Opcode(t, op) /\ t \in Processor
  <2> HIDE DEF op
  <2> QED
    BY <1>1, <1>3, <1>6, Fetched
<1>8. t = [s EXCEPT !.seg = "none", !.rep = "none", !.ip = Word(s.ip + 1)]
  BY DEF Started
<1> HIDE DEF t, op, i
<1>9. t.halt = s.halt /\ t.cs = s.cs /\ t.m = s.m /\ t.ax = s.ax /\ t.ip = Word(s.ip + 1)
  BY <1>1, <1>8 DEF Processor
<1>10. t.ip = Entry + (i + 1)
  BY <1>1, <1>5, <1>9
<1>11. Skip(t, 1) = [t EXCEPT !.ip = Entry + (i + 2)]
  BY <1>5, <1>7, <1>10 DEF Skip
<1>12. fetch(t, 0) = 10
  BY <1>1, <1>2, <1>3, <1>4, <1>5, <1>9, <1>10 DEF fetch, mem_read_by_segment
<1> QED
  BY <1>1, <1>2, <1>5, <1>7, <1>9, <1>11, <1>12 DEF DigitsBegin, t, op, i

\* A processor whose accumulator, flags and instruction pointer change.
AccumulatorIs(t, ip, ax, r) ==
    /\ r \in Processor /\ r.ip = ip /\ r.ax = ax
    /\ r.halt = t.halt /\ r.cs = t.cs /\ r.m = t.m

\* It is a processor again, and nothing else has changed.
LEMMA AccumulatorSet ==
    ASSUME NEW t \in Processor, NEW ip \in Offset, NEW ax \in Offset, NEW g \in CpuFlags,
           NEW r, r = [t EXCEPT !.ip = ip, !.ax = ax, !.f = g]
    PROVE  AccumulatorIs(t, ip, ax, r)
<1>1. r \in Processor
  BY ZenonT(60) DEF Processor
<1>2. r.ip = ip /\ r.ax = ax
  BY DEF Processor
<1>3. r.halt = t.halt /\ r.cs = t.cs /\ r.m = t.m
  BY DEF Processor
<1> QED
  BY <1>1, <1>2, <1>3 DEF AccumulatorIs

\* A byte and the flags it leaves.
LEMMA ByteResult ==
    ASSUME NEW e \in Byte, NEW g \in CpuFlags
    PROVE  Result(8, e, g).val = e /\ Result(8, e, g).f \in CpuFlags
<1> DEFINE w == 8
<1>1. w \in Nat /\ w > 0 /\ e \in 0 .. Pow2[w] - 1 /\ w = 8
  BY WordPowers, SMT DEF Byte
<1> HIDE DEF w
<1> QED
  BY <1>1, ResultTyped

\* AAM makes two digits of the product.
LEMMA TakenApart ==
    ASSUME NEW p \in Nat, p <= 81, NEW s, DigitsRun(p, 0, s), NEW r, r = i8088_execute(s)
    PROVE  DigitsRun(p, 1, r)
<1> DEFINE t == Started(s)
           ip == Entry + 2 * (0 + 1)
           e == p % 10
           q == Result(8, e, t.f)
           g == q.f
           ax == Taken(p, 1)
<1>1. DigitsBegin(p, 0, s, t)
  BY DigitsFetched
<1>2. t.ax = p /\ fetch(t, 0) = 10 /\ r = Opcode(t, 212)
  BY <1>1, SMT DEF DigitsBegin, Taken, DigitsBytes
<1>3. Opcode(t, 212) = AAM(t)
  BY SMT DEF Opcode
<1>4. Lo(t.ax) = p /\ e \in Byte /\ ax \in Offset /\ e + 256 * (p \div 10) = ax
  BY <1>2, SMT DEF Lo, Byte, Offset, Taken
<1>5. t \in Processor /\ t.f \in CpuFlags /\ ip \in Offset /\ Skip(t, 1) = [t EXCEPT !.ip = ip]
  BY <1>1, Registers16 DEF DigitsBegin
<1>6. t.halt = FALSE /\ t.cs = Code /\ t.m = DigitsMemory
  BY <1>1 DEF DigitsBegin
<1> HIDE DEF t, ip, ax
<1>7. q.val = e /\ g \in CpuFlags
  <2> HIDE DEF e
  <2> QED
    BY <1>4, <1>5, ByteResult
<1>8. r = [Skip(t, 1) EXCEPT !.ax = q.val + 256 * (p \div 10), !.f = g]
  <2>1. 10 # 0
    OBVIOUS
  <2> QED
    BY <1>2, <1>3, <1>4, <2>1 DEF AAM
<1> HIDE DEF q, g, e
<1>9. r = [[t EXCEPT !.ip = ip] EXCEPT !.ax = ax, !.f = g]
  BY <1>4, <1>5, <1>7, <1>8
<1>10. r = [t EXCEPT !.ip = ip, !.ax = ax, !.f = g]
  BY <1>9
<1>11. AccumulatorIs(t, ip, ax, r)
  <2>1. t \in Processor /\ ip \in Offset /\ ax \in Offset /\ g \in CpuFlags
    BY <1>4, <1>5, <1>7
  <2> QED
    BY <1>10, <2>1, AccumulatorSet
<1>12. ip = Entry + 2 * 1
  BY SMT DEF ip
<1> QED
  BY <1>6, <1>11, <1>12 DEF AccumulatorIs, DigitsRun, ax

\* AAD makes the product of them.
LEMMA PutTogether ==
    ASSUME NEW p \in Nat, p <= 81, NEW s, DigitsRun(p, 1, s), NEW r, r = i8088_execute(s)
    PROVE  DigitsRun(p, 2, r)
<1> DEFINE t == Started(s)
           ip == Entry + 2 * (1 + 1)
           q == Result(8, p, t.f)
           g == q.f
<1>1. DigitsBegin(p, 1, s, t)
  BY DigitsFetched
<1>2. t.ax = Taken(p, 1) /\ fetch(t, 0) = 10 /\ r = Opcode(t, 213)
  BY <1>1, SMT DEF DigitsBegin, DigitsBytes
<1>3. Opcode(t, 213) = AAD(t)
  BY SMT DEF Opcode
<1>4. Lo(Hi(t.ax) * 10 + Lo(t.ax)) = p /\ p \in Byte /\ p \in Offset
  <2> DEFINE h == p \div 10
             l == p % 10
  <2>1. h \in Nat /\ l \in Nat /\ l <= 9 /\ p = 10 * h + l /\ h <= 8
    BY SMT
  <2>2. t.ax = 256 * h + l
    BY <1>2, SMT DEF Taken
  <2> HIDE DEF h, l
  <2>3. Hi(t.ax) = h /\ Lo(t.ax) = l
    BY <2>1, <2>2, SMT DEF Hi, Lo
  <2>4. p % 256 = p /\ h * 10 + l = p
    BY <2>1, SMT
  <2>5. Lo(Hi(t.ax) * 10 + Lo(t.ax)) = p
    BY <2>3, <2>4 DEF Lo
  <2> QED
    BY <2>5, SMT DEF Byte, Offset
<1>5. t \in Processor /\ t.f \in CpuFlags /\ ip \in Offset /\ Skip(t, 1) = [t EXCEPT !.ip = ip]
  BY <1>1, Registers16 DEF DigitsBegin
<1>6. t.halt = FALSE /\ t.cs = Code /\ t.m = DigitsMemory
  BY <1>1 DEF DigitsBegin
<1> HIDE DEF t, ip
<1>7. q.val = p /\ g \in CpuFlags
  BY <1>4, <1>5, ByteResult
<1>8. r = [Skip(t, 1) EXCEPT !.ax = q.val, !.f = g]
  BY <1>2, <1>3, <1>4 DEF AAD
<1> HIDE DEF q, g
<1>9. r = [[t EXCEPT !.ip = ip] EXCEPT !.ax = p, !.f = g]
  BY <1>5, <1>7, <1>8
<1>10. r = [t EXCEPT !.ip = ip, !.ax = p, !.f = g]
  BY <1>9
<1>11. AccumulatorIs(t, ip, p, r)
  <2>1. t \in Processor /\ ip \in Offset /\ p \in Offset /\ g \in CpuFlags
    BY <1>4, <1>5, <1>7
  <2> QED
    BY <1>10, <2>1, AccumulatorSet
<1>12. ip = Entry + 2 * 2 /\ Taken(p, 2) = p
  BY SMT DEF ip, Taken
<1> QED
  BY <1>6, <1>11, <1>12 DEF AccumulatorIs, DigitsRun

\* The product of two digits.
LEMMA DigitsProduct ==
    ASSUME NEW u \in Nat, u <= 9, NEW v \in Nat, v <= 9
    PROVE  u * v \in Nat /\ u * v <= 81
<1>1. u * v \in Nat
  BY SMT
<1>2. u * v <= 9 * v
  BY Monotone, 9 \in Int
<1> QED
  BY <1>1, <1>2

\* The program begins with the product in AX.
LEMMA DigitsPrepared ==
    ASSUME InputTypeOK, NEW p \in Nat, p <= 81, p = x * y
    PROVE  DigitsRun(p, 0, DigitsProgram)
<1> DEFINE q == Cpu(Entry, DigitsBytes)
           g == [FlagsOf(0) EXCEPT !.c = c, !.a = a, !.i = 1]
           r == DigitsProgram
           ip == Entry
           m == DigitsMemory
<1>1. r = [q EXCEPT !.ax = p]
  BY DEF DigitsProgram, Entry, DigitsBytes
<1>2. g \in CpuFlags
  <2> DEFINE g0 == FlagsOf(0)
             kc == c
             ka == a
             ki == 1
  <2>1. kc \in 0 .. 1 /\ ka \in 0 .. 1 /\ ki \in 0 .. 1 /\ g0 \in CpuFlags
        /\ g = [g0 EXCEPT !.c = kc, !.a = ka, !.i = ki]
    BY InputPlaces, FlagsRead, 0 \in Int
  <2> HIDE DEF kc, ka, ki, g, g0
  <2>2. SameOthers(g0, g)
    BY <2>1, FlagsPut
  <2> QED
    BY <2>2 DEF SameOthers
<1>3. ip \in Offset /\ m \in Memory /\ m = Bytes(Code, ip, DigitsBytes) /\ p \in Offset
  BY DigitsPlaced, SMT DEF Entry, Offset, DigitsMemory
<1>4. Fresh(q, ip, m, g)
  <2>1. g = [FlagsOf(0) EXCEPT !.c = c, !.a = a, !.i = 1] /\ q = Cpu(ip, DigitsBytes)
    OBVIOUS
  <2> HIDE DEF g, ip, m
  <2> QED
    BY <1>2, <1>3, <2>1, CpuFresh
<1> HIDE DEF q, g, r
<1>5. q \in Processor /\ q.halt = FALSE /\ q.cs = Code /\ q.m = m /\ q.ip = ip /\ q.f = g
  BY <1>4 DEF Fresh
<1>6. r = [q EXCEPT !.ip = ip, !.ax = p, !.f = g]
  BY <1>1, <1>5 DEF Processor
<1> HIDE DEF ip, m
<1>7. AccumulatorIs(q, ip, p, r)
  BY <1>2, <1>3, <1>5, <1>6, AccumulatorSet
<1>8. ip = Entry + 2 * 0 /\ Taken(p, 0) = p
  BY SMT DEF ip, Entry, Taken
<1> QED
  BY <1>5, <1>7, <1>8 DEF AccumulatorIs, DigitsRun, m, r

\* The product of two digits is on its way.
DigitsInv ==
    /\ InterruptInv
    /\ job = "digits" /\ x <= 9 /\ y <= 9 =>
          executed \in 0 .. 2 /\ DigitsRun(x * y, executed, cpu)

\* The program of two instructions.
LEMMA DigitsJob == Prepared("digits") = DigitsProgram /\ Steps("digits") = 2
<1>1. "digits" \notin StringJobs
  BY DEF StringJobs, StringOpcode
<1>2. "digits" \notin OperandJobs
  BY DEF OperandJobs, OperandOpcode
<1>3. Prepared("digits") = DigitsProgram
  BY <1>1, <1>2 DEF Prepared
<1>4. Steps("digits") = 2
  BY <1>1, <1>2 DEF Steps
<1> QED
  BY <1>3, <1>4

\* Every step keeps the invariant.
LEMMA DigitsStep ==
    ASSUME DigitsInv, InterruptInv', [Next]_vars PROVE DigitsInv'
<1> SUFFICES ASSUME job' = "digits", x' <= 9, y' <= 9
             PROVE  executed' \in 0 .. 2 /\ DigitsRun(x' * y', executed', cpu')
  BY DEF DigitsInv
<1>1. CASE UNCHANGED vars
  BY <1>1 DEF vars, DigitsInv
<1>2. CASE Another
  BY <1>2 DEF Another
<1>3. x' = x /\ y' = y => x \in Nat /\ y \in Nat /\ x <= 9 /\ y <= 9 /\ InputTypeOK
  <2>1. InputTypeOK /\ Pow2[W] \in Nat
    BY AluAssumption, Powers DEF DigitsInv, InterruptInv
  <2> QED
    BY <2>1, Inputs
<1>4. CASE Begin
  <2>1. x' = x /\ y' = y /\ executed' = 0 /\ cpu' = DigitsProgram
    BY <1>4, DigitsJob DEF Begin, input
  <2> DEFINE p == x * y
  <2>2. p \in Nat /\ p <= 81 /\ InputTypeOK /\ p = x * y
    BY <1>3, <2>1, DigitsProduct
  <2> HIDE DEF p
  <2>3. DigitsRun(p, 0, DigitsProgram)
    BY <2>2, DigitsPrepared
  <2> QED
    BY <2>1, <2>2, <2>3
<1>5. CASE Execute
  <2>1. /\ x' = x /\ y' = y /\ job = "digits" /\ ~Done
        /\ cpu' = i8088_execute(cpu) /\ executed' = executed + 1
    BY <1>5 DEF Execute, input
  <2> DEFINE p == x * y
             s == cpu
             r == i8088_execute(cpu)
  <2>2. p \in Nat /\ p <= 81 /\ p = x * y
    BY <1>3, <2>1, DigitsProduct
  <2>3. executed \in 0 .. 2 /\ DigitsRun(p, executed, s) /\ r = i8088_execute(s)
    BY <1>3, <2>1 DEF DigitsInv
  <2>4. executed # 2
    BY <2>1, DigitsJob DEF Done, DigitsInv, InterruptInv
  <2> HIDE DEF p, s, r
  <2>5. CASE executed = 0
    <3>1. DigitsRun(p, 1, r)
      BY <2>2, <2>3, <2>5, TakenApart
    <3> QED
      BY <2>1, <2>2, <2>5, <3>1 DEF r
  <2>6. CASE executed = 1
    <3>1. DigitsRun(p, 2, r)
      BY <2>2, <2>3, <2>6, PutTogether
    <3> QED
      BY <2>1, <2>2, <2>6, <3>1 DEF r
  <2> QED
    BY <2>3, <2>4, <2>5, <2>6
<1>6. CASE Interrupt
  BY <1>6 DEF Interrupt
<1>7. CASE End
  BY <1>7 DEF End
<1> QED
  BY <1>1, <1>2, <1>4, <1>5, <1>6, <1>7 DEF Next

\* The adjustment instructions make decimal arithmetic of the binary one: DAA
\* and DAS on packed numbers, AAA and AAS on digits, AAM and AAD on a product.
THEOREM DecimalsExact == Spec => []DecimalArithmetic
<1>1. Init => DigitsInv
  BY InterruptBegins DEF Init, DigitsInv
<1>2. DigitsInv /\ [Next]_vars => DigitsInv'
  BY InterruptStep, DigitsStep DEF DigitsInv
<1>3. DigitsInv => DecimalArithmetic
  <2> SUFFICES ASSUME DigitsInv PROVE DecimalArithmetic
    OBVIOUS
  <2>1. CASE job = "none"
    BY <2>1, DecimalsAdd DEF DigitsInv, InterruptInv, DecimalArithmetic
  <2>2. CASE job # "none"
    <3> SUFFICES ASSUME job = "digits", x <= 9, y <= 9
        PROVE  /\ executed = 1 => cpu.ax = 256 * ((x * y) \div 10) + ((x * y) % 10)
               /\ executed = 2 => cpu.ax = x * y
      BY <2>2 DEF DecimalArithmetic, ProductDigits
    <3>1. cpu.ax = Taken(x * y, executed)
      BY DEF DigitsInv, DigitsRun
    <3> QED
      BY <3>1 DEF Taken
  <2> QED
    BY <2>1, <2>2
<1> QED
  BY <1>1, <1>2, <1>3, PTL DEF Spec
=============================================================================
