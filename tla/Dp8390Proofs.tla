---------------------------- MODULE Dp8390Proofs ----------------------------
(***************************************************************************)
(* Proofs about the receive ring of Dp8390, for any ring, any page size,   *)
(* any frame lengths it has room for and any number of unread frames: the  *)
(* types, and that the chain of frames reaches the driver as it arrived.   *)
(***************************************************************************)
EXTENDS Dp8390, SequenceTheorems, WellFoundedInduction, TLAPS

\* The page d pages after page p in the ring.
W == PStop - PStart
At(p, d) == PStart + ((p - PStart + d) % W)

\* Pages a frame takes up, the spare one after a full page included.
Cost(len) == ByteCount(len) \div PageSize + 1

\* D gives for every unread frame of q, and for the next one to come, its
\* distance in pages from the driver's position w; c is CURR and r the ring.
Measures(D, q, w, c, r) ==
    /\ D \in [1 .. Len(q) + 1 -> Nat]
    /\ D[1] = 0
    /\ \A i \in 1 .. Len(q) : D[i + 1] = D[i] + Cost(q[i].len)
    /\ \A i, j \in 1 .. Len(q) + 1 : i <= j => D[i] <= D[j]
    /\ D[Len(q) + 1] < W
    /\ At(w, D[Len(q) + 1]) = c
    /\ \A i \in 1 .. Len(q) : \A k \in Parts(q[i].len) :
          r[At(w, D[i] + k)] =
             [frame |-> q[i], part |-> k, next |-> At(w, D[i + 1])]

Laid == want \in RingPages /\ \E D : Measures(D, queue, want, curr, ring)

IInv == TypeOK /\ curr \in RingPages /\ (~spoilt => Laid)
-----------------------------------------------------------------------------
(* Lemmas on numbers.                                                      *)

\* A set of natural numbers that is not empty has a least element.
LEMMA LeastNumber ==
    ASSUME NEW T \in SUBSET Nat, T # {}
    PROVE  \E x \in T : \A y \in T : x <= y
<1> DEFINE R == {ss \in Nat \X Nat : ss[1] < ss[2]}
<1>1. IsWellFoundedOn(R, Nat)
  BY NatLessThanWellFounded DEF OpToRel
<1> HIDE DEF R
<1>2. PICK x \in T : \A y \in T : ~(<<y, x>> \in R)
  BY <1>1, WFMin
<1>3. \A y \in T : ~(y < x)
  BY <1>2 DEF R
<1>4. QED
  BY <1>2, <1>3

\* Induction over the numbers up to m, for a property given by its set.
LEMMA CountUp ==
    ASSUME NEW m \in Nat, NEW T, 0 \in T,
           \A k \in Nat : k < m /\ k \in T => k + 1 \in T
    PROVE  0 .. m \subseteq T
<1> SUFFICES ASSUME (0 .. m) \ T # {} PROVE FALSE
  OBVIOUS
<1>1. PICK x \in (0 .. m) \ T : \A y \in (0 .. m) \ T : x <= y
  <2>1. (0 .. m) \ T \in SUBSET Nat
    OBVIOUS
  <2>2. QED
    BY <2>1, LeastNumber
<1>2. x \in Nat /\ x # 0 /\ x <= m
  BY <1>1
<1>3. x - 1 \in 0 .. m /\ x - 1 \in Nat /\ x - 1 < m /\ ~(x <= x - 1)
  BY <1>2
<1>4. x - 1 \in T
  BY <1>1, <1>3
<1>5. (x - 1) + 1 \in T
  BY <1>3, <1>4
<1>6. (x - 1) + 1 = x
  BY <1>2
<1>7. QED
  BY <1>1, <1>5, <1>6

\* The remainder is the only digit that leaves a multiple.
LEMMA Remainder ==
    ASSUME NEW m \in Nat \ {0}, NEW q \in Nat, NEW r \in 0 .. m - 1
    PROVE  (q * m + r) % m = r
<1> DEFINE a == q * m + r
           c == a \div m
           d == a % m
<1>1. a \in Nat
  OBVIOUS
<1> HIDE DEF a
<1>2. c \in Nat /\ d \in 0 .. m - 1 /\ a = c * m + d
  BY <1>1
<1> HIDE DEF c, d
<1>3. q * m + r = c * m + d
  BY <1>2 DEF a
<1>4. ASSUME NEW x \in Nat, NEW y \in Nat, NEW e \in 0 .. m - 1, NEW f \in 0 .. m - 1, x < y
      PROVE  x * m + e # y * m + f
  <2>1. y - (x + 1) \in Nat
    BY <1>4
  <2>2. (y - (x + 1)) * m \in Nat
    BY <2>1
  <2>3. (y - (x + 1)) * m = y * m - (x * m + m)
    BY <2>1
  <2>4. x * m \in Nat /\ y * m \in Nat
    BY <1>4
  <2>5. QED
    BY <2>2, <2>3, <2>4
<1>5. ~(q < c) /\ ~(c < q)
  BY <1>2, <1>3, <1>4
<1>6. q = c
  BY <1>2, <1>5
<1>7. q * m \in Nat
  OBVIOUS
<1>8. d = r
  BY <1>2, <1>3, <1>6, <1>7
<1>9. QED
  BY <1>8 DEF d, a

\* Adding before or after taking the remainder.
LEMMA RemainderAdds ==
    ASSUME NEW m \in Nat \ {0}, NEW x \in Nat, NEW y \in Nat
    PROVE  ((x % m) + y) % m = (x + y) % m
<1> DEFINE q == x \div m
           r == x % m
           s == r + y
           u == s \div m
           v == s % m
<1>1. q \in Nat /\ r \in 0 .. m - 1 /\ x = q * m + r
  OBVIOUS
<1> HIDE DEF q, r
<1>2. s \in Nat
  BY <1>1
<1> HIDE DEF s
<1>3. u \in Nat /\ v \in 0 .. m - 1 /\ s = u * m + v
  BY <1>2
<1> HIDE DEF u, v
<1>4. x + y = (q + u) * m + v
  <2>1. (q + u) * m = q * m + u * m
    BY <1>1, <1>3
  <2>2. q * m \in Nat /\ u * m \in Nat
    BY <1>1, <1>3
  <2>3. x + y = q * m + s
    BY <1>1, <2>2 DEF s
  <2>4. QED
    BY <1>3, <2>1, <2>2, <2>3
<1>5. (x + y) % m = v
  <2>1. q + u \in Nat
    BY <1>1, <1>3
  <2>2. ((q + u) * m + v) % m = v
    BY <1>3, <2>1, Remainder
  <2>3. QED
    BY <1>4, <2>2
<1>6. QED
  BY <1>5 DEF v, s, r
-----------------------------------------------------------------------------
(* The ring.                                                               *)

LEMMA RingFacts ==
    /\ W \in Nat \ {0} /\ PStart \in Nat \ {0} /\ PStop \in Nat /\ PageModulus \in Nat
    /\ PStop = PStart + W /\ PStop < PageModulus
    /\ \A p \in RingPages : p - PStart \in 0 .. W - 1 /\ p \in 0 .. PageModulus - 1
BY Dp8390Assumption DEF W, RingPages

\* Going round the ring.
LEMMA AtFacts ==
    ASSUME NEW p \in RingPages
    PROVE  /\ \A d \in Nat : At(p, d) \in RingPages
           /\ \A d \in Nat : d < W /\ p + d < PStop => At(p, d) = p + d
           /\ \A d \in Nat : d < W /\ p + d >= PStop => At(p, d) = p + d - W
           /\ At(p, 0) = p /\ At(p, W) = p
           /\ \A d, e \in Nat : At(At(p, d), e) = At(p, d + e)
           /\ \A d, e \in Nat : d < W /\ e < W /\ At(p, d) = At(p, e) => d = e
<1> DEFINE x == p - PStart
<1>1. /\ W \in Nat \ {0} /\ PStart \in Nat /\ p \in Int /\ x \in 0 .. W - 1
      /\ PStop = PStart + W /\ p = PStart + x
  BY RingFacts DEF RingPages
<1>2. RingPages = PStart .. PStart + W - 1
  BY <1>1 DEF RingPages
<1>3. \A d : At(p, d) = PStart + ((x + d) % W)
  BY DEF At
<1>4. \A y \in Nat : y < W => y % W = y
  <2> SUFFICES ASSUME NEW y \in Nat, y < W PROVE y % W = y
    OBVIOUS
  <2>1. y \in 0 .. W - 1 /\ 0 * W + y = y
    BY <1>1
  <2>2. (0 * W + y) % W = y
    BY <1>1, <2>1, Remainder
  <2>3. QED
    BY <2>1, <2>2
<1>5. \A y \in Nat : W <= y /\ y < W + W => y % W = y - W
  <2> SUFFICES ASSUME NEW y \in Nat, W <= y, y < W + W PROVE y % W = y - W
    OBVIOUS
  <2>1. y - W \in 0 .. W - 1 /\ 1 * W + (y - W) = y
    BY <1>1
  <2>2. (1 * W + (y - W)) % W = y - W
    BY <1>1, <2>1, Remainder
  <2>3. QED
    BY <2>1, <2>2
<1> HIDE DEF x
<1>6. \A d \in Nat : (x + d) % W \in 0 .. W - 1
  BY <1>1
<1>7. \A d \in Nat : At(p, d) \in RingPages /\ At(p, d) - PStart = (x + d) % W
  <2> SUFFICES ASSUME NEW d \in Nat
               PROVE  At(p, d) \in RingPages /\ At(p, d) - PStart = (x + d) % W
    OBVIOUS
  <2> DEFINE y == (x + d) % W
  <2>1. y \in 0 .. W - 1 /\ At(p, d) = PStart + y
    BY <1>3, <1>6
  <2> HIDE DEF y
  <2>2. PStart + y \in PStart .. PStart + W - 1 /\ (PStart + y) - PStart = y
    BY <1>1, <2>1
  <2>3. QED
    BY <1>2, <2>1, <2>2 DEF y
<1>8. \A d \in Nat : d < W /\ x + d < W => At(p, d) = p + d
  BY <1>1, <1>3, <1>4
<1>9. \A d \in Nat : d <= W /\ x + d >= W => At(p, d) = p + d - W
  <2> SUFFICES ASSUME NEW d \in Nat, d <= W, x + d >= W PROVE At(p, d) = p + d - W
    OBVIOUS
  <2>1. x + d \in Nat /\ x + d < W + W
    BY <1>1
  <2>2. (x + d) % W = x + d - W
    BY <1>1, <1>5, <2>1
  <2>3. At(p, d) = PStart + (x + d - W)
    BY <1>3, <2>2
  <2>4. QED
    BY <1>1, <2>3
<1>10. At(p, 0) = p /\ At(p, W) = p
  BY <1>1, <1>8, <1>9
<1>11. ASSUME NEW d \in Nat, NEW e \in Nat PROVE At(At(p, d), e) = At(p, d + e)
  <2>1. At(At(p, d), e) = PStart + ((((x + d) % W) + e) % W)
    <3>1. At(At(p, d), e) = PStart + ((At(p, d) - PStart + e) % W)
      BY DEF At
    <3>2. At(p, d) - PStart = (x + d) % W
      BY <1>7
    <3>3. QED
      BY <3>1, <3>2
  <2>2. x + d \in Nat
    BY <1>1
  <2>3. (((x + d) % W) + e) % W = ((x + d) + e) % W
    BY <1>1, <2>2, RemainderAdds
  <2>4. (x + d) + e = x + (d + e)
    BY <1>1
  <2>5. QED
    BY <1>3, <2>1, <2>3, <2>4
<1>12. ASSUME NEW d \in Nat, NEW e \in Nat, d < W, e < W, At(p, d) = At(p, e)
       PROVE  d = e
  <2>1. (x + d < W => At(p, d) = p + d) /\ (x + d >= W => At(p, d) = p + d - W)
    BY <1>8, <1>9, <1>12, <1>1
  <2>2. (x + e < W => At(p, e) = p + e) /\ (x + e >= W => At(p, e) = p + e - W)
    BY <1>8, <1>9, <1>12, <1>1
  <2>3. QED
    BY <1>1, <1>12, <2>1, <2>2
<1>13. \A d \in Nat : d < W /\ p + d < PStop => At(p, d) = p + d
  BY <1>1, <1>8
<1>14. \A d \in Nat : d < W /\ p + d >= PStop => At(p, d) = p + d - W
  BY <1>1, <1>9
<1>15. QED
  BY <1>7, <1>10, <1>11, <1>12, <1>13, <1>14

\* The sizes of a frame.
LEMMA CostFacts ==
    ASSUME NEW len \in Lengths
    PROVE  /\ Cost(len) \in Nat \ {0} /\ Cost(len) < W
           /\ Cost(len) + PStop <= PageModulus
           /\ ByteCount(len) \div PageSize \in Nat
           /\ Claimed(len) = 0 .. Cost(len) - 1
           /\ Parts(len) \subseteq 0 .. Cost(len) - 1
           /\ 0 \in Parts(len)
<1> DEFINE b == len + 4
           c == b \div PageSize
           e == (b - 1) \div PageSize
<1>1. /\ len \in Nat /\ PageSize \in Nat /\ PageSize > 4
      /\ c + 1 < PStop - PStart /\ c + PStop < PageModulus
      /\ PStop \in Nat /\ PStart \in Nat /\ PageModulus \in Nat
  BY Dp8390Assumption DEF Header
<1>2. b \in Nat /\ b - 1 \in Nat
  BY <1>1
<1>3. c \in Nat /\ b % PageSize \in 0 .. PageSize - 1 /\ b = c * PageSize + (b % PageSize)
  BY <1>1, <1>2
<1>4. /\ e \in Nat /\ (b - 1) % PageSize \in 0 .. PageSize - 1
      /\ b - 1 = e * PageSize + ((b - 1) % PageSize)
  BY <1>1, <1>2
<1>5. Cost(len) = c + 1 /\ ByteCount(len) \div PageSize = c
  BY DEF Cost, ByteCount, Header
<1>6. Claimed(len) = 0 .. c /\ Parts(len) = 0 .. e
  BY DEF Claimed, Parts, ByteCount, Header
<1> DEFINE y == b % PageSize
           z == (b - 1) % PageSize
<1> HIDE DEF b, c, e, y, z
<1>7. e <= c
  <2> SUFFICES ASSUME ~(e <= c) PROVE FALSE
    OBVIOUS
  <2>1. e - (c + 1) \in Nat
    BY <1>3, <1>4
  <2>2. (e - (c + 1)) * PageSize \in Nat
    BY <1>1, <2>1
  <2>3. (e - (c + 1)) * PageSize = e * PageSize - (c * PageSize + PageSize)
    BY <1>1, <1>3, <1>4
  <2>4. c * PageSize \in Nat /\ e * PageSize \in Nat
    BY <1>1, <1>3, <1>4
  <2>5. y \in 0 .. PageSize - 1 /\ b = c * PageSize + y
    BY <1>3 DEF y
  <2>6. z \in 0 .. PageSize - 1 /\ b - 1 = e * PageSize + z
    BY <1>4 DEF z
  <2>7. QED
    BY <1>1, <1>2, <2>2, <2>3, <2>4, <2>5, <2>6
<1>8. W = PStop - PStart
  BY DEF W
<1>9. Cost(len) \in Nat \ {0} /\ Cost(len) < W /\ Cost(len) + PStop <= PageModulus
  BY <1>1, <1>3, <1>5, <1>8
<1>10. Claimed(len) = 0 .. Cost(len) - 1
  BY <1>3, <1>5, <1>6
<1>11. 0 .. e \subseteq 0 .. c /\ 0 \in 0 .. e /\ (c + 1) - 1 = c
  BY <1>3, <1>4, <1>7
<1>12. Parts(len) \subseteq 0 .. Cost(len) - 1 /\ 0 \in Parts(len)
  BY <1>5, <1>6, <1>11
<1>13. QED
  BY <1>3, <1>5, <1>9, <1>10, <1>12

\* next_packet is the page after the frame's last one, around the ring.
LEMMA NextPacketIsAt ==
    ASSUME curr \in RingPages, NEW len \in Lengths
    PROVE  /\ NextPacket(len) = At(curr, Cost(len))
           /\ NextPacket(len) \in RingPages /\ NextPacket(len) \in 0 .. PageModulus - 1
<1> DEFINE n == curr + Cost(len)
<1>1. /\ Cost(len) \in Nat /\ Cost(len) < W /\ Cost(len) + PStop <= PageModulus
      /\ ByteCount(len) \div PageSize \in Nat
      /\ Cost(len) = ByteCount(len) \div PageSize + 1
  BY CostFacts DEF Cost
<1>2. /\ curr \in Nat /\ curr < PStop /\ PStop \in Nat /\ PageModulus \in Nat \ {0}
      /\ W \in Nat /\ PStart \in Nat /\ PStop = PStart + W
  BY RingFacts DEF RingPages
<1>3. n \in Nat /\ n < PageModulus /\ curr + ByteCount(len) \div PageSize + 1 = n
  BY <1>1, <1>2
<1>4. n % PageModulus = n
  <2>1. n \in 0 .. PageModulus - 1 /\ 0 * PageModulus + n = n
    BY <1>2, <1>3
  <2> HIDE DEF n
  <2>2. (0 * PageModulus + n) % PageModulus = n
    BY <1>2, <2>1, Remainder
  <2>3. QED
    BY <2>1, <2>2
<1>5. NextPacket(len) = IF n >= PStop THEN PStart + (n - PStop) ELSE n
  BY <1>3, <1>4 DEF NextPacket
<1>6. /\ n < PStop => At(curr, Cost(len)) = n
      /\ n >= PStop => At(curr, Cost(len)) = n - W
  <2>1. \A d \in Nat :
           /\ d < W /\ curr + d < PStop => At(curr, d) = curr + d
           /\ d < W /\ curr + d >= PStop => At(curr, d) = curr + d - W
    BY AtFacts
  <2>2. QED
    BY <1>1, <1>2, <2>1
<1> HIDE DEF n
<1>7. NextPacket(len) = At(curr, Cost(len))
  BY <1>2, <1>3, <1>5, <1>6
<1>8. NextPacket(len) \in RingPages
  <2>1. \A d \in Nat : At(curr, d) \in RingPages
    BY AtFacts
  <2>2. QED
    BY <1>1, <1>7, <2>1
<1>9. QED
  BY <1>7, <1>8, RingFacts

\* The pages the frame is written to, and the boundary that never stops it.
LEMMA WrittenFacts ==
    ASSUME curr \in RingPages, NEW f \in Frame
    PROVE  /\ DOMAIN Written(f) = RingPages
           /\ \A k \in Parts(f.len) :
                 Written(f)[At(curr, k)] =
                    [frame |-> f, part |-> k, next |-> NextPacket(f.len)]
           /\ \A p \in RingPages :
                 (\A k \in Parts(f.len) : At(curr, k) # p) => Written(f)[p] = ring[p]
<1> DEFINE B == Parts(f.len)
<1>1. \A k : PageAt(k) = At(curr, k)
  BY DEF PageAt, At, W
<1>2. f.len \in Lengths
  BY DEF Frame
<1>3. \A k \in B : k \in Nat /\ k < W
  <2>1. B \subseteq 0 .. Cost(f.len) - 1 /\ Cost(f.len) \in Nat /\ Cost(f.len) < W
    BY <1>2, CostFacts
  <2>2. W \in Nat
    BY RingFacts
  <2>3. QED
    BY <2>1, <2>2
<1> HIDE DEF B
<1>4. Written(f) =
        [p \in RingPages |->
           IF \E k \in B : At(curr, k) = p
           THEN [frame |-> f, part |-> CHOOSE k \in B : At(curr, k) = p,
                 next |-> NextPacket(f.len)]
           ELSE ring[p]]
  BY <1>1 DEF Written, B
<1>5. ASSUME NEW k \in B
      PROVE  Written(f)[At(curr, k)] =
                [frame |-> f, part |-> k, next |-> NextPacket(f.len)]
  <2> DEFINE p == At(curr, k)
             c == CHOOSE j \in B : At(curr, j) = p
  <2>1. p \in RingPages
    BY <1>3, AtFacts
  <2>2. c \in B /\ At(curr, c) = p
    OBVIOUS
  <2>3. c = k
    <3> HIDE DEF c
    <3>1. QED
      BY <1>3, <2>2, AtFacts
  <2>4. \E j \in B : At(curr, j) = p
    OBVIOUS
  <2>5. Written(f)[p] = [frame |-> f, part |-> c, next |-> NextPacket(f.len)]
    <3> HIDE DEF p
    <3>1. QED
      BY <1>4, <2>1, <2>4
  <2>6. QED
    BY <2>3, <2>5
<1>6. \A p \in RingPages : (\A k \in B : At(curr, k) # p) => Written(f)[p] = ring[p]
  BY <1>4
<1>7. DOMAIN Written(f) = RingPages
  BY <1>4
<1>8. QED
  BY <1>5, <1>6, <1>7 DEF B

LEMMA NeverRefused ==
    ASSUME TypeOK
    PROVE  ~Refused
<1>1. bnry \in 0 .. PageModulus - 1
  BY DEF TypeOK
<1>2. PageModulus \in Nat /\ PageModulus <= PStart * PageSize /\ PStart * PageSize \in Nat
  BY Dp8390Assumption
<1>3. QED
  BY <1>1, <1>2 DEF Refused

\* The types of what a reception changes.
LEMMA ReceiveTypes ==
    ASSUME TypeOK, curr \in RingPages, NEW f \in Frame, Receive(f)
    PROVE  /\ curr' \in RingPages /\ curr' \in 0 .. PageModulus - 1
           /\ ring' = Written(f) /\ ring' \in [RingPages -> Page]
           /\ queue' = Append(queue, f) /\ queue' \in Seq(Frame)
           /\ spoilt' \in BOOLEAN
<1>1. f.len \in Lengths
  BY DEF Frame
<1>2. curr' \in RingPages /\ curr' \in 0 .. PageModulus - 1
  BY <1>1, NextPacketIsAt DEF Receive
<1>3. ring' = Written(f)
  BY NeverRefused DEF Receive
<1>4. ASSUME NEW p \in RingPages PROVE Written(f)[p] \in Page
  <2>1. CASE \E k \in Parts(f.len) : At(curr, k) = p
    <3>1. PICK k \in Parts(f.len) : At(curr, k) = p
      BY <2>1
    <3>2. Written(f)[p] = [frame |-> f, part |-> k, next |-> NextPacket(f.len)]
      BY <3>1, WrittenFacts
    <3>3. k \in Nat
      BY <1>1, CostFacts
    <3>4. NextPacket(f.len) \in 0 .. PageModulus - 1
      BY <1>1, NextPacketIsAt
    <3>5. QED
      BY <3>2, <3>3, <3>4 DEF Page
  <2>2. CASE \A k \in Parts(f.len) : At(curr, k) # p
    <3>1. Written(f)[p] = ring[p]
      BY <2>2, WrittenFacts
    <3>2. ring[p] \in Page
      BY DEF TypeOK
    <3>3. QED
      BY <3>1, <3>2
  <2>3. QED
    BY <2>1, <2>2
<1>5. Written(f) \in [RingPages -> Page]
  <2>1. Written(f) = [p \in RingPages |-> Written(f)[p]]
    BY DEF Written
  <2>2. QED
    BY <1>4, <2>1
<1>6. queue' = Append(queue, f) /\ queue' \in Seq(Frame)
  BY DEF Receive, TypeOK
<1>7. spoilt' \in BOOLEAN
  BY DEF Receive, TypeOK
<1>8. QED
  BY <1>2, <1>3, <1>5, <1>6, <1>7

\* A reception that spoils nothing: the frame fits between CURR and the
\* driver's position.
LEMMA FrameFits ==
    ASSUME TypeOK, curr \in RingPages, want \in RingPages, NEW f \in Frame, Receive(f),
           ~spoilt', NEW D, Measures(D, queue, want, curr, ring)
    PROVE  D[Len(queue) + 1] + Cost(f.len) < W
<1> DEFINE n == Len(queue)
           d == D[n + 1]
           C == Cost(f.len)
<1>1. /\ C \in Nat \ {0} /\ C < W /\ Claimed(f.len) = 0 .. C - 1 /\ f.len \in Lengths
  BY CostFacts DEF Frame
<1>2. n \in Nat /\ queue \in Seq(Frame) /\ W \in Nat
  BY RingFacts, LenProperties DEF TypeOK
<1>3. d \in Nat /\ d < W /\ At(want, d) = curr
  BY <1>2 DEF Measures
<1>4. /\ \A k \in 0 .. C - 1 : At(curr, k) \notin Unread
      /\ At(curr, C) # want
  <2>1. \A k : PageAt(k) = At(curr, k)
    BY DEF PageAt, At, W
  <2>2. NextPacket(f.len) = At(curr, C)
    BY <1>1, NextPacketIsAt
  <2>3. /\ ~\E k \in Claimed(f.len) : PageAt(k) \in Unread
        /\ NextPacket(f.len) # want
    BY DEF Receive
  <2>4. QED
    BY <1>1, <2>1, <2>2, <2>3
<1>5. CASE queue = <<>>
  <2>1. n = 0
    BY <1>5
  <2>2. d = 0
    BY <2>1 DEF Measures
  <2>3. QED
    BY <1>1, <2>2
<1>6. CASE queue # <<>>
  <2> SUFFICES ASSUME ~(d + C < W) PROVE FALSE
    OBVIOUS
  <2> DEFINE k == W - d
  <2>1. k \in Nat /\ k <= C /\ d + k = W
    BY <1>1, <1>2, <1>3
  <2>2. At(curr, k) = want
    <3>1. At(At(want, d), k) = At(want, d + k) /\ At(want, W) = want
      <4> HIDE DEF d, k
      <4>1. QED
        BY <1>3, <2>1, AtFacts
    <3>2. QED
      BY <1>3, <2>1, <3>1
  <2>3. want \in Unread
    BY <1>6, RingFacts DEF Unread, RingPages
  <2>4. k # C
    BY <1>4, <2>2
  <2>5. k \in 0 .. C - 1
    BY <1>1, <2>1, <2>4
  <2>6. QED
    BY <1>4, <2>2, <2>3, <2>5
<1>7. QED
  BY <1>5, <1>6

LEMMA ReceiveLaid ==
    ASSUME TypeOK, curr \in RingPages, Laid, NEW f \in Frame, Receive(f), want' = want,
           ~spoilt'
    PROVE  Laid'
<1> DEFINE n == Len(queue)
           C == Cost(f.len)
<1>1. want \in RingPages
  BY DEF Laid
<1>2. PICK D : Measures(D, queue, want, curr, ring)
  BY DEF Laid
<1> DEFINE d == D[n + 1]
           E == [i \in 1 .. n + 2 |-> IF i = n + 2 THEN d + C ELSE D[i]]
<1>3. n \in Nat /\ queue \in Seq(Frame) /\ W \in Nat
  BY RingFacts, LenProperties DEF TypeOK
<1>4. /\ f.len \in Lengths /\ C \in Nat \ {0} /\ C < W
      /\ \A k \in Parts(f.len) : k \in Nat /\ k < C
  <2>1. f.len \in Lengths
    BY DEF Frame
  <2>2. C \in Nat \ {0} /\ C < W /\ Parts(f.len) \subseteq 0 .. C - 1
    BY <2>1, CostFacts
  <2>3. QED
    BY <2>1, <2>2
<1>5. d + C < W
  BY <1>1, <1>2, FrameFits
<1>6. /\ D \in [1 .. n + 1 -> Nat] /\ D[1] = 0
      /\ \A i \in 1 .. n : D[i + 1] = D[i] + Cost(queue[i].len)
      /\ \A i, j \in 1 .. n + 1 : i <= j => D[i] <= D[j]
      /\ d < W /\ At(want, d) = curr /\ d \in Nat
      /\ \A i \in 1 .. n : \A k \in Parts(queue[i].len) :
            ring[At(want, D[i] + k)] =
               [frame |-> queue[i], part |-> k, next |-> At(want, D[i + 1])]
  BY <1>2, <1>3 DEF Measures
<1>7. /\ ring' = Written(f) /\ queue' \in Seq(Frame) /\ Len(queue') = n + 1
      /\ queue'[n + 1] = f /\ \A i \in 1 .. n : queue'[i] = queue[i]
  <2>1. queue' = Append(queue, f) /\ ring' = Written(f)
    BY ReceiveTypes
  <2>2. QED
    BY <1>3, <2>1, AppendProperties
<1> HIDE DEF n, C, d
<1>8. /\ E \in [1 .. n + 2 -> Nat] /\ E[n + 2] = d + C
      /\ \A i \in 1 .. n + 1 : E[i] = D[i]
  BY <1>3, <1>4, <1>6
<1>9. \A k \in Nat : At(curr, k) = At(want, d + k)
  BY <1>1, <1>6, AtFacts
<1>10. NextPacket(f.len) = At(want, d + C) /\ curr' = NextPacket(f.len)
  <2>1. NextPacket(f.len) = At(curr, C)
    BY <1>4, NextPacketIsAt DEF C
  <2>2. QED
    BY <1>4, <1>9, <2>1 DEF Receive
<1> HIDE DEF E
<1>11. ASSUME NEW i \in 1 .. n, NEW k \in Parts(queue[i].len)
       PROVE  ring'[At(want, D[i] + k)] =
                 [frame |-> queue[i], part |-> k, next |-> At(want, D[i + 1])]
  <2>1. queue[i] \in Frame
    BY <1>3, ElementOfSeq DEF n
  <2>2. queue[i].len \in Lengths
    BY <2>1 DEF Frame
  <2>3. k \in Nat /\ Cost(queue[i].len) \in Nat /\ k < Cost(queue[i].len)
    <3>1. Cost(queue[i].len) \in Nat /\ Parts(queue[i].len) \subseteq 0 .. Cost(queue[i].len) - 1
      BY <2>2, CostFacts
    <3>2. QED
      BY <3>1
  <2>4. D[i] \in Nat /\ D[i + 1] \in Nat /\ D[i + 1] = D[i] + Cost(queue[i].len)
    BY <1>3, <1>6
  <2>5. D[i + 1] <= d
    <3>1. i + 1 \in 1 .. n + 1 /\ n + 1 \in 1 .. n + 1 /\ i + 1 <= n + 1
      BY <1>3
    <3>2. QED
      BY <1>6, <3>1 DEF d, n
  <2> DEFINE o == D[i] + k
  <2>6. o \in Nat /\ o < d
    BY <1>6, <2>3, <2>4, <2>5
  <2> HIDE DEF o
  <2>7. At(want, o) \in RingPages
    BY <1>1, <2>6, AtFacts
  <2>8. \A j \in Parts(f.len) : At(curr, j) # At(want, o)
    <3> SUFFICES ASSUME NEW j \in Parts(f.len) PROVE At(curr, j) # At(want, o)
      OBVIOUS
    <3>1. j \in Nat /\ j < C /\ At(curr, j) = At(want, d + j)
      BY <1>4, <1>9
    <3>2. d + j \in Nat /\ d + j < W /\ o < W /\ d + j # o
      BY <1>3, <1>4, <1>5, <1>6, <2>6, <3>1 DEF C, d, n
    <3>3. QED
      BY <1>1, <2>6, <3>1, <3>2, AtFacts
  <2>9. ring'[At(want, o)] = ring[At(want, o)]
    BY <1>7, <2>7, <2>8, WrittenFacts
  <2>10. QED
    BY <1>6, <2>9 DEF o
<1>12. ASSUME NEW k \in Parts(f.len)
       PROVE  ring'[At(want, d + k)] =
                 [frame |-> f, part |-> k, next |-> At(want, d + C)]
  <2>1. k \in Nat /\ At(curr, k) = At(want, d + k)
    BY <1>4, <1>9
  <2>2. QED
    BY <1>7, <1>10, <1>12, <2>1, WrittenFacts
<1>13. Measures(E, queue', want, curr', ring')
  <2>1. E \in [1 .. (n + 1) + 1 -> Nat] /\ E[1] = 0 /\ E[(n + 1) + 1] = d + C
    <3>1. (n + 1) + 1 = n + 2 /\ 1 \in 1 .. n + 1
      BY <1>3
    <3>2. QED
      BY <1>6, <1>8, <3>1
  <2>2. ASSUME NEW i \in 1 .. n + 1 PROVE E[i + 1] = E[i] + Cost(queue'[i].len)
    <3>1. CASE i \in 1 .. n
      <4>1. i + 1 \in 1 .. n + 1
        BY <1>3, <3>1
      <4>2. QED
        BY <1>6, <1>7, <1>8, <3>1, <4>1
    <3>2. CASE i = n + 1
      <4>1. i + 1 = n + 2 /\ queue'[i] = f
        BY <1>3, <1>7, <3>2
      <4>2. E[i] = d
        BY <1>8, <3>2 DEF d
      <4>3. QED
        BY <1>8, <4>1, <4>2 DEF C
    <3>3. QED
      BY <1>3, <3>1, <3>2
  <2>3. ASSUME NEW i \in 1 .. (n + 1) + 1, NEW j \in 1 .. (n + 1) + 1, i <= j
        PROVE  E[i] <= E[j]
    <3>1. CASE j \in 1 .. n + 1
      <4>1. i \in 1 .. n + 1
        BY <1>3, <2>3, <3>1
      <4>2. QED
        BY <1>6, <1>8, <2>3, <3>1, <4>1
    <3>2. CASE j = n + 2 /\ i \in 1 .. n + 1
      <4>1. n + 1 \in 1 .. n + 1 /\ i <= n + 1
        BY <1>3, <3>2
      <4>2. D[i] <= d
        BY <1>6, <3>2, <4>1 DEF d, n
      <4>3. D[i] \in Nat
        BY <1>6, <3>2
      <4>4. QED
        BY <1>4, <1>6, <1>8, <3>2, <4>2, <4>3 DEF C
    <3>3. CASE j = n + 2 /\ i = n + 2
      BY <1>4, <1>6, <1>8, <3>3 DEF C
    <3>4. QED
      BY <1>3, <3>1, <3>2, <3>3
  <2>4. ASSUME NEW i \in 1 .. n + 1, NEW k \in Parts(queue'[i].len)
        PROVE  ring'[At(want, E[i] + k)] =
                  [frame |-> queue'[i], part |-> k, next |-> At(want, E[i + 1])]
    <3>1. CASE i \in 1 .. n
      <4>1. i + 1 \in 1 .. n + 1 /\ queue'[i] = queue[i]
        BY <1>3, <1>7, <3>1
      <4>2. E[i] = D[i] /\ E[i + 1] = D[i + 1]
        BY <1>8, <4>1
      <4>3. QED
        BY <1>11, <2>4, <3>1, <4>1, <4>2
    <3>2. CASE i = n + 1
      <4>1. i + 1 = n + 2 /\ queue'[i] = f
        BY <1>3, <1>7, <3>2
      <4>2. E[i] = d /\ E[i + 1] = d + C
        BY <1>8, <3>2, <4>1 DEF d
      <4>3. QED
        BY <1>12, <2>4, <4>1, <4>2
    <3>3. QED
      BY <1>3, <3>1, <3>2
  <2>5. QED
    BY <1>5, <1>7, <1>10, <2>1, <2>2, <2>3, <2>4 DEF Measures, C, d, n
<1>14. QED
  BY <1>1, <1>13 DEF Laid

\* The driver moves on to where the header of its frame points.
LEMMA ReadLaid ==
    ASSUME TypeOK, curr \in RingPages, Laid, ReadFrame
    PROVE  Laid'
<1> DEFINE n == Len(queue)
<1>1. want \in RingPages /\ queue # <<>> /\ curr' = curr /\ ring' = ring
  BY DEF Laid, ReadFrame
<1>2. PICK D : Measures(D, queue, want, curr, ring)
  BY DEF Laid
<1> DEFINE e == D[2]
           E == [i \in 1 .. n |-> D[i + 1] - e]
<1>3. /\ n \in Nat \ {0} /\ queue \in Seq(Frame) /\ W \in Nat
      /\ queue' \in Seq(Frame) /\ Len(queue') = n - 1
      /\ \A i \in 1 .. n - 1 : queue'[i] = queue[i + 1]
  <2>1. queue \in Seq(Frame) /\ queue' = Tail(queue)
    BY DEF TypeOK, ReadFrame
  <2>2. n \in Nat \ {0}
    BY <1>1, <2>1, EmptySeq, LenProperties
  <2>3. QED
    BY <1>1, <2>1, <2>2, RingFacts, HeadTailProperties
<1>4. /\ D \in [1 .. n + 1 -> Nat] /\ D[1] = 0
      /\ \A i \in 1 .. n : D[i + 1] = D[i] + Cost(queue[i].len)
      /\ \A i, j \in 1 .. n + 1 : i <= j => D[i] <= D[j]
      /\ D[n + 1] < W /\ At(want, D[n + 1]) = curr
      /\ \A i \in 1 .. n : \A k \in Parts(queue[i].len) :
            ring[At(want, D[i] + k)] =
               [frame |-> queue[i], part |-> k, next |-> At(want, D[i + 1])]
  BY <1>2 DEF Measures
<1> HIDE DEF n
<1>5. e \in Nat
  BY <1>3, <1>4
<1>6. want' = At(want, e)
  <2>1. 1 \in 1 .. n
    BY <1>3
  <2>2. 0 \in Parts(queue[1].len)
    <3>1. queue[1] \in Frame
      BY <1>3, <2>1, ElementOfSeq DEF n
    <3>2. QED
      BY <3>1, CostFacts DEF Frame
  <2>3. ring[At(want, D[1] + 0)] =
           [frame |-> queue[1], part |-> 0, next |-> At(want, D[1 + 1])]
    BY <1>4, <2>1, <2>2
  <2>4. At(want, D[1] + 0) = want
    <3>1. At(want, 0) = want
      BY <1>1, AtFacts
    <3>2. QED
      BY <1>4, <3>1
  <2>5. ring[want].next = At(want, e)
    BY <2>3, <2>4
  <2>6. QED
    BY <2>5 DEF ReadFrame
<1> HIDE DEF e
<1>7. want' \in RingPages /\ \A x \in Nat : At(want', x) = At(want, e + x)
  BY <1>1, <1>5, <1>6, AtFacts
<1>8. ASSUME NEW i \in 1 .. n
      PROVE  /\ i + 1 \in 1 .. n + 1 /\ D[i + 1] \in Nat /\ e <= D[i + 1]
             /\ E[i] = D[i + 1] - e /\ E[i] \in Nat /\ e + E[i] = D[i + 1]
  <2>1. i + 1 \in 1 .. n + 1 /\ 2 \in 1 .. n + 1 /\ 2 <= i + 1
    BY <1>3
  <2>2. D[i + 1] \in Nat /\ e <= D[i + 1]
    BY <1>4, <2>1 DEF e
  <2>3. QED
    BY <1>5, <2>1, <2>2
<1> HIDE DEF E
<1>9. E \in [1 .. n -> Nat]
  BY <1>8 DEF E
<1>10. Measures(E, queue', want', curr, ring)
  <2>1. /\ (n - 1) + 1 = n /\ 1 \in 1 .. n /\ n \in 1 .. n
        /\ \A i \in 1 .. n - 1 : i \in 1 .. n /\ i + 1 \in 1 .. n
    BY <1>3
  <2>2. E[1] = 0
    <3>1. E[1] = D[1 + 1] - e
      BY <1>8, <2>1
    <3>2. QED
      BY <1>5, <3>1 DEF e
  <2>3. ASSUME NEW i \in 1 .. n - 1 PROVE E[i + 1] = E[i] + Cost(queue'[i].len)
    <3>1. D[(i + 1) + 1] = D[i + 1] + Cost(queue[i + 1].len)
      BY <1>4, <2>1
    <3>2. queue'[i] = queue[i + 1]
      BY <1>3
    <3>3. Cost(queue[i + 1].len) \in Nat
      <4>1. queue[i + 1] \in Frame
        BY <1>3, <2>1, ElementOfSeq DEF n
      <4>2. QED
        BY <4>1, CostFacts DEF Frame
    <3>4. E[i + 1] = D[(i + 1) + 1] - e /\ E[i] = D[i + 1] - e /\ D[i + 1] \in Nat
      BY <1>8, <2>1
    <3>5. QED
      BY <1>5, <3>1, <3>2, <3>3, <3>4
  <2>4. ASSUME NEW i \in 1 .. n, NEW j \in 1 .. n, i <= j PROVE E[i] <= E[j]
    <3>1. i + 1 \in 1 .. n + 1 /\ j + 1 \in 1 .. n + 1 /\ i + 1 <= j + 1
      BY <1>3, <2>4
    <3>2. D[i + 1] <= D[j + 1]
      BY <1>4, <3>1
    <3>3. QED
      BY <1>5, <1>8, <3>2
  <2>5. E[n] < W /\ At(want', E[n]) = curr
    <3>1. E[n] \in Nat /\ e + E[n] = D[n + 1] /\ D[n + 1] \in Nat
      BY <1>8, <2>1
    <3>2. E[n] < W
      BY <1>3, <1>4, <1>5, <3>1
    <3>3. At(want', E[n]) = At(want, D[n + 1])
      BY <1>7, <3>1
    <3>4. QED
      BY <1>4, <3>2, <3>3
  <2>6. ASSUME NEW i \in 1 .. n - 1, NEW k \in Parts(queue'[i].len)
        PROVE  ring[At(want', E[i] + k)] =
                  [frame |-> queue'[i], part |-> k, next |-> At(want', E[i + 1])]
    <3>1. queue'[i] = queue[i + 1] /\ i + 1 \in 1 .. n /\ i \in 1 .. n
      BY <1>3, <2>1
    <3>2. k \in Parts(queue[i + 1].len)
      BY <2>6, <3>1
    <3>3. k \in Nat
      <4>1. queue[i + 1] \in Frame
        BY <1>3, <3>1, ElementOfSeq DEF n
      <4>2. QED
        BY <3>2, <4>1, CostFacts DEF Frame
    <3>4. /\ E[i] \in Nat /\ e + E[i] = D[i + 1] /\ D[i + 1] \in Nat
          /\ E[i + 1] \in Nat /\ e + E[i + 1] = D[(i + 1) + 1]
      BY <1>8, <3>1
    <3>5. E[i] + k \in Nat /\ e + (E[i] + k) = D[i + 1] + k
      BY <1>5, <3>3, <3>4
    <3>6. At(want', E[i] + k) = At(want, D[i + 1] + k)
      BY <1>7, <3>5
    <3>7. At(want', E[i + 1]) = At(want, D[(i + 1) + 1])
      BY <1>7, <3>4
    <3>8. ring[At(want, D[i + 1] + k)] =
             [frame |-> queue[i + 1], part |-> k, next |-> At(want, D[(i + 1) + 1])]
      BY <1>4, <3>1, <3>2
    <3>9. QED
      BY <3>1, <3>6, <3>7, <3>8
  <2>7. QED
    BY <1>3, <1>9, <2>1, <2>2, <2>3, <2>4, <2>5, <2>6 DEF Measures
<1>11. QED
  BY <1>1, <1>7, <1>10 DEF Laid
-----------------------------------------------------------------------------
(* The invariant.                                                          *)

LEMMA Initially ==
    ASSUME Init
    PROVE  IInv
<1>1. curr \in RingPages /\ want = PStart /\ curr = PStart /\ queue = <<>>
  BY RingFacts DEF Init, RingPages
<1>2. curr \in 0 .. PageModulus - 1
  BY <1>1, RingFacts
<1>3. TypeOK
  <2>1. Blank \in Page
    <3>1. 0 \in 0 .. PageModulus - 1
      BY RingFacts
    <3>2. QED
      BY <3>1 DEF Blank, Page
  <2>2. ring \in [RingPages -> Page]
    BY <2>1 DEF Init
  <2>3. bnry \in 0 .. PageModulus - 1 /\ want \in 0 .. PageModulus - 1
    BY <1>1, <1>2 DEF Init
  <2>4. isr \in SUBSET Bits /\ imr \in SUBSET {"PRX", "PTX", "RDC"}
    BY DEF Init
  <2>5. irq \in BOOLEAN /\ spoilt \in BOOLEAN
    BY DEF Init
  <2>6. queue \in Seq(Frame)
    BY <1>1
  <2>7. QED
    BY <1>2, <2>2, <2>3, <2>4, <2>5, <2>6 DEF TypeOK
<1>4. Laid
  <2> DEFINE D == [i \in 1 .. 1 |-> 0]
  <2>1. Len(queue) = 0 /\ W \in Nat \ {0}
    BY <1>1, RingFacts
  <2>2. At(want, 0) = curr
    BY <1>1, AtFacts
  <2>3. Measures(D, queue, want, curr, ring)
    BY <2>1, <2>2 DEF Measures
  <2> HIDE DEF D
  <2>4. QED
    BY <1>1, <2>3 DEF Laid
<1>5. QED
  BY <1>1, <1>3, <1>4 DEF IInv

\* A step that leaves the ring alone.
LEMMA RingUntouched ==
    ASSUME IInv, UNCHANGED <<curr, bnry, ring, queue, want, spoilt>>,
           isr' \in SUBSET Bits, imr' \in SUBSET {"PRX", "PTX", "RDC"}, irq' \in BOOLEAN
    PROVE  IInv'
<1>1. TypeOK'
  BY DEF IInv, TypeOK
<1>2. QED
  BY <1>1 DEF IInv, Laid

LEMMA ReceiveStep ==
    ASSUME IInv, NEW f \in Frame, Receive(f), UNCHANGED <<imr, bnry, want>>,
           isr' \in SUBSET Bits, irq' \in BOOLEAN
    PROVE  IInv'
<1>1. TypeOK /\ curr \in RingPages
  BY DEF IInv
<1>2. TypeOK' /\ curr' \in RingPages
  <2>1. /\ curr' \in RingPages /\ curr' \in 0 .. PageModulus - 1
        /\ ring' \in [RingPages -> Page] /\ queue' \in Seq(Frame) /\ spoilt' \in BOOLEAN
    BY <1>1, ReceiveTypes
  <2>2. QED
    BY <1>1, <2>1 DEF TypeOK
<1>3. ASSUME ~spoilt' PROVE Laid'
  <2>1. ~spoilt
    BY <1>3 DEF Receive
  <2>2. Laid
    BY <2>1 DEF IInv
  <2>3. QED
    BY <1>1, <1>3, <2>2, ReceiveLaid
<1>4. QED
  BY <1>2, <1>3 DEF IInv

LEMMA ReadStep ==
    ASSUME IInv, ReadFrame
    PROVE  IInv'
<1>1. TypeOK /\ curr \in RingPages /\ curr' = curr
  BY DEF IInv, ReadFrame
<1>2. TypeOK'
  <2>1. want' \in 0 .. PageModulus - 1
    <3>1. want' = ring[want].next /\ ring[want] \in Page
      BY <1>1 DEF ReadFrame, TypeOK
    <3>2. QED
      BY <3>1 DEF Page
  <2>2. bnry' \in 0 .. PageModulus - 1
    <3>1. PStop - 1 \in 0 .. PageModulus - 1 /\ PageModulus \in Nat \ {0}
      BY RingFacts
    <3>2. want' - 1 \in Int
      BY <2>1
    <3>3. (want' - 1) % PageModulus \in 0 .. PageModulus - 1
      BY <3>1, <3>2
    <3>4. QED
      BY <3>1, <3>3 DEF ReadFrame
  <2>3. queue' \in Seq(Frame)
    BY <1>1, HeadTailProperties DEF ReadFrame, TypeOK
  <2>4. QED
    BY <1>1, <2>1, <2>2, <2>3 DEF ReadFrame, TypeOK
<1>3. ASSUME ~spoilt' PROVE Laid'
  <2>1. Laid
    BY <1>3 DEF IInv, ReadFrame
  <2>2. QED
    BY <1>1, <2>1, ReadLaid
<1>4. QED
  BY <1>1, <1>2, <1>3 DEF IInv

LEMMA StepKeepsIInv ==
    ASSUME IInv, [Next]_vars
    PROVE  IInv'
<1>1. isr \in SUBSET Bits /\ imr \in SUBSET {"PRX", "PTX", "RDC"} /\ irq \in BOOLEAN
  BY DEF IInv, TypeOK
<1>2. ASSUME NEW f \in Frame, dp8390_execute(f) PROVE IInv'
  <2>1. Receive(f) /\ UNCHANGED <<imr, bnry, want>>
    BY <1>2 DEF dp8390_execute
  <2>2. isr' \in SUBSET Bits
    BY <1>1, <1>2 DEF dp8390_execute, Bits
  <2>3. irq' \in BOOLEAN
    BY <1>2 DEF dp8390_execute
  <2>4. QED
    BY <2>1, <2>2, <2>3, ReceiveStep
<1>3. ASSUME NEW stop \in BOOLEAN, NEW start \in BOOLEAN, NEW txp \in BOOLEAN,
             NEW dma \in BOOLEAN, NEW f \in Frame \cup {NoFrame},
             cr_write(stop, start, txp, dma, f)
      PROVE  IInv'
  <2>1. isr' \in SUBSET Bits
    BY <1>1, <1>3 DEF cr_write, Bits
  <2>2. irq' \in BOOLEAN
    BY <1>3 DEF cr_write
  <2>3. UNCHANGED <<imr, bnry, want>>
    BY <1>3 DEF cr_write
  <2>4. CASE f = NoFrame
    <3>1. UNCHANGED <<ring, curr, queue, spoilt>>
      BY <1>3, <2>4 DEF cr_write
    <3>2. QED
      BY <1>1, <2>1, <2>2, <2>3, <3>1, RingUntouched
  <2>5. CASE f # NoFrame
    <3>1. Receive(f) /\ f \in Frame
      BY <1>3, <2>5 DEF cr_write
    <3>2. QED
      BY <2>1, <2>2, <2>3, <3>1, ReceiveStep
  <2>6. QED
    BY <2>4, <2>5
<1>4. ASSUME NEW clear, isr_write(clear) PROVE IInv'
  BY <1>1, <1>4, RingUntouched DEF isr_write
<1>5. ASSUME NEW mask \in Masks, imr_write(mask) PROVE IInv'
  <2>1. mask \in SUBSET {"PRX", "PTX", "RDC"}
    BY Dp8390Assumption
  <2>2. QED
    BY <1>1, <1>5, <2>1, RingUntouched DEF imr_write
<1>6. CASE reset_write
  <2>1. isr' \in SUBSET Bits
    BY <1>1, <1>6 DEF reset_write, Bits
  <2>2. QED
    BY <1>1, <1>6, <2>1, RingUntouched DEF reset_write
<1>7. CASE ReadFrame
  BY <1>7, ReadStep
<1>8. CASE UNCHANGED vars
  BY <1>1, <1>8, RingUntouched DEF vars
<1>9. QED
  BY <1>2, <1>3, <1>4, <1>5, <1>6, <1>7, <1>8 DEF Next

\* The types, CURR inside the ring, and the unread frames laid out one after
\* the other, for any number of receptions, reads and register writes.
THEOREM Invariance == Spec => []IInv
<1>1. Init => IInv
  BY Initially
<1>2. IInv /\ [Next]_vars => IInv'
  BY StepKeepsIInv
<1>3. QED
  BY <1>1, <1>2, PTL DEF Spec

\* The registers keep their eight bits and the pages their shape.
THEOREM TypeCorrect == Spec => []TypeOK
<1>1. IInv => TypeOK
  BY DEF IInv
<1>2. QED
  BY <1>1, Invariance, PTL

\* The layout gives the chain of next-page pointers.
LEMMA LaidIsChain ==
    ASSUME IInv
    PROVE  ChainIntact
<1>1. curr \in RingPages
  BY DEF IInv
<1>2. CASE spoilt
  BY <1>1, <1>2 DEF ChainIntact
<1>3. CASE ~spoilt
  <2> DEFINE n == Len(queue)
             Solves(g) == g = [i \in 1 .. n + 1 |->
                                 IF i = 1 THEN want ELSE ring[g[i - 1]].next]
             start == CHOOSE g : Solves(g)
  <2>1. want \in RingPages /\ TypeOK
    BY <1>3 DEF IInv, Laid
  <2>2. PICK D : Measures(D, queue, want, curr, ring)
    BY <1>3 DEF IInv, Laid
  <2>3. n \in Nat /\ queue \in Seq(Frame)
    BY <2>1, LenProperties DEF TypeOK
  <2>4. /\ D \in [1 .. n + 1 -> Nat] /\ D[1] = 0
        /\ \A i \in 1 .. n : D[i + 1] = D[i] + Cost(queue[i].len)
        /\ \A i, j \in 1 .. n + 1 : i <= j => D[i] <= D[j]
        /\ D[n + 1] < W /\ At(want, D[n + 1]) = curr
        /\ \A i \in 1 .. n : \A k \in Parts(queue[i].len) :
              ring[At(want, D[i] + k)] =
                 [frame |-> queue[i], part |-> k, next |-> At(want, D[i + 1])]
    BY <2>2 DEF Measures
  <2>5. ASSUME NEW i \in 1 .. n
        PROVE  /\ queue[i].len \in Lengths /\ 0 \in Parts(queue[i].len)
               /\ Parts(queue[i].len) \subseteq Nat /\ Cost(queue[i].len) \in Nat \ {0}
    <3>1. queue[i].len \in Lengths
      <4>1. queue[i] \in Frame
        BY <2>3, ElementOfSeq
      <4>2. QED
        BY <4>1 DEF Frame
    <3>2. QED
      BY <3>1, CostFacts
  <2>6. \A i \in 1 .. n + 1 : D[i] \in Nat
    BY <2>4
  <2>7. \A i \in 1 .. n : ring[At(want, D[i])].next = At(want, D[i + 1])
    <3> SUFFICES ASSUME NEW i \in 1 .. n
                 PROVE  ring[At(want, D[i])].next = At(want, D[i + 1])
      OBVIOUS
    <3>1. ring[At(want, D[i] + 0)] =
             [frame |-> queue[i], part |-> 0, next |-> At(want, D[i + 1])]
      BY <2>4, <2>5
    <3>2. D[i] + 0 = D[i]
      BY <2>3, <2>6
    <3>3. QED
      BY <3>1, <3>2
  <2>8. At(want, D[1]) = want
    BY <2>1, <2>4, AtFacts
  <2> HIDE DEF n
  <2>9. \E g : Solves(g)
    <3> DEFINE h == [i \in 1 .. n + 1 |-> At(want, D[i])]
               r == [i \in 1 .. n + 1 |-> IF i = 1 THEN want ELSE ring[h[i - 1]].next]
    <3>1. ASSUME NEW i \in 1 .. n + 1 PROVE h[i] = r[i]
      <4>1. CASE i = 1
        BY <2>8, <4>1
      <4>2. CASE i # 1
        <5>1. i - 1 \in 1 .. n /\ i - 1 \in 1 .. n + 1 /\ (i - 1) + 1 = i
          BY <2>3, <4>2
        <5>2. ring[At(want, D[i - 1])].next = At(want, D[i])
          BY <2>7, <5>1
        <5>3. QED
          BY <4>2, <5>1, <5>2
      <4>3. QED
        BY <4>1, <4>2
    <3>2. h = r
      BY <3>1
    <3>3. Solves(h)
      BY <3>2
    <3> HIDE DEF Solves, h
    <3>4. QED
      BY <3>3
  <2>10. Solves(start)
    <3> HIDE DEF Solves
    <3>1. QED
      BY <2>9
  <2> HIDE DEF start
  <2>11. /\ start[1] = want
         /\ \A i \in 1 .. n : start[i + 1] = ring[start[i]].next
    <3>1. 1 \in 1 .. n + 1
      BY <2>3
    <3>2. start[1] = want
      BY <2>10, <3>1
    <3>3. ASSUME NEW i \in 1 .. n PROVE start[i + 1] = ring[start[i]].next
      <4>1. i + 1 \in 1 .. n + 1 /\ i + 1 # 1 /\ (i + 1) - 1 = i
        BY <2>3
      <4>2. start[i + 1] = ring[start[(i + 1) - 1]].next
        BY <2>10, <4>1
      <4>3. QED
        BY <4>1, <4>2
    <3>4. QED
      BY <3>2, <3>3
  <2> HIDE DEF Solves
  <2>12. \A i \in 1 .. n + 1 : start[i] = At(want, D[i])
    <3> DEFINE T == {k \in 0 .. n : start[k + 1] = At(want, D[k + 1])}
    <3>1. 0 \in T
      BY <2>3, <2>8, <2>11
    <3>2. ASSUME NEW k \in Nat, k < n, k \in T PROVE k + 1 \in T
      <4>1. k + 1 \in 1 .. n /\ k + 1 \in 0 .. n
        BY <2>3, <3>2
      <4>2. start[(k + 1) + 1] = ring[start[k + 1]].next
        BY <2>11, <4>1
      <4>3. ring[At(want, D[k + 1])].next = At(want, D[(k + 1) + 1])
        BY <2>7, <4>1
      <4>4. QED
        BY <3>2, <4>1, <4>2, <4>3
    <3>3. 0 .. n \subseteq T
      <4> HIDE DEF T
      <4>1. QED
        BY <2>3, <3>1, <3>2, CountUp
    <3>4. ASSUME NEW i \in 1 .. n + 1 PROVE start[i] = At(want, D[i])
      <4>1. i - 1 \in 0 .. n /\ (i - 1) + 1 = i
        BY <2>3
      <4>2. i - 1 \in T
        BY <3>3, <4>1
      <4>3. QED
        BY <4>1, <4>2
    <3>5. QED
      BY <3>4
  <2>13. start[n + 1] = curr
    BY <2>3, <2>4, <2>12
  <2>14. want = curr <=> queue = <<>>
    <3>1. CASE queue = <<>>
      <4>1. n = 0
        BY <3>1 DEF n
      <4>2. QED
        BY <2>4, <2>8, <3>1, <4>1
    <3>2. CASE queue # <<>>
      <4>1. n \in Nat \ {0} /\ 1 \in 1 .. n /\ 2 \in 1 .. n + 1 /\ n + 1 \in 1 .. n + 1
        BY <2>3, <3>2, EmptySeq DEF n
      <4>2. D[2] = D[1] + Cost(queue[1].len) /\ Cost(queue[1].len) \in Nat \ {0}
        BY <2>4, <2>5, <4>1 DEF n
      <4>3. 2 <= n + 1
        BY <4>1
      <4>4. D[2] <= D[n + 1]
        BY <2>4, <4>1, <4>3
      <4>5. D[n + 1] \in Nat /\ D[2] \in Nat
        BY <2>6, <4>1
      <4>6. D[n + 1] # 0
        BY <2>4, <4>2, <4>4, <4>5
      <4>7. W \in Nat \ {0}
        BY RingFacts
      <4>8. At(want, 0) = want /\ (At(want, D[n + 1]) = At(want, 0) => D[n + 1] = 0)
        <5>1. /\ At(want, 0) = want
              /\ \A d, e \in Nat : d < W /\ e < W /\ At(want, d) = At(want, e) => d = e
          BY <2>1, AtFacts
        <5>2. 0 \in Nat /\ 0 < W
          BY <4>7
        <5>3. QED
          BY <2>4, <4>5, <5>1, <5>2
      <4>9. QED
        BY <2>4, <3>2, <4>6, <4>8
    <3>3. QED
      BY <3>1, <3>2
  <2>15. ASSUME NEW i \in 1 .. n, NEW k \in Parts(queue[i].len)
         PROVE  LET p == PStart + ((start[i] - PStart + k) % (PStop - PStart))
                IN ring[p].frame = queue[i] /\ ring[p].part = k
    <3>1. k \in Nat /\ D[i] \in Nat /\ i \in 1 .. n + 1
      BY <2>3, <2>5, <2>6, <2>15 DEF n
    <3>2. PStart + ((start[i] - PStart + k) % (PStop - PStart)) = At(start[i], k)
      BY DEF At, W
    <3>3. At(start[i], k) = At(want, D[i] + k)
      <4>1. start[i] = At(want, D[i])
        BY <2>12, <3>1
      <4>2. At(At(want, D[i]), k) = At(want, D[i] + k)
        <5>1. \A d, e \in Nat : At(At(want, d), e) = At(want, d + e)
          BY <2>1, AtFacts
        <5>2. QED
          BY <3>1, <5>1
      <4>3. QED
        BY <4>1, <4>2
    <3>4. ring[At(want, D[i] + k)] =
             [frame |-> queue[i], part |-> k, next |-> At(want, D[i + 1])]
      BY <2>4, <2>15
    <3>5. QED
      BY <3>2, <3>3, <3>4
  <2>16. QED
    BY <1>1, <2>13, <2>14, <2>15, Zenon DEF ChainIntact, start, Solves, n
<1>4. QED
  BY <1>2, <1>3

\* dp8390_execute's chain of next-page pointers leads the driver through what
\* arrived, frame by frame and page by page, on both sides of the wrap.
THEOREM ChainSafe == Spec => []ChainIntact
<1>1. IInv => ChainIntact
  BY LaidIsChain
<1>2. QED
  BY <1>1, Invariance, PTL
=============================================================================
