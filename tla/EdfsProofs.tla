----------------------------- MODULE EdfsProofs -----------------------------
(***************************************************************************)
(* Proofs about the cluster table of Edfs, for any names, any 8.3 form of  *)
(* them, any depth of the tree and any size of the table: a host path has  *)
(* one cluster, a cluster that was opened never stands for another file,   *)
(* and both columns of the table agree.                                    *)
(***************************************************************************)
EXTENDS Edfs, SequenceTheorems, WellFoundedInduction, TLAPS

\* The names of a path in the table, and its rows.
Parts == Names \cup Dots
Row == [path : Seq(Parts), path83 : Seq(Parts)]

\* The invariants of the table, for any table.
Sound(t) ==
    /\ t \in Seq(Row) /\ Len(t) \in 1 .. ClusterMax
    /\ \A i, j \in 1 .. Len(t) : t[i].path = t[j].path /\ t[i].path # Root => i = j
    /\ \A i \in 1 .. Len(t) : t[i].path83 = unixpath_to_path83(t[i].path)

\* What a request may do to the rows that are there: nothing, or empty them.
Evolves(t, u) ==
    /\ Len(t) <= Len(u)
    /\ \A i \in 1 .. Len(t) : u[i] = t[i] \/ u[i].path = Root

\* A row beyond the table has never been opened.
OpenedInTable ==
    /\ opened = [i \in 1 .. ClusterMax |-> opened[i]]
    /\ \A i \in 1 .. ClusterMax : opened[i] # NoPath => i <= Len(table)

IInv == Sound(table) /\ HandleStable /\ OpenedInTable
-----------------------------------------------------------------------------
(* Lemmas on numbers and sequences.                                        *)

\* A set of natural numbers that is not empty has a least element.
LEMMA LeastNumber ==
    ASSUME NEW T \in SUBSET Nat, T # {}
    PROVE  \E x \in T : \A y \in T : x <= y
<1> DEFINE R == {ss \in Nat \X Nat : ss[1] < ss[2]}
<1>1. IsWellFoundedOn(R, Nat)
  BY NatLessThanWellFounded DEF OpToRel
<1> HIDE DEF R
<1>2. PICK x \in T : \A y \in T : ~(<<y, x>> \in R)
  BY <1>1, WFMin
<1>3. \A y \in T : ~(y < x)
  BY <1>2 DEF R
<1>4. QED
  BY <1>2, <1>3

\* Induction over the numbers up to m, for a property given by its set.
LEMMA CountUp ==
    ASSUME NEW m \in Nat, NEW T, 0 \in T,
           \A k \in Nat : k < m /\ k \in T => k + 1 \in T
    PROVE  0 .. m \subseteq T
<1> SUFFICES ASSUME (0 .. m) \ T # {} PROVE FALSE
  OBVIOUS
<1>1. PICK x \in (0 .. m) \ T : \A y \in (0 .. m) \ T : x <= y
  <2>1. (0 .. m) \ T \in SUBSET Nat
    OBVIOUS
  <2>2. QED
    BY <2>1, LeastNumber
<1>2. x \in Nat /\ x # 0 /\ x <= m
  BY <1>1
<1>3. x - 1 \in 0 .. m /\ x - 1 \in Nat /\ x - 1 < m /\ ~(x <= x - 1)
  BY <1>2
<1>4. x - 1 \in T
  BY <1>1, <1>3
<1>5. (x - 1) + 1 \in T
  BY <1>3, <1>4
<1>6. (x - 1) + 1 = x
  BY <1>2
<1>7. QED
  BY <1>1, <1>5, <1>6

\* A path that is not the root is its directory and its last name.
LEMMA FrontLast ==
    ASSUME NEW S, NEW p \in Seq(S), p # <<>>
    PROVE  /\ Front(p) \in Seq(S) /\ Len(Front(p)) = Len(p) - 1
           /\ \A i \in 1 .. Len(p) - 1 : Front(p)[i] = p[i]
           /\ Last(p) = p[Len(p)] /\ Last(p) \in S
<1>1. Len(p) \in Nat \ {0} /\ Len(p) \in 1 .. Len(p)
  BY EmptySeq, LenProperties
<1>2. Front(p) = SubSeq(p, 1, Len(p) - 1) /\ Last(p) = p[Len(p)]
  BY DEF Front, Last
<1>3. 1 \in Int /\ Len(p) - 1 \in Int
  BY <1>1
<1>4. \A i \in 1 .. Len(p) : p[i] \in S
  BY ElementOfSeq
<1>5. \A i \in 1 .. Len(p) - 1 : p[i] \in S
  BY <1>1, <1>4
<1>6. /\ Front(p) \in Seq(S)
      /\ Len(Front(p)) = IF 1 <= Len(p) - 1 THEN (Len(p) - 1) - 1 + 1 ELSE 0
      /\ \A i \in 1 .. (Len(p) - 1) - 1 + 1 : Front(p)[i] = p[1 + i - 1]
  BY <1>2, <1>3, <1>5, SubSeqProperties
<1>7. Len(Front(p)) = Len(p) - 1
  <2>1. \A m \in Nat \ {0} : (IF 1 <= m - 1 THEN (m - 1) - 1 + 1 ELSE 0) = m - 1
    OBVIOUS
  <2>2. (IF 1 <= Len(p) - 1 THEN (Len(p) - 1) - 1 + 1 ELSE 0) = Len(p) - 1
    BY <1>1, <2>1
  <2>3. QED
    BY <1>6, <2>2
<1>8. \A i \in 1 .. Len(p) - 1 : Front(p)[i] = p[i]
  <2> SUFFICES ASSUME NEW i \in 1 .. Len(p) - 1 PROVE Front(p)[i] = p[i]
    OBVIOUS
  <2>1. i \in 1 .. (Len(p) - 1) - 1 + 1 /\ 1 + i - 1 = i
    BY <1>1
  <2>2. QED
    BY <1>6, <2>1
<1>9. QED
  BY <1>1, <1>2, <1>4, <1>6, <1>7, <1>8

\* The 8.3 form of a path, name by name.
LEMMA Convert ==
    ASSUME NEW p \in Seq(Parts)
    PROVE  /\ unixpath_to_path83(p) \in Seq(Parts)
           /\ Len(unixpath_to_path83(p)) = Len(p)
           /\ \A i \in 1 .. Len(p) :
                 unixpath_to_path83(p)[i] = IF p[i] \in Dots THEN p[i] ELSE Name83[p[i]]
<1>1. Len(p) \in Nat /\ DOMAIN p = 1 .. Len(p) /\ \A i \in 1 .. Len(p) : p[i] \in Parts
  BY LenProperties, ElementOfSeq
<1>2. unixpath_to_path83(p) =
         [i \in 1 .. Len(p) |-> IF p[i] \in Dots THEN p[i] ELSE Name83[p[i]]]
  BY <1>1 DEF unixpath_to_path83
<1>3. \A i \in 1 .. Len(p) : (IF p[i] \in Dots THEN p[i] ELSE Name83[p[i]]) \in Parts
  BY <1>1, EdfsAssumption DEF Parts
<1>4. unixpath_to_path83(p) \in [1 .. Len(p) -> Parts]
  BY <1>2, <1>3
<1>5. unixpath_to_path83(p) \in Seq(Parts)
  BY <1>1, <1>4
<1>6. DOMAIN unixpath_to_path83(p) = 1 .. Len(p)
  BY <1>4
<1>7. Len(unixpath_to_path83(p)) = Len(p)
  BY <1>1, <1>5, <1>6, LenProperties
<1>8. QED
  BY <1>2, <1>5, <1>7
-----------------------------------------------------------------------------
(* The operators of the table.                                             *)

\* The facts of EdfsAssumption about names.
LEMMA NameFacts ==
    /\ DosNames \subseteq Parts
    /\ \A n \in DosNames : n \notin Dots /\ Name83[n] = n
<1>1. DosNames \subseteq Names
  BY EdfsAssumption DEF DosNames
<1>2. \A n \in DosNames : Name83[n] = n
  BY EdfsAssumption DEF DosNames
<1>3. \A n \in Names : n \notin Dots
  BY EdfsAssumption
<1>4. QED
  BY <1>1, <1>2, <1>3 DEF Parts

\* A path of the client is a sequence of 8.3 names, and not the root.
LEMMA Path83Type ==
    ASSUME NEW q \in Paths83
    PROVE  /\ q \in Seq(DosNames) /\ q \in Seq(Parts) /\ q # Root
           /\ Len(q) \in Nat \ {0}
           /\ \A i \in 1 .. Len(q) : q[i] \in DosNames
<1>1. PICK d \in 1 .. MaxDepth : q \in [1 .. d -> DosNames]
  BY DEF Paths83
<1>2. d \in Nat /\ d # 0
  BY EdfsAssumption
<1>3. q \in Seq(DosNames)
  BY <1>1, <1>2
<1>4. \A i \in 1 .. d : q[i] \in Parts
  BY <1>1, NameFacts
<1>5. q \in [1 .. d -> Parts]
  BY <1>1, <1>4
<1>6. q \in Seq(Parts)
  BY <1>2, <1>5
<1>7. DOMAIN q = 1 .. d
  BY <1>1
<1>8. Len(q) = d
  BY <1>2, <1>3, <1>7, LenProperties
<1>9. q # Root
  BY <1>2, <1>3, <1>8, EmptySeq DEF Root
<1>10. QED
  BY <1>1, <1>2, <1>3, <1>6, <1>8, <1>9

\* The type of a table's rows.
LEMMA RowType ==
    ASSUME NEW t, Sound(t)
    PROVE  /\ Len(t) \in 1 .. ClusterMax /\ Len(t) \in Nat /\ DOMAIN t = 1 .. Len(t)
           /\ \A i \in 1 .. Len(t) : /\ t[i] \in Row /\ t[i].path \in Seq(Parts)
                                     /\ t[i].path83 \in Seq(Parts)
<1>1. t \in Seq(Row) /\ Len(t) \in 1 .. ClusterMax
  BY DEF Sound
<1>2. Len(t) \in Nat /\ DOMAIN t = 1 .. Len(t)
  BY <1>1, LenProperties
<1>3. \A i \in 1 .. Len(t) : t[i] \in Row
  BY <1>1, ElementOfSeq
<1>4. QED
  BY <1>1, <1>2, <1>3 DEF Row

\* A lookup finds nothing, or a row with the 8.3 path it looks for.
LEMMA LookupOK ==
    ASSUME NEW t, Sound(t), NEW p83
    PROVE  \/ edfs_cluster_lookup_83(t, p83) = 0 /\ p83 # Root
           \/ /\ edfs_cluster_lookup_83(t, p83) \in 1 .. Len(t)
              /\ p83 # Root => t[edfs_cluster_lookup_83(t, p83)].path83 = p83
<1> DEFINE hits == {i \in DOMAIN t : t[i].path83 = p83}
<1>1. DOMAIN t = 1 .. Len(t) /\ Len(t) \in Nat /\ 1 \in 1 .. Len(t)
  BY RowType
<1>2. edfs_cluster_lookup_83(t, p83) =
         IF p83 = Root THEN 1
         ELSE IF hits = {} THEN 0
         ELSE CHOOSE i \in hits : \A j \in hits : i <= j
  BY DEF edfs_cluster_lookup_83
<1>3. CASE p83 = Root
  BY <1>1, <1>2, <1>3
<1>4. CASE p83 # Root /\ hits = {}
  BY <1>2, <1>4
<1>5. CASE p83 # Root /\ hits # {}
  <2>1. hits \in SUBSET Nat
    BY <1>1
  <2>2. \E i \in hits : \A j \in hits : i <= j
    BY <1>5, <2>1, LeastNumber
  <2> HIDE DEF hits
  <2>3. edfs_cluster_lookup_83(t, p83) \in hits
    BY <1>2, <1>5, <2>2
  <2>4. QED
    BY <1>1, <2>3 DEF hits
<1>6. QED
  BY <1>3, <1>4, <1>5

\* The host path of a client's path has that path as its 8.3 form.
LEMMA ConvertOK ==
    ASSUME NEW t, Sound(t), NEW q \in Paths83
    PROVE  /\ path83_to_unixpath(t, q) \in Seq(Parts)
           /\ unixpath_to_path83(path83_to_unixpath(t, q)) = q
<1> DEFINE dir == edfs_cluster_lookup_83(t, Parent(q))
           up == PathOf(t, dir, Parent(q))
           n == Len(q)
<1>1. /\ q \in Seq(DosNames) /\ q \in Seq(Parts) /\ q # <<>> /\ n \in Nat \ {0}
      /\ \A i \in 1 .. n : q[i] \in DosNames
  BY Path83Type DEF Root
<1>2. /\ Parent(q) \in Seq(Parts) /\ Len(Parent(q)) = n - 1
      /\ \A i \in 1 .. n - 1 : Parent(q)[i] = q[i]
      /\ Last(q) = q[n]
  BY <1>1, FrontLast DEF Parent
<1>3. CASE dir = 0
  <2>1. path83_to_unixpath(t, q) = q
    BY <1>3 DEF path83_to_unixpath
  <2>2. /\ unixpath_to_path83(q) \in Seq(Parts) /\ Len(unixpath_to_path83(q)) = n
        /\ \A i \in 1 .. n :
              unixpath_to_path83(q)[i] = IF q[i] \in Dots THEN q[i] ELSE Name83[q[i]]
    BY <1>1, Convert
  <2>3. \A i \in 1 .. n : unixpath_to_path83(q)[i] = q[i]
    BY <1>1, <2>2, NameFacts
  <2>4. unixpath_to_path83(q) = q
    BY <1>1, <2>2, <2>3, SeqEqual
  <2>5. QED
    BY <1>1, <2>1, <2>4
<1>4. CASE dir # 0
  <2>1. up \in Seq(Parts) /\ unixpath_to_path83(up) = Parent(q)
    <3>1. CASE Parent(q) = Root
      <4>1. up = <<>> /\ up \in Seq(Parts)
        BY <3>1 DEF PathOf, Root
      <4>2. unixpath_to_path83(up) \in Seq(Parts) /\ Len(unixpath_to_path83(up)) = 0
        BY <4>1, Convert
      <4>3. unixpath_to_path83(up) = <<>>
        BY <4>2, EmptySeq
      <4>4. QED
        BY <3>1, <4>1, <4>3 DEF Root
    <3>2. CASE Parent(q) # Root
      <4>1. dir \in 1 .. Len(t) /\ t[dir].path83 = Parent(q)
        BY <1>4, <3>2, LookupOK
      <4>2. up = t[dir].path
        BY <3>2 DEF PathOf
      <4>3. t[dir].path83 = unixpath_to_path83(t[dir].path)
        BY <4>1 DEF Sound
      <4>4. QED
        BY <4>1, <4>2, <4>3, RowType
    <3>3. QED
      BY <3>1, <3>2
  <2> DEFINE x == Append(up, Last(q))
  <2>2. path83_to_unixpath(t, q) = x
    BY <1>4 DEF path83_to_unixpath
  <2> HIDE DEF up, dir
  <2>3. /\ Len(up) = n - 1
        /\ \A i \in 1 .. n - 1 : q[i] = IF up[i] \in Dots THEN up[i] ELSE Name83[up[i]]
    <3>1. Len(unixpath_to_path83(up)) = Len(up)
      BY <2>1, Convert
    <3>2. Len(up) = n - 1
      BY <1>2, <2>1, <3>1
    <3>3. \A i \in 1 .. n - 1 :
             unixpath_to_path83(up)[i] = IF up[i] \in Dots THEN up[i] ELSE Name83[up[i]]
      BY <2>1, <3>2, Convert
    <3>4. QED
      BY <1>2, <2>1, <3>2, <3>3
  <2>4. Last(q) \in Parts /\ Last(q) \in DosNames
    BY <1>1, <1>2, NameFacts
  <2>5. /\ x \in Seq(Parts) /\ Len(x) = n /\ x[n] = Last(q)
        /\ \A i \in 1 .. n - 1 : x[i] = up[i]
    <3>1. /\ x \in Seq(Parts) /\ Len(x) = Len(up) + 1 /\ x[Len(up) + 1] = Last(q)
          /\ \A i \in 1 .. Len(up) : x[i] = up[i]
      BY <2>1, <2>4, AppendProperties
    <3>2. Len(up) + 1 = n
      BY <1>1, <2>3
    <3>3. QED
      BY <2>3, <3>1, <3>2
  <2> HIDE DEF x
  <2>6. /\ unixpath_to_path83(x) \in Seq(Parts) /\ Len(unixpath_to_path83(x)) = n
        /\ \A i \in 1 .. n :
              unixpath_to_path83(x)[i] = IF x[i] \in Dots THEN x[i] ELSE Name83[x[i]]
    BY <2>5, Convert
  <2>7. \A i \in 1 .. n - 1 : unixpath_to_path83(x)[i] = q[i]
    BY <1>1, <2>3, <2>5, <2>6
  <2>8. unixpath_to_path83(x)[n] = q[n]
    BY <1>1, <1>2, <2>4, <2>5, <2>6, NameFacts
  <2>9. \A i \in 1 .. n : unixpath_to_path83(x)[i] = q[i]
    BY <1>1, <2>7, <2>8
  <2>10. unixpath_to_path83(x) = q
    BY <1>1, <2>6, <2>9, SeqEqual
  <2>11. QED
    BY <2>2, <2>5, <2>10
<1>5. QED
  BY <1>3, <1>4

\* A registration keeps the rows, and what it adds is sound.
LEMMA RegisterOK ==
    ASSUME NEW t, Sound(t), NEW p \in Seq(Parts), NEW p83, p83 = unixpath_to_path83(p)
    PROVE  LET u == edfs_cluster_register(t, p, p83)
           IN /\ Sound(u) /\ Len(t) <= Len(u)
              /\ \A i \in 1 .. Len(t) : u[i] = t[i]
<1> DEFINE u == edfs_cluster_register(t, p, p83)
           row == [path |-> p, path83 |-> p83]
           m == Len(t)
<1>1. m \in Nat /\ m \in 1 .. ClusterMax /\ DOMAIN t = 1 .. m /\ t \in Seq(Row)
  BY RowType DEF Sound
<1>2. CASE u = t
  BY <1>1, <1>2
<1>3. CASE u # t
  <2>1. /\ \A i \in 1 .. m : t[i].path # p
        /\ ~(m >= ClusterMax)
        /\ u = Append(t, row)
    BY <1>1, <1>3 DEF edfs_cluster_register
  <2>2. row \in Row
    BY Convert DEF Row
  <2>3. /\ u \in Seq(Row) /\ Len(u) = m + 1 /\ u[m + 1] = row
        /\ \A i \in 1 .. m : u[i] = t[i]
    BY <1>1, <2>1, <2>2, AppendProperties
  <2>4. Len(u) \in 1 .. ClusterMax
    BY <1>1, <2>1, <2>3, EdfsAssumption
  <2>5. u[m + 1].path = p /\ u[m + 1].path83 = unixpath_to_path83(p)
    BY <2>3
  <2> HIDE DEF u, row
  <2>6. \A i \in 1 .. Len(u) : i \in 1 .. m \/ i = m + 1
    BY <1>1, <2>3
  <2>7. ASSUME NEW i \in 1 .. Len(u), NEW j \in 1 .. Len(u),
               u[i].path = u[j].path, u[i].path # Root
        PROVE  i = j
    <3>1. CASE i \in 1 .. m /\ j \in 1 .. m
      <4>1. t[i].path = t[j].path /\ t[i].path # Root
        BY <2>3, <2>7, <3>1
      <4>2. QED
        BY <3>1, <4>1 DEF Sound
    <3>2. CASE i \in 1 .. m /\ j = m + 1
      BY <2>1, <2>3, <2>5, <2>7, <3>2
    <3>3. CASE i = m + 1 /\ j \in 1 .. m
      BY <2>1, <2>3, <2>5, <2>7, <3>3
    <3>4. QED
      BY <2>6, <3>1, <3>2, <3>3
  <2>8. ASSUME NEW i \in 1 .. Len(u)
        PROVE  u[i].path83 = unixpath_to_path83(u[i].path)
    <3>1. CASE i \in 1 .. m
      BY <2>3, <3>1 DEF Sound
    <3>2. CASE i = m + 1
      BY <2>5, <3>2
    <3>3. QED
      BY <2>6, <3>1, <3>2
  <2>9. Sound(u)
    BY <2>3, <2>4, <2>7, <2>8 DEF Sound
  <2>10. QED
    BY <1>1, <2>3, <2>9 DEF u
<1>4. QED
  BY <1>2, <1>3

\* Taking a path out of the table empties a row, and leaves the others.
LEMMA UnregisterOK ==
    ASSUME NEW t, Sound(t), NEW p
    PROVE  LET u == edfs_cluster_unregister(t, p) IN Sound(u) /\ Evolves(t, u)
<1> DEFINE u == edfs_cluster_unregister(t, p)
           hits == {i \in DOMAIN t : t[i].path = p}
           c == CHOOSE i \in hits : \A j \in hits : i <= j
           none == [path |-> Root, path83 |-> Root]
           m == Len(t)
<1>1. m \in Nat /\ m \in 1 .. ClusterMax /\ DOMAIN t = 1 .. m /\ t \in Seq(Row)
  BY RowType DEF Sound
<1>2. CASE hits = {}
  <2>1. u = t
    BY <1>2 DEF edfs_cluster_unregister
  <2>2. QED
    BY <1>1, <2>1 DEF Evolves
<1>3. CASE hits # {}
  <2>1. hits \in SUBSET Nat
    BY <1>1
  <2>2. \E i \in hits : \A j \in hits : i <= j
    BY <1>3, <2>1, LeastNumber
  <2>3. u = [t EXCEPT ![c] = none]
    BY <1>3 DEF edfs_cluster_unregister
  <2>4. c \in hits
    <3> HIDE DEF hits
    <3>1. QED
      BY <2>2
  <2>5. c \in 1 .. m
    <3> HIDE DEF c
    <3>1. QED
      BY <1>1, <2>4
  <2>6. Root \in Seq(Parts)
    BY DEF Root
  <2>7. none \in Row
    BY <2>6 DEF Row
  <2> HIDE DEF hits, c, none, u
  <2>8. u \in Seq(Row) /\ Len(u) = m /\ u[c] = none
        /\ \A i \in 1 .. m : i # c => u[i] = t[i]
    BY <1>1, <2>3, <2>5, <2>7, ExceptSeq
  <2>9. u[c].path = Root /\ u[c].path83 = Root
    BY <2>8 DEF none
  <2>10. unixpath_to_path83(Root) = Root
    <3>1. unixpath_to_path83(Root) \in Seq(Parts) /\ Len(unixpath_to_path83(Root)) = 0
      BY <2>6, Convert DEF Root
    <3>2. QED
      BY <3>1, EmptySeq DEF Root
  <2>11. ASSUME NEW i \in 1 .. m, NEW j \in 1 .. m, u[i].path = u[j].path, u[i].path # Root
         PROVE  i = j
    <3>1. i # c /\ j # c
      BY <2>9, <2>11
    <3>2. t[i].path = t[j].path /\ t[i].path # Root
      BY <2>8, <2>11, <3>1
    <3>3. QED
      BY <3>2 DEF Sound
  <2>12. ASSUME NEW i \in 1 .. m
         PROVE  u[i].path83 = unixpath_to_path83(u[i].path)
    <3>1. CASE i = c
      BY <2>9, <2>10, <3>1
    <3>2. CASE i # c
      BY <2>8, <3>2 DEF Sound
    <3>3. QED
      BY <3>1, <3>2
  <2>13. Sound(u)
    BY <1>1, <2>8, <2>11, <2>12 DEF Sound
  <2>14. Evolves(t, u)
    BY <1>1, <2>8, <2>9 DEF Evolves
  <2>15. QED
    BY <2>13, <2>14 DEF u
<1>4. QED
  BY <1>2, <1>3

\* Two changes of the table in a row.
LEMMA EvolvesTwice ==
    ASSUME NEW t, NEW u, NEW v, Sound(t), Sound(u), Sound(v), Evolves(t, u), Evolves(u, v)
    PROVE  Evolves(t, v)
<1>1. Len(t) \in Nat /\ Len(u) \in Nat /\ Len(v) \in Nat
  BY RowType
<1>2. Len(t) <= Len(v)
  BY <1>1 DEF Evolves
<1>3. ASSUME NEW i \in 1 .. Len(t) PROVE v[i] = t[i] \/ v[i].path = Root
  <2>1. i \in 1 .. Len(u)
    BY <1>1 DEF Evolves
  <2>2. (u[i] = t[i] \/ u[i].path = Root) /\ (v[i] = u[i] \/ v[i].path = Root)
    BY <2>1 DEF Evolves
  <2>3. QED
    BY <2>2
<1>4. QED
  BY <1>2, <1>3 DEF Evolves
-----------------------------------------------------------------------------
(* The search loop.                                                        *)

Start == [table |-> table, pos |-> 0, found |-> FALSE]

\* FindLoop is the function its recursive definition describes.
LEMMA FindLoopIsRecursive ==
    ASSUME NEW dir, NEW what, NEW target, Len(ReadOrder(dir)) \in Nat
    PROVE  FindLoop(dir, what, target) =
             [k \in 0 .. Len(ReadOrder(dir)) |->
                IF k = 0 THEN Start
                ELSE edfs_find_entry(dir, what, target,
                                     FindLoop(dir, what, target)[k - 1], ReadOrder(dir)[k])]
<1> DEFINE Turn(s, k) == edfs_find_entry(dir, what, target, s, ReadOrder(dir)[k])
           n == Len(ReadOrder(dir))
           Solves(g, m) == g = [k \in 0 .. m |-> IF k = 0 THEN Start ELSE Turn(g[k - 1], k)]
           T == {m \in Nat : \E g : Solves(g, m)}
<1>0. FindLoop(dir, what, target) = CHOOSE f : Solves(f, n)
  BY DEF FindLoop, Start
<1> HIDE DEF Turn, n
<1>1. 0 \in T
  <2>1. Solves([k \in 0 .. 0 |-> Start], 0)
    OBVIOUS
  <2>2. QED
    BY <2>1
<1>2. ASSUME NEW m \in Nat, m \in T PROVE m + 1 \in T
  <2>1. PICK g : Solves(g, m)
    BY <1>2
  <2> DEFINE h == [k \in 0 .. m + 1 |-> IF k = m + 1 THEN Turn(g[m], m + 1) ELSE g[k]]
  <2>2. \A k \in 0 .. m + 1 : h[k] = IF k = 0 THEN Start ELSE Turn(h[k - 1], k)
    <3> TAKE k \in 0 .. m + 1
    <3>1. CASE k = 0
      BY <2>1, <3>1
    <3>2. CASE k # 0 /\ k # m + 1
      <4>1. k \in 0 .. m /\ k - 1 \in 0 .. m /\ k - 1 # m + 1 /\ k - 1 \in 0 .. m + 1
        BY <3>2
      <4>2. h[k] = g[k] /\ h[k - 1] = g[k - 1]
        BY <3>2, <4>1
      <4>3. g[k] = Turn(g[k - 1], k)
        BY <2>1, <3>2, <4>1
      <4>4. QED
        BY <3>2, <4>2, <4>3
    <3>3. CASE k = m + 1
      <4>1. k # 0 /\ k - 1 = m /\ m \in 0 .. m + 1 /\ m # m + 1
        BY <3>3
      <4>2. h[k] = Turn(g[m], k) /\ h[k - 1] = g[m]
        BY <3>3, <4>1
      <4>3. QED
        BY <4>1, <4>2
    <3>4. QED
      BY <3>1, <3>2, <3>3
  <2>3. h = [k \in 0 .. m + 1 |-> IF k = 0 THEN Start ELSE Turn(h[k - 1], k)]
    <3> DEFINE r == [k \in 0 .. m + 1 |-> IF k = 0 THEN Start ELSE Turn(h[k - 1], k)]
    <3>1. \A k \in 0 .. m + 1 : h[k] = r[k]
      BY <2>2
    <3>2. QED
      BY <3>1
  <2>4. m + 1 \in Nat /\ \E f : Solves(f, m + 1)
    <3>1. Solves(h, m + 1)
      BY <2>3
    <3> HIDE DEF h, Solves
    <3>2. QED
      BY <3>1
  <2>5. QED
    BY <2>4
<1>3. n \in T
  <2> HIDE DEF T
  <2>1. n \in Nat
    BY DEF n
  <2>2. 0 .. n \subseteq T
    BY <1>1, <1>2, <2>1, CountUp
  <2>3. QED
    BY <2>1, <2>2
<1>4. PICK g : Solves(g, n)
  BY <1>3
<1>5. Solves(CHOOSE f : Solves(f, n), n)
  <2> HIDE DEF Solves
  <2>1. QED
    BY <1>4
<1>6. Solves(FindLoop(dir, what, target), n)
  <2> HIDE DEF Solves
  <2>1. QED
    BY <1>0, <1>5
<1>7. QED
  BY <1>6 DEF Turn, n

\* What readdir returns are names of a path.
LEMMA ReadOrderType ==
    ASSUME NEW dir
    PROVE  /\ Len(ReadOrder(dir)) \in Nat
           /\ \A k \in 1 .. Len(ReadOrder(dir)) : ReadOrder(dir)[k] \in Parts
<1>1. HostOrder \in Seq(Parts)
  <2>1. Names \subseteq Parts /\ HostOrder \in Seq(Names)
    BY EdfsAssumption DEF Parts
  <2>2. \A i \in 1 .. Len(HostOrder) : HostOrder[i] \in Parts
    BY <2>1, ElementOfSeq
  <2>3. Len(HostOrder) \in Nat /\ HostOrder \in [1 .. Len(HostOrder) -> Names]
    BY <2>1, LenProperties
  <2>4. HostOrder \in [1 .. Len(HostOrder) -> Parts]
    BY <2>2, <2>3
  <2>5. QED
    BY <2>3, <2>4
<1>2. (IF dir = Root THEN <<>> ELSE <<".", "..">>) \in Seq(Parts)
  <2>1. "." \in Parts /\ ".." \in Parts
    BY DEF Parts, Dots
  <2>2. <<".", "..">> \in Seq(Parts) /\ <<>> \in Seq(Parts)
    BY <2>1
  <2>3. QED
    BY <2>2
<1>3. ReadOrder(dir) \in Seq(Parts)
  BY <1>1, <1>2, ConcatProperties DEF ReadOrder
<1>4. QED
  BY <1>3, LenProperties, ElementOfSeq

\* However far the loop gets, it only adds sound rows to the table.
LEMMA FindLoopOK ==
    ASSUME Sound(table), NEW dir \in Seq(Parts), NEW what, NEW target
    PROVE  \A k \in 0 .. Len(ReadOrder(dir)) :
              LET u == FindLoop(dir, what, target)[k].table
              IN Sound(u) /\ Evolves(table, u)
<1> DEFINE n == Len(ReadOrder(dir))
           F == FindLoop(dir, what, target)
           Fine(s) == Sound(s.table) /\ Evolves(table, s.table)
           T == {k \in 0 .. n : Fine(F[k])}
<1>1. n \in Nat /\ \A k \in 1 .. n : ReadOrder(dir)[k] \in Parts
  BY ReadOrderType
<1>2. F = [k \in 0 .. n |->
             IF k = 0 THEN Start
             ELSE edfs_find_entry(dir, what, target, F[k - 1], ReadOrder(dir)[k])]
  BY <1>1, FindLoopIsRecursive
<1> HIDE DEF F, n
<1>3. 0 \in T
  <2>1. F[0] = Start /\ 0 \in 0 .. n
    BY <1>1, <1>2
  <2>2. Start.table = table
    BY DEF Start
  <2>3. Evolves(table, table)
    BY RowType DEF Evolves
  <2>4. QED
    BY <2>1, <2>2, <2>3
<1>4. ASSUME NEW k \in Nat, k < n, k \in T PROVE k + 1 \in T
  <2> DEFINE s == F[k]
             e == ReadOrder(dir)[k + 1]
             x == Append(dir, e)
             u == edfs_cluster_register(s.table, x, unixpath_to_path83(x))
  <2>1. k + 1 \in 0 .. n /\ k + 1 \in 1 .. n /\ k + 1 # 0 /\ (k + 1) - 1 = k
    BY <1>1, <1>4
  <2>2. F[k + 1] = edfs_find_entry(dir, what, target, s, e)
    BY <1>2, <2>1
  <2>3. Fine(s) /\ e \in Parts
    BY <1>1, <1>4, <2>1
  <2>4. x \in Seq(Parts)
    BY <2>3, AppendProperties
  <2>5. Sound(u) /\ Evolves(table, u)
    <3>1. Sound(u) /\ Evolves(s.table, u)
      BY <2>3, <2>4, RegisterOK DEF Evolves
    <3>2. QED
      BY <2>3, <3>1, EvolvesTwice
  <2>6. F[k + 1].table = s.table \/ F[k + 1].table = u
    <3> HIDE DEF s, e
    <3>1. \/ F[k + 1] = s
          \/ F[k + 1] = [s EXCEPT !.pos = s.pos + 1]
          \/ F[k + 1].table = u
      BY <2>2 DEF edfs_find_entry
    <3>2. [s EXCEPT !.pos = s.pos + 1].table = s.table
      OBVIOUS
    <3>3. QED
      BY <3>1, <3>2
  <2>7. QED
    BY <2>1, <2>3, <2>5, <2>6
<1>5. 0 .. n \subseteq T
  <2> HIDE DEF T
  <2>1. QED
    BY <1>1, <1>3, <1>4, CountUp
<1>6. QED
  BY <1>5 DEF F, n
-----------------------------------------------------------------------------
(* The requests.                                                           *)

\* What every request does to the table and the handles.
Keeps == Sound(table') /\ Evolves(table, table')
Handles == \/ opened' = opened
           \/ \E i \in 1 .. Len(table') : opened' = [opened EXCEPT ![i] = table'[i].path]

LEMMA Assemble ==
    ASSUME IInv, Keeps, Handles
    PROVE  IInv'
<1>1. /\ Sound(table) /\ HandleStable /\ OpenedInTable
      /\ Sound(table') /\ Evolves(table, table')
  BY DEF IInv, Keeps
<1>2. /\ Len(table) \in Nat /\ DOMAIN table = 1 .. Len(table)
      /\ Len(table') \in 1 .. ClusterMax /\ DOMAIN table' = 1 .. Len(table')
      /\ Len(table) <= Len(table')
  BY <1>1, RowType DEF Evolves
<1>3. ASSUME NEW i \in 1 .. Len(table'), opened[i] # NoPath
      PROVE  table'[i].path \in {opened[i], Root}
  <2>1. i \in 1 .. ClusterMax
    BY <1>2, EdfsAssumption
  <2>2. i \in 1 .. Len(table)
    BY <1>1, <1>2, <1>3, <2>1 DEF OpenedInTable
  <2>3. table[i].path \in {opened[i], Root}
    BY <1>1, <1>2, <1>3, <2>2 DEF HandleStable
  <2>4. table'[i] = table[i] \/ table'[i].path = Root
    BY <1>1, <2>2 DEF Evolves
  <2>5. QED
    BY <2>3, <2>4
<1>4. HandleStable' /\ OpenedInTable'
  <2>1. CASE opened' = opened
    <3>1. HandleStable'
      BY <1>2, <1>3, <2>1 DEF HandleStable
    <3>2. OpenedInTable'
      BY <1>1, <1>2, <2>1, EdfsAssumption DEF OpenedInTable
    <3>3. QED
      BY <3>1, <3>2
  <2>2. CASE \E i \in 1 .. Len(table') : opened' = [opened EXCEPT ![i] = table'[i].path]
    <3>1. PICK i \in 1 .. Len(table') : opened' = [opened EXCEPT ![i] = table'[i].path]
      BY <2>2
    <3>2. i \in 1 .. ClusterMax
      BY <1>2, EdfsAssumption
    <3>3. opened = [j \in 1 .. ClusterMax |-> opened[j]]
      BY <1>1 DEF OpenedInTable
    <3>4. /\ opened' = [j \in 1 .. ClusterMax |-> opened'[j]]
          /\ opened'[i] = table'[i].path
          /\ \A j \in 1 .. ClusterMax : j # i => opened'[j] = opened[j]
      BY <3>1, <3>2, <3>3
    <3>5. HandleStable'
      <4>1. ASSUME NEW j \in 1 .. Len(table'), opened'[j] # NoPath
            PROVE  table'[j].path \in {opened'[j], Root}
        <5>1. CASE j = i
          BY <3>4, <5>1
        <5>2. CASE j # i
          <6>1. j \in 1 .. ClusterMax
            BY <1>2, EdfsAssumption
          <6>2. opened'[j] = opened[j]
            BY <3>4, <5>2, <6>1
          <6>3. QED
            BY <1>3, <4>1, <6>2
        <5>3. QED
          BY <5>1, <5>2
      <4>2. QED
        BY <1>2, <4>1 DEF HandleStable
    <3>6. OpenedInTable'
      <4>1. ASSUME NEW j \in 1 .. ClusterMax, opened'[j] # NoPath
            PROVE  j <= Len(table')
        <5>1. CASE j = i
          BY <5>1
        <5>2. CASE j # i
          <6>1. opened[j] # NoPath
            BY <3>4, <4>1, <5>2
          <6>2. j <= Len(table)
            BY <1>1, <6>1 DEF OpenedInTable
          <6>3. QED
            BY <1>2, <6>2, EdfsAssumption
        <5>3. QED
          BY <5>1, <5>2
      <4>2. QED
        BY <3>4, <4>1 DEF OpenedInTable
    <3>7. QED
      BY <3>5, <3>6
  <2>3. QED
    BY <2>1, <2>2 DEF Handles
<1>5. QED
  BY <1>1, <1>4 DEF IInv

\* A request that changes nothing but its answer.
LEMMA Unchanged ==
    ASSUME IInv, UNCHANGED <<table, opened>>
    PROVE  IInv'
<1>1. Keeps
  <2>1. Sound(table) /\ table' = table
    BY DEF IInv
  <2>2. Len(table) \in Nat
    BY <2>1, RowType
  <2>3. QED
    BY <2>1, <2>2 DEF Keeps, Evolves
<1>2. Handles
  BY DEF Handles
<1>3. QED
  BY <1>1, <1>2, Assemble

LEMMA OpenOK ==
    ASSUME IInv, NEW q \in Paths83, NEW action \in Actions,
           open_unknown(q, action) \/ open_known(q, action)
    PROVE  IInv'
<1> DEFINE p == path83_to_unixpath(table, q)
           t == edfs_cluster_register(table, p, q)
<1>1. Sound(table) /\ q # Root
  BY Path83Type DEF IInv
<1>2. Sound(t) /\ Evolves(table, t)
  <2>1. p \in Seq(Parts) /\ q = unixpath_to_path83(p)
    BY <1>1, ConvertOK
  <2> HIDE DEF p
  <2>2. QED
    BY <1>1, <2>1, RegisterOK DEF Evolves
<1>3. ASSUME NEW u, Sound(u), Evolves(table, u), table' = u, NEW a, NEW tree,
             edfs_cluster_lookup_83(u, q) # 0,
             OpenReply(u[edfs_cluster_lookup_83(u, q)].path,
                       edfs_cluster_lookup_83(u, q), a, tree)
      PROVE  IInv'
  <2> DEFINE i == edfs_cluster_lookup_83(u, q)
  <2>1. i \in 1 .. Len(u)
    BY <1>1, <1>3, LookupOK
  <2>2. opened' = opened \/ opened' = [opened EXCEPT ![i] = u[i].path]
    BY <1>3 DEF OpenReply
  <2> HIDE DEF i
  <2>3. Handles
    BY <1>3, <2>1, <2>2 DEF Handles
  <2>4. Keeps
    BY <1>3 DEF Keeps
  <2>5. QED
    BY <2>3, <2>4, Assemble
<1>4. CASE open_unknown(q, action)
  <2> DEFINE i == edfs_cluster_lookup_83(t, q)
             tree == [fs EXCEPT ![p] = File(0)]
  <2>1. \/ UNCHANGED <<table, opened>>
        \/ table' = t /\ i = 0 /\ UNCHANGED opened
        \/ table' = t /\ i # 0 /\ OpenReply(t[i].path, i, action, tree)
    BY <1>4, Zenon DEF open_unknown, Answer
  <2>2. CASE UNCHANGED <<table, opened>>
    BY <2>2, Unchanged
  <2>3. CASE table' = t /\ UNCHANGED opened
    BY <1>2, <2>3, Assemble DEF Keeps, Handles
  <2>4. CASE table' = t /\ i # 0 /\ OpenReply(t[i].path, i, action, tree)
    <3> HIDE DEF t, tree
    <3>1. QED
      BY <1>2, <1>3, <2>4
  <2>5. QED
    BY <2>1, <2>2, <2>3, <2>4
<1>5. CASE open_known(q, action)
  <2> DEFINE i == edfs_cluster_lookup_83(table, q)
             tree == [fs EXCEPT ![p] = File(0)]
  <2>1. /\ i # 0 /\ table' = table
        /\ \/ UNCHANGED <<table, opened>>
           \/ OpenReply(table[i].path, i, action, fs)
           \/ OpenReply(table[i].path, i, action, tree)
    BY <1>5, Zenon DEF open_known, Answer
  <2>2. CASE UNCHANGED <<table, opened>>
    BY <2>2, Unchanged
  <2>3. Evolves(table, table)
    BY <1>1, RowType DEF Evolves
  <2>4. CASE OpenReply(table[i].path, i, action, fs)
    BY <1>1, <1>3, <2>1, <2>3, <2>4
  <2>5. CASE OpenReply(table[i].path, i, action, tree)
    <3> HIDE DEF tree
    <3>1. QED
      BY <1>1, <1>3, <2>1, <2>3, <2>5
  <2>6. QED
    BY <2>1, <2>2, <2>4, <2>5
<1>6. QED
  BY <1>4, <1>5

LEMMA RemoveOK ==
    ASSUME IInv, edfs_rmdir \/ edfs_delete
    PROVE  IInv'
<1>1. \/ UNCHANGED <<table, opened>>
      \/ \E p : /\ table' = edfs_cluster_unregister(table, p)
               /\ UNCHANGED opened
  BY Zenon DEF edfs_rmdir, edfs_delete, RemoveEntry, Answer
<1>2. CASE UNCHANGED <<table, opened>>
  BY <1>2, Unchanged
<1>3. CASE \E p : /\ table' = edfs_cluster_unregister(table, p)
                 /\ UNCHANGED opened
  <2>1. Keeps
    BY <1>3, UnregisterOK DEF IInv, Keeps
  <2>2. QED
    BY <1>3, <2>1, Assemble DEF Handles
<1>4. QED
  BY <1>1, <1>2, <1>3

LEMMA MkdirOK ==
    ASSUME IInv, edfs_mkdir
    PROVE  IInv'
<1>1. PICK q \in Paths83 :
         \/ UNCHANGED <<table, opened>>
         \/ /\ table' = edfs_cluster_register(table, path83_to_unixpath(table, q), q)
            /\ UNCHANGED opened
  BY Zenon DEF edfs_mkdir, Answer
<1>2. CASE UNCHANGED <<table, opened>>
  BY <1>2, Unchanged
<1>3. CASE /\ table' = edfs_cluster_register(table, path83_to_unixpath(table, q), q)
           /\ UNCHANGED opened
  <2> DEFINE p == path83_to_unixpath(table, q)
  <2>1. Sound(table) /\ p \in Seq(Parts) /\ q = unixpath_to_path83(p)
    BY ConvertOK DEF IInv
  <2> HIDE DEF p
  <2>2. Keeps
    BY <1>3, <2>1, RegisterOK DEF Keeps, Evolves, p
  <2>3. QED
    BY <1>3, <2>2, Assemble DEF Handles
<1>4. QED
  BY <1>1, <1>2, <1>3

LEMMA RenameOK ==
    ASSUME IInv, edfs_rename
    PROVE  IInv'
<1>1. PICK dst \in Paths83 :
         \/ UNCHANGED <<table, opened>>
         \/ \E p : /\ table' = edfs_cluster_register(edfs_cluster_unregister(table, p),
                                                    path83_to_unixpath(table, dst), dst)
                  /\ UNCHANGED opened
  BY Zenon DEF edfs_rename, Answer
<1>2. CASE UNCHANGED <<table, opened>>
  BY <1>2, Unchanged
<1>3. CASE \E p : /\ table' = edfs_cluster_register(edfs_cluster_unregister(table, p),
                                                    path83_to_unixpath(table, dst), dst)
                  /\ UNCHANGED opened
  <2>1. PICK p : /\ table' = edfs_cluster_register(edfs_cluster_unregister(table, p),
                                                  path83_to_unixpath(table, dst), dst)
                 /\ UNCHANGED opened
    BY <1>3
  <2> DEFINE q == path83_to_unixpath(table, dst)
             u == edfs_cluster_unregister(table, p)
  <2>2. Sound(table) /\ q \in Seq(Parts) /\ dst = unixpath_to_path83(q)
    BY ConvertOK DEF IInv
  <2>3. Sound(u) /\ Evolves(table, u)
    BY <2>2, UnregisterOK
  <2>4. table' = edfs_cluster_register(u, q, dst)
    BY <2>1
  <2> HIDE DEF q, u
  <2>5. Sound(table') /\ Evolves(u, table')
    BY <2>2, <2>3, <2>4, RegisterOK DEF Evolves
  <2>6. Keeps
    BY <2>2, <2>3, <2>5, EvolvesTwice DEF Keeps
  <2>7. QED
    BY <2>1, <2>6, Assemble DEF Handles
<1>4. QED
  BY <1>1, <1>2, <1>3

\* A search in any directory, whether it goes to its end or gives up.
LEMMA FindOK ==
    ASSUME IInv, NEW func, NEW dir \in Seq(Parts),
           NEW what, NEW target, edfs_find(func, dir, what, target)
    PROVE  IInv'
<1> DEFINE after == FindLoop(dir, what, target)
           last == Len(ReadOrder(dir))
<1>1. \/ UNCHANGED <<table, opened>>
      \/ \E k \in 0 .. last : table' = after[k].table /\ opened' = opened
  <2>1. last \in Nat
    BY ReadOrderType
  <2>2. last \in 0 .. last
    BY <2>1
  <2> HIDE DEF last
  <2>3. \/ UNCHANGED <<table, opened>>
        \/ table' = after[last].table /\ opened' = opened
        \/ \E k \in 0 .. last : table' = after[k].table /\ opened' = opened
    BY Zenon DEF edfs_find, Answer, last
  <2>4. QED
    BY <2>2, <2>3
<1>2. CASE UNCHANGED <<table, opened>>
  BY <1>2, Unchanged
<1>3. CASE \E k \in 0 .. last : table' = after[k].table /\ opened' = opened
  <2>1. PICK k \in 0 .. last : table' = after[k].table /\ opened' = opened
    BY <1>3
  <2>2. Keeps
    BY <2>1, FindLoopOK DEF IInv, Keeps
  <2>3. Handles
    BY <2>1 DEF Handles
  <2>4. QED
    BY <2>2, <2>3, Assemble
<1>4. QED
  BY <1>1, <1>2, <1>3

LEMMA FindFirstOK ==
    ASSUME IInv, edfs_findfirst
    PROVE  IInv'
<1>1. PICK q \in Paths83 \cup {Root}, what \in Searches :
         LET i == edfs_cluster_lookup_83(table, q)
         IN IF i = 0 THEN Answer("FINDFIRST", "NOT_FOUND")
            ELSE edfs_find("FINDFIRST", PathOf(table, i, q), what, 0)
  BY DEF edfs_findfirst
<1> DEFINE i == edfs_cluster_lookup_83(table, q)
<1>2. CASE i = 0
  <2>1. UNCHANGED <<table, opened>>
    BY <1>1, <1>2 DEF Answer
  <2>2. QED
    BY <2>1, Unchanged
<1>3. CASE i # 0
  <2>1. edfs_find("FINDFIRST", PathOf(table, i, q), what, 0)
    BY <1>1, <1>3
  <2>2. Sound(table)
    BY DEF IInv
  <2>3. i \in 1 .. Len(table)
    BY <1>3, <2>2, LookupOK
  <2> HIDE DEF i
  <2>4. PathOf(table, i, q) \in Seq(Parts)
    <3>1. Root \in Seq(Parts) /\ table[i].path \in Seq(Parts)
      BY <2>2, <2>3, RowType DEF Root
    <3>2. QED
      BY <3>1 DEF PathOf
  <2>5. QED
    BY <2>1, <2>4, FindOK
<1>4. QED
  BY <1>2, <1>3

LEMMA FindNextOK ==
    ASSUME IInv, edfs_findnext
    PROVE  IInv'
<1>1. PICK i \in DOMAIN table, pos \in 1 .. Len(HostOrder) + 2, what \in Searches :
         edfs_find("FINDNEXT", table[i].path, what, pos)
  BY DEF edfs_findnext
<1>2. table[i].path \in Seq(Parts)
  <2>1. Sound(table)
    BY DEF IInv
  <2>2. i \in 1 .. Len(table)
    BY <2>1, RowType
  <2>3. QED
    BY <2>1, <2>2, RowType
<1>3. QED
  BY <1>1, <1>2, FindOK
-----------------------------------------------------------------------------
(* The theorems.                                                           *)

LEMMA Initially ==
    ASSUME Init
    PROVE  IInv
<1> DEFINE row == [path |-> Root, path83 |-> Root]
<1>1. table = <<row>> /\ opened = [i \in 1 .. ClusterMax |-> NoPath]
  BY DEF Init
<1>2. Root \in Seq(Parts)
  BY DEF Root
<1>3. row \in Row
  BY <1>2 DEF Row
<1>4. /\ table \in Seq(Row) /\ Len(table) = 1 /\ table[1] = row
      /\ DOMAIN table = 1 .. 1
  BY <1>1, <1>3
<1>5. unixpath_to_path83(Root) = Root
  <2>1. unixpath_to_path83(Root) \in Seq(Parts) /\ Len(unixpath_to_path83(Root)) = 0
    BY <1>2, Convert DEF Root
  <2>2. QED
    BY <2>1, EmptySeq DEF Root
<1>6. Sound(table)
  <2>1. \A i \in 1 .. Len(table) : i = 1
    BY <1>4
  <2>2. table[1].path = Root /\ table[1].path83 = Root
    BY <1>4
  <2>3. Len(table) \in 1 .. ClusterMax
    BY <1>4, EdfsAssumption
  <2>4. QED
    BY <1>4, <1>5, <2>1, <2>2, <2>3 DEF Sound
<1>7. HandleStable
  BY <1>1, <1>4, EdfsAssumption DEF HandleStable
<1>8. OpenedInTable
  BY <1>1 DEF OpenedInTable
<1>9. QED
  BY <1>6, <1>7, <1>8 DEF IInv

LEMMA StepKeepsIInv ==
    ASSUME IInv, [edfs_handle_packet]_vars
    PROVE  IInv'
<1>1. CASE UNCHANGED vars
  BY <1>1, Unchanged DEF vars
<1>2. CASE edfs_open
  BY <1>2, OpenOK DEF edfs_open
<1>3. CASE edfs_write
  <2>1. UNCHANGED <<table, opened>>
    BY <1>3, Zenon DEF edfs_write, Answer
  <2>2. QED
    BY <2>1, Unchanged
<1>4. CASE edfs_read \/ edfs_chdir \/ edfs_getattr \/ edfs_nothing \/ edfs_find_volume
  <2>1. UNCHANGED <<table, opened>>
    BY <1>4, Zenon DEF edfs_read, edfs_chdir, edfs_getattr, edfs_nothing,
                       edfs_find_volume, Answer
  <2>2. QED
    BY <2>1, Unchanged
<1>5. CASE edfs_rmdir \/ edfs_delete
  BY <1>5, RemoveOK
<1>6. CASE edfs_mkdir
  BY <1>6, MkdirOK
<1>7. CASE edfs_rename
  BY <1>7, RenameOK
<1>8. CASE edfs_findfirst
  BY <1>8, FindFirstOK
<1>9. CASE edfs_findnext
  BY <1>9, FindNextOK
<1>10. QED
  BY <1>1, <1>2, <1>3, <1>4, <1>5, <1>6, <1>7, <1>8, <1>9 DEF edfs_handle_packet

\* The table is sound and its handles point into it, after any sequence of
\* requests.
THEOREM Invariance == Spec => []IInv
<1>1. Init => IInv
  BY Initially
<1>2. IInv /\ [edfs_handle_packet]_vars => IInv'
  BY StepKeepsIInv
<1>3. QED
  BY <1>1, <1>2, PTL DEF Spec

\* edfs_cluster_register never gives a host path a second cluster.
THEOREM OneCluster == Spec => []OneClusterPerPath
<1>1. IInv => OneClusterPerPath
  <2> SUFFICES ASSUME IInv PROVE OneClusterPerPath
    OBVIOUS
  <2>1. Sound(table)
    BY DEF IInv
  <2>2. DOMAIN table = 1 .. Len(table)
    BY <2>1, RowType
  <2>3. QED
    BY <2>1, <2>2 DEF Sound, OneClusterPerPath
<1>2. QED
  BY <1>1, Invariance, PTL

\* A cluster that edfs_open answered stands for the file it was opened as, or
\* is emptied; edfs_cluster_unregister gives no slot to another file.
THEOREM HandlesStable == Spec => []HandleStable
<1>1. IInv => HandleStable
  BY DEF IInv
<1>2. QED
  BY <1>1, Invariance, PTL

\* The 8.3 column is the conversion of the host column, for the paths readdir
\* gave and for those path83_to_unixpath made of what the client sent.
THEOREM PathsAgree == Spec => []Path83Agrees
<1>1. IInv => Path83Agrees
  <2> SUFFICES ASSUME IInv PROVE Path83Agrees
    OBVIOUS
  <2>1. Sound(table)
    BY DEF IInv
  <2>2. DOMAIN table = 1 .. Len(table)
    BY <2>1, RowType
  <2>3. QED
    BY <2>1, <2>2 DEF Sound, Path83Agrees
<1>2. QED
  BY <1>1, Invariance, PTL
=============================================================================
